-------------------------- MODULE ConnSocketProofs --------------------------
(***************************************************************************)
(* Proofs about ConnSocket, for any numbers of messages, any room in the   *)
(* kernel, any limit of EAGAINs and with or without threads.               *)
(* Messages are numbers in the order they were written, so each queue on   *)
(* the way holds a run of numbers; OutStream and InStream say where each   *)
(* run starts.  Ending is the order in which a connection comes to its end, *)
(* Edges what stands for each edge of epoll that was not yet acted on.     *)
(* From these follow NoLostEdge, FreedClean and the refinement of          *)
(* ConnStream.                                                             *)
(***************************************************************************)
EXTENDS ConnSocket, Integers, SequenceTheorems, TLAPS

\* The messages i + 1, ..., j in order.
Seg(i, j) == [k \in 1 .. j - i |-> i + k]

\* The types of the variables, the queues without their bounds.
ConnRecords ==
    [status : {"connecting", "working", "write_close", "error"},
     flags : SUBSET ConnFlags, io : BOOLEAN, timer : BOOLEAN,
     sigs : SUBSET {"RUN", "ALARM", "ABORT"},
     pc : {"idle", "read", "push", "flag", "freed"}, stop : BOOLEAN,
     inq : Seq(Nat), outq : Seq(Nat)]

SockRecords ==
    [flags : SUBSET SockFlags, sigs : SUBSET {"RUN", "ABORT"},
     pc : {"idle", "readv", "merge", "write", "writev", "fail", "status", "freed"},
     stop : BOOLEAN, pq : Seq(Nat), out : Seq(Nat), eagain : 0 .. MaxEagain + 1]

EvRecords == [data : BOOLEAN, epoll : BOOLEAN, ready : SUBSET {"IN", "OUT", "HUP"}]

AppRecords == [pc : {"idle", "close"}, way : Ways]

WireRecords == [rx : Seq(Nat), room : 0 .. MaxRoom, fd : BOOLEAN,
                peer : {"syn", "up", "gone"}]

Shape ==
    /\ conn \in ConnRecords /\ sock \in SockRecords /\ ev \in EvRecords
    /\ app \in AppRecords /\ wire \in WireRecords
    /\ put \in [{"out", "in"} -> Nat]
    /\ put["out"] <= MaxOut /\ put["in"] <= MaxIn
    /\ got \in [{"out", "in"} -> Seq(Nat)]

\* What the application wrote is, in order, what came out at the peer, the
\* output of the socket job, its input queue, what was dropped when the
\* connection was closed (nothing before that), and the queue of the connection.
OutStream ==
    \E a, b, c, d \in Nat :
      /\ a <= b /\ b <= c /\ c <= d /\ d <= put["out"]
      /\ got["out"] = Seg(0, a) /\ sock.out = Seg(a, b) /\ sock.pq = Seg(b, c)
      /\ conn.outq = Seg(d, put["out"])
      /\ conn.io => c = d

\* The same in the other direction; a connection that has not failed and still
\* reads has parsed everything that is not in its queue.
InStream ==
    \E a, b, c \in Nat :
      /\ a <= b /\ b <= c /\ c <= put["in"]
      /\ got["in"] = Seg(0, a) /\ conn.inq = Seg(b, c) /\ wire.rx = Seg(c, put["in"])
      /\ conn.flags \cap {"ERROR", "FAILED", "STOPREAD"} = {} => a = b

\* How a connection ends: the socket fails and leaves the event loop, C_ERROR is
\* set before anything is closed or freed, the socket is freed after both of its
\* references are gone and the connection after the socket.
Ending ==
    /\ ~ev.data => "ERROR" \in sock.flags /\ ~ev.epoll
    /\ "ERROR" \in sock.flags /\ sock.pc # "fail" => "ERROR" \in conn.flags
    /\ "ERROR" \in sock.flags => sock.pc \in {"idle", "fail", "status", "freed"}
    /\ sock.pc \in {"fail", "status"} => "ERROR" \in sock.flags
    /\ "ABORT" \in conn.sigs => "ERROR" \in conn.flags
    /\ ~conn.io <=> "FAILED" \in conn.flags
    /\ ~conn.io => "ERROR" \in conn.flags
    /\ conn.pc = "flag" => conn.io
    /\ sock.pc = "freed" => ~ev.data /\ ~conn.io
    /\ conn.pc = "freed" => sock.pc = "freed" /\ app.pc = "idle"
    /\ wire.fd <=> conn.pc # "freed"

\* A socket that reads or writes is connected; too many EAGAINs end it.
Writing ==
    /\ sock.pc \in {"readv", "merge", "write", "writev"} => "CONNECTED" \in sock.flags
    /\ sock.pc \in {"write", "writev"} => "NET_FAILED" \notin sock.flags
    /\ sock.eagain > MaxEagain => {"NET_FAILED", "CONNECTED"} \subseteq sock.flags

\* The socket has not failed and its descriptor is in epoll.
Alive == /\ ev.epoll /\ "CONNECTED" \in sock.flags /\ "ABORT" \notin sock.sigs
         /\ sock.flags \cap {"ERROR", "NET_FAILED"} = {}

\* Input or room that the socket job has not looked at: a report is waiting, or
\* the job is before the call that finds it, or will be run again.
Edges ==
    /\ "WANTRD" \in sock.flags
    /\ Alive /\ "STOPREAD" \notin sock.flags /\ wire.rx # <<>> =>
         \/ "IN" \in ev.ready
         \/ sock.pc = "readv"
         \/ "NORD" \notin sock.flags /\ "RUN" \in sock.sigs
    /\ Alive /\ "NOWR" \in sock.flags /\ wire.peer = "up" /\ wire.room > 0 =>
         "OUT" \in ev.ready \/ sock.pc = "writev"
    /\ Alive /\ "NOWR" \notin sock.flags /\ sock.out # <<>> =>
         "RUN" \in sock.sigs \/ sock.pc \in {"readv", "merge", "write"}

SocketInv == Shape /\ OutStream /\ InStream /\ Ending /\ Writing /\ Edges

-----------------------------------------------------------------------------
(* Runs of messages.                                                       *)

LEMMA SegShape ==
    ASSUME NEW i \in Nat, NEW j \in Nat, i <= j
    PROVE  /\ Seg(i, j) \in Seq(Nat) /\ Len(Seg(i, j)) = j - i
           /\ \A k \in 1 .. j - i : Seg(i, j)[k] = i + k
<1>1. j - i \in Nat
  OBVIOUS
<1>2. \A k \in 1 .. j - i : i + k \in Nat
  OBVIOUS
<1>. QED
  BY <1>1, <1>2, IsASeq DEF Seg

LEMMA SegEmpty ==
    ASSUME NEW i \in Nat, NEW j \in Nat, i <= j
    PROVE  Seg(i, j) = <<>> <=> i = j
<1>1. Len(Seg(i, j)) = j - i /\ Seg(i, j) \in Seq(Nat)
  BY SegShape
<1>. QED
  BY <1>1, EmptySeq

LEMMA SegConcat ==
    ASSUME NEW i \in Nat, NEW j \in Nat, NEW k \in Nat, i <= j, j <= k
    PROVE  Seg(i, j) \o Seg(j, k) = Seg(i, k)
<1>. DEFINE s == Seg(i, j)  t == Seg(j, k)  u == Seg(i, k)
<1>0. i <= k
  OBVIOUS
<1>1. s \in Seq(Nat) /\ Len(s) = j - i /\ \A m \in 1 .. j - i : s[m] = i + m
  BY SegShape
<1>2. t \in Seq(Nat) /\ Len(t) = k - j /\ \A m \in 1 .. k - j : t[m] = j + m
  BY SegShape
<1>3. u \in Seq(Nat) /\ Len(u) = k - i /\ \A m \in 1 .. k - i : u[m] = i + m
  BY <1>0, SegShape
<1>. HIDE DEF s, t, u
<1>4. /\ s \o t \in Seq(Nat) /\ Len(s \o t) = Len(s) + Len(t)
      /\ \A m \in 1 .. Len(s) + Len(t) :
           (s \o t)[m] = IF m <= Len(s) THEN s[m] ELSE t[m - Len(s)]
  BY <1>1, <1>2, ConcatProperties
<1>5. Len(s \o t) = k - i
  BY <1>1, <1>2, <1>4
<1>6. ASSUME NEW m \in 1 .. k - i
      PROVE  (s \o t)[m] = u[m]
  <2>1. (s \o t)[m] = IF m <= j - i THEN s[m] ELSE t[m - (j - i)]
    BY SMTT(40), <1>1, <1>2, <1>4, <1>6
  <2>2. CASE m <= j - i
    <3>1. m \in 1 .. j - i
      BY <2>2
    <3>. QED
      BY <1>1, <1>3, <2>1, <2>2, <3>1
  <2>3. CASE ~(m <= j - i)
    <3>1. m - (j - i) \in 1 .. k - j
      BY <2>3
    <3>2. t[m - (j - i)] = j + (m - (j - i))
      BY <1>2, <3>1
    <3>. QED
      BY <1>3, <2>1, <2>3, <3>2
  <2>. QED
    BY <2>2, <2>3
<1>7. s \o t = u
  BY <1>3, <1>4, <1>5, <1>6, SeqEqual
<1>. QED
  BY <1>7 DEF s, t, u

LEMMA SegAppend ==
    ASSUME NEW i \in Nat, NEW j \in Nat, i <= j
    PROVE  Append(Seg(i, j), j + 1) = Seg(i, j + 1)
<1>1. Seg(j, j + 1) = <<j + 1>>
  <2>1. Seg(j, j + 1) = [k \in 1 .. 1 |-> j + k]
    BY DEF Seg
  <2>2. Seg(j, j + 1) \in Seq(Nat) /\ Len(Seg(j, j + 1)) = 1
    <3>1. j + 1 \in Nat /\ j <= j + 1 /\ (j + 1) - j = 1
      OBVIOUS
    <3>. QED
      BY <3>1, SegShape
  <2>3. Seg(j, j + 1)[1] = j + 1
    BY <2>1
  <2>. QED
    BY <2>2, <2>3
<1>2. Seg(i, j) \o <<j + 1>> = Seg(i, j + 1)
  <2>. DEFINE s == Seg(i, j)  t == Seg(j, j + 1)  u == Seg(i, j + 1)  w == <<j + 1>>
  <2>1. j + 1 \in Nat /\ j <= j + 1
    OBVIOUS
  <2>2. s \o t = u
    BY <2>1, SegConcat
  <2>3. t = w
    BY <1>1
  <2>. HIDE DEF s, t, u, w
  <2>4. s \o w = u
    BY <2>2, <2>3
  <2>. QED
    BY <2>4 DEF s, u, w
<1>3. Seg(i, j) \in Seq(Nat) /\ j + 1 \in Nat
  BY SegShape
<1>. QED
  BY <1>2, <1>3

\* A write of n messages, and what stays.
LEMMA SegCut ==
    ASSUME NEW i \in Nat, NEW j \in Nat, i <= j, NEW n \in 1 .. j - i
    PROVE  /\ SubSeq(Seg(i, j), 1, n) = Seg(i, i + n)
           /\ SubSeq(Seg(i, j), n + 1, Len(Seg(i, j))) = Seg(i + n, j)
<1>. DEFINE s == Seg(i, j)  u == Seg(i, i + n)  v == Seg(i + n, j)
<1>0. n \in Nat /\ n >= 1 /\ i + n \in Nat /\ i <= i + n /\ i + n <= j
      /\ n + 1 \in Int /\ j - i \in Int /\ 1 \in Int
  OBVIOUS
<1>1. s \in Seq(Nat) /\ Len(s) = j - i /\ \A m \in 1 .. j - i : s[m] = i + m
  BY SegShape
<1>2. u \in Seq(Nat) /\ Len(u) = (i + n) - i /\ \A m \in 1 .. (i + n) - i : u[m] = i + m
  BY <1>0, SegShape
<1>3. v \in Seq(Nat) /\ Len(v) = j - (i + n)
      /\ \A m \in 1 .. j - (i + n) : v[m] = (i + n) + m
  BY <1>0, SegShape
<1>4. \A m \in 1 .. j - i : s[m] \in Nat
  BY <1>1
<1>. HIDE DEF s, u, v
<1>5. SubSeq(s, 1, n) = u
  <2>1. \A m \in 1 .. n : s[m] \in Nat
    BY <1>0, <1>4
  <2>2. /\ SubSeq(s, 1, n) \in Seq(Nat)
        /\ Len(SubSeq(s, 1, n)) = IF 1 <= n THEN n - 1 + 1 ELSE 0
        /\ \A m \in 1 .. n - 1 + 1 : SubSeq(s, 1, n)[m] = s[1 + m - 1]
    BY <1>0, <2>1, SubSeqProperties
  <2>3. Len(SubSeq(s, 1, n)) = Len(u) /\ Len(u) = n
    BY <1>0, <1>2, <2>2
  <2>4. ASSUME NEW m \in 1 .. n PROVE SubSeq(s, 1, n)[m] = u[m]
    <3>1. m \in 1 .. n - 1 + 1 /\ m \in 1 .. j - i /\ m \in 1 .. (i + n) - i /\ 1 + m - 1 = m
      BY <1>0
    <3>. QED
      BY <1>1, <1>2, <2>2, <3>1
  <2>. QED
    BY <1>2, <2>2, <2>3, <2>4, SeqEqual
<1>6. SubSeq(s, n + 1, Len(s)) = v
  <2>. DEFINE w == SubSeq(s, n + 1, j - i)
  <2>1. \A m \in n + 1 .. j - i : s[m] \in Nat
    BY <1>0, <1>4
  <2>2. /\ w \in Seq(Nat)
        /\ Len(w) = IF n + 1 <= j - i THEN (j - i) - (n + 1) + 1 ELSE 0
        /\ \A m \in 1 .. (j - i) - (n + 1) + 1 : w[m] = s[n + 1 + m - 1]
    BY <1>0, <2>1, SubSeqProperties
  <2>. HIDE DEF w
  <2>3. Len(w) = Len(v) /\ Len(v) = j - i - n
    BY SMTT(40), <1>0, <1>3, <2>2
  <2>4. ASSUME NEW m \in 1 .. j - i - n PROVE w[m] = v[m]
    <3>1. /\ m \in 1 .. (j - i) - (n + 1) + 1 /\ m \in 1 .. j - (i + n)
          /\ n + 1 + m - 1 = n + m /\ n + m \in 1 .. j - i
      BY <1>0
    <3>2. w[m] = s[n + m] /\ s[n + m] = i + (n + m) /\ v[m] = (i + n) + m
      BY <1>1, <1>3, <2>2, <3>1
    <3>. QED
      BY <1>0, <3>2
  <2>5. w = v
    BY <1>3, <2>2, <2>3, <2>4, SeqEqual
  <2>. QED
    BY <1>1, <2>5 DEF w
<1>. QED
  BY <1>5, <1>6 DEF s, u, v

-----------------------------------------------------------------------------
(* The shape of the records.                                               *)

LEMMA ShapeInit ==
    ASSUME SocketInit
    PROVE  Shape
<1>1. PICK outbound \in BOOLEAN :
        /\ conn = NewConn(outbound) /\ sock = NewSocket(outbound)
        /\ wire = [rx |-> <<>>, room |-> MaxRoom, fd |-> TRUE,
                   peer |-> IF outbound THEN "syn" ELSE "up"]
        /\ ev = [data |-> TRUE, epoll |-> TRUE,
                 ready |-> IF outbound THEN {} ELSE {"OUT"}]
        /\ \E w \in Ways : app = [pc |-> "idle", way |-> w]
        /\ put = [d \in {"out", "in"} |-> 0]
        /\ got = [d \in {"out", "in"} |-> <<>>]
  BY DEF SocketInit
<1>2. MaxRoom \in 0 .. MaxRoom /\ 0 \in 0 .. MaxEagain + 1 /\ MaxOut >= 0 /\ MaxIn >= 0
  BY SocketAssumption
<1>3. <<>> \in Seq(Nat)
  OBVIOUS
<1>4. conn \in ConnRecords
  BY <1>1, <1>3 DEF NewConn, ConnRecords, ConnFlags
<1>5. sock \in SockRecords
  BY <1>1, <1>2, <1>3 DEF NewSocket, SockRecords, SockFlags
<1>6. wire \in WireRecords /\ ev \in EvRecords /\ app \in AppRecords
  BY <1>1, <1>2, <1>3 DEF WireRecords, EvRecords, AppRecords
<1>. QED
  BY <1>1, <1>2, <1>3, <1>4, <1>5, <1>6 DEF Shape

LEMMA Joined ==
    ASSUME NEW s \in Seq(Nat), NEW t \in Seq(Nat)
    PROVE  s \o t \in Seq(Nat)
  OBVIOUS

LEMMA ShapeConn ==
    ASSUME Shape, ConnStep
    PROVE  Shape'
<1>. USE DEF Shape
<1>0. <<>> \in Seq(Nat)
  OBVIOUS
<1>1. CASE ConnRun
  BY <1>1 DEF ConnRun, ConnRecords, ConnFlags
<1>2. CASE ConnRead
  <2>1. conn' \in ConnRecords
    BY <1>0, <1>2 DEF ConnRead, ConnRecords
  <2>2. got' \in [{"out", "in"} -> Seq(Nat)]
    <3>1. got["in"] \o conn.inq \in Seq(Nat)
      BY Joined DEF ConnRecords
    <3>. QED
      BY <1>2, <3>1 DEF ConnRead
  <2>. QED
    BY <1>2, <2>1, <2>2 DEF ConnRead
<1>3. CASE ConnPush
  <2>1. sock.pq \o conn.outq \in Seq(Nat)
    BY Joined DEF ConnRecords, SockRecords
  <2>2. sock' \in SockRecords
    BY <1>3, <2>1 DEF ConnPush, SockRecords
  <2>3. conn' \in ConnRecords
    BY <1>0, <1>3 DEF ConnPush, ConnRecords
  <2>. QED
    BY <1>3, <2>2, <2>3 DEF ConnPush
<1>4. CASE ConnFlag
  <2>1. sock' \in SockRecords
    BY <1>4 DEF ConnFlag, SockRecords, SockFlags
  <2>2. conn' \in ConnRecords
    BY <1>4 DEF ConnFlag, ConnRecords
  <2>. QED
    BY <1>4, <2>1, <2>2 DEF ConnFlag
<1>5. CASE ConnAlarm
  <2>1. conn' \in ConnRecords
    BY <1>5 DEF ConnAlarm, FailStatus, FailFlag, ConnRecords, ConnFlags
  <2>. QED
    BY <1>5, <2>1 DEF ConnAlarm
<1>6. CASE ConnAbort
  <2>1. conn' \in ConnRecords
    BY <1>6 DEF ConnAbort, ConnRecords, ConnFlags
  <2>2. sock' \in SockRecords
    BY <1>6 DEF ConnAbort, SignalSock, SockRecords
  <2>. QED
    BY <1>6, <2>1, <2>2 DEF ConnAbort
<1>7. CASE ConnFinish
  <2>1. conn' \in ConnRecords
    BY <1>0, <1>7 DEF ConnFinish, ConnRecords
  <2>2. wire' \in WireRecords
    BY <1>7 DEF ConnFinish, WireRecords
  <2>. QED
    BY <1>7, <2>1, <2>2 DEF ConnFinish
<1>. QED
  BY <1>1, <1>2, <1>3, <1>4, <1>5, <1>6, <1>7 DEF ConnStep

LEMMA SignalShape ==
    ASSUME NEW c \in ConnRecords, NEW g \in {"RUN", "ALARM", "ABORT"}
    PROVE  SignalConn(c, g) \in ConnRecords /\ SignalConn(c, g).inq = c.inq
           /\ SignalConn(c, g).outq = c.outq
  BY DEF SignalConn, ConnRecords

LEMMA FailShape ==
    ASSUME NEW c \in ConnRecords
    PROVE  FailFlag(c) \in ConnRecords /\ FailStatus(c) \in ConnRecords
<1>1. FailFlag(c) \in ConnRecords
  BY DEF FailFlag, ConnRecords, ConnFlags
<1>2. FailStatus(c) \in ConnRecords
  BY DEF FailStatus, ConnRecords
<1>. QED
  BY <1>1, <1>2

LEMMA ReadLoopShape ==
    ASSUME NEW s \in SockRecords
    PROVE  ReadLoop(s) \in SockRecords
  BY DEF ReadLoop, SockRecords, SockFlags

LEMMA NetFailedShape ==
    ASSUME NEW s \in SockRecords
    PROVE  NetFailed(s) \in SockRecords
  BY DEF NetFailed, SignalSock, SockRecords, SockFlags

LEMMA WriterEndsShape ==
    ASSUME NEW s \in SockRecords, NEW stop
    PROVE  WriterEnds(s, stop) \in SockRecords
<1>1. [s EXCEPT !.flags = @ \ {"WANTWR"}, !.pc = "idle", !.stop = FALSE] \in SockRecords
  BY DEF SockRecords
<1>. QED
  BY <1>1, NetFailedShape DEF WriterEnds

LEMMA ShapeSock ==
    ASSUME Shape, Writing, SockStep
    PROVE  Shape'
<1>. USE DEF Shape
<1>0. <<>> \in Seq(Nat)
  OBVIOUS
<1>1. CASE SockRun
  <2>. DEFINE s == [sock EXCEPT !.sigs = {}]
              r == [s EXCEPT !.flags = {"WANTRD", "CONNECTED"}]
  <2>1. s \in SockRecords /\ r \in SockRecords
    BY DEF SockRecords, SockFlags
  <2>2. ReadLoop(s) \in SockRecords /\ ReadLoop(r) \in SockRecords
    BY <2>1, ReadLoopShape
  <2>3. sock' \in {s, ReadLoop(s), ReadLoop(r)}
    BY <1>1 DEF SockRun
  <2>4. conn' \in {conn, [SignalConn(conn, "RUN") EXCEPT
                            !.flags = @ \cup {"READY_PENDING", "CONNECTED"}]}
    BY <1>1 DEF SockRun
  <2>5. conn' \in ConnRecords
    <3>1. SignalConn(conn, "RUN") \in ConnRecords
      BY SignalShape
    <3>2. [SignalConn(conn, "RUN") EXCEPT
             !.flags = @ \cup {"READY_PENDING", "CONNECTED"}] \in ConnRecords
      BY <3>1 DEF ConnRecords, ConnFlags
    <3>. QED
      BY <2>4, <3>2
  <2>. QED
    BY <1>1, <2>1, <2>2, <2>3, <2>5 DEF SockRun
<1>2. CASE SockReadv
  <2>1. [sock EXCEPT !.flags = @ \ {"NORD"}] \in SockRecords
    BY DEF SockRecords
  <2>2. ReadLoop([sock EXCEPT !.flags = @ \ {"NORD"}]) \in SockRecords
    BY <2>1, ReadLoopShape
  <2>3. /\ [sock EXCEPT !.pc = "merge"] \in SockRecords
        /\ [SignalSock(sock, "ABORT") EXCEPT
              !.flags = @ \cup {"NET_FAILED"}, !.pc = "merge"] \in SockRecords
    BY DEF SockRecords, SockFlags, SignalSock
  <2>4. sock' \in SockRecords
    BY <1>2, <2>2, <2>3 DEF SockReadv
  <2>5. wire' \in WireRecords
    BY <1>0, <1>2 DEF SockReadv, WireRecords
  <2>6. conn' \in ConnRecords
    <3>1. conn.inq \o wire.rx \in Seq(Nat)
      BY Joined DEF ConnRecords, WireRecords
    <3>2. SignalConn(conn, "RUN") \in ConnRecords /\ SignalConn(conn, "RUN").inq = conn.inq
      BY SignalShape
    <3>3. [SignalConn(conn, "RUN") EXCEPT !.inq = @ \o wire.rx] \in ConnRecords
      BY <3>1, <3>2 DEF ConnRecords
    <3>. QED
      BY <1>2, <3>3 DEF SockReadv
  <2>. QED
    BY <1>2, <2>4, <2>5, <2>6 DEF SockReadv
<1>3. CASE SockMerge
  <2>1. sock.out \o sock.pq \in Seq(Nat)
    BY Joined DEF SockRecords
  <2>2. sock' \in SockRecords
    BY <1>0, <1>3, <2>1 DEF SockMerge, SockRecords, SockFlags
  <2>. QED
    BY <1>3, <2>2 DEF SockMerge
<1>4. CASE SockWrite
  <2>. DEFINE stop == sock.stop \/ "STOPWRITE" \in sock.flags
  <2>1. stop \in BOOLEAN
    BY DEF SockRecords
  <2>2. [sock EXCEPT !.stop = stop, !.flags = @ \cup {"NOWR"}, !.pc = "writev"]
          \in SockRecords
    <3>. HIDE DEF stop
    <3>. QED
      BY <2>1 DEF SockRecords, SockFlags
  <2>3. WriterEnds(sock, stop) \in SockRecords
    BY WriterEndsShape
  <2>4. sock' \in SockRecords
    BY <1>4, <2>2, <2>3 DEF SockWrite
  <2>. QED
    BY <1>4, <2>4 DEF SockWrite
<1>5. CASE SockWritev
  <2>0. sock.eagain + 1 \in 0 .. MaxEagain + 1
    <3>1. MaxEagain \in Nat /\ sock.eagain \in 0 .. MaxEagain + 1
      BY SocketAssumption DEF SockRecords
    <3>2. ~(sock.eagain > MaxEagain)
      BY <1>5 DEF SockWritev, Writing
    <3>. QED
      BY <3>1, <3>2
  <2>1. CASE /\ wire.peer = "up" /\ wire.room > 0
             /\ \E n \in 1 .. Len(sock.out) :
                  /\ n <= wire.room
                  /\ got' = [got EXCEPT !["out"] = @ \o SubSeq(sock.out, 1, n)]
                  /\ wire' = [wire EXCEPT !.room = @ - n]
                  /\ LET s == [sock EXCEPT !.out = SubSeq(@, n + 1, Len(@)),
                                 !.eagain = 0, !.flags = @ \ {"NOWR"}]
                     IN  sock' = IF s.out = <<>> THEN WriterEnds(s, s.stop)
                                 ELSE [s EXCEPT !.flags = @ \cup {"NOWR"}]
    <3>1. PICK n \in 1 .. Len(sock.out) :
            /\ n <= wire.room
            /\ got' = [got EXCEPT !["out"] = @ \o SubSeq(sock.out, 1, n)]
            /\ wire' = [wire EXCEPT !.room = @ - n]
            /\ LET s == [sock EXCEPT !.out = SubSeq(@, n + 1, Len(@)),
                           !.eagain = 0, !.flags = @ \ {"NOWR"}]
               IN  sock' = IF s.out = <<>> THEN WriterEnds(s, s.stop)
                           ELSE [s EXCEPT !.flags = @ \cup {"NOWR"}]
      BY <2>1
    <3>2. /\ SubSeq(sock.out, 1, n) \in Seq(Nat)
          /\ SubSeq(sock.out, n + 1, Len(sock.out)) \in Seq(Nat)
      <4>1. sock.out \in Seq(Nat)
        BY DEF SockRecords
      <4>2. /\ \A i \in 1 .. n : sock.out[i] \in Nat
            /\ \A i \in n + 1 .. Len(sock.out) : sock.out[i] \in Nat
        <5>1. /\ Len(sock.out) \in Nat
              /\ \A i \in 1 .. Len(sock.out) : sock.out[i] \in Nat
          BY <4>1, LenProperties
        <5>2. /\ \A i \in 1 .. n : i \in 1 .. Len(sock.out)
              /\ \A i \in n + 1 .. Len(sock.out) : i \in 1 .. Len(sock.out)
          BY <5>1
        <5>. QED
          BY <5>1, <5>2
      <4>3. n \in Int /\ n + 1 \in Int /\ 1 \in Int /\ Len(sock.out) \in Int
        BY <4>1, LenProperties
      <4>. QED
        BY <4>2, <4>3, SubSeqProperties
    <3>. DEFINE s == [sock EXCEPT !.out = SubSeq(@, n + 1, Len(@)),
                        !.eagain = 0, !.flags = @ \ {"NOWR"}]
    <3>3. s \in SockRecords
      <4>1. 0 \in 0 .. MaxEagain + 1
        BY SocketAssumption
      <4>. QED
        BY <3>2, <4>1 DEF SockRecords
    <3>4. WriterEnds(s, s.stop) \in SockRecords
      <4>. HIDE DEF s
      <4>. QED
        BY <3>3, WriterEndsShape
    <3>5. [s EXCEPT !.flags = @ \cup {"NOWR"}] \in SockRecords
      <4>. HIDE DEF s
      <4>. QED
        BY <3>3 DEF SockRecords, SockFlags
    <3>6. sock' \in SockRecords
      <4>1. sock' = IF s.out = <<>> THEN WriterEnds(s, s.stop)
                    ELSE [s EXCEPT !.flags = @ \cup {"NOWR"}]
        BY <3>1
      <4>. QED
        BY <3>4, <3>5, <4>1
    <3>7. got' \in [{"out", "in"} -> Seq(Nat)]
      <4>1. got["out"] \o SubSeq(sock.out, 1, n) \in Seq(Nat)
        BY <3>2, Joined
      <4>. QED
        BY <3>1, <4>1
    <3>8. wire' \in WireRecords
      <4>1. wire.room - n \in 0 .. MaxRoom
        BY SMTT(40), <3>1, SocketAssumption DEF WireRecords
      <4>. QED
        BY <3>1, <4>1 DEF WireRecords
    <3>. QED
      BY <1>5, <3>6, <3>7, <3>8 DEF SockWritev
  <2>2. CASE /\ sock' = IF sock.eagain + 1 > MaxEagain
                        THEN [NetFailed(sock) EXCEPT !.eagain = @ + 1]
                        ELSE [sock EXCEPT !.pc = "idle", !.stop = FALSE,
                                !.eagain = @ + 1]
             /\ UNCHANGED <<wire, got>>
    <3>1. NetFailed(sock) \in SockRecords /\ NetFailed(sock).eagain = sock.eagain
      BY NetFailedShape DEF NetFailed, SignalSock, SockRecords
    <3>2. sock' \in SockRecords
      BY <2>0, <2>2, <3>1 DEF SockRecords
    <3>. QED
      BY <1>5, <2>2, <3>2 DEF SockWritev
  <2>3. CASE sock' = NetFailed(sock) /\ UNCHANGED <<wire, got>>
    BY <1>5, <2>3, NetFailedShape DEF SockWritev
  <2>. QED
    BY <1>5, <2>1, <2>2, <2>3 DEF SockWritev
<1>6. CASE SockAbort
  <2>1. sock' \in SockRecords
    BY <1>6 DEF SockAbort, SockRecords, SockFlags
  <2>2. ev' \in EvRecords
    BY <1>6 DEF SockAbort, EvRecords
  <2>. QED
    BY <1>6, <2>1, <2>2 DEF SockAbort
<1>7. CASE SockFail
  <2>1. sock' \in SockRecords
    BY <1>7 DEF SockFail, SockRecords
  <2>2. conn' \in ConnRecords
    BY <1>7, FailShape DEF SockFail
  <2>. QED
    BY <1>7, <2>1, <2>2 DEF SockFail
<1>8. CASE SockFinish
  <2>1. sock' \in SockRecords
    BY <1>0, <1>8 DEF SockFinish, SockRecords
  <2>. QED
    BY <1>8, <2>1 DEF SockFinish
<1>. QED
  BY <1>1, <1>2, <1>3, <1>4, <1>5, <1>6, <1>7, <1>8 DEF SockStep

LEMMA ShapeOther ==
    ASSUME Shape, MainStep \/ AppStep \/ PeerStep
    PROVE  Shape'
<1>. USE DEF Shape
<1>1. CASE Gateway
  <2>1. sock' \in SockRecords
    BY <1>1 DEF Gateway, SockRecords
  <2>2. ev' \in EvRecords
    BY <1>1 DEF Gateway, EvRecords
  <2>. QED
    BY <1>1, <2>1, <2>2 DEF Gateway
<1>2. CASE TimerFires
  BY <1>2 DEF TimerFires, SignalConn, ConnRecords
<1>3. CASE AppSend
  <2>1. Append(conn.outq, put["out"] + 1) \in Seq(Nat)
    BY DEF ConnRecords
  <2>2. conn' \in ConnRecords
    BY <1>3, <2>1 DEF AppSend, SignalConn, ConnRecords
  <2>3. put' \in [{"out", "in"} -> Nat] /\ put'["out"] <= MaxOut /\ put'["in"] <= MaxIn
    BY <1>3, SocketAssumption DEF AppSend
  <2>. QED
    BY <1>3, <2>2, <2>3 DEF AppSend
<1>4. CASE AppSetTimeout
  BY <1>4 DEF AppSetTimeout, ConnRecords
<1>5. CASE AppWriteClose
  <2>1. sock' \in SockRecords
    BY <1>5 DEF AppWriteClose, SockRecords, SockFlags
  <2>2. conn' \in ConnRecords /\ app' \in AppRecords
    BY <1>5 DEF AppWriteClose, ConnRecords, ConnFlags, AppRecords
  <2>. QED
    BY <1>5, <2>1, <2>2 DEF AppWriteClose
<1>6. CASE AppStoreClose
  <2>1. conn' \in ConnRecords /\ app' \in AppRecords
    BY <1>6 DEF AppStoreClose, SignalConn, ConnRecords, AppRecords
  <2>. QED
    BY <1>6, <2>1 DEF AppStoreClose
<1>7. CASE AppFail
  <2>1. conn' \in ConnRecords
    BY <1>7 DEF AppFail, FailStatus, FailFlag, ConnRecords, ConnFlags
  <2>. QED
    BY <1>7, <2>1 DEF AppFail
<1>8. ASSUME PeerStep
      PROVE  Shape'
  <2>1. ev' \in EvRecords
    BY <1>8 DEF PeerStep, PeerConnects, PeerSends, PeerTakes, PeerLeaves, Report,
                EvRecords
  <2>2. wire' \in WireRecords
    <3>1. CASE PeerSends
      <4>1. Append(wire.rx, put["in"] + 1) \in Seq(Nat)
        BY DEF WireRecords
      <4>. QED
        BY <3>1, <4>1 DEF PeerSends, WireRecords
    <3>2. MaxRoom \in 0 .. MaxRoom
      BY SocketAssumption
    <3>. QED
      BY <1>8, <3>1, <3>2 DEF PeerStep, PeerConnects, PeerTakes, PeerLeaves, WireRecords
  <2>3. put' \in [{"out", "in"} -> Nat] /\ put'["out"] <= MaxOut /\ put'["in"] <= MaxIn
    BY SMTT(40), <1>8, SocketAssumption
    DEF PeerStep, PeerConnects, PeerSends, PeerTakes, PeerLeaves
  <2>4. UNCHANGED <<conn, sock, app, got>>
    BY <1>8 DEF PeerStep, PeerConnects, PeerSends, PeerTakes, PeerLeaves
  <2>. QED
    BY <2>1, <2>2, <2>3, <2>4
<1>. QED
  BY <1>1, <1>2, <1>3, <1>4, <1>5, <1>6, <1>7, <1>8 DEF MainStep, AppStep

LEMMA ShapeNext ==
    ASSUME Shape, Writing, [SocketNext]_socketVars
    PROVE  Shape'
  BY ShapeConn, ShapeSock, ShapeOther DEF SocketNext, socketVars, Shape

-----------------------------------------------------------------------------
(* The stream of the application's messages.                               *)

LEMMA OutKept ==
    ASSUME OutStream, put'["out"] = put["out"], got'["out"] = got["out"],
           sock'.out = sock.out, sock'.pq = sock.pq, conn'.outq = conn.outq,
           conn'.io => conn.io
    PROVE  OutStream'
  BY DEF OutStream

\* The socket job changes its own queues only where it merges, writes or ends.
LEMMA SockQueues ==
    ASSUME Shape, SockRun \/ SockReadv \/ SockWrite \/ SockAbort \/ SockFail
    PROVE  /\ sock'.out = sock.out /\ sock'.pq = sock.pq
           /\ conn'.outq = conn.outq /\ conn'.io = conn.io
<1>. USE DEF Shape
<1>1. ASSUME NEW s \in SockRecords
      PROVE  /\ ReadLoop(s).out = s.out /\ ReadLoop(s).pq = s.pq
             /\ NetFailed(s).out = s.out /\ NetFailed(s).pq = s.pq
  BY DEF ReadLoop, NetFailed, SignalSock, SockRecords
<1>2. ASSUME NEW s \in SockRecords, NEW stop
      PROVE  WriterEnds(s, stop).out = s.out /\ WriterEnds(s, stop).pq = s.pq
  <2>. DEFINE u == [s EXCEPT !.flags = @ \ {"WANTWR"}, !.pc = "idle", !.stop = FALSE]
  <2>1. u \in SockRecords /\ u.out = s.out /\ u.pq = s.pq
    BY DEF SockRecords
  <2>2. NetFailed(u).out = s.out /\ NetFailed(u).pq = s.pq
    <3>. HIDE DEF u
    <3>. QED
      BY <1>1, <2>1
  <2>. QED
    BY <2>1, <2>2 DEF WriterEnds
<1>3. CASE SockRun
  <2>. DEFINE s == [sock EXCEPT !.sigs = {}]
              r == [s EXCEPT !.flags = {"WANTRD", "CONNECTED"}]
  <2>1. /\ s \in SockRecords /\ r \in SockRecords
        /\ s.out = sock.out /\ s.pq = sock.pq /\ r.out = sock.out /\ r.pq = sock.pq
    BY DEF SockRecords, SockFlags
  <2>2. /\ sock' \in {s, ReadLoop(s), ReadLoop(r)}
        /\ conn' \in {conn, [SignalConn(conn, "RUN") EXCEPT
                               !.flags = @ \cup {"READY_PENDING", "CONNECTED"}]}
    BY <1>3 DEF SockRun
  <2>3. conn'.outq = conn.outq /\ conn'.io = conn.io
    BY <2>2 DEF SignalConn, ConnRecords
  <2>. HIDE DEF s, r
  <2>. QED
    BY <1>1, <2>1, <2>2, <2>3
<1>4. CASE SockReadv
  <2>. DEFINE s == [sock EXCEPT !.flags = @ \ {"NORD"}]
  <2>1. s \in SockRecords /\ s.out = sock.out /\ s.pq = sock.pq
    BY DEF SockRecords
  <2>2. ReadLoop(s).out = sock.out /\ ReadLoop(s).pq = sock.pq
    <3>. HIDE DEF s
    <3>. QED
      BY <1>1, <2>1
  <2>3. sock'.out = sock.out /\ sock'.pq = sock.pq
    BY <1>4, <2>2 DEF SockReadv, SignalSock, SockRecords
  <2>4. conn'.outq = conn.outq /\ conn'.io = conn.io
    BY <1>4 DEF SockReadv, SignalConn, ConnRecords
  <2>. QED
    BY <2>3, <2>4
<1>5. CASE SockWrite
  <2>1. WriterEnds(sock, sock.stop \/ "STOPWRITE" \in sock.flags).out = sock.out
        /\ WriterEnds(sock, sock.stop \/ "STOPWRITE" \in sock.flags).pq = sock.pq
    BY <1>2
  <2>. QED
    BY <1>5, <2>1 DEF SockWrite, SockRecords
<1>6. CASE SockAbort
  BY <1>6 DEF SockAbort, SockRecords
<1>7. CASE SockFail
  BY <1>7 DEF SockFail, FailFlag, FailStatus, SockRecords, ConnRecords
<1>. QED
  BY <1>3, <1>4, <1>5, <1>6, <1>7

\* One write: the messages are cut at n.
LEMMA OutWritten ==
    ASSUME Shape, OutStream, SockWritev
    PROVE  OutStream' /\ (got' # got =>
             /\ got'["in"] = got["in"]
             /\ \E n \in Len(got["out"]) + 1 .. put["out"] : got'["out"] = Seg(0, n))
<1>. USE DEF Shape
<1>0. UNCHANGED <<conn, put>>
  BY DEF SockWritev
<1>1. NetFailed(sock).out = sock.out /\ NetFailed(sock).pq = sock.pq
      /\ NetFailed(sock) \in SockRecords
  BY NetFailedShape DEF NetFailed, SignalSock, SockRecords
<1>2. CASE got' = got /\ sock'.out = sock.out /\ sock'.pq = sock.pq
  <2>1. OutStream'
    BY <1>0, <1>2, OutKept
  <2>. QED
    BY <1>2, <2>1
<1>3. CASE \E n \in 1 .. Len(sock.out) :
             /\ got' = [got EXCEPT !["out"] = @ \o SubSeq(sock.out, 1, n)]
             /\ sock'.out = SubSeq(sock.out, n + 1, Len(sock.out))
             /\ sock'.pq = sock.pq
  <2>1. PICK n \in 1 .. Len(sock.out) :
          /\ got' = [got EXCEPT !["out"] = @ \o SubSeq(sock.out, 1, n)]
          /\ sock'.out = SubSeq(sock.out, n + 1, Len(sock.out))
          /\ sock'.pq = sock.pq
    BY <1>3
  <2>2. PICK a, b, c, d \in Nat :
          /\ a <= b /\ b <= c /\ c <= d /\ d <= put["out"]
          /\ got["out"] = Seg(0, a) /\ sock.out = Seg(a, b) /\ sock.pq = Seg(b, c)
          /\ conn.outq = Seg(d, put["out"])
          /\ conn.io => c = d
    BY DEF OutStream
  <2>3. Len(sock.out) = b - a /\ n \in Nat /\ n >= 1 /\ a + n \in Nat /\ a + n <= b
        /\ n \in 1 .. b - a
    <3>1. Len(Seg(a, b)) = b - a
      BY <2>2, SegShape
    <3>2. n \in 1 .. b - a
      BY <2>1, <2>2, <3>1
    <3>. QED
      BY <2>2, <3>1, <3>2
  <2>4. /\ SubSeq(sock.out, 1, n) = Seg(a, a + n)
        /\ SubSeq(sock.out, n + 1, Len(sock.out)) = Seg(a + n, b)
    <3>1. /\ SubSeq(Seg(a, b), 1, n) = Seg(a, a + n)
          /\ SubSeq(Seg(a, b), n + 1, Len(Seg(a, b))) = Seg(a + n, b)
      <4>1. a <= b /\ n \in 1 .. b - a
        BY <2>2, <2>3
      <4>. QED
        BY <4>1, SegCut
    <3>. QED
      BY <2>2, <3>1
  <2>5. got["out"] \o SubSeq(sock.out, 1, n) = Seg(0, a + n)
    <3>1. 0 \in Nat /\ 0 <= a /\ a <= a + n
      BY <2>2, <2>3
    <3>2. Seg(0, a) \o Seg(a, a + n) = Seg(0, a + n)
      BY ZenonT(40), <2>2, <2>3, <3>1, SegConcat
    <3>. QED
      BY <2>2, <2>4, <3>2
  <2>6. got'["out"] = Seg(0, a + n) /\ got'["in"] = got["in"] /\ sock'.out = Seg(a + n, b)
    BY <2>1, <2>4, <2>5
  <2>7. OutStream'
    <3>1. /\ a + n <= b /\ b <= c /\ c <= d /\ d <= put'["out"]
          /\ got'["out"] = Seg(0, a + n) /\ sock'.out = Seg(a + n, b)
          /\ sock'.pq = Seg(b, c)
          /\ conn'.outq = Seg(d, put'["out"])
          /\ conn'.io => c = d
      BY <1>0, <2>1, <2>2, <2>3, <2>6
    <3>. QED
      BY <2>2, <2>3, <3>1 DEF OutStream
  <2>8. Len(got["out"]) = a
    <3>1. 0 \in Nat /\ 0 <= a
      BY <2>2
    <3>. QED
      BY <2>2, <3>1, SegShape
  <2>9. a + n \in Len(got["out"]) + 1 .. put["out"]
    BY <2>2, <2>3, <2>8
  <2>. QED
    BY <2>6, <2>7, <2>9
<1>4. ASSUME NEW n \in 1 .. Len(sock.out),
             got' = [got EXCEPT !["out"] = @ \o SubSeq(sock.out, 1, n)],
             LET s == [sock EXCEPT !.out = SubSeq(@, n + 1, Len(@)),
                         !.eagain = 0, !.flags = @ \ {"NOWR"}]
             IN  sock' = IF s.out = <<>> THEN WriterEnds(s, s.stop)
                         ELSE [s EXCEPT !.flags = @ \cup {"NOWR"}]
      PROVE  /\ sock'.out = SubSeq(sock.out, n + 1, Len(sock.out))
             /\ sock'.pq = sock.pq
  <2>. DEFINE s == [sock EXCEPT !.out = SubSeq(@, n + 1, Len(@)),
                      !.eagain = 0, !.flags = @ \ {"NOWR"}]
  <2>1. s.out = SubSeq(sock.out, n + 1, Len(sock.out)) /\ s.pq = sock.pq
    BY DEF SockRecords
  <2>2. \/ sock' = WriterEnds(s, s.stop)
        \/ sock' = [s EXCEPT !.flags = @ \cup {"NOWR"}]
    BY <1>4
  <2>3. DOMAIN s = {"flags", "sigs", "pc", "stop", "pq", "out", "eagain"}
    BY DEF SockRecords
  <2>. HIDE DEF s
  <2>4. WriterEnds(s, s.stop).out = s.out /\ WriterEnds(s, s.stop).pq = s.pq
    BY <2>3 DEF WriterEnds, NetFailed, SignalSock
  <2>. QED
    BY <2>1, <2>2, <2>3, <2>4
<1>. QED
  BY ZenonT(40), <1>1, <1>2, <1>3, <1>4 DEF SockWritev, SockRecords

LEMMA OutNext ==
    ASSUME Shape, OutStream, Ending, [SocketNext]_socketVars
    PROVE  OutStream'
<1>. USE DEF Shape
<1>0. PICK a, b, c, d \in Nat :
        /\ a <= b /\ b <= c /\ c <= d /\ d <= put["out"]
        /\ got["out"] = Seg(0, a) /\ sock.out = Seg(a, b) /\ sock.pq = Seg(b, c)
        /\ conn.outq = Seg(d, put["out"])
        /\ conn.io => c = d
  BY DEF OutStream
<1>1. \A i \in Nat : Seg(i, i) = <<>>
  BY SegEmpty
<1>2. put["out"] \in Nat
  OBVIOUS
<1>3. CASE ConnPush
  <2>1. UNCHANGED <<got, put>> /\ sock'.out = sock.out /\ conn'.io = conn.io
        /\ conn'.outq = <<>>
    BY <1>3 DEF ConnPush, ConnRecords, SockRecords
  <2>2. conn'.outq = Seg(put["out"], put["out"])
    BY <1>1, <1>2, <2>1
  <2>3. CASE conn.outq # <<>> /\ conn.io
    <3>1. sock'.pq = sock.pq \o conn.outq
      BY <1>3, <2>3 DEF ConnPush, SockRecords
    <3>2. Seg(b, c) \o Seg(c, put["out"]) = Seg(b, put["out"])
      <4>1. b <= c /\ c <= put["out"]
        BY <1>0, <1>2
      <4>. QED
        BY <1>2, <4>1, SegConcat
    <3>3. sock'.pq = Seg(b, put["out"])
      BY <1>0, <2>3, <3>1, <3>2
    <3>4. /\ a <= b /\ b <= put["out"] /\ put["out"] <= put["out"]
          /\ put["out"] <= put'["out"]
          /\ got'["out"] = Seg(0, a) /\ sock'.out = Seg(a, b)
          /\ sock'.pq = Seg(b, put["out"]) /\ conn'.outq = Seg(put["out"], put'["out"])
      BY <1>0, <1>2, <2>1, <2>2, <3>3
    <3>. QED
      BY <1>0, <1>2, <3>4 DEF OutStream
  <2>4. CASE ~(conn.outq # <<>> /\ conn.io)
    <3>1. sock' = sock
      BY <1>3, <2>4 DEF ConnPush
    <3>2. CASE conn.outq = <<>>
      BY <2>1, <3>1, <3>2, OutKept
    <3>3. CASE ~conn.io
      <4>1. /\ a <= b /\ b <= c /\ c <= put["out"] /\ put["out"] <= put'["out"]
            /\ got'["out"] = Seg(0, a) /\ sock'.out = Seg(a, b)
            /\ sock'.pq = Seg(b, c) /\ conn'.outq = Seg(put["out"], put'["out"])
            /\ ~conn'.io
        BY <1>0, <1>2, <2>1, <2>2, <3>1, <3>3
      <4>. QED
        BY <1>0, <1>2, <4>1 DEF OutStream
    <3>. QED
      BY <2>4, <3>2, <3>3
  <2>. QED
    BY <2>3, <2>4
<1>4. CASE ConnFinish
  <2>1. UNCHANGED <<sock, got, put>> /\ conn'.outq = <<>> /\ conn'.io = conn.io
    BY <1>4 DEF ConnFinish, ConnRecords
  <2>2. ~conn.io
    BY <1>4 DEF ConnFinish, ConnHeld, Ending
  <2>3. /\ a <= b /\ b <= c /\ c <= put["out"] /\ put["out"] <= put'["out"]
        /\ got'["out"] = Seg(0, a) /\ sock'.out = Seg(a, b)
        /\ sock'.pq = Seg(b, c) /\ conn'.outq = Seg(put["out"], put'["out"])
        /\ ~conn'.io
    BY <1>0, <1>1, <1>2, <2>1, <2>2
  <2>. QED
    BY <1>0, <1>2, <2>3 DEF OutStream
<1>5. CASE SockMerge
  <2>1. UNCHANGED <<conn, got, put>> /\ sock'.out = sock.out \o sock.pq /\ sock'.pq = <<>>
    BY <1>5 DEF SockMerge, SockRecords
  <2>2. Seg(a, b) \o Seg(b, c) = Seg(a, c)
    BY <1>0, SegConcat
  <2>3. /\ a <= c /\ c <= c /\ c <= d /\ d <= put'["out"]
        /\ got'["out"] = Seg(0, a) /\ sock'.out = Seg(a, c)
        /\ sock'.pq = Seg(c, c) /\ conn'.outq = Seg(d, put'["out"])
        /\ conn'.io => c = d
    BY <1>0, <1>1, <2>1, <2>2
  <2>. QED
    BY <1>0, <2>3 DEF OutStream
<1>6. CASE SockFinish
  <2>1. UNCHANGED <<conn, got, put>> /\ sock'.out = <<>> /\ sock'.pq = <<>> /\ ~conn.io
    BY <1>6 DEF SockFinish, SockHeld, SockRecords
  <2>2. /\ a <= a /\ a <= d /\ d <= put'["out"]
        /\ got'["out"] = Seg(0, a) /\ sock'.out = Seg(a, a)
        /\ sock'.pq = Seg(a, a) /\ conn'.outq = Seg(d, put'["out"])
        /\ ~conn'.io
    BY <1>0, <1>1, <2>1
  <2>. QED
    BY <1>0, <2>2 DEF OutStream
<1>7. CASE AppSend
  <2>1. /\ UNCHANGED <<sock, got>> /\ conn'.io = conn.io
        /\ put'["out"] = put["out"] + 1
        /\ conn'.outq = Append(conn.outq, put["out"] + 1)
    BY <1>7 DEF AppSend, SignalConn, ConnRecords
  <2>2. Append(Seg(d, put["out"]), put["out"] + 1) = Seg(d, put["out"] + 1)
    BY <1>0, <1>2, SegAppend
  <2>3. /\ a <= b /\ b <= c /\ c <= d /\ d <= put'["out"]
        /\ got'["out"] = Seg(0, a) /\ sock'.out = Seg(a, b)
        /\ sock'.pq = Seg(b, c) /\ conn'.outq = Seg(d, put'["out"])
        /\ conn'.io => c = d
    BY <1>0, <1>2, <2>1, <2>2
  <2>. QED
    BY <1>0, <2>3 DEF OutStream
<1>8. CASE SockWritev
  BY <1>8, OutWritten
<1>9. CASE SockRun \/ SockReadv \/ SockWrite \/ SockAbort \/ SockFail
  <2>1. put' = put /\ got' = got
    BY <1>9 DEF SockRun, SockReadv, SockWrite, SockAbort, SockFail
  <2>. QED
    BY <1>9, <2>1, SockQueues, OutKept
<1>10. CASE ConnRun \/ ConnRead \/ ConnFlag \/ ConnAlarm \/ ConnAbort
  <2>1. put' = put /\ got'["out"] = got["out"]
    BY <1>10 DEF ConnRun, ConnRead, ConnFlag, ConnAlarm, ConnAbort
  <2>2. sock'.out = sock.out /\ sock'.pq = sock.pq
    BY <1>10 DEF ConnRun, ConnRead, ConnFlag, ConnAlarm, ConnAbort, SignalSock, SockRecords
  <2>3. conn'.outq = conn.outq /\ (conn'.io => conn.io)
    BY ZenonT(40), <1>10
    DEF ConnRun, ConnRead, ConnFlag, ConnAlarm, ConnAbort, FailStatus, FailFlag, ConnRecords
  <2>. QED
    BY <2>1, <2>2, <2>3, OutKept
<1>11. CASE MainStep \/ AppSetTimeout \/ AppWriteClose \/ AppStoreClose \/ AppFail
  <2>1. put' = put /\ got' = got
    BY <1>11
    DEF MainStep, Gateway, TimerFires, AppSetTimeout, AppWriteClose, AppStoreClose, AppFail
  <2>2. sock'.out = sock.out /\ sock'.pq = sock.pq
    BY <1>11
    DEF MainStep, Gateway, TimerFires, AppSetTimeout, AppWriteClose, AppStoreClose,
        AppFail, SockRecords
  <2>3. conn'.outq = conn.outq /\ conn'.io = conn.io
    BY <1>11
    DEF MainStep, Gateway, TimerFires, AppSetTimeout, AppWriteClose, AppStoreClose,
        AppFail, FailStatus, FailFlag, SignalConn, ConnRecords
  <2>. QED
    BY <2>1, <2>2, <2>3, OutKept
<1>12. CASE PeerStep
  <2>1. UNCHANGED <<conn, sock, got>> /\ put'["out"] = put["out"]
    BY <1>12 DEF PeerStep, PeerConnects, PeerSends, PeerTakes, PeerLeaves
  <2>. QED
    BY <2>1, OutKept
<1>13. CASE UNCHANGED socketVars
  BY <1>13, OutKept DEF socketVars
<1>. QED
  BY <1>3, <1>4, <1>5, <1>6, <1>7, <1>8, <1>9, <1>10, <1>11, <1>12, <1>13
  DEF SocketNext, ConnStep, SockStep, AppStep

-----------------------------------------------------------------------------
(* The stream of the peer's messages.                                      *)

Deaf == conn.flags \cap {"ERROR", "FAILED", "STOPREAD"} # {}

LEMMA InKept ==
    ASSUME InStream, put'["in"] = put["in"], got'["in"] = got["in"],
           conn'.inq = conn.inq, wire'.rx = wire.rx, Deaf => Deaf'
    PROVE  InStream'
  BY DEF InStream, Deaf

\* Nothing takes the flags that stop the reader back.
LEMMA FlagFields ==
    ASSUME NEW c \in ConnRecords, NEW g
    PROVE  /\ FailFlag(c).flags = c.flags \cup {"ERROR"} /\ FailFlag(c).io = c.io
           /\ FailStatus(c).flags = c.flags /\ FailStatus(c).io = c.io
           /\ SignalConn(c, g).flags = c.flags /\ SignalConn(c, g).io = c.io
  BY DEF FailFlag, FailStatus, SignalConn, ConnRecords

LEMMA DeafStays ==
    ASSUME Shape, [SocketNext]_socketVars
    PROVE  /\ Deaf => Deaf'
           /\ "ERROR" \in conn.flags => "ERROR" \in conn'.flags
           /\ ~conn.io => ~conn'.io
<1>. USE DEF Shape
<1>. SUFFICES /\ conn.flags \ {"READY_PENDING"} \subseteq conn'.flags
              /\ ~conn.io => ~conn'.io
  BY DEF Deaf
<1>1. CASE ConnRun \/ ConnRead \/ ConnPush \/ ConnFlag
  BY <1>1 DEF ConnRun, ConnRead, ConnPush, ConnFlag, ConnRecords
<1>2. CASE ConnAlarm
  BY <1>2 DEF ConnAlarm, FailStatus, FailFlag, ConnRecords
<1>3. CASE ConnAbort
  <2>1. conn'.flags = conn.flags \cup {"FAILED"} /\ conn'.io = FALSE
    BY <1>3 DEF ConnAbort, ConnRecords
  <2>. QED
    BY <2>1
<1>11. CASE ConnFinish
  BY <1>11 DEF ConnFinish, ConnRecords
<1>12. CASE SockReadv
  BY <1>12 DEF SockReadv, SignalConn, ConnRecords
<1>4. CASE SockRun
  <2>1. \/ conn' = conn
        \/ conn' = [SignalConn(conn, "RUN") EXCEPT
                      !.flags = @ \cup {"READY_PENDING", "CONNECTED"}]
    BY <1>4 DEF SockRun
  <2>2. conn'.io = conn.io /\ conn.flags \subseteq conn'.flags
    BY ZenonT(40), <2>1 DEF SignalConn, ConnRecords
  <2>. QED
    BY <2>2
<1>5. CASE SockMerge \/ SockWrite \/ SockWritev \/ SockAbort \/ SockFinish
  BY <1>5 DEF SockMerge, SockWrite, SockWritev, SockAbort, SockFinish
<1>6. CASE SockFail
  BY <1>6, FlagFields DEF SockFail
<1>7. CASE MainStep \/ AppSend \/ AppSetTimeout
  BY <1>7
  DEF MainStep, Gateway, TimerFires, AppSend, AppSetTimeout, SignalConn, ConnRecords
<1>8. CASE AppWriteClose \/ AppStoreClose
  <2>1. conn.flags \subseteq conn'.flags /\ conn'.io = conn.io
    BY ZenonT(40), <1>8 DEF AppWriteClose, AppStoreClose, SignalConn, ConnRecords
  <2>. QED
    BY <2>1
<1>13. CASE AppFail
  <2>1. FailFlag(conn) \in ConnRecords
    BY FailShape
  <2>2. conn'.flags = conn.flags \cup {"ERROR"} /\ conn'.io = conn.io
    BY <1>13, <2>1, FlagFields DEF AppFail
  <2>. QED
    BY <2>2
<1>9. CASE PeerStep
  BY <1>9 DEF PeerStep, PeerConnects, PeerSends, PeerTakes, PeerLeaves
<1>10. CASE UNCHANGED socketVars
  BY <1>10 DEF socketVars
<1>. QED
  BY <1>1, <1>2, <1>3, <1>4, <1>5, <1>6, <1>7, <1>8, <1>9, <1>10,
     <1>11, <1>12, <1>13
  DEF SocketNext, ConnStep, SockStep, AppStep

\* One pass of the reader: everything that was queued comes out, or nothing.
LEMMA InRead ==
    ASSUME Shape, InStream, ConnRead
    PROVE  InStream' /\ (got' # got =>
             /\ got'["out"] = got["out"]
             /\ \E n \in Len(got["in"]) + 1 .. put["in"] : got'["in"] = Seg(0, n))
<1>. USE DEF Shape
<1>0. PICK a, b, c \in Nat :
        /\ a <= b /\ b <= c /\ c <= put["in"]
        /\ got["in"] = Seg(0, a) /\ conn.inq = Seg(b, c) /\ wire.rx = Seg(c, put["in"])
        /\ ~Deaf => a = b
  BY DEF InStream, Deaf
<1>1. /\ conn'.inq = <<>> /\ conn'.flags = conn.flags /\ UNCHANGED <<wire, put>>
      /\ <<>> = Seg(c, c)
  BY SegEmpty DEF ConnRead, ConnRecords
<1>2. Deaf' <=> Deaf
  BY <1>1 DEF Deaf
<1>3. CASE Deaf
  <2>1. got' = got
    BY <1>3 DEF ConnRead, Deaf
  <2>2. /\ a <= c /\ c <= c /\ c <= put'["in"]
        /\ got'["in"] = Seg(0, a) /\ conn'.inq = Seg(c, c)
        /\ wire'.rx = Seg(c, put'["in"]) /\ Deaf'
    BY <1>0, <1>1, <1>2, <1>3, <2>1
  <2>3. InStream'
    BY <1>0, <2>2 DEF InStream, Deaf
  <2>. QED
    BY <2>1, <2>3
<1>4. CASE ~Deaf
  <2>1. got' = [got EXCEPT !["in"] = got["in"] \o conn.inq]
    BY <1>4 DEF ConnRead, Deaf
  <2>2. Seg(0, b) \o Seg(b, c) = Seg(0, c)
    <3>1. 0 \in Nat /\ 0 <= b
      OBVIOUS
    <3>. QED
      BY <1>0, <3>1, SegConcat
  <2>3. a = b /\ got'["in"] = Seg(0, c) /\ got'["out"] = got["out"]
    BY <1>0, <1>4, <2>1, <2>2
  <2>4. /\ c <= c /\ c <= put'["in"]
        /\ got'["in"] = Seg(0, c) /\ conn'.inq = Seg(c, c)
        /\ wire'.rx = Seg(c, put'["in"])
    BY <1>0, <1>1, <2>3
  <2>5. InStream'
    BY <1>0, <2>4 DEF InStream
  <2>6. ASSUME got' # got
        PROVE  \E n \in Len(got["in"]) + 1 .. put["in"] : got'["in"] = Seg(0, n)
    <3>1. b # c
      <4>1. ASSUME b = c PROVE FALSE
        <5>1. got'["in"] = got["in"]
          BY <1>0, <2>3, <4>1
        <5>. QED
          BY <2>1, <2>6, <5>1
      <4>. QED
        BY <4>1
    <3>2. 0 \in Nat /\ 0 <= a /\ a \in Nat
      BY <1>0
    <3>3. Len(got["in"]) = a - 0
      BY <1>0, <3>2, SegShape
    <3>4. c \in Len(got["in"]) + 1 .. put["in"]
      BY <1>0, <2>3, <3>1, <3>3
    <3>. QED
      BY <2>3, <3>4
  <2>. QED
    BY <2>3, <2>5, <2>6
<1>. QED
  BY <1>3, <1>4

LEMMA InNext ==
    ASSUME Shape, InStream, Ending, [SocketNext]_socketVars
    PROVE  InStream'
<1>. USE DEF Shape
<1>0. PICK a, b, c \in Nat :
        /\ a <= b /\ b <= c /\ c <= put["in"]
        /\ got["in"] = Seg(0, a) /\ conn.inq = Seg(b, c) /\ wire.rx = Seg(c, put["in"])
        /\ ~Deaf => a = b
  BY DEF InStream, Deaf
<1>1. \A i \in Nat : Seg(i, i) = <<>>
  BY SegEmpty
<1>2. put["in"] \in Nat /\ (Deaf => Deaf')
  BY DeafStays
<1>3. CASE ConnRead
  BY <1>3, InRead
<1>4. CASE ConnFinish
  <2>1. UNCHANGED <<got, put>> /\ conn'.inq = <<>> /\ wire'.rx = wire.rx
    BY <1>4 DEF ConnFinish, ConnRecords, WireRecords
  <2>2. Deaf
    BY <1>4 DEF ConnFinish, ConnHeld, Ending, Deaf
  <2>3. /\ a <= c /\ c <= c /\ c <= put'["in"]
        /\ got'["in"] = Seg(0, a) /\ conn'.inq = Seg(c, c)
        /\ wire'.rx = Seg(c, put'["in"]) /\ Deaf'
    BY <1>0, <1>1, <1>2, <2>1, <2>2
  <2>. QED
    BY <1>0, <2>3 DEF InStream, Deaf
<1>5. CASE SockReadv
  <2>0. UNCHANGED <<got, put>>
    BY <1>5 DEF SockReadv
  <2>1. CASE wire.rx # <<>>
    <3>1. conn'.inq = conn.inq \o wire.rx /\ wire'.rx = <<>>
      BY <1>5, <2>1 DEF SockReadv, SignalConn, ConnRecords, WireRecords
    <3>2. Seg(b, c) \o Seg(c, put["in"]) = Seg(b, put["in"])
      BY <1>0, <1>2, SegConcat
    <3>3. /\ a <= b /\ b <= put["in"] /\ put["in"] <= put'["in"]
          /\ got'["in"] = Seg(0, a) /\ conn'.inq = Seg(b, put["in"])
          /\ wire'.rx = Seg(put["in"], put'["in"]) /\ (~Deaf' => a = b)
      BY <1>0, <1>1, <1>2, <2>0, <3>1, <3>2
    <3>. QED
      BY <1>0, <1>2, <3>3 DEF InStream, Deaf
  <2>2. CASE wire.rx = <<>>
    <3>1. UNCHANGED <<conn, wire>>
      BY <1>5, <2>2 DEF SockReadv
    <3>. QED
      BY <1>2, <2>0, <3>1, InKept
  <2>. QED
    BY <2>1, <2>2
<1>6. CASE PeerSends
  <2>1. /\ UNCHANGED <<conn, got>> /\ put'["in"] = put["in"] + 1
        /\ wire'.rx = Append(wire.rx, put["in"] + 1)
    BY <1>6 DEF PeerSends, WireRecords
  <2>2. Append(Seg(c, put["in"]), put["in"] + 1) = Seg(c, put["in"] + 1)
    BY <1>0, <1>2, SegAppend
  <2>3. /\ a <= b /\ b <= c /\ c <= put'["in"]
        /\ got'["in"] = Seg(0, a) /\ conn'.inq = Seg(b, c)
        /\ wire'.rx = Seg(c, put'["in"]) /\ (~Deaf' => a = b)
    BY <1>0, <1>2, <2>1, <2>2
  <2>. QED
    BY <1>0, <2>3 DEF InStream, Deaf
<1>7. CASE ConnRun \/ ConnPush \/ ConnFlag \/ ConnAlarm \/ ConnAbort
  <2>1. UNCHANGED <<wire, put, got>> /\ conn'.inq = conn.inq
    BY <1>7
    DEF ConnRun, ConnPush, ConnFlag, ConnAlarm, ConnAbort, FailStatus, FailFlag, ConnRecords
  <2>. QED
    BY <1>2, <2>1, InKept
<1>8. CASE SockRun \/ SockMerge \/ SockWrite \/ SockAbort \/ SockFail \/ SockFinish
  <2>1. UNCHANGED <<wire, put, got>> /\ conn'.inq = conn.inq
    BY <1>8
    DEF SockRun, SockMerge, SockWrite, SockAbort, SockFail, SockFinish,
        FailStatus, FailFlag, SignalConn, ConnRecords
  <2>. QED
    BY <1>2, <2>1, InKept
<1>9. CASE SockWritev
  <2>1. UNCHANGED <<put, conn>> /\ got'["in"] = got["in"] /\ wire'.rx = wire.rx
    BY <1>9 DEF SockWritev, WireRecords
  <2>. QED
    BY <1>2, <2>1, InKept
<1>10. CASE MainStep \/ AppStep
  <2>1. /\ UNCHANGED <<wire, got>> /\ put'["in"] = put["in"]
        /\ conn'.inq = conn.inq
    BY <1>10
    DEF MainStep, Gateway, TimerFires, AppStep, AppSend, AppSetTimeout, AppWriteClose,
        AppStoreClose, AppFail, FailStatus, FailFlag, SignalConn, ConnRecords
  <2>. QED
    BY <1>2, <2>1, InKept
<1>11. CASE PeerConnects \/ PeerTakes \/ PeerLeaves
  <2>1. UNCHANGED <<conn, put, got>> /\ wire'.rx = wire.rx
    BY <1>11 DEF PeerConnects, PeerTakes, PeerLeaves, WireRecords
  <2>. QED
    BY <1>2, <2>1, InKept
<1>12. CASE UNCHANGED socketVars
  BY <1>2, <1>12, InKept DEF socketVars
<1>. QED
  BY <1>3, <1>4, <1>5, <1>6, <1>7, <1>8, <1>9, <1>10, <1>11, <1>12
  DEF SocketNext, ConnStep, SockStep, PeerStep

-----------------------------------------------------------------------------
(* How a connection ends, and the edges of epoll.                          *)

SocketRest == Ending /\ Writing /\ Edges

\* What Writing and Edges read.
LEMMA EdgesKept ==
    ASSUME Writing, Edges, sock' = sock, ev' = ev, wire'.rx = wire.rx,
           wire'.room = wire.room, wire'.peer = wire.peer
    PROVE  Writing' /\ Edges'
  BY DEF Writing, Edges, Alive

LEMMA ConnJobRest ==
    ASSUME Shape, SocketRest, ConnStep
    PROVE  SocketRest'
<1>. USE DEF Shape, SocketRest
<1>1. CASE ConnRun \/ ConnRead
  <2>1. /\ UNCHANGED <<sock, ev, app, wire>> /\ conn'.io = conn.io
        /\ conn'.pc \in {"idle", "read", "push"} /\ conn.pc # "freed"
        /\ conn'.sigs \subseteq conn.sigs
        /\ "ERROR" \in conn.flags <=> "ERROR" \in conn'.flags
        /\ "FAILED" \in conn.flags <=> "FAILED" \in conn'.flags
    <3>1. CASE ConnRun
      BY <3>1 DEF ConnRun, ConnRecords
    <3>2. CASE ConnRead
      BY <3>2 DEF ConnRead, ConnRecords
    <3>. QED
      BY <1>1, <3>1, <3>2
  <2>2. Ending'
    BY <2>1 DEF Ending
  <2>. QED
    BY <2>1, <2>2, EdgesKept
<1>2. CASE ConnPush
  <2>1. /\ UNCHANGED <<ev, app, wire>> /\ conn'.io = conn.io /\ conn'.sigs = conn.sigs
        /\ conn'.flags = conn.flags /\ conn.pc = "push"
        /\ conn'.pc \in {"idle", "flag"} /\ (conn'.pc = "flag" => conn.io)
    BY <1>2 DEF ConnPush, ConnRecords
  <2>2. /\ sock'.flags = sock.flags /\ sock'.sigs = sock.sigs /\ sock'.pc = sock.pc
        /\ sock'.out = sock.out /\ sock'.eagain = sock.eagain
    BY <1>2 DEF ConnPush, SockRecords
  <2>3. Ending'
    BY <2>1, <2>2 DEF Ending
  <2>4. Writing' /\ Edges'
    BY <2>1, <2>2 DEF Writing, Edges, Alive
  <2>. QED
    BY <2>3, <2>4
<1>3. CASE ConnFlag
  <2>1. /\ UNCHANGED <<ev, app, wire>> /\ conn'.io = conn.io /\ conn'.sigs = conn.sigs
        /\ conn'.flags = conn.flags /\ conn.pc = "flag" /\ conn'.pc = "idle"
    BY <1>3 DEF ConnFlag, ConnRecords
  <2>2. /\ sock'.flags \in {sock.flags, sock.flags \cup {"STOPWRITE"}}
        /\ sock'.sigs = sock.sigs \cup {"RUN"} /\ sock'.pc = sock.pc
        /\ sock'.out = sock.out /\ sock'.eagain = sock.eagain
    BY <1>3 DEF ConnFlag, SockRecords
  <2>3. /\ \A f \in SockFlags \ {"STOPWRITE"} : f \in sock'.flags <=> f \in sock.flags
        /\ "ABORT" \in sock'.sigs <=> "ABORT" \in sock.sigs
        /\ "RUN" \in sock'.sigs
    BY <2>2
  <2>4. Ending'
    BY <2>1, <2>2, <2>3 DEF Ending, SockFlags
  <2>5. Writing' /\ Edges'
    BY <2>1, <2>2, <2>3 DEF Writing, Edges, Alive, SockFlags
  <2>. QED
    BY <2>4, <2>5
<1>4. CASE ConnAlarm
  <2>. DEFINE c == [conn EXCEPT !.sigs = @ \ {"ALARM"}, !.timer = FALSE]
  <2>1. /\ c \in ConnRecords /\ c.io = conn.io /\ c.pc = conn.pc /\ c.flags = conn.flags
        /\ c.sigs \subseteq conn.sigs
    BY DEF ConnRecords
  <2>2. conn' = c \/ conn' = FailStatus(FailFlag(c))
    BY <1>4 DEF ConnAlarm
  <2>. HIDE DEF c
  <2>3. /\ UNCHANGED <<sock, ev, app, wire>> /\ conn'.io = conn.io /\ conn'.pc = conn.pc
        /\ conn'.flags \in {conn.flags, conn.flags \cup {"ERROR"}}
        /\ "ABORT" \in conn'.sigs => "ABORT" \in conn.sigs \/ "ERROR" \in conn'.flags
    <3>1. /\ FailStatus(FailFlag(c)).io = c.io /\ FailStatus(FailFlag(c)).pc = c.pc
          /\ FailStatus(FailFlag(c)).flags = c.flags \cup {"ERROR"}
      BY <2>1 DEF FailStatus, FailFlag, ConnRecords
    <3>2. UNCHANGED <<sock, ev, app, wire>>
      BY <1>4 DEF ConnAlarm
    <3>. QED
      BY <2>1, <2>2, <3>1, <3>2
  <2>4. Ending'
    BY <2>3 DEF Ending
  <2>. QED
    BY <2>3, <2>4, EdgesKept
<1>5. CASE ConnAbort
  <2>1. /\ UNCHANGED <<ev, app, wire>> /\ conn'.io = FALSE /\ conn'.pc = conn.pc
        /\ conn'.pc = "idle" /\ conn'.flags = conn.flags \cup {"FAILED"}
        /\ conn'.sigs \subseteq conn.sigs /\ "ERROR" \in conn.flags
    BY <1>5 DEF ConnAbort, ConnRecords, Ending
  <2>2. \/ sock' = sock
        \/ sock' = [sock EXCEPT !.sigs = @ \cup {"ABORT"}]
    BY <1>5 DEF ConnAbort, SignalSock
  <2>3. /\ sock'.flags = sock.flags /\ sock'.pc = sock.pc
        /\ sock'.sigs \in {sock.sigs, sock.sigs \cup {"ABORT"}}
        /\ sock'.out = sock.out /\ sock'.eagain = sock.eagain
    BY <2>2 DEF SockRecords
  <2>4. Ending'
    BY <2>1, <2>3 DEF Ending
  <2>5. "RUN" \in sock'.sigs <=> "RUN" \in sock.sigs
    BY <2>3
  <2>6. Writing' /\ Edges'
    BY <2>1, <2>3, <2>5 DEF Writing, Edges, Alive
  <2>. QED
    BY <2>4, <2>6
<1>6. CASE ConnFinish
  <2>1. /\ UNCHANGED <<sock, ev, app>> /\ conn'.io = conn.io /\ conn'.flags = conn.flags
        /\ conn'.sigs = conn.sigs /\ conn'.pc = "freed"
        /\ sock.pc = "freed" /\ app.pc = "idle"
        /\ wire'.fd = FALSE /\ wire'.rx = wire.rx /\ wire'.room = wire.room
        /\ wire'.peer = wire.peer
    BY <1>6 DEF ConnFinish, ConnHeld, ConnRecords, WireRecords
  <2>2. Ending'
    BY <2>1 DEF Ending
  <2>. QED
    BY <2>1, <2>2, EdgesKept
<1>. QED
  BY <1>1, <1>2, <1>3, <1>4, <1>5, <1>6 DEF ConnStep

LEMMA ReadLoopFields ==
    ASSUME NEW s \in SockRecords
    PROVE  LET r == ReadLoop(s)
           IN  /\ r \in SockRecords
               /\ r.sigs = s.sigs /\ r.out = s.out /\ r.eagain = s.eagain
               /\ r.pc \in {"readv", "merge"}
               /\ \A f \in SockFlags \ {"NORD"} : f \in r.flags <=> f \in s.flags
               /\ r.pc = "merge" => r.flags = s.flags
               /\ s.flags \cap {"WANTRD", "NORD", "STOPREAD", "ERROR", "NET_FAILED"}
                    = {"WANTRD"} => r.pc = "readv"
<1>1. CASE s.flags \cap {"WANTRD", "NORD", "STOPREAD", "ERROR", "NET_FAILED"} = {"WANTRD"}
  <2>1. ReadLoop(s) = [s EXCEPT !.flags = @ \cup {"NORD"}, !.pc = "readv"]
    BY <1>1 DEF ReadLoop
  <2>2. /\ ReadLoop(s).flags = s.flags \cup {"NORD"} /\ ReadLoop(s).pc = "readv"
        /\ ReadLoop(s).sigs = s.sigs /\ ReadLoop(s).out = s.out
        /\ ReadLoop(s).eagain = s.eagain
    BY <2>1 DEF SockRecords
  <2>. QED
    BY <1>1, <2>2, ReadLoopShape
<1>2. CASE ~(s.flags \cap {"WANTRD", "NORD", "STOPREAD", "ERROR", "NET_FAILED"} = {"WANTRD"})
  <2>1. ReadLoop(s) = [s EXCEPT !.pc = "merge"]
    BY <1>2 DEF ReadLoop
  <2>2. /\ ReadLoop(s).flags = s.flags /\ ReadLoop(s).pc = "merge"
        /\ ReadLoop(s).sigs = s.sigs /\ ReadLoop(s).out = s.out
        /\ ReadLoop(s).eagain = s.eagain
    BY <2>1 DEF SockRecords
  <2>. QED
    BY <1>2, <2>2, ReadLoopShape
<1>. QED
  BY <1>1, <1>2

LEMMA NetFailedFields ==
    ASSUME NEW s \in SockRecords
    PROVE  LET r == NetFailed(s)
           IN  /\ r \in SockRecords
               /\ r.sigs = s.sigs \cup {"ABORT"} /\ r.flags = s.flags \cup {"NET_FAILED"}
               /\ r.pc = "idle" /\ r.out = s.out /\ r.eagain = s.eagain
<1>1. NetFailed(s) = [s EXCEPT !.sigs = @ \cup {"ABORT"}, !.pc = "idle", !.stop = FALSE,
                        !.flags = @ \cup {"NET_FAILED"}]
  BY DEF NetFailed, SignalSock, SockRecords
<1>. QED
  BY <1>1, NetFailedShape DEF SockRecords

\* The end of the writer leaves every flag but C_WANTWR, or gives up.
LEMMA WriterEndsFields ==
    ASSUME NEW s \in SockRecords, NEW stop
    PROVE  LET r == WriterEnds(s, stop)
           IN  /\ r.pc = "idle" /\ r.out = s.out /\ r.eagain = s.eagain
               /\ \A f \in SockFlags \ {"WANTWR", "NET_FAILED"} :
                    f \in r.flags <=> f \in s.flags
               /\ "NET_FAILED" \in s.flags => "NET_FAILED" \in r.flags
               /\ \/ r.sigs = s.sigs
                  \/ r.sigs = s.sigs \cup {"ABORT"}
<1>. DEFINE u == [s EXCEPT !.flags = @ \ {"WANTWR"}, !.pc = "idle", !.stop = FALSE]
<1>1. /\ u \in SockRecords /\ u.flags = s.flags \ {"WANTWR"} /\ u.pc = "idle"
      /\ u.out = s.out /\ u.eagain = s.eagain /\ u.sigs = s.sigs
  BY DEF SockRecords
<1>2. WriterEnds(s, stop) = IF stop THEN NetFailed(u) ELSE u
  BY DEF WriterEnds
<1>. HIDE DEF u
<1>3. /\ NetFailed(u).sigs = s.sigs \cup {"ABORT"}
      /\ NetFailed(u).flags = (s.flags \ {"WANTWR"}) \cup {"NET_FAILED"}
      /\ NetFailed(u).pc = "idle" /\ NetFailed(u).out = s.out
      /\ NetFailed(u).eagain = s.eagain
  BY <1>1, NetFailedFields
<1>4. CASE stop
  BY <1>2, <1>3, <1>4
<1>5. CASE ~stop
  BY <1>1, <1>2, <1>5
<1>. QED
  BY <1>4, <1>5

LEMMA SockRunRest ==
    ASSUME Shape, SocketRest, SockRun
    PROVE  SocketRest'
<1>. USE DEF Shape, SocketRest
<1>. DEFINE s == [sock EXCEPT !.sigs = {}]
            r == [s EXCEPT !.flags = {"WANTRD", "CONNECTED"}]
<1>1. /\ s \in SockRecords /\ r \in SockRecords
      /\ s.flags = sock.flags /\ s.sigs = {} /\ s.pc = sock.pc
      /\ s.out = sock.out /\ s.eagain = sock.eagain
      /\ r.flags = {"WANTRD", "CONNECTED"} /\ r.sigs = {} /\ r.pc = sock.pc
      /\ r.out = sock.out /\ r.eagain = sock.eagain
  BY DEF SockRecords, SockFlags
<1>2. sock.pc = "idle" /\ sock.sigs = {"RUN"} /\ UNCHANGED <<ev, app, wire>>
  BY DEF SockRun
<1>3. CASE /\ "ERROR" \in sock.flags \/ sock.flags \cap {"CONNECTED", "NOWR"} = {"NOWR"}
           /\ sock' = s /\ UNCHANGED conn
  <2>1. Ending'
    BY <1>1, <1>2, <1>3 DEF Ending
  <2>2. ~Alive' /\ Writing'
    BY <1>1, <1>2, <1>3 DEF Writing, Alive
  <2>3. Edges'
    BY <1>1, <1>3, <2>2 DEF Edges
  <2>. QED
    BY <2>1, <2>2, <2>3
<1>4. CASE /\ "CONNECTED" \in sock.flags /\ "ERROR" \notin sock.flags
           /\ sock' = ReadLoop(s) /\ UNCHANGED conn
  <2>1. /\ sock'.sigs = {} /\ sock'.out = sock.out /\ sock'.eagain = sock.eagain
        /\ sock'.pc \in {"readv", "merge"}
        /\ \A f \in SockFlags \ {"NORD"} : f \in sock'.flags <=> f \in sock.flags
        /\ sock'.pc = "merge" => sock'.flags = sock.flags
        /\ sock.flags \cap {"WANTRD", "NORD", "STOPREAD", "ERROR", "NET_FAILED"}
             = {"WANTRD"} => sock'.pc = "readv"
    <3>. HIDE DEF s
    <3>. QED
      BY <1>1, <1>4, ReadLoopFields
  <2>2. Ending'
    BY <1>2, <1>4, <2>1 DEF Ending, SockFlags
  <2>3. Writing'
    BY <1>2, <1>4, <2>1 DEF Writing, SockFlags
  <2>4. Edges'
    <3>1. Alive' => ev.epoll /\ sock.flags \cap {"ERROR", "NET_FAILED"} = {} /\ Alive
      BY <1>2, <1>4, <2>1 DEF Alive, SockFlags
    <3>2. /\ "WANTRD" \in sock'.flags
          /\ \A f \in {"STOPREAD", "NOWR"} : f \in sock'.flags <=> f \in sock.flags
      BY <2>1 DEF Edges, SockFlags
    <3>3. ASSUME Alive', "STOPREAD" \notin sock'.flags, wire'.rx # <<>>
          PROVE  "IN" \in ev'.ready \/ sock'.pc = "readv"
      <4>1. \/ "IN" \in ev.ready
            \/ "NORD" \notin sock.flags
        BY <1>2, <3>1, <3>2, <3>3 DEF Edges
      <4>2. "NORD" \notin sock.flags =>
              sock.flags \cap {"WANTRD", "NORD", "STOPREAD", "ERROR", "NET_FAILED"}
                = {"WANTRD"}
        BY <3>1, <3>2, <3>3 DEF Edges
      <4>. QED
        BY <1>2, <2>1, <4>1, <4>2
    <3>4. ASSUME Alive', "NOWR" \in sock'.flags, wire'.peer = "up", wire'.room > 0
          PROVE  "OUT" \in ev'.ready
      BY <1>2, <3>1, <3>2, <3>4 DEF Edges
    <3>. QED
      BY <2>1, <3>2, <3>3, <3>4 DEF Edges
  <2>. QED
    BY <2>2, <2>3, <2>4
<1>5. CASE /\ ~("ERROR" \in sock.flags \/ sock.flags \cap {"CONNECTED", "NOWR"} = {"NOWR"})
           /\ ~("CONNECTED" \in sock.flags /\ "ERROR" \notin sock.flags)
           /\ sock' = ReadLoop(r)
           /\ conn' = [SignalConn(conn, "RUN") EXCEPT
                         !.flags = @ \cup {"READY_PENDING", "CONNECTED"}]
  <2>1. /\ sock'.sigs = {} /\ sock'.out = sock.out /\ sock'.eagain = sock.eagain
        /\ sock'.pc = "readv"
        /\ \A f \in SockFlags \ {"NORD"} : f \in sock'.flags <=> f \in {"WANTRD", "CONNECTED"}
    <3>1. r.flags \cap {"WANTRD", "NORD", "STOPREAD", "ERROR", "NET_FAILED"} = {"WANTRD"}
      BY <1>1
    <3>. HIDE DEF r
    <3>. QED
      BY <1>1, <1>5, <3>1, ReadLoopFields
  <2>2. /\ conn'.io = conn.io /\ conn'.pc = conn.pc /\ conn'.sigs = conn.sigs \cup {"RUN"}
        /\ conn'.flags = conn.flags \cup {"READY_PENDING", "CONNECTED"}
    BY <1>5 DEF SignalConn, ConnRecords
  <2>3. Ending'
    <3>1. /\ "ERROR" \notin sock.flags /\ "ERROR" \notin sock'.flags
      BY SMTT(40), <1>5, <2>1 DEF SockFlags
    <3>2. /\ "ERROR" \in conn'.flags <=> "ERROR" \in conn.flags
          /\ "FAILED" \in conn'.flags <=> "FAILED" \in conn.flags
          /\ "ABORT" \in conn'.sigs <=> "ABORT" \in conn.sigs
      BY <2>2
    <3>. QED
      BY <1>2, <2>1, <2>2, <3>1, <3>2 DEF Ending
  <2>4. Writing'
    BY <1>2, <1>5, <2>1 DEF Writing, SockFlags
  <2>5. Edges'
    BY <2>1 DEF Edges, SockFlags
  <2>. QED
    BY <2>3, <2>4, <2>5
<1>. QED
  BY <1>3, <1>4, <1>5 DEF SockRun

LEMMA SockReadvRest ==
    ASSUME Shape, SocketRest, SockReadv
    PROVE  SocketRest'
<1>. USE DEF Shape, SocketRest
<1>0. /\ sock.pc = "readv" /\ UNCHANGED <<ev, app>> /\ "CONNECTED" \in sock.flags
      /\ "ERROR" \notin sock.flags
  BY DEF SockReadv, Ending, Writing
<1>1. CASE wire.rx # <<>>
  <2>. DEFINE s == [sock EXCEPT !.flags = @ \ {"NORD"}]
  <2>1. /\ s \in SockRecords /\ s.flags = sock.flags \ {"NORD"} /\ s.sigs = sock.sigs
        /\ s.out = sock.out /\ s.eagain = sock.eagain
    BY DEF SockRecords
  <2>2. sock' = ReadLoop(s)
    BY <1>1 DEF SockReadv
  <2>3. /\ sock'.sigs = sock.sigs /\ sock'.out = sock.out /\ sock'.eagain = sock.eagain
        /\ sock'.pc \in {"readv", "merge"}
        /\ \A f \in SockFlags \ {"NORD"} : f \in sock'.flags <=> f \in sock.flags
    <3>. HIDE DEF s
    <3>. QED
      BY <2>1, <2>2, ReadLoopFields
  <2>4. /\ conn'.io = conn.io /\ conn'.pc = conn.pc /\ conn'.sigs = conn.sigs \cup {"RUN"}
        /\ conn'.flags = conn.flags
        /\ wire'.rx = <<>> /\ wire'.fd = wire.fd /\ wire'.peer = wire.peer
        /\ wire'.room = wire.room
    BY <1>1 DEF SockReadv, SignalConn, ConnRecords, WireRecords
  <2>5. Ending'
    <3>1. /\ "ERROR" \notin sock'.flags
          /\ "ABORT" \in conn'.sigs <=> "ABORT" \in conn.sigs
      BY <1>0, <2>3, <2>4 DEF SockFlags
    <3>. QED
      BY <1>0, <2>3, <2>4, <3>1 DEF Ending
  <2>6. Writing'
    BY <1>0, <2>3 DEF Writing, SockFlags
  <2>7. Edges'
    BY <1>0, <2>3, <2>4 DEF Edges, Alive, SockFlags
  <2>. QED
    BY <2>5, <2>6, <2>7
<1>2. CASE wire.rx = <<>> /\ sock' = [sock EXCEPT !.pc = "merge"] /\ UNCHANGED <<conn, wire>>
  <2>1. /\ sock'.flags = sock.flags /\ sock'.sigs = sock.sigs /\ sock'.pc = "merge"
        /\ sock'.out = sock.out /\ sock'.eagain = sock.eagain
    BY <1>2 DEF SockRecords
  <2>2. Ending' /\ Writing' /\ Edges'
    BY <1>0, <1>2, <2>1 DEF Ending, Writing, Edges, Alive
  <2>. QED
    BY <2>2
<1>3. CASE /\ wire.rx = <<>> /\ UNCHANGED <<conn, wire>>
           /\ sock' = [SignalSock(sock, "ABORT") EXCEPT
                         !.flags = @ \cup {"NET_FAILED"}, !.pc = "merge"]
  <2>1. /\ sock'.flags = sock.flags \cup {"NET_FAILED"} /\ sock'.pc = "merge"
        /\ sock'.out = sock.out /\ sock'.eagain = sock.eagain
    BY <1>3 DEF SockRecords, SignalSock
  <2>2. Ending' /\ Writing' /\ Edges'
    BY <1>0, <1>3, <2>1 DEF Ending, Writing, Edges, Alive
  <2>. QED
    BY <2>2
<1>. QED
  BY <1>1, <1>2, <1>3 DEF SockReadv

LEMMA SockMergeRest ==
    ASSUME Shape, SocketRest, SockMerge
    PROVE  SocketRest'
<1>. USE DEF Shape, SocketRest
<1>. DEFINE out == sock.out \o sock.pq
            fl  == IF out # <<>> THEN sock.flags \cup {"WANTWR"} ELSE sock.flags
<1>0. /\ sock.pc = "merge" /\ UNCHANGED <<conn, ev, app, wire>>
      /\ "CONNECTED" \in sock.flags /\ "ERROR" \notin sock.flags
  BY DEF SockMerge, Ending, Writing
<1>1. /\ sock'.out = out /\ sock'.flags = fl /\ sock'.sigs = sock.sigs
      /\ sock'.eagain = sock.eagain
      /\ sock'.pc = IF fl \cap {"NOWR", "ERROR", "WANTWR", "NET_FAILED"} = {"WANTWR"}
                    THEN "write" ELSE "idle"
  BY DEF SockMerge, SockRecords
<1>2. \A f \in SockFlags \ {"WANTWR"} : f \in fl <=> f \in sock.flags
  OBVIOUS
<1>3. out # <<>> => "WANTWR" \in fl
  OBVIOUS
<1>. HIDE DEF out, fl
<1>4. Ending'
  BY <1>0, <1>1, <1>2 DEF Ending, SockFlags
<1>5. Writing'
  BY <1>0, <1>1, <1>2 DEF Writing, SockFlags
<1>6. Edges'
  <2>1. Alive' => Alive /\ sock'.flags \cap {"ERROR", "NET_FAILED"} = {}
    BY <1>0, <1>1, <1>2 DEF Alive, SockFlags
  <2>2. Alive' /\ "NOWR" \notin sock'.flags /\ sock'.out # <<>> => sock'.pc = "write"
    BY <1>1, <1>3, <2>1
  <2>. QED
    BY <1>0, <1>1, <1>2, <2>1, <2>2 DEF Edges, SockFlags
<1>. QED
  BY <1>4, <1>5, <1>6

LEMMA SockWriteRest ==
    ASSUME Shape, SocketRest, SockWrite
    PROVE  SocketRest'
<1>. USE DEF Shape, SocketRest
<1>. DEFINE stop == sock.stop \/ "STOPWRITE" \in sock.flags
<1>0. /\ sock.pc = "write" /\ UNCHANGED <<conn, ev, app, wire>>
      /\ "CONNECTED" \in sock.flags /\ "NET_FAILED" \notin sock.flags
      /\ "ERROR" \notin sock.flags
  BY DEF SockWrite, Ending, Writing
<1>1. CASE sock.out = <<>> /\ sock' = WriterEnds(sock, stop)
  <2>1. /\ sock'.pc = "idle" /\ sock'.out = sock.out /\ sock'.eagain = sock.eagain
        /\ \A f \in SockFlags \ {"WANTWR", "NET_FAILED"} :
             f \in sock'.flags <=> f \in sock.flags
        /\ \/ sock'.sigs = sock.sigs
           \/ sock'.sigs = sock.sigs \cup {"ABORT"}
        /\ "NET_FAILED" \in sock.flags => "NET_FAILED" \in sock'.flags
    <3>. HIDE DEF stop
    <3>. QED
      BY <1>1, WriterEndsFields
  <2>2. /\ "ABORT" \notin sock'.sigs => "ABORT" \notin sock.sigs
        /\ "RUN" \in sock'.sigs <=> "RUN" \in sock.sigs
    BY <2>1
  <2>3. Ending'
    BY <1>0, <2>1 DEF Ending, SockFlags
  <2>4. Writing'
    BY <1>0, <2>1 DEF Writing, SockFlags
  <2>5. Alive' => Alive
    BY <1>0, <2>1, <2>2 DEF Alive, SockFlags
  <2>6. Edges'
    BY <1>0, <1>1, <2>1, <2>2, <2>5 DEF Edges, SockFlags
  <2>. QED
    BY <2>3, <2>4, <2>6
<1>2. CASE sock' = [sock EXCEPT !.stop = stop, !.flags = @ \cup {"NOWR"}, !.pc = "writev"]
  <2>1. /\ sock'.flags = sock.flags \cup {"NOWR"} /\ sock'.sigs = sock.sigs
        /\ sock'.pc = "writev" /\ sock'.out = sock.out /\ sock'.eagain = sock.eagain
    BY <1>2 DEF SockRecords
  <2>2. Ending' /\ Writing'
    BY <1>0, <2>1 DEF Ending, Writing
  <2>3. Alive' => Alive
    BY <1>0, <2>1 DEF Alive
  <2>4. Edges'
    BY <1>0, <2>1, <2>3 DEF Edges
  <2>. QED
    BY <2>2, <2>4
<1>. QED
  BY <1>1, <1>2 DEF SockWrite

LEMMA SockWritevRest ==
    ASSUME Shape, SocketRest, SockWritev
    PROVE  SocketRest'
<1>. USE DEF Shape, SocketRest
<1>0. /\ sock.pc = "writev" /\ UNCHANGED <<conn, ev, app>>
      /\ "CONNECTED" \in sock.flags /\ "NET_FAILED" \notin sock.flags
      /\ "ERROR" \notin sock.flags /\ MaxEagain \in Nat
      /\ sock.eagain \in Nat
  <2>1. MaxEagain \in Nat /\ sock.eagain \in 0 .. MaxEagain + 1
    BY SocketAssumption DEF SockRecords
  <2>2. sock.pc = "writev" /\ UNCHANGED <<conn, ev, app>>
    BY DEF SockWritev
  <2>3. /\ "CONNECTED" \in sock.flags /\ "NET_FAILED" \notin sock.flags
        /\ "ERROR" \notin sock.flags
    BY <2>2 DEF Ending, Writing
  <2>. QED
    BY <2>1, <2>2, <2>3
<1>1. ASSUME NEW n \in 1 .. Len(sock.out),
             wire' = [wire EXCEPT !.room = @ - n],
             LET s == [sock EXCEPT !.out = SubSeq(@, n + 1, Len(@)),
                         !.eagain = 0, !.flags = @ \ {"NOWR"}]
             IN  sock' = IF s.out = <<>> THEN WriterEnds(s, s.stop)
                         ELSE [s EXCEPT !.flags = @ \cup {"NOWR"}]
      PROVE  SocketRest'
  <2>. DEFINE s == [sock EXCEPT !.out = SubSeq(@, n + 1, Len(@)),
                      !.eagain = 0, !.flags = @ \ {"NOWR"}]
  <2>1. s \in SockRecords
    <3>1. SubSeq(sock.out, n + 1, Len(sock.out)) \in Seq(Nat)
      <4>1. /\ sock.out \in Seq(Nat) /\ Len(sock.out) \in Nat
            /\ \A i \in 1 .. Len(sock.out) : sock.out[i] \in Nat
        BY LenProperties DEF SockRecords
      <4>2. /\ n + 1 \in Int /\ Len(sock.out) \in Int
            /\ \A i \in n + 1 .. Len(sock.out) : i \in 1 .. Len(sock.out)
        BY <4>1
      <4>. QED
        BY <4>1, <4>2, SubSeqProperties
    <3>2. 0 \in 0 .. MaxEagain + 1
      BY <1>0
    <3>. QED
      BY <3>1, <3>2 DEF SockRecords
  <2>2. s.flags = sock.flags \ {"NOWR"} /\ s.sigs = sock.sigs /\ s.eagain = 0
        /\ s.pc = "writev"
    BY <1>0 DEF SockRecords
  <2>3. /\ wire'.rx = wire.rx /\ wire'.fd = wire.fd /\ wire'.peer = wire.peer
    BY <1>1 DEF WireRecords
  <2>4. \/ s.out = <<>> /\ sock' = WriterEnds(s, s.stop)
        \/ sock' = [s EXCEPT !.flags = @ \cup {"NOWR"}]
    BY <1>1
  <2>. HIDE DEF s
  <2>5. CASE s.out = <<>> /\ sock' = WriterEnds(s, s.stop)
    <3>1. /\ sock'.pc = "idle" /\ sock'.out = <<>> /\ sock'.eagain = 0
          /\ \A f \in SockFlags \ {"WANTWR", "NET_FAILED"} :
               f \in sock'.flags <=> f \in sock.flags \ {"NOWR"}
          /\ \/ sock'.sigs = sock.sigs
             \/ sock'.sigs = sock.sigs \cup {"ABORT"}
      BY <2>1, <2>2, <2>5, WriterEndsFields
    <3>2. /\ "ABORT" \notin sock'.sigs => "ABORT" \notin sock.sigs
          /\ "RUN" \in sock'.sigs <=> "RUN" \in sock.sigs
      BY <3>1
    <3>3. Ending'
      BY <1>0, <2>3, <3>1 DEF Ending, SockFlags
    <3>4. Writing'
      BY <1>0, <3>1 DEF Writing, SockFlags
    <3>5. Alive' => Alive
      BY <1>0, <3>1, <3>2 DEF Alive, SockFlags
    <3>6. Edges'
      BY <1>0, <2>3, <3>1, <3>2, <3>5 DEF Edges, SockFlags
    <3>. QED
      BY <3>3, <3>4, <3>6
  <2>6. CASE sock' = [s EXCEPT !.flags = @ \cup {"NOWR"}]
    <3>1. /\ sock'.pc = "writev" /\ sock'.eagain = 0 /\ sock'.sigs = sock.sigs
          /\ \A f \in SockFlags \ {"NOWR"} : f \in sock'.flags <=> f \in sock.flags
          /\ "NOWR" \in sock'.flags
      BY <2>1, <2>2, <2>6 DEF SockRecords
    <3>3. Ending'
      BY <1>0, <2>3, <3>1 DEF Ending, SockFlags
    <3>4. Writing'
      BY <1>0, <3>1 DEF Writing, SockFlags
    <3>5. Alive' => Alive
      BY <1>0, <3>1 DEF Alive, SockFlags
    <3>6. Edges'
      BY <1>0, <2>3, <3>1, <3>5 DEF Edges, SockFlags
    <3>. QED
      BY <3>3, <3>4, <3>6
  <2>. QED
    BY <2>4, <2>5, <2>6
<1>2. NetFailed(sock) \in SockRecords /\ NetFailed(sock).pc = "idle"
      /\ NetFailed(sock).flags = sock.flags \cup {"NET_FAILED"}
  BY NetFailedFields
<1>3. CASE /\ wire.peer = "syn" \/ (wire.peer = "up" /\ wire.room = 0)
           /\ sock' = IF sock.eagain + 1 > MaxEagain
                      THEN [NetFailed(sock) EXCEPT !.eagain = @ + 1]
                      ELSE [sock EXCEPT !.pc = "idle", !.stop = FALSE, !.eagain = @ + 1]
           /\ UNCHANGED <<wire, got>>
  <2>1. CASE sock.eagain + 1 > MaxEagain
    <3>1. sock'.pc = "idle" /\ sock'.flags = sock.flags \cup {"NET_FAILED"}
      BY <1>2, <1>3, <2>1 DEF SockRecords
    <3>2. Ending' /\ Writing' /\ Edges'
      BY <1>0, <1>3, <3>1 DEF Ending, Writing, Edges, Alive
    <3>. QED
      BY <3>2
  <2>2. CASE ~(sock.eagain + 1 > MaxEagain)
    <3>1. /\ sock'.pc = "idle" /\ sock'.flags = sock.flags /\ sock'.sigs = sock.sigs
          /\ sock'.out = sock.out /\ sock'.eagain = sock.eagain + 1
      BY <1>3, <2>2 DEF SockRecords
    <3>2. ~(sock'.eagain > MaxEagain)
      BY <1>0, <2>2, <3>1
    <3>3. Ending' /\ Writing'
      BY <1>0, <1>3, <3>1, <3>2 DEF Ending, Writing
    <3>4. Alive' => Alive
      BY <1>0, <3>1 DEF Alive
    <3>5. ~(wire'.peer = "up" /\ wire'.room > 0)
      BY <1>3
    <3>6. Edges'
      BY <1>0, <1>3, <3>1, <3>4, <3>5 DEF Edges
    <3>. QED
      BY <3>3, <3>6
  <2>. QED
    BY <2>1, <2>2
<1>4. CASE sock' = NetFailed(sock) /\ UNCHANGED <<wire, got>>
  <2>1. Ending' /\ Writing' /\ Edges'
    BY <1>0, <1>2, <1>4 DEF Ending, Writing, Edges, Alive
  <2>. QED
    BY <2>1
<1>. QED
  BY <1>1, <1>3, <1>4 DEF SockWritev

LEMMA SockEndRest ==
    ASSUME Shape, SocketRest, SockAbort \/ SockFail \/ SockFinish
    PROVE  SocketRest'
<1>. USE DEF Shape, SocketRest
<1>1. CASE SockAbort
  <2>1. /\ sock.pc = "idle" /\ sock'.flags = sock.flags \cup {"ERROR"}
        /\ sock'.pc = IF "ERROR" \in sock.flags THEN "idle" ELSE "fail"
        /\ sock'.eagain = sock.eagain
        /\ ev' = [data |-> FALSE, epoll |-> FALSE, ready |-> {}]
        /\ UNCHANGED <<conn, app, wire>>
    BY <1>1 DEF SockAbort, SockRecords
  <2>2. Ending' /\ Writing' /\ Edges'
    BY <2>1 DEF Ending, Writing, Edges, Alive
  <2>. QED
    BY <2>2
<1>2. CASE SockFail
  <2>1. /\ sock.pc \in {"fail", "status"} /\ sock'.flags = sock.flags
        /\ sock'.pc \in {"idle", "status"} /\ sock'.eagain = sock.eagain
        /\ UNCHANGED <<ev, app, wire>>
    BY <1>2 DEF SockFail, SockRecords
  <2>2. /\ conn'.io = conn.io /\ conn'.pc = conn.pc
        /\ conn'.flags = conn.flags \cup {"ERROR"}
    <3>1. sock.pc = "status" => "ERROR" \in conn.flags
      BY DEF Ending
    <3>2. FailFlag(conn).pc = conn.pc /\ FailStatus(conn).pc = conn.pc
      BY DEF FailFlag, FailStatus, ConnRecords
    <3>3. \/ sock.pc = "fail" /\ conn' = FailFlag(conn)
          \/ sock.pc = "status" /\ conn' = FailStatus(conn)
      BY <1>2 DEF SockFail
    <3>. QED
      BY <3>1, <3>2, <3>3, FlagFields
  <2>3. "ERROR" \in sock.flags
    BY <2>1 DEF Ending
  <2>4. Ending' /\ Writing' /\ Edges'
    BY <2>1, <2>2, <2>3 DEF Ending, Writing, Edges, Alive
  <2>. QED
    BY <2>4
<1>3. CASE SockFinish
  <2>1. /\ sock.pc = "idle" /\ sock'.flags = sock.flags /\ sock'.pc = "freed"
        /\ sock'.eagain = sock.eagain /\ ~ev.data /\ ~conn.io
        /\ UNCHANGED <<conn, ev, app, wire>>
    BY <1>3 DEF SockFinish, SockHeld, SockRecords
  <2>2. Ending' /\ Writing' /\ Edges'
    BY <2>1 DEF Ending, Writing, Edges, Alive
  <2>. QED
    BY <2>2
<1>. QED
  BY <1>1, <1>2, <1>3

\* The report of epoll: the flags that the event takes back, and the signal.
LEMMA GatewayRest ==
    ASSUME Shape, SocketRest, Gateway
    PROVE  SocketRest'
<1>. USE DEF Shape, SocketRest
<1>1. /\ ev'.data = ev.data /\ ev'.ready = {} /\ ev.epoll
      /\ ev'.epoll = ("HUP" \notin ev.ready)
      /\ UNCHANGED <<conn, app, wire>>
  BY DEF Gateway, EvRecords
<1>2. /\ sock'.pc = sock.pc /\ sock'.out = sock.out /\ sock'.eagain = sock.eagain
      /\ sock'.flags = sock.flags \ ((IF "IN" \in ev.ready THEN {"NORD"} ELSE {}) \cup
                                     (IF "OUT" \in ev.ready THEN {"NOWR"} ELSE {}))
      /\ sock'.sigs = sock.sigs \cup (IF "HUP" \in ev.ready THEN {"ABORT"} ELSE {"RUN"})
  BY DEF Gateway, SockRecords
<1>3. /\ \A f \in SockFlags \ {"NORD", "NOWR"} : f \in sock'.flags <=> f \in sock.flags
      /\ "NORD" \in sock'.flags <=> "NORD" \in sock.flags /\ "IN" \notin ev.ready
      /\ "NOWR" \in sock'.flags <=> "NOWR" \in sock.flags /\ "OUT" \notin ev.ready
  BY <1>2
<1>4. Ending'
  BY <1>1, <1>2, <1>3 DEF Ending, SockFlags
<1>5. Writing'
  BY <1>1, <1>2, <1>3 DEF Writing, SockFlags
<1>6. Alive' => Alive /\ "RUN" \in sock'.sigs
  BY <1>1, <1>2, <1>3 DEF Alive, SockFlags
<1>7. Edges'
  BY <1>1, <1>2, <1>3, <1>6 DEF Edges, SockFlags
<1>. QED
  BY <1>4, <1>5, <1>7

LEMMA OutsideRest ==
    ASSUME Shape, SocketRest, TimerFires \/ AppStep
    PROVE  SocketRest'
<1>. USE DEF Shape, SocketRest
<1>1. CASE TimerFires \/ AppSend \/ AppSetTimeout
  <2>1. /\ UNCHANGED <<sock, ev, app, wire>> /\ conn'.io = conn.io /\ conn'.pc = conn.pc
        /\ conn'.flags = conn.flags
        /\ "ABORT" \in conn'.sigs <=> "ABORT" \in conn.sigs
    <3>1. CASE TimerFires
      BY <3>1 DEF TimerFires, SignalConn, ConnRecords
    <3>2. CASE AppSend
      <4>1. /\ UNCHANGED <<sock, ev, app, wire>>
            /\ conn' = [SignalConn(conn, "RUN") EXCEPT
                          !.outq = Append(@, put["out"] + 1)]
        BY <3>2 DEF AppSend
      <4>2. conn'.sigs = conn.sigs \cup {"RUN"} /\ conn'.io = conn.io
            /\ conn'.pc = conn.pc /\ conn'.flags = conn.flags
        BY <4>1 DEF SignalConn, ConnRecords
      <4>. QED
        BY <4>1, <4>2
    <3>3. CASE AppSetTimeout
      BY <3>3 DEF AppSetTimeout, ConnRecords
    <3>. QED
      BY <1>1, <3>1, <3>2, <3>3
  <2>2. Ending'
    BY <2>1 DEF Ending
  <2>. QED
    BY <2>1, <2>2, EdgesKept
<1>2. CASE AppWriteClose
  <2>1. /\ UNCHANGED <<ev, wire>> /\ conn'.io = conn.io /\ conn'.pc = conn.pc
        /\ conn.pc # "freed" /\ conn'.sigs = conn.sigs
        /\ conn'.flags = conn.flags \cup {"STOPREAD"}
    BY <1>2 DEF AppWriteClose, AppMayCall, ConnRecords
  <2>2. /\ sock'.pc = sock.pc /\ sock'.out = sock.out /\ sock'.eagain = sock.eagain
        /\ sock'.sigs = sock.sigs
        /\ sock'.flags \in {sock.flags, sock.flags \cup {"STOPREAD"}}
    BY <1>2 DEF AppWriteClose, SockRecords
  <2>3. \A f \in SockFlags \ {"STOPREAD"} : f \in sock'.flags <=> f \in sock.flags
    BY <2>2
  <2>4. Ending'
    BY <2>1, <2>2, <2>3 DEF Ending, SockFlags
  <2>5. Writing'
    BY <2>2, <2>3 DEF Writing, SockFlags
  <2>6. (Alive' => Alive) /\ ("STOPREAD" \notin sock'.flags => "STOPREAD" \notin sock.flags)
    BY <2>1, <2>2, <2>3 DEF Alive, SockFlags
  <2>7. Edges'
    BY <2>1, <2>2, <2>3, <2>6 DEF Edges, SockFlags
  <2>. QED
    BY <2>4, <2>5, <2>7
<1>3. CASE AppStoreClose
  <2>1. /\ UNCHANGED <<sock, ev, wire>> /\ conn'.io = conn.io /\ conn'.pc = conn.pc
        /\ app.pc = "close" /\ conn'.flags = conn.flags
        /\ "ABORT" \in conn'.sigs <=> "ABORT" \in conn.sigs
    BY <1>3 DEF AppStoreClose, SignalConn, ConnRecords
  <2>2. Ending'
    BY <2>1 DEF Ending
  <2>. QED
    BY <2>1, <2>2, EdgesKept
<1>4. CASE AppFail
  <2>1. /\ UNCHANGED <<sock, ev, app, wire>> /\ conn'.io = conn.io /\ conn'.pc = conn.pc
        /\ conn'.flags = conn.flags \cup {"ERROR"}
    BY <1>4 DEF AppFail, FailFlag, FailStatus, ConnRecords
  <2>2. Ending'
    BY <2>1 DEF Ending
  <2>. QED
    BY <2>1, <2>2, EdgesKept
<1>. QED
  BY <1>1, <1>2, <1>3, <1>4 DEF AppStep

\* What changes at the peer is reported as long as the descriptor is in epoll.
LEMMA PeerRest ==
    ASSUME Shape, SocketRest, PeerStep
    PROVE  SocketRest'
<1>. USE DEF Shape, SocketRest
<1>1. /\ UNCHANGED <<conn, sock, app>> /\ wire'.fd = wire.fd
      /\ ev'.data = ev.data /\ ev'.epoll = ev.epoll /\ ev.ready \subseteq ev'.ready
  BY DEF PeerStep, PeerConnects, PeerSends, PeerTakes, PeerLeaves, Report,
         EvRecords, WireRecords
<1>2. wire'.rx # wire.rx /\ ev.epoll => "IN" \in ev'.ready
  BY DEF PeerStep, PeerConnects, PeerSends, PeerTakes, PeerLeaves, Report,
         EvRecords, WireRecords
<1>3. ASSUME wire'.peer = "up", wire'.room > 0, ev.epoll,
             ~(wire.peer = "up" /\ wire.room > 0)
      PROVE  "OUT" \in ev'.ready
  <2>1. CASE PeerConnects \/ PeerTakes
    BY <1>3, <2>1 DEF PeerConnects, PeerTakes, Report, EvRecords
  <2>2. CASE PeerSends
    <3>1. wire'.peer = wire.peer /\ wire'.room = wire.room
      BY <2>2 DEF PeerSends, WireRecords
    <3>. QED
      BY <1>3, <3>1
  <2>3. CASE PeerLeaves
    BY <1>3, <2>3 DEF PeerLeaves, WireRecords
  <2>. QED
    BY <2>1, <2>2, <2>3 DEF PeerStep
<1>4. Ending' /\ Writing'
  BY <1>1 DEF Ending, Writing
<1>5. Alive' => Alive /\ ev.epoll
  BY <1>1 DEF Alive
<1>6. Edges'
  BY <1>1, <1>2, <1>3, <1>5 DEF Edges
<1>. QED
  BY <1>4, <1>6

-----------------------------------------------------------------------------
(* The invariant.                                                          *)

LEMMA SocketInvInit ==
    ASSUME SocketInit
    PROVE  SocketInv
<1>1. Shape
  BY ShapeInit
<1>2. PICK outbound \in BOOLEAN :
        /\ conn = NewConn(outbound) /\ sock = NewSocket(outbound)
        /\ wire = [rx |-> <<>>, room |-> MaxRoom, fd |-> TRUE,
                   peer |-> IF outbound THEN "syn" ELSE "up"]
        /\ ev = [data |-> TRUE, epoll |-> TRUE,
                 ready |-> IF outbound THEN {} ELSE {"OUT"}]
        /\ put = [d \in {"out", "in"} |-> 0]
        /\ got = [d \in {"out", "in"} |-> <<>>]
  BY DEF SocketInit
<1>3. Seg(0, 0) = <<>> /\ 0 \in Nat
  BY SegEmpty
<1>4. OutStream
  <2>1. /\ got["out"] = <<>> /\ put["out"] = 0 /\ sock.out = <<>> /\ sock.pq = <<>>
        /\ conn.outq = <<>>
    BY <1>2 DEF NewConn, NewSocket
  <2>. QED
    BY <1>3, <2>1 DEF OutStream
<1>5. InStream
  <2>1. /\ got["in"] = <<>> /\ put["in"] = 0 /\ conn.inq = <<>> /\ wire.rx = <<>>
    BY <1>2 DEF NewConn
  <2>. QED
    BY <1>3, <2>1 DEF InStream
<1>6. /\ conn.pc = "idle" /\ conn.io /\ conn.sigs = {} /\ "FAILED" \notin conn.flags
      /\ sock.pc = "idle" /\ sock.sigs = {} /\ sock.out = <<>> /\ sock.eagain = 0
      /\ "WANTRD" \in sock.flags
      /\ sock.flags \cap {"ERROR", "NOWR", "NORD", "NET_FAILED"} = {}
      /\ wire.fd /\ wire.rx = <<>> /\ ev.data
  BY <1>2 DEF NewConn, NewSocket
<1>7. MaxEagain \in Nat
  BY SocketAssumption
<1>8. Ending /\ Writing /\ Edges
  BY <1>6, <1>7 DEF Ending, Writing, Edges
<1>. QED
  BY <1>1, <1>4, <1>5, <1>8 DEF SocketInv

LEMMA SocketInvNext ==
    ASSUME SocketInv, [SocketNext]_socketVars
    PROVE  SocketInv'
<1>1. Shape' /\ OutStream' /\ InStream'
  BY ShapeNext, OutNext, InNext DEF SocketInv
<1>2. SocketRest'
  <2>1. Shape /\ SocketRest
    BY DEF SocketInv, SocketRest
  <2>2. CASE SockStep
    BY <2>1, <2>2, SockRunRest, SockReadvRest, SockMergeRest, SockWriteRest,
       SockWritevRest, SockEndRest DEF SockStep
  <2>3. CASE ConnStep \/ MainStep \/ AppStep \/ PeerStep
    BY <2>1, <2>3, ConnJobRest, GatewayRest, OutsideRest, PeerRest DEF MainStep
  <2>4. CASE UNCHANGED socketVars
    BY <2>1, <2>4 DEF socketVars, SocketRest, Ending, Writing, Edges, Alive
  <2>. QED
    BY <2>2, <2>3, <2>4 DEF SocketNext
<1>. QED
  BY <1>1, <1>2 DEF SocketInv, SocketRest

\* The inductive invariant holds of every behaviour, whatever the numbers of
\* messages, the room in the kernel and the limit of EAGAINs.
THEOREM SocketInvariant == SocketSpec => []SocketInv
<1>. QED
  BY SocketInvInit, SocketInvNext, PTL DEF SocketSpec

LEMMA SegBounded ==
    ASSUME NEW i \in Nat, NEW j \in Nat, NEW n \in Nat, i <= j, j <= n
    PROVE  Seg(i, j) \in SeqUpto(n)
<1>1. j - i \in 0 .. n
  OBVIOUS
<1>2. Seg(i, j) \in [1 .. j - i -> 1 .. n]
  <2>1. \A k \in 1 .. j - i : i + k \in 1 .. n
    OBVIOUS
  <2>. QED
    BY <2>1 DEF Seg
<1>. QED
  BY <1>1, <1>2 DEF SeqUpto

\* The type invariant, from the places of the messages.
LEMMA RecordsTyped == SocketInv => SocketTypeOK
<1>. SUFFICES ASSUME SocketInv PROVE SocketTypeOK
  OBVIOUS
<1>0. Shape /\ MaxOut \in Nat /\ MaxIn \in Nat
  BY SocketAssumption DEF SocketInv
<1>1. PICK a, b, c, d \in Nat :
        /\ a <= b /\ b <= c /\ c <= d /\ d <= put["out"]
        /\ got["out"] = Seg(0, a) /\ sock.out = Seg(a, b) /\ sock.pq = Seg(b, c)
        /\ conn.outq = Seg(d, put["out"])
  BY DEF SocketInv, OutStream
<1>2. PICK e, f, g \in Nat :
        /\ e <= f /\ f <= g /\ g <= put["in"]
        /\ got["in"] = Seg(0, e) /\ conn.inq = Seg(f, g) /\ wire.rx = Seg(g, put["in"])
  BY DEF SocketInv, InStream
<1>3. /\ put["out"] \in Nat /\ put["in"] \in Nat
      /\ put["out"] <= MaxOut /\ put["in"] <= MaxIn
  BY <1>0 DEF Shape
<1>4. \A i, j \in Nat : /\ i <= j /\ j <= MaxOut => Seg(i, j) \in SeqUpto(MaxOut)
                        /\ i <= j /\ j <= MaxIn => Seg(i, j) \in SeqUpto(MaxIn)
  BY <1>0, SegBounded
<1>5. /\ 0 \in Nat /\ 0 <= a /\ a <= MaxOut /\ b <= MaxOut /\ c <= MaxOut
      /\ d <= put["out"]
      /\ 0 <= e /\ e <= MaxIn /\ g <= MaxIn
  BY <1>0, <1>1, <1>2, <1>3
<1>6. /\ got["out"] \in SeqUpto(MaxOut) /\ sock.out \in SeqUpto(MaxOut)
      /\ sock.pq \in SeqUpto(MaxOut) /\ conn.outq \in SeqUpto(MaxOut)
  BY <1>1, <1>3, <1>4, <1>5
<1>7. /\ got["in"] \in SeqUpto(MaxIn) /\ conn.inq \in SeqUpto(MaxIn)
      /\ wire.rx \in SeqUpto(MaxIn)
  BY <1>2, <1>3, <1>4, <1>5
<1>8. ConnOK
  BY <1>0, <1>6, <1>7 DEF ConnOK, Shape, ConnRecords
<1>9. SockOK
  BY <1>0, <1>6 DEF SockOK, Shape, SockRecords
<1>10. put["out"] \in 0 .. MaxOut /\ put["in"] \in 0 .. MaxIn
  BY <1>0, <1>3
<1>. QED
  BY <1>0, <1>6, <1>7, <1>8, <1>9, <1>10
  DEF SocketTypeOK, Shape, EvRecords, AppRecords, WireRecords

\* The records keep their types: queues of at most MaxOut or MaxIn messages, and
\* never more than MaxEagain + 1 EAGAINs in a row.
THEOREM SocketTypes == SocketSpec => []SocketTypeOK
<1>. QED
  BY RecordsTyped, SocketInvariant, PTL

\* readv, writev and epoll's edges: no order of the socket job's steps, the
\* reports and the peer leaves input or room that nobody will look at.
THEOREM EveryEdgeSeen == SocketSpec => []NoLostEdge
<1>1. SocketInv => NoLostEdge
  <2>. SUFFICES ASSUME SocketInv,
                       sock.pc = "idle", sock.sigs = {}, ev.epoll, ev.ready = {},
                       sock.flags \cap {"ERROR", "NET_FAILED"} = {},
                       "CONNECTED" \in sock.flags
                PROVE  /\ "STOPREAD" \notin sock.flags => wire.rx = <<>>
                       /\ sock.out # <<>> => wire.room = 0 \/ wire.peer # "up"
    BY DEF NoLostEdge
  <2>1. Alive
    BY DEF Alive
  <2>2. "STOPREAD" \notin sock.flags => wire.rx = <<>>
    BY <2>1 DEF SocketInv, Edges
  <2>3. sock.out # <<>> => "NOWR" \in sock.flags
    BY <2>1 DEF SocketInv, Edges
  <2>4. wire.room \in Nat
    BY SocketAssumption DEF SocketInv, Shape, WireRecords
  <2>5. "NOWR" \in sock.flags => ~(wire.peer = "up" /\ wire.room > 0)
    BY <2>1 DEF SocketInv, Edges
  <2>. QED
    BY <2>2, <2>3, <2>4, <2>5
<1>. QED
  BY <1>1, SocketInvariant, PTL

LEMMA EndsClean == SocketInv => FreedClean
BY DEF SocketInv, Ending, FreedClean

\* The assertions of the free functions hold whatever thread fails the connection
\* and in whatever order the references go.
THEOREM FreedAfterClosed == SocketSpec => []FreedClean
<1>. QED
  BY EndsClean, SocketInvariant, PTL

-----------------------------------------------------------------------------
(* The refinement.                                                         *)

LEMMA SegIsUpto ==
    ASSUME NEW n \in Nat
    PROVE  Seg(0, n) = Stream!Upto(n)
<1>1. n - 0 = n /\ \A k \in 1 .. n : 0 + k = k
  OBVIOUS
<1>. QED
  BY <1>1 DEF Seg, Stream!Upto

streamVars == <<put, got, "ERROR" \in conn.flags, wire.fd>>

LEMMA StreamInit ==
    ASSUME SocketInit
    PROVE  Stream!Init
<1>1. PICK outbound \in BOOLEAN :
        /\ conn = NewConn(outbound)
        /\ wire = [rx |-> <<>>, room |-> MaxRoom, fd |-> TRUE,
                   peer |-> IF outbound THEN "syn" ELSE "up"]
        /\ put = [d \in {"out", "in"} |-> 0]
        /\ got = [d \in {"out", "in"} |-> <<>>]
  BY DEF SocketInit
<1>2. "ERROR" \notin conn.flags /\ wire.fd = TRUE
  BY <1>1 DEF NewConn
<1>. QED
  BY <1>1, <1>2 DEF Stream!Init, Stream!Directions

\* A delivery of the stream d.
LEMMA DeliverStep ==
    ASSUME Shape, NEW d \in {"out", "in"}, got' # got,
           \A e \in {"out", "in"} \ {d} : got'[e] = got[e],
           got' \in [{"out", "in"} -> Seq(Nat)],
           \E n \in Len(got[d]) + 1 .. put[d] : got'[d] = Seg(0, n),
           wire.fd = TRUE, UNCHANGED <<put, "ERROR" \in conn.flags, wire.fd>>
    PROVE  Stream!Next
<1>1. PICK n \in Len(got[d]) + 1 .. put[d] : got'[d] = Seg(0, n)
  OBVIOUS
<1>2. n \in Nat
  <2>1. Len(got[d]) \in Nat /\ put[d] \in Nat
    BY LenProperties DEF Shape
  <2>. QED
    BY <2>1
<1>3. got' = [got EXCEPT ![d] = Stream!Upto(n)]
  <2>1. got'[d] = Stream!Upto(n)
    BY <1>1, <1>2, SegIsUpto
  <2>. QED
    BY <2>1 DEF Shape
<1>4. Stream!Deliver(d)
  BY <1>3 DEF Stream!Deliver
<1>. QED
  BY <1>4 DEF Stream!Next, Stream!Directions

\* A step that moves no message and keeps the descriptor is a failure or nothing.
LEMMA StreamQuiet ==
    ASSUME Shape, [SocketNext]_socketVars, UNCHANGED <<put, got, wire.fd>>
    PROVE  [Stream!Next]_streamVars
<1>1. "ERROR" \in conn.flags => "ERROR" \in conn'.flags
  BY DeafStays
<1>2. CASE "ERROR" \in conn'.flags /\ "ERROR" \notin conn.flags
  BY <1>2 DEF Stream!Fail, Stream!Next
<1>3. CASE ("ERROR" \in conn'.flags) <=> ("ERROR" \in conn.flags)
  BY <1>3 DEF streamVars
<1>. QED
  BY <1>1, <1>2, <1>3

\* Every step of the connection is a step of the two streams, or leaves them as
\* they are.
LEMMA StreamNext ==
    ASSUME SocketInv, [SocketNext]_socketVars
    PROVE  [Stream!Next]_streamVars
<1>0. Shape /\ OutStream /\ InStream /\ Ending
  BY DEF SocketInv
<1>. USE DEF Shape
<1>1. CASE ConnRead
  <2>1. /\ UNCHANGED <<put, wire>> /\ conn'.flags = conn.flags /\ conn.pc = "read"
    BY <1>0, <1>1 DEF ConnRead, ConnRecords
  <2>2. CASE got' = got
    BY <1>0, <2>1, <2>2, StreamQuiet
  <2>3. CASE got' # got
    <3>1. /\ got'["out"] = got["out"]
          /\ \E n \in Len(got["in"]) + 1 .. put["in"] : got'["in"] = Seg(0, n)
      BY <1>0, <1>1, <2>3, InRead
    <3>2. got' \in [{"out", "in"} -> Seq(Nat)]
      BY <1>0, ShapeNext DEF SocketInv
    <3>3. wire.fd = TRUE
      BY <1>0, <2>1 DEF Ending, WireRecords
    <3>. QED
      BY <1>0, <2>1, <2>3, <3>1, <3>2, <3>3, DeliverStep
  <2>. QED
    BY <2>2, <2>3
<1>2. CASE SockWritev
  <2>1. UNCHANGED <<put, conn>> /\ wire'.fd = wire.fd /\ sock.pc = "writev"
    BY <1>0, <1>2 DEF SockWritev, WireRecords
  <2>2. CASE got' = got
    BY <1>0, <2>1, <2>2, StreamQuiet
  <2>3. CASE got' # got
    <3>1. /\ got'["in"] = got["in"]
          /\ \E n \in Len(got["out"]) + 1 .. put["out"] : got'["out"] = Seg(0, n)
      BY <1>0, <1>2, <2>3, OutWritten
    <3>2. got' \in [{"out", "in"} -> Seq(Nat)]
      BY <1>0, ShapeNext DEF SocketInv
    <3>3. wire.fd = TRUE
      BY <1>0, <2>1 DEF Ending, WireRecords
    <3>. QED
      BY <1>0, <2>1, <2>3, <3>1, <3>2, <3>3, DeliverStep
  <2>. QED
    BY <2>2, <2>3
<1>3. CASE ConnFinish
  <2>1. /\ UNCHANGED <<put, got>> /\ conn'.flags = conn.flags /\ wire'.fd = FALSE
        /\ conn.pc = "idle" /\ sock.pc = "freed"
    BY <1>0, <1>3 DEF ConnFinish, ConnHeld, ConnRecords, WireRecords
  <2>2. wire.fd = TRUE /\ "ERROR" \in conn.flags
    BY <1>0, <2>1 DEF Ending, WireRecords
  <2>3. Stream!Close
    BY <2>1, <2>2 DEF Stream!Close
  <2>. QED
    BY <2>3 DEF Stream!Next
<1>4. CASE AppSend
  <2>1. /\ UNCHANGED <<got, wire>> /\ conn'.flags = conn.flags
        /\ put' = [put EXCEPT !["out"] = @ + 1]
    <3>1. conn' = [SignalConn(conn, "RUN") EXCEPT !.outq = Append(@, put["out"] + 1)]
      BY <1>4 DEF AppSend
    <3>2. conn'.flags = conn.flags
      BY <1>0, <3>1 DEF SignalConn, ConnRecords
    <3>. QED
      BY <1>4, <3>2 DEF AppSend
  <2>2. Stream!Put("out")
    BY <2>1 DEF Stream!Put
  <2>. QED
    BY <2>2 DEF Stream!Next, Stream!Directions
<1>5. CASE PeerSends
  <2>1. /\ UNCHANGED <<got, conn>> /\ wire'.fd = wire.fd
        /\ put' = [put EXCEPT !["in"] = @ + 1]
    BY <1>0, <1>5 DEF PeerSends, WireRecords
  <2>2. Stream!Put("in")
    BY <2>1 DEF Stream!Put
  <2>. QED
    BY <2>2 DEF Stream!Next, Stream!Directions
<1>6. CASE ConnRun \/ ConnPush \/ ConnFlag \/ ConnAlarm \/ ConnAbort
  <2>1. UNCHANGED <<put, got, wire>>
    BY <1>6 DEF ConnRun, ConnPush, ConnFlag, ConnAlarm, ConnAbort
  <2>. QED
    BY <1>0, <2>1, StreamQuiet
<1>7. CASE SockRun \/ SockReadv \/ SockMerge \/ SockWrite \/ SockAbort
           \/ SockFail \/ SockFinish
  <2>1. UNCHANGED <<put, got>> /\ wire'.fd = wire.fd
    BY <1>0, <1>7 DEF SockRun, SockReadv, SockMerge, SockWrite, SockAbort,
                      SockFail, SockFinish, WireRecords
  <2>. QED
    BY <1>0, <2>1, StreamQuiet
<1>8. CASE MainStep \/ AppSetTimeout \/ AppWriteClose \/ AppStoreClose \/ AppFail
  <2>1. UNCHANGED <<put, got, wire>>
    BY <1>8 DEF MainStep, Gateway, TimerFires, AppSetTimeout, AppWriteClose,
                AppStoreClose, AppFail
  <2>. QED
    BY <1>0, <2>1, StreamQuiet
<1>9. CASE PeerConnects \/ PeerTakes \/ PeerLeaves
  <2>1. UNCHANGED <<put, got>> /\ wire'.fd = wire.fd
    BY <1>0, <1>9 DEF PeerConnects, PeerTakes, PeerLeaves, WireRecords
  <2>. QED
    BY <1>0, <2>1, StreamQuiet
<1>10. CASE UNCHANGED socketVars
  <2>1. UNCHANGED <<put, got, wire>>
    BY <1>10 DEF socketVars
  <2>. QED
    BY <1>0, <2>1, StreamQuiet
<1>. QED
  BY <1>1, <1>2, <1>3, <1>4, <1>5, <1>6, <1>7, <1>8, <1>9, <1>10
  DEF SocketNext, ConnStep, SockStep, AppStep, PeerStep

\* The jobs, the queues between them, the readv and writev calls and the event loop
\* implement two streams: messages come out in order and once, only while the
\* descriptor is open, and it is closed once, after the connection has failed.
THEOREM StreamImplemented == SocketSpec => StreamSpec
<1>1. SocketInit => Stream!Init
  BY StreamInit
<1>2. SocketInv /\ [SocketNext]_socketVars
      => [Stream!Next]_<<put, got, "ERROR" \in conn.flags, wire.fd>>
  BY StreamNext DEF streamVars
<1>. QED
  BY <1>1, <1>2, SocketInvariant, PTL DEF SocketSpec, StreamSpec, Stream!Spec
=============================================================================
