-------------------------- MODULE ExtForwardProofs --------------------------
(***************************************************************************)
(* Proofs about ExtForward, for any descriptors and any number of          *)
(* connections and packets.                                                *)
(***************************************************************************)
EXTENDS MCExtForward, WellFoundedInduction, TLAPS

Active(g) == state[g] \notin {"unused", "freed"}

\* TypeOK without ConnLRU: nothing else depends on the order of that list.
Typed ==
    /\ kind \in [Gens -> {"none", "client", "dc"}]
    /\ fd \in [Gens -> Fds \cup {0}]
    /\ state \in [Gens -> {"unused", "open", "error", "failed", "freed"}]
    /\ sockUp \in [Gens -> BOOLEAN]
    /\ tag \in [Gens -> BOOLEAN]
    /\ engine \in Seq(Jobs)
    /\ events \in Seq({"ready", "close"} \X Gens)
    /\ table \in [Fds -> Exts]
    /\ lastId \in [Fds -> Nat]
    /\ asked \subseteq Queries
    /\ answered \subseteq Gens \X Gens
    /\ evicted \subseteq Gens \X Gens
    /\ \A g \in Gens : Active(g) => fd[g] \in Fds

\* A socket without C_ERROR belongs to a connection in use.
ActiveSocks == \A g \in Gens : sockUp[g] => Active(g)

\* Jobs and events keep the connections they refer to from being freed.
RefsActive ==
    /\ \A i \in DOMAIN engine : engine[i].op # "notify" => Active(engine[i].conn)
    /\ \A i \in DOMAIN events : Active(events[i][2])

CloseAfter(i, g) == \E j \in DOMAIN events : j > i /\ events[j] = <<"close", g>>

\* Only middle-end connections in use are announced; when one has failed, its
\* close event is still to come.
TagsPending ==
    \A g \in Gens : tag[g] => /\ kind[g] = "dc"
                              /\ Active(g)
                              /\ state[g] = "failed" => CloseAfter(0, g)

\* The ready event of a failed connection is followed by its close event.
ReadyThenClose ==
    \A i \in DOMAIN events :
        events[i][1] = "ready" /\ state[events[i][2]] = "failed" =>
            CloseAfter(i, events[i][2])

\* Connections in use have descriptors of their own.
FdsDistinct ==
    \A g, h \in Gens : Active(g) /\ Active(h) /\ fd[g] = fd[h] => g = h

\* An ext_connection stands in the slot of its client's descriptor.
RouteOrigin ==
    \A f \in Fds : table[f] # NoExt => /\ fd[table[f].inGen] = f
                                       /\ state[table[f].inGen] # "unused"

\* The ids of a slot that are not used yet have not been told to anybody.
AskedIds == \A q \in asked : q.id <= lastId[q.slot]

\* A middle-end only speaks of what it was asked.
JobsAsked ==
    \A i \in DOMAIN engine :
        engine[i].op \in {"ans", "ack", "close"} =>
            \E q \in asked : /\ q.dc = engine[i].conn /\ q.slot = engine[i].slot
                             /\ q.id = engine[i].id /\ q.by = engine[i].by

\* Queries of another connection go out under an ext_connection only when
\* the connection it was made for is gone.
SharedWithDead ==
    \A q \in asked :
        LET e == table[q.slot]
        IN e.id = q.id => q.by = e.inGen \/ ~sockUp[e.inGen]

IInv ==
    /\ Typed
    /\ ActiveSocks
    /\ RefsActive
    /\ TagsPending
    /\ ReadyThenClose
    /\ FdsDistinct
    /\ RoutesLive
    /\ RouteOrigin
    /\ AskedIds
    /\ JobsAsked
    /\ SharedWithDead
    /\ AnswerToAsker
    /\ EvictsOnlyAsker

-----------------------------------------------------------------------------

(* Sequences, as the two queues change.                                    *)

\* What Append does to the places of a sequence.
LEMMA Appended ==
    ASSUME NEW S, NEW q \in Seq(S), NEW x \in S
    PROVE  /\ Append(q, x) \in Seq(S)
           /\ \A i \in DOMAIN q : i \in Nat /\ i \in DOMAIN Append(q, x)
                                  /\ Append(q, x)[i] = q[i]
           /\ \A i \in DOMAIN Append(q, x) :
                \/ i \in DOMAIN q /\ Append(q, x)[i] = q[i]
                \/ i = Len(q) + 1 /\ Append(q, x)[i] = x
           /\ Len(q) + 1 \in DOMAIN Append(q, x)
           /\ Append(q, x)[Len(q) + 1] = x
           /\ \A i \in DOMAIN q : i < Len(q) + 1
OBVIOUS

\* What Tail does to the places of a sequence.
LEMMA TailOf ==
    ASSUME NEW S, NEW q \in Seq(S), q # <<>>
    PROVE  /\ Tail(q) \in Seq(S)
           /\ Head(q) \in S /\ 1 \in DOMAIN q /\ q[1] = Head(q)
           /\ \A i \in DOMAIN Tail(q) : /\ i \in Nat
                                        /\ i + 1 \in DOMAIN q
                                        /\ Tail(q)[i] = q[i + 1]
           /\ \A i \in DOMAIN q : i \in Nat /\ i > 0
                /\ (i > 1 => i - 1 \in DOMAIN Tail(q) /\ Tail(q)[i - 1] = q[i])
OBVIOUS

\* Signalling the notification job adds at most that job to the queue.
LEMMA Signalled ==
    ASSUME engine \in Seq(Jobs)
    PROVE  /\ SignalNotify(engine) \in Seq(Jobs)
           /\ \A i \in DOMAIN SignalNotify(engine) :
                \/ SignalNotify(engine)[i] = [op |-> "notify"]
                \/ /\ i \in DOMAIN engine
                   /\ SignalNotify(engine)[i] = engine[i]
<1>1. [op |-> "notify"] \in Jobs
  BY DEF Jobs
<1>. QED  BY <1>1, Appended DEF SignalNotify

\* An event at the end keeps every close event behind whatever it was behind.
LEMMA EventAdded ==
    ASSUME Typed, NEW type \in {"ready", "close"}, NEW g \in Gens,
           events' = Append(events, <<type, g>>)
    PROVE  /\ \A i \in Nat, h \in Gens : CloseAfter(i, h) => CloseAfter(i, h)'
           /\ type = "close" =>
                CloseAfter(0, g)' /\ \A i \in DOMAIN events : CloseAfter(i, g)'
           /\ \A i \in DOMAIN events' :
                \/ i \in DOMAIN events /\ i \in Nat /\ events'[i] = events[i]
                \/ events'[i] = <<type, g>>
<1>1. <<type, g>> \in {"ready", "close"} \X Gens
  OBVIOUS
<1>2. events \in Seq({"ready", "close"} \X Gens)
  BY DEF Typed
<1>3. /\ \A i \in DOMAIN events : /\ i \in Nat /\ i < Len(events) + 1
                                  /\ i \in DOMAIN events'
                                  /\ events'[i] = events[i]
      /\ Len(events) + 1 \in DOMAIN events'
      /\ events'[Len(events) + 1] = <<type, g>>
      /\ \A i \in DOMAIN events' :
           \/ i \in DOMAIN events /\ events'[i] = events[i]
           \/ events'[i] = <<type, g>>
  BY <1>1, <1>2, Appended
<1>4. Len(events) + 1 > 0
  BY <1>2
<1>. QED  BY <1>3, <1>4 DEF CloseAfter

\* Taking the first event loses a close event only if that was the one.
LEMMA EventTaken ==
    ASSUME Typed, events # <<>>, events' = Tail(events)
    PROVE  /\ Head(events)[1] \in {"ready", "close"} /\ Head(events)[2] \in Gens
           /\ 1 \in DOMAIN events /\ events[1] = Head(events)
           /\ Head(events) = <<Head(events)[1], Head(events)[2]>>
           /\ \A i \in DOMAIN events' : /\ i \in Nat
                                        /\ i + 1 \in DOMAIN events
                                        /\ events'[i] = events[i + 1]
           /\ \A i \in Nat, h \in Gens : CloseAfter(i + 1, h) => CloseAfter(i, h)'
           /\ \A h \in Gens : CloseAfter(0, h) /\ Head(events) # <<"close", h>> =>
                                CloseAfter(0, h)'
<1>1. events \in Seq({"ready", "close"} \X Gens)
  BY DEF Typed
<1>2. /\ Head(events) \in {"ready", "close"} \X Gens
      /\ 1 \in DOMAIN events /\ events[1] = Head(events)
      /\ \A i \in DOMAIN events' : /\ i \in Nat
                                   /\ i + 1 \in DOMAIN events
                                   /\ events'[i] = events[i + 1]
      /\ \A i \in DOMAIN events : i \in Nat /\ i > 0
           /\ (i > 1 => i - 1 \in DOMAIN events' /\ events'[i - 1] = events[i])
  BY <1>1, TailOf
<1>3. ASSUME NEW i \in Nat, NEW h \in Gens, CloseAfter(i + 1, h)
      PROVE  CloseAfter(i, h)'
  <2>1. PICK j \in DOMAIN events : j > i + 1 /\ events[j] = <<"close", h>>
    BY <1>3 DEF CloseAfter
  <2>2. j - 1 \in DOMAIN events' /\ events'[j - 1] = <<"close", h>> /\ j - 1 > i
    BY <1>2, <2>1
  <2>. QED  BY <2>2 DEF CloseAfter
<1>4. ASSUME NEW h \in Gens, CloseAfter(0, h), Head(events) # <<"close", h>>
      PROVE  CloseAfter(0, h)'
  <2>1. PICK j \in DOMAIN events : j > 0 /\ events[j] = <<"close", h>>
    BY <1>4 DEF CloseAfter
  <2>2. j \in Nat /\ j # 1
    BY <1>2, <1>4, <2>1
  <2>3. j - 1 \in DOMAIN events' /\ events'[j - 1] = <<"close", h>> /\ j - 1 > 0
    BY <1>2, <2>1, <2>2
  <2>. QED  BY <2>3 DEF CloseAfter
<1>. QED  BY <1>2, <1>3, <1>4

\* Taking the first job.
LEMMA JobTaken ==
    ASSUME Typed, engine # <<>>, engine' = Tail(engine)
    PROVE  /\ Head(engine) \in Jobs
           /\ 1 \in DOMAIN engine /\ engine[1] = Head(engine)
           /\ \A i \in DOMAIN engine' :
                i + 1 \in DOMAIN engine /\ engine'[i] = engine[i + 1]
<1>1. engine \in Seq(Jobs)
  BY DEF Typed
<1>. QED  BY <1>1, TailOf

\* Adding a job.
LEMMA JobAdded ==
    ASSUME Typed, NEW j \in Jobs, engine' = Append(engine, j)
    PROVE  /\ engine' \in Seq(Jobs)
           /\ \A i \in DOMAIN engine' :
                \/ engine'[i] = j
                \/ i \in DOMAIN engine /\ engine'[i] = engine[i]
<1>1. engine \in Seq(Jobs)
  BY DEF Typed
<1>. QED  BY <1>1, Appended

\* fail_connection only moves connections from open to failing.
OnlyFails ==
    /\ state' \in [Gens -> {"unused", "open", "error", "failed", "freed"}]
    /\ \A g \in Gens : \/ state'[g] = state[g]
                       \/ state[g] = "open" /\ state'[g] = "error"

\* fail_connection changes nothing but open connections.
LEMMA FailingOnlyFails ==
    ASSUME Typed, NEW G, state' = Failing(state, G)
    PROVE  OnlyFails
BY DEF Typed, OnlyFails, Failing

-----------------------------------------------------------------------------
(* One lemma per action.                                                   *)

\* Accept preserves the invariant.
LEMMA AcceptStep ==
    ASSUME IInv, NEW g \in Gens, NEW f \in Fds, Accept(g, f)
    PROVE  IInv'
<1>. USE DEF IInv
<1>a. events' = Append(events, <<"ready", g>>) /\ engine' = SignalNotify(engine)
  BY DEF Accept, NewConnection, NextGen, InsertEvent
<1>b. \A i \in DOMAIN engine' :
        \/ engine'[i] = [op |-> "notify"]
        \/ i \in DOMAIN engine /\ engine'[i] = engine[i]
  BY <1>a, Signalled DEF Typed
<1>1. Typed'
  BY
  DEF Typed, Jobs, Exts, NoExt, Queries, Active, connVars, extVars, history,
      Accept, NewConnection, NextGen, FdInUse, InsertEvent, SignalNotify
<1>2. ActiveSocks'
  BY
  DEF ActiveSocks, Typed, Active, connVars, extVars, history, Accept,
      NewConnection, NextGen, FdInUse, InsertEvent, SignalNotify
<1>3. RefsActive'
  BY
  DEF RefsActive, Typed, Active, Jobs, connVars, extVars, history, Accept,
      NewConnection, NextGen, FdInUse, InsertEvent, SignalNotify
<1>4. TagsPending'
  BY <1>a, EventAdded
  DEF TagsPending, Active, Typed, Accept, NewConnection, NextGen, InsertEvent
<1>5. ReadyThenClose'
  BY <1>a, EventAdded
  DEF ReadyThenClose, RefsActive, Active, Typed, Accept, NewConnection,
      NextGen, InsertEvent
<1>6. FdsDistinct'
  BY
  DEF FdsDistinct, Typed, Active, connVars, extVars, history, Accept,
      NewConnection, NextGen, FdInUse, InsertEvent, SignalNotify
<1>7. RoutesLive'
  BY
  DEF RoutesLive, Typed, NoExt, Exts, connVars, extVars, history, Accept,
      NewConnection, NextGen, FdInUse, InsertEvent, SignalNotify
<1>8. RouteOrigin'
  BY
  DEF RouteOrigin, Typed, NoExt, Exts, connVars, extVars, history, Accept,
      NewConnection, NextGen, FdInUse, InsertEvent, SignalNotify
<1>9. JobsAsked'
  BY <1>b DEF JobsAsked, history, Accept, NewConnection, NextGen, InsertEvent
<1>10. SharedWithDead'
  <2>1. ASSUME NEW q \in asked, table[q.slot].id = q.id
        PROVE  table[q.slot].inGen \in Gens /\ table[q.slot].inGen # g
    <3>1. q \in Queries
      BY DEF Typed
    <3>2. q.slot \in Fds /\ table[q.slot] \in Exts /\ table[q.slot] # NoExt
      BY <2>1, <3>1 DEF Typed, Queries, NoExt
    <3>. QED  BY <3>2 DEF RouteOrigin, Exts, Accept, NewConnection, NextGen
  <2>. QED  BY <2>1 DEF SharedWithDead, Typed, Accept, NewConnection, extVars, history
<1>11. AskedIds' /\ AnswerToAsker' /\ EvictsOnlyAsker'
  BY
  DEF Accept, NewConnection, InsertEvent, connVars, extVars, history, AskedIds,
      AnswerToAsker, EvictsOnlyAsker
<1>. QED  BY <1>1, <1>2, <1>3, <1>4, <1>5, <1>6, <1>7, <1>8, <1>9, <1>10, <1>11 DEF IInv

\* Connect preserves the invariant.
LEMMA ConnectStep ==
    ASSUME IInv, NEW g \in Gens, NEW f \in Fds, Connect(g, f)
    PROVE  IInv'
<1>. USE DEF IInv
<1>1. Typed'
  BY
  DEF Typed, Jobs, Exts, NoExt, Queries, Active, connVars, extVars, history,
      Connect, NewConnection, NextGen, FdInUse
<1>2. ActiveSocks'
  BY
  DEF ActiveSocks, Typed, Active, connVars, extVars, history, Connect,
      NewConnection, NextGen, FdInUse
<1>3. RefsActive'
  BY
  DEF RefsActive, Typed, Active, Jobs, connVars, extVars, history, Connect,
      NewConnection, NextGen, FdInUse
<1>4. TagsPending'
  BY
  DEF TagsPending, Typed, Active, CloseAfter, connVars, extVars, history,
      Connect, NewConnection, NextGen, FdInUse
<1>5. ReadyThenClose'
  BY
  DEF ReadyThenClose, Typed, CloseAfter, connVars, extVars, history, Connect,
      NewConnection, NextGen, FdInUse
<1>6. FdsDistinct'
  BY
  DEF FdsDistinct, Typed, Active, connVars, extVars, history, Connect,
      NewConnection, NextGen, FdInUse
<1>7. RoutesLive'
  BY
  DEF RoutesLive, Typed, NoExt, Exts, connVars, extVars, history, Connect,
      NewConnection, NextGen, FdInUse
<1>8. RouteOrigin'
  BY
  DEF RouteOrigin, Typed, NoExt, Exts, connVars, extVars, history, Connect,
      NewConnection, NextGen, FdInUse
<1>9. SharedWithDead'
  <2>1. ASSUME NEW q \in asked, table[q.slot].id = q.id
        PROVE  table[q.slot].inGen \in Gens /\ table[q.slot].inGen # g
    <3>1. q \in Queries
      BY DEF Typed
    <3>2. q.slot \in Fds /\ table[q.slot] \in Exts /\ table[q.slot] # NoExt
      BY <2>1, <3>1 DEF Typed, Queries, NoExt
    <3>. QED  BY <3>2 DEF RouteOrigin, Exts, Connect, NewConnection, NextGen
  <2>. QED  BY <2>1 DEF SharedWithDead, Typed, Connect, NewConnection, extVars, history
<1>10. AskedIds' /\ JobsAsked' /\ AnswerToAsker' /\ EvictsOnlyAsker'
  BY
  DEF Connect, NewConnection, connVars, extVars, history, AskedIds, JobsAsked,
      AnswerToAsker, EvictsOnlyAsker
<1>. QED  BY <1>1, <1>2, <1>3, <1>4, <1>5, <1>6, <1>7, <1>8, <1>9, <1>10 DEF IInv

\* Handshake preserves the invariant.
LEMMA HandshakeStep ==
    ASSUME IInv, NEW g \in Gens, Handshake(g)
    PROVE  IInv'
<1>. USE DEF IInv
<1>a. events' = Append(events, <<"ready", g>>) /\ engine' = SignalNotify(engine)
  BY DEF Handshake, InsertEvent
<1>b. \A i \in DOMAIN engine' :
        \/ engine'[i] = [op |-> "notify"]
        \/ i \in DOMAIN engine /\ engine'[i] = engine[i]
  BY <1>a, Signalled DEF Typed
<1>1. Typed'
  BY
  DEF Typed, Jobs, Exts, NoExt, Queries, Active, connVars, extVars, history,
      Handshake, InsertEvent, SignalNotify
<1>2. RefsActive'
  BY
  DEF RefsActive, Typed, Active, Jobs, connVars, extVars, history, Handshake,
      InsertEvent, SignalNotify
<1>3. TagsPending'
  BY <1>a, EventAdded DEF TagsPending, Active, Typed, Handshake, InsertEvent
<1>4. ReadyThenClose'
  BY <1>a, EventAdded
  DEF ReadyThenClose, RefsActive, Active, Typed, Handshake, InsertEvent
<1>5. JobsAsked'
  BY <1>b DEF JobsAsked, history, Handshake, InsertEvent
<1>6. ActiveSocks' /\ FdsDistinct' /\ RoutesLive' /\ RouteOrigin' /\ AskedIds'
     /\ SharedWithDead' /\ AnswerToAsker' /\ EvictsOnlyAsker'
  BY
  DEF Handshake, InsertEvent, connVars, extVars, history, ActiveSocks, Active,
      FdsDistinct, RoutesLive, RouteOrigin, AskedIds, SharedWithDead,
      AnswerToAsker, EvictsOnlyAsker
<1>. QED  BY <1>1, <1>2, <1>3, <1>4, <1>5, <1>6 DEF IInv

\* FailConnection preserves the invariant.
LEMMA FailConnectionStep ==
    ASSUME IInv, NEW g \in Gens, FailConnection(g)
    PROVE  IInv'
<1>. USE DEF IInv
<1>1. Typed'
  BY
  DEF Typed, Jobs, Exts, NoExt, Queries, Active, connVars, extVars, history,
      FailConnection, Failing
<1>2. ActiveSocks'
  BY
  DEF ActiveSocks, Typed, Active, connVars, extVars, history, FailConnection,
      Failing
<1>3. RefsActive'
  BY
  DEF RefsActive, Typed, Active, Jobs, connVars, extVars, history,
      FailConnection, Failing
<1>4. TagsPending'
  BY
  DEF TagsPending, Typed, Active, CloseAfter, connVars, extVars, history,
      FailConnection, Failing
<1>5. ReadyThenClose'
  BY
  DEF ReadyThenClose, Typed, CloseAfter, connVars, extVars, history,
      FailConnection, Failing
<1>6. FdsDistinct'
  BY
  DEF FdsDistinct, Typed, Active, connVars, extVars, history, FailConnection,
      Failing
<1>7. RoutesLive'
  BY
  DEF RoutesLive, Typed, NoExt, Exts, connVars, extVars, history,
      FailConnection, Failing
<1>8. RouteOrigin'
  BY
  DEF RouteOrigin, Typed, NoExt, Exts, connVars, extVars, history,
      FailConnection, Failing
<1>9. AskedIds' /\ JobsAsked' /\ SharedWithDead' /\ AnswerToAsker'
     /\ EvictsOnlyAsker'
  BY
  DEF FailConnection, connVars, extVars, history, AskedIds, JobsAsked,
      SharedWithDead, AnswerToAsker, EvictsOnlyAsker
<1>. QED  BY <1>1, <1>2, <1>3, <1>4, <1>5, <1>6, <1>7, <1>8, <1>9 DEF IInv

\* FailSocket preserves the invariant.
LEMMA FailSocketStep ==
    ASSUME IInv, NEW g \in Gens, FailSocket(g)
    PROVE  IInv'
<1>. USE DEF IInv
<1>1. Typed'
  BY
  DEF Typed, Jobs, Exts, NoExt, Queries, Active, connVars, extVars, history,
      FailSocket, Failing
<1>2. ActiveSocks'
  BY
  DEF ActiveSocks, Typed, Active, connVars, extVars, history, FailSocket,
      Failing
<1>3. RefsActive'
  BY
  DEF RefsActive, Typed, Active, Jobs, connVars, extVars, history, FailSocket,
      Failing
<1>4. TagsPending'
  BY
  DEF TagsPending, Typed, Active, CloseAfter, connVars, extVars, history,
      FailSocket, Failing
<1>5. ReadyThenClose'
  BY
  DEF ReadyThenClose, Typed, CloseAfter, connVars, extVars, history,
      FailSocket, Failing
<1>6. FdsDistinct'
  BY
  DEF FdsDistinct, Typed, Active, connVars, extVars, history, FailSocket,
      Failing
<1>7. RoutesLive'
  BY
  DEF RoutesLive, Typed, NoExt, Exts, connVars, extVars, history, FailSocket,
      Failing
<1>8. RouteOrigin'
  BY
  DEF RouteOrigin, Typed, NoExt, Exts, connVars, extVars, history, FailSocket,
      Failing
<1>9. SharedWithDead'
  BY
  DEF SharedWithDead, Typed, Queries, connVars, extVars, history, Exts, NoExt,
      FailSocket, Failing
<1>10. AskedIds' /\ JobsAsked' /\ AnswerToAsker' /\ EvictsOnlyAsker'
  BY
  DEF FailSocket, connVars, extVars, history, AskedIds, JobsAsked,
      AnswerToAsker, EvictsOnlyAsker
<1>. QED  BY <1>1, <1>2, <1>3, <1>4, <1>5, <1>6, <1>7, <1>8, <1>9, <1>10 DEF IInv

\* Abort preserves the invariant.
LEMMA AbortStep ==
    ASSUME IInv, NEW g \in Gens, Abort(g)
    PROVE  IInv'
<1>. USE DEF IInv
<1>a. events' = Append(events, <<"close", g>>) /\ engine' = SignalNotify(engine)
  BY DEF Abort, InsertEvent
<1>b. \A i \in DOMAIN engine' :
        \/ engine'[i] = [op |-> "notify"]
        \/ i \in DOMAIN engine /\ engine'[i] = engine[i]
  BY <1>a, Signalled DEF Typed
<1>1. Typed'
  BY
  DEF Typed, Jobs, Exts, NoExt, Queries, Active, connVars, extVars, history,
      Abort, InsertEvent, SignalNotify
<1>2. ActiveSocks'
  BY
  DEF ActiveSocks, Typed, Active, connVars, extVars, history, Abort,
      InsertEvent, SignalNotify
<1>3. RefsActive'
  BY
  DEF RefsActive, Typed, Active, Jobs, connVars, extVars, history, Abort,
      InsertEvent, SignalNotify
<1>4. TagsPending'
  BY <1>a, EventAdded DEF TagsPending, Active, Typed, Abort, InsertEvent
<1>5. ReadyThenClose'
  BY <1>a, EventAdded
  DEF ReadyThenClose, RefsActive, Active, Typed, Abort, InsertEvent
<1>6. FdsDistinct'
  BY
  DEF FdsDistinct, Typed, Active, connVars, extVars, history, Abort,
      InsertEvent, SignalNotify
<1>7. RoutesLive'
  BY
  DEF RoutesLive, Typed, NoExt, Exts, connVars, extVars, history, Abort,
      InsertEvent, SignalNotify
<1>8. RouteOrigin'
  BY
  DEF RouteOrigin, Typed, NoExt, Exts, connVars, extVars, history, Abort,
      InsertEvent, SignalNotify
<1>9. JobsAsked'
  BY <1>b DEF JobsAsked, history, Abort, InsertEvent
<1>10. AskedIds' /\ SharedWithDead' /\ AnswerToAsker' /\ EvictsOnlyAsker'
  BY
  DEF Abort, InsertEvent, connVars, extVars, history, AskedIds, SharedWithDead,
      AnswerToAsker, EvictsOnlyAsker
<1>. QED  BY <1>1, <1>2, <1>3, <1>4, <1>5, <1>6, <1>7, <1>8, <1>9, <1>10 DEF IInv

\* Finish preserves the invariant.
LEMMA FinishStep ==
    ASSUME IInv, NEW g \in Gens, Finish(g)
    PROVE  IInv'
<1>. USE DEF IInv
<1>1. Typed'
  BY
  DEF Typed, Jobs, Exts, NoExt, Queries, Active, connVars, extVars, history,
      Finish, Referenced
<1>2. ActiveSocks'
  BY
  DEF ActiveSocks, Typed, Active, connVars, extVars, history, Finish, Referenced
<1>3. RefsActive'
  BY
  DEF RefsActive, Typed, Active, Jobs, connVars, extVars, history, Finish,
      Referenced
<1>4. TagsPending'
  BY
  DEF TagsPending, Typed, Active, CloseAfter, connVars, extVars, history,
      Finish, Referenced
<1>5. ReadyThenClose'
  BY
  DEF ReadyThenClose, Typed, CloseAfter, connVars, extVars, history, Finish,
      Referenced
<1>6. FdsDistinct'
  BY
  DEF FdsDistinct, Typed, Active, connVars, extVars, history, Finish, Referenced
<1>7. RoutesLive'
  BY
  DEF RoutesLive, Typed, NoExt, Exts, connVars, extVars, history, Finish,
      Referenced, TagsPending, CloseAfter, Active
<1>8. RouteOrigin'
  BY
  DEF RouteOrigin, Typed, NoExt, Exts, connVars, extVars, history, Finish,
      Referenced
<1>9. AskedIds' /\ JobsAsked' /\ SharedWithDead' /\ AnswerToAsker'
     /\ EvictsOnlyAsker'
  BY
  DEF Finish, connVars, extVars, history, AskedIds, JobsAsked, SharedWithDead,
      AnswerToAsker, EvictsOnlyAsker
<1>. QED  BY <1>1, <1>2, <1>3, <1>4, <1>5, <1>6, <1>7, <1>8, <1>9 DEF IInv

\* ClientPacket preserves the invariant.
LEMMA ClientPacketStep ==
    ASSUME IInv, NEW g \in Gens, ClientPacket(g)
    PROVE  IInv'
<1>. USE DEF IInv
<1>a. /\ [op |-> "query", conn |-> g] \in Jobs
      /\ engine' = Append(engine, [op |-> "query", conn |-> g])
  BY DEF ClientPacket, Jobs
<1>1. Typed'
  BY
  DEF Typed, Jobs, Exts, NoExt, Queries, Active, connVars, extVars, history,
      ClientPacket
<1>2. RefsActive'
  BY
  DEF RefsActive, Typed, Active, Jobs, connVars, extVars, history, ClientPacket
<1>3. JobsAsked'
  BY <1>a, JobAdded DEF JobsAsked, ClientPacket, history
<1>4. ActiveSocks' /\ TagsPending' /\ ReadyThenClose' /\ FdsDistinct'
     /\ RoutesLive' /\ RouteOrigin' /\ AskedIds' /\ SharedWithDead'
     /\ AnswerToAsker' /\ EvictsOnlyAsker'
  BY
  DEF ClientPacket, connVars, extVars, history, ActiveSocks, Active,
      TagsPending, CloseAfter, ReadyThenClose, FdsDistinct, RoutesLive,
      RouteOrigin, AskedIds, SharedWithDead, AnswerToAsker, EvictsOnlyAsker
<1>. QED  BY <1>1, <1>2, <1>3, <1>4 DEF IInv

\* MiddleEndPacket preserves the invariant.
LEMMA MiddleEndPacketStep ==
    ASSUME IInv, NEW g \in Gens, NEW q \in asked, NEW op \in {"ans", "ack",
           "close"}, MiddleEndPacket(g, q, op)
    PROVE  IInv'
<1>. USE DEF IInv
<1>. DEFINE job == [op |-> op, conn |-> g, slot |-> q.slot, id |-> q.id,
                    by |-> q.by]
<1>a. job \in Jobs /\ engine' = Append(engine, job)
  BY DEF MiddleEndPacket, Jobs, Typed, Queries
<1>b. /\ q.dc = job.conn /\ q.slot = job.slot /\ q.id = job.id
      /\ q.by = job.by
  BY DEF MiddleEndPacket
<1>c. \A i \in DOMAIN engine' :
        \/ engine'[i] = job
        \/ i \in DOMAIN engine /\ engine'[i] = engine[i]
  BY <1>a, JobAdded
<1>. HIDE DEF job
<1>1. Typed'
  BY
  DEF Typed, Jobs, Exts, NoExt, Queries, Active, connVars, extVars, history,
      MiddleEndPacket
<1>2. RefsActive'
  BY
  DEF RefsActive, Typed, Active, Jobs, connVars, extVars, history,
      MiddleEndPacket
<1>3. JobsAsked'
  BY <1>b, <1>c DEF JobsAsked, MiddleEndPacket, history
<1>4. ActiveSocks' /\ TagsPending' /\ ReadyThenClose' /\ FdsDistinct'
     /\ RoutesLive' /\ RouteOrigin' /\ AskedIds' /\ SharedWithDead'
     /\ AnswerToAsker' /\ EvictsOnlyAsker'
  BY
  DEF MiddleEndPacket, connVars, extVars, history, ActiveSocks, Active,
      TagsPending, CloseAfter, ReadyThenClose, FdsDistinct, RoutesLive,
      RouteOrigin, AskedIds, SharedWithDead, AnswerToAsker, EvictsOnlyAsker
<1>. QED  BY <1>1, <1>2, <1>3, <1>4 DEF IInv

\* QueryRefused preserves the invariant.
LEMMA QueryRefusedStep ==
    ASSUME IInv, QueryRefused
    PROVE  IInv'
<1>. USE DEF IInv
<1>1. Typed'
  BY
  DEF Typed, Jobs, Exts, NoExt, Queries, Active, connVars, extVars, history,
      QueryRefused, EngineTakes
<1>2. RefsActive'
  BY
  DEF RefsActive, Typed, Active, Jobs, connVars, extVars, history,
      QueryRefused, EngineTakes
<1>3. JobsAsked'
  BY
  DEF JobsAsked, Typed, Jobs, connVars, extVars, history, QueryRefused,
      EngineTakes
<1>4. ActiveSocks' /\ TagsPending' /\ ReadyThenClose' /\ FdsDistinct'
     /\ RoutesLive' /\ RouteOrigin' /\ AskedIds' /\ SharedWithDead'
     /\ AnswerToAsker' /\ EvictsOnlyAsker'
  BY
  DEF QueryRefused, connVars, extVars, history, ActiveSocks, Active,
      TagsPending, CloseAfter, ReadyThenClose, FdsDistinct, RoutesLive,
      RouteOrigin, AskedIds, SharedWithDead, AnswerToAsker, EvictsOnlyAsker
<1>. QED  BY <1>1, <1>2, <1>3, <1>4 DEF IInv

\* QueryForwarded preserves the invariant.
LEMMA QueryForwardedStep ==
    ASSUME IInv, QueryForwarded
    PROVE  IInv'
<1>. USE DEF IInv
<1>. DEFINE c == Head(engine).conn
<1>a. engine # <<>> /\ engine' = Tail(engine) /\ Head(engine).op = "query"
  BY DEF QueryForwarded, EngineTakes
<1>b. c \in Gens /\ Active(c) /\ fd[c] \in Fds
  <2>1. Head(engine) \in Jobs /\ 1 \in DOMAIN engine /\ engine[1] = Head(engine)
    BY <1>a, JobTaken
  <2>2. c \in Gens
    BY <1>a, <2>1 DEF Jobs
  <2>. QED  BY <1>a, <2>1, <2>2 DEF RefsActive, Typed
<1>c. engine' \in Seq(Jobs)
  BY <1>a, TailOf DEF Typed
<1>. DEFINE e == table[fd[c]]
            q == [dc |-> e.outGen, slot |-> fd[c], id |-> e.id, by |-> c]
<1>d. e \in Exts /\ e # NoExt /\ asked' = asked \cup {q}
  BY <1>b DEF QueryForwarded, Typed
<1>e. /\ q \in Queries
      /\ q.slot = fd[c] /\ q.id = e.id /\ q.by = c
  BY <1>b, <1>d DEF Exts, Queries
<1>. HIDE DEF c, q
<1>1. Typed'
  BY <1>c, <1>d, <1>e DEF Typed, Active, QueryForwarded, connVars
<1>2. RefsActive'
  <2>1. \A i \in DOMAIN engine' : i + 1 \in DOMAIN engine /\ engine'[i] = engine[i + 1]
    BY <1>a, JobTaken
  <2>2. events' = events /\ \A g : Active(g) => Active(g)'
    BY DEF QueryForwarded, Active, connVars
  <2>. QED
    BY <2>1, <2>2, ZenonT(40) DEF RefsActive
<1>3. AskedIds'
  <2>1. q.id <= lastId[q.slot]
    <3>1. e.id = lastId[fd[c]] /\ lastId[fd[c]] \in Nat
      BY <1>b, <1>d DEF RoutesLive, Typed
    <3>. QED  BY <1>e, <3>1
  <2>. QED  BY <1>d, <2>1 DEF AskedIds, QueryForwarded
<1>4. JobsAsked'
  <2>1. \A i \in DOMAIN engine' : i + 1 \in DOMAIN engine /\ engine'[i] = engine[i + 1]
    BY <1>a, JobTaken
  <2>2. asked \subseteq asked'
    BY <1>d
  <2>3. ASSUME NEW i \in DOMAIN engine', engine'[i].op \in {"ans", "ack", "close"}
        PROVE  \E p \in asked' : /\ p.dc = engine'[i].conn /\ p.slot = engine'[i].slot
                                 /\ p.id = engine'[i].id /\ p.by = engine'[i].by
    <3>1. i + 1 \in DOMAIN engine /\ engine'[i] = engine[i + 1]
      BY <2>1
    <3>2. PICK p \in asked : /\ p.dc = engine[i + 1].conn /\ p.slot = engine[i + 1].slot
                             /\ p.id = engine[i + 1].id /\ p.by = engine[i + 1].by
      BY <2>3, <3>1, ZenonT(40) DEF JobsAsked
    <3>. QED
      BY <2>2, <3>1, <3>2, ZenonT(40)
  <2>. QED
    BY <2>3, ZenonT(40) DEF JobsAsked
<1>5. SharedWithDead'
  <2>1. e.inGen \in Gens /\ fd[e.inGen] = fd[c]
    BY <1>b, <1>d DEF RouteOrigin, Exts
  <2>2. c = e.inGen \/ ~sockUp[e.inGen]
    BY <1>b, <2>1 DEF FdsDistinct, ActiveSocks
  <2>. QED  BY <1>d, <1>e, <2>2 DEF SharedWithDead, QueryForwarded, connVars
<1>6. ActiveSocks' /\ TagsPending' /\ ReadyThenClose' /\ FdsDistinct'
     /\ RoutesLive' /\ RouteOrigin' /\ AnswerToAsker' /\ EvictsOnlyAsker'
  BY
  DEF QueryForwarded, connVars, extVars, history, ActiveSocks, Active,
      TagsPending, CloseAfter, ReadyThenClose, FdsDistinct, RoutesLive,
      RouteOrigin, AnswerToAsker, EvictsOnlyAsker
<1>. QED  BY <1>1, <1>2, <1>3, <1>4, <1>5, <1>6 DEF IInv

\* QueryDropped preserves the invariant.
LEMMA QueryDroppedStep ==
    ASSUME IInv, QueryDropped
    PROVE  IInv'
<1>. USE DEF IInv
<1>1. Typed'
  BY
  DEF Typed, Jobs, Exts, NoExt, Queries, Active, connVars, extVars, history,
      QueryDropped, EngineTakes, Without
<1>2. RefsActive'
  BY
  DEF RefsActive, Typed, Active, Jobs, connVars, extVars, history,
      QueryDropped, EngineTakes, Without
<1>3. RoutesLive'
  BY
  DEF RoutesLive, Typed, NoExt, Exts, connVars, extVars, history, QueryDropped,
      EngineTakes, Without
<1>4. RouteOrigin'
  BY
  DEF RouteOrigin, Typed, NoExt, Exts, connVars, extVars, history,
      QueryDropped, EngineTakes, Without
<1>5. JobsAsked'
  BY
  DEF JobsAsked, Typed, Jobs, connVars, extVars, history, QueryDropped,
      EngineTakes, Without
<1>6. SharedWithDead'
  BY
  DEF SharedWithDead, Typed, Queries, connVars, extVars, history, Exts, NoExt,
      QueryDropped, EngineTakes, Without
<1>7. ActiveSocks' /\ TagsPending' /\ ReadyThenClose' /\ FdsDistinct'
     /\ AskedIds' /\ AnswerToAsker' /\ EvictsOnlyAsker'
  BY
  DEF QueryDropped, connVars, extVars, history, ActiveSocks, Active,
      TagsPending, CloseAfter, ReadyThenClose, FdsDistinct, AskedIds,
      AnswerToAsker, EvictsOnlyAsker
<1>. QED  BY <1>1, <1>2, <1>3, <1>4, <1>5, <1>6, <1>7 DEF IInv

\* QueryAfterDrop preserves the invariant.
LEMMA QueryAfterDropStep ==
    ASSUME IInv, NEW d \in Gens, QueryAfterDrop(d)
    PROVE  IInv'
<1>. USE DEF IInv
<1>1. Typed'
  BY
  DEF Typed, Jobs, Exts, NoExt, Queries, Active, connVars, extVars, history,
      QueryAfterDrop, EngineTakes, Without, Failing
<1>2. ActiveSocks'
  BY
  DEF ActiveSocks, Typed, Active, connVars, extVars, history, QueryAfterDrop,
      EngineTakes, Without, Failing
<1>3. RefsActive'
  BY
  DEF RefsActive, Typed, Active, Jobs, connVars, extVars, history,
      QueryAfterDrop, EngineTakes, Without, Failing
<1>4. TagsPending'
  BY
  DEF TagsPending, Typed, Active, CloseAfter, connVars, extVars, history,
      QueryAfterDrop, EngineTakes, Without, Failing
<1>5. ReadyThenClose'
  BY
  DEF ReadyThenClose, Typed, CloseAfter, connVars, extVars, history,
      QueryAfterDrop, EngineTakes, Without, Failing
<1>6. FdsDistinct'
  BY
  DEF FdsDistinct, Typed, Active, connVars, extVars, history, QueryAfterDrop,
      EngineTakes, Without, Failing
<1>7. RoutesLive'
  BY
  DEF RoutesLive, Typed, NoExt, Exts, connVars, extVars, history,
      QueryAfterDrop, EngineTakes, Without, Failing
<1>8. RouteOrigin'
  BY
  DEF RouteOrigin, Typed, NoExt, Exts, connVars, extVars, history,
      QueryAfterDrop, EngineTakes, Without, Failing
<1>9. JobsAsked'
  BY
  DEF JobsAsked, Typed, Jobs, connVars, extVars, history, QueryAfterDrop,
      EngineTakes, Without, Failing
<1>10. SharedWithDead'
  BY
  DEF SharedWithDead, Typed, Queries, connVars, extVars, history, Exts, NoExt,
      QueryAfterDrop, EngineTakes, Without, Failing
<1>11. AskedIds' /\ AnswerToAsker' /\ EvictsOnlyAsker'
  BY
  DEF QueryAfterDrop, connVars, extVars, history, AskedIds, AnswerToAsker,
      EvictsOnlyAsker
<1>. QED  BY <1>1, <1>2, <1>3, <1>4, <1>5, <1>6, <1>7, <1>8, <1>9, <1>10, <1>11 DEF IInv

\* QueryRouted preserves the invariant.
LEMMA QueryRoutedStep ==
    ASSUME IInv, NEW d \in Gens, QueryRouted(d)
    PROVE  IInv'
<1>. USE DEF IInv
<1>. DEFINE c == Head(engine).conn
<1>a. engine # <<>> /\ engine' = Tail(engine) /\ Head(engine).op = "query"
  BY DEF QueryRouted, EngineTakes
<1>b. c \in Gens /\ Active(c) /\ fd[c] \in Fds
  <2>1. Head(engine) \in Jobs /\ 1 \in DOMAIN engine /\ engine[1] = Head(engine)
    BY <1>a, JobTaken
  <2>2. c \in Gens
    BY <1>a, <2>1 DEF Jobs
  <2>. QED  BY <1>a, <2>1, <2>2 DEF RefsActive, Typed
<1>c. engine' \in Seq(Jobs)
  BY <1>a, TailOf DEF Typed
<1>. DEFINE f == fd[c]
            q == [dc |-> d, slot |-> f, id |-> NextId(f), by |-> c]
            e == [id |-> NextId(f), inGen |-> c, outGen |-> d]
<1>d. /\ table' = [table EXCEPT ![f] = e]
      /\ lastId' = [lastId EXCEPT ![f] = NextId(f)]
      /\ asked' = asked \cup {q}
      /\ tag[d] /\ state[d] = "open"
      /\ UNCHANGED connVars
  BY DEF QueryRouted, Eligible
<1>e. /\ NextId(f) = lastId[f] + 1 /\ lastId[f] \in Nat
      /\ q \in Queries /\ q.slot = f /\ q.id = lastId[f] + 1 /\ q.by = c
      /\ e \in Exts /\ e.id = lastId[f] + 1 /\ e.inGen = c /\ e.outGen = d
  BY <1>b DEF Exts, Queries, NextId, Typed
<1>. HIDE DEF c, q, e
<1>1. Typed'
  <2>1. /\ table' \in [Fds -> Exts]
        /\ lastId' \in [Fds -> Nat]
        /\ asked' \subseteq Queries
    BY <1>b, <1>d, <1>e DEF Typed
  <2>. QED  BY <1>c, <1>d, <2>1 DEF Typed, Active, connVars, QueryRouted
<1>2. RefsActive'
  BY
  DEF RefsActive, Typed, Active, Jobs, connVars, extVars, history, QueryRouted,
      EngineTakes, NextId, Eligible
<1>3. RoutesLive'
  BY <1>b, <1>d, <1>e DEF RoutesLive, Typed, connVars
<1>4. RouteOrigin'
  BY <1>b, <1>d, <1>e DEF RouteOrigin, Active, Typed, connVars
<1>5. AskedIds'
  BY <1>b, <1>d, <1>e DEF AskedIds, Typed, Queries
<1>6. JobsAsked'
  BY
  DEF JobsAsked, Typed, Jobs, connVars, extVars, history, QueryRouted,
      EngineTakes, NextId, Eligible
<1>7. SharedWithDead'
  <2>1. ASSUME NEW p \in asked', table'[p.slot].id = p.id
        PROVE  p.by = table'[p.slot].inGen \/ ~sockUp'[table'[p.slot].inGen]
    <3>1. CASE p = q
      BY <1>b, <1>d, <1>e, <3>1 DEF Typed
    <3>2. CASE p # q /\ p.slot = f
      BY <1>b, <1>d, <1>e, <2>1, <3>2 DEF Typed, AskedIds, Queries
    <3>3. CASE p # q /\ p.slot # f
      BY <1>b, <1>d, <2>1, <3>3 DEF Typed, SharedWithDead, connVars, Queries
    <3>. QED  BY <3>1, <3>2, <3>3
  <2>. QED  BY <2>1 DEF SharedWithDead
<1>8. ActiveSocks' /\ TagsPending' /\ ReadyThenClose' /\ FdsDistinct'
     /\ AnswerToAsker' /\ EvictsOnlyAsker'
  BY
  DEF QueryRouted, connVars, extVars, history, ActiveSocks, Active,
      TagsPending, CloseAfter, ReadyThenClose, FdsDistinct, AnswerToAsker,
      EvictsOnlyAsker
<1>. QED  BY <1>1, <1>2, <1>3, <1>4, <1>5, <1>6, <1>7, <1>8 DEF IInv

\* Answer preserves the invariant.
LEMMA AnswerStep ==
    ASSUME IInv, NEW op \in {"ans", "ack"}, Answer(op)
    PROVE  IInv'
<1>. USE DEF IInv
<1>. DEFINE job == Head(engine)
<1>a. engine # <<>> /\ engine' = Tail(engine) /\ job.op = op
  BY DEF Answer, EngineTakes
<1>b. job \in Jobs /\ 1 \in DOMAIN engine /\ engine[1] = job
  BY <1>a, JobTaken
<1>c. job.by \in Gens /\ job.slot \in Fds
  BY <1>a, <1>b DEF Jobs
<1>d. PICK q \in asked : q.slot = job.slot /\ q.id = job.id /\ q.by = job.by
  BY <1>a, <1>b DEF JobsAsked
<1>e. \A x \in Receiver(job) : x \in Gens /\ x = job.by
  BY <1>c, <1>d DEF Receiver, FindFor, Find, Gettable, SharedWithDead
<1>f. answered' \subseteq answered \cup {<<job.by, x>> : x \in Receiver(job)}
  BY DEF Answer
<1>g. OnlyFails
  <2>1. state' = state \/ state' = Failing(state, Receiver(job))
    BY DEF Answer
  <2>. QED  BY <2>1, FailingOnlyFails DEF OnlyFails, Typed
<1>h. engine' \in Seq(Jobs)
  BY <1>a, TailOf DEF Typed
<1>i. UNCHANGED <<kind, fd, sockUp, shaken, tag, dropped, events, extVars,
                  queries, replies, asked, evicted>>
  BY DEF Answer
<1>. HIDE DEF job
<1>1. Typed'
  BY <1>c, <1>e, <1>f, <1>g, <1>h, <1>i DEF Typed, OnlyFails, Active, extVars
<1>2. ActiveSocks'
  BY <1>g, <1>i DEF ActiveSocks, OnlyFails, Active
<1>3. RefsActive'
  <2>1. \A i \in DOMAIN engine' : i + 1 \in DOMAIN engine /\ engine'[i] = engine[i + 1]
    BY <1>a, JobTaken
  <2>2. \A i \in DOMAIN engine : engine[i] \in Jobs
    BY DEF Typed
  <2>3. \A i \in DOMAIN engine : engine[i].op # "notify" => engine[i].conn \in Gens
    BY <2>2 DEF Jobs
  <2>. QED  BY <1>g, <1>i, <2>1, <2>3 DEF RefsActive, OnlyFails, Active, Typed
<1>4. TagsPending'
  BY <1>g, <1>i DEF TagsPending, OnlyFails, Active, CloseAfter
<1>5. ReadyThenClose'
  BY <1>g, <1>i DEF ReadyThenClose, OnlyFails, CloseAfter, Typed
<1>6. FdsDistinct'
  BY <1>g, <1>i DEF FdsDistinct, OnlyFails, Active
<1>7. RoutesLive'
  BY <1>g, <1>i DEF RoutesLive, OnlyFails, Typed, Exts, NoExt, extVars
<1>8. RouteOrigin'
  BY <1>g, <1>i DEF RouteOrigin, OnlyFails, Typed, Exts, NoExt, extVars
<1>9. JobsAsked'
  BY <1>a, <1>i, JobTaken DEF JobsAsked
<1>10. AnswerToAsker'
  BY <1>e, <1>f DEF AnswerToAsker
<1>11. AskedIds' /\ SharedWithDead' /\ EvictsOnlyAsker'
  BY
  DEF Answer, connVars, extVars, history, AskedIds, SharedWithDead,
      EvictsOnlyAsker
<1>. QED  BY <1>1, <1>2, <1>3, <1>4, <1>5, <1>6, <1>7, <1>8, <1>9, <1>10, <1>11 DEF IInv

\* CloseExt preserves the invariant.
LEMMA CloseExtStep ==
    ASSUME IInv, CloseExt
    PROVE  IInv'
<1>. USE DEF IInv
<1>. DEFINE job == Head(engine)
<1>a. engine # <<>> /\ engine' = Tail(engine) /\ job.op = "close"
  BY DEF CloseExt, EngineTakes
<1>b. job \in Jobs /\ 1 \in DOMAIN engine /\ engine[1] = job
  BY <1>a, JobTaken
<1>c. job.by \in Gens /\ job.slot \in Fds
  BY <1>a, <1>b DEF Jobs
<1>d. PICK q \in asked : q.slot = job.slot /\ q.id = job.id /\ q.by = job.by
  BY <1>a, <1>b DEF JobsAsked
<1>e. \A p \in evicted' :
        \/ p \in evicted
        \/ \E x \in Gens : /\ p = <<job.by, x>> /\ Gettable(x)
                           /\ table[job.slot].inGen = x /\ Find(job)
  BY DEF CloseExt
<1>f. engine' \in Seq(Jobs)
  BY <1>a, TailOf DEF Typed
<1>. HIDE DEF job
<1>1. Typed'
  <2>1. evicted' \subseteq Gens \X Gens
    BY <1>c, <1>e DEF Typed
  <2>. QED  BY <1>f, <2>1 DEF Typed, Jobs, Exts, NoExt, Queries, Active, CloseExt, Failing,
       Without
<1>2. ActiveSocks'
  BY
  DEF ActiveSocks, Typed, Active, connVars, extVars, history, CloseExt,
      EngineTakes, Find, Gettable, Failing, Without
<1>3. RefsActive'
  <2>1. \A i \in DOMAIN engine' : i + 1 \in DOMAIN engine /\ engine'[i] = engine[i + 1]
    BY <1>a, JobTaken
  <2>2. events' = events /\ \A g \in Gens : Active(g) => Active(g)'
    BY DEF CloseExt, Active, Failing
  <2>3. \A i \in DOMAIN engine : engine[i].op # "notify" => engine[i].conn \in Gens
    BY DEF Typed, Jobs
  <2>4. \A i \in DOMAIN events : events[i][2] \in Gens
    BY DEF Typed
  <2>. QED
    BY <2>1, <2>2, <2>3, <2>4, ZenonT(40) DEF RefsActive
<1>4. TagsPending'
  BY
  DEF TagsPending, Typed, Active, CloseAfter, connVars, extVars, history,
      CloseExt, EngineTakes, Find, Gettable, Failing, Without
<1>5. ReadyThenClose'
  BY SMTT(40)
  DEF ReadyThenClose, Typed, CloseAfter, connVars, extVars, history, CloseExt,
      EngineTakes, Find, Gettable, Failing, Without
<1>6. FdsDistinct'
  BY
  DEF FdsDistinct, Typed, Active, connVars, extVars, history, CloseExt,
      EngineTakes, Find, Gettable, Failing, Without
<1>7. RoutesLive'
  BY
  DEF RoutesLive, Typed, NoExt, Exts, connVars, extVars, history, CloseExt,
      EngineTakes, Find, Gettable, Failing, Without
<1>8. RouteOrigin'
  BY
  DEF RouteOrigin, Typed, NoExt, Exts, connVars, extVars, history, CloseExt,
      EngineTakes, Find, Gettable, Failing, Without
<1>9. JobsAsked'
  BY
  DEF JobsAsked, Typed, Jobs, connVars, extVars, history, CloseExt,
      EngineTakes, Find, Gettable, Failing, Without
<1>10. SharedWithDead'
  BY
  DEF SharedWithDead, Typed, Queries, connVars, extVars, history, Exts, NoExt,
      CloseExt, EngineTakes, Find, Gettable, Failing, Without
<1>11. EvictsOnlyAsker'
  <2>1. /\ \A x \in Gens : Gettable(x) /\ table[job.slot].inGen = x /\ Find(job)
                             => x = job.by
    BY <1>c, <1>d DEF Find, Gettable, SharedWithDead
  <2>. QED  BY <1>e, <2>1 DEF EvictsOnlyAsker
<1>12. AskedIds' /\ AnswerToAsker'
  BY DEF CloseExt, connVars, extVars, history, AskedIds, AnswerToAsker
<1>. QED  BY <1>1, <1>2, <1>3, <1>4, <1>5, <1>6, <1>7, <1>8, <1>9, <1>10, <1>11, <1>12 DEF IInv

\* ClientReady preserves the invariant.
LEMMA ClientReadyStep ==
    ASSUME IInv, ClientReady
    PROVE  IInv'
<1>. USE DEF IInv
<1>a. events # <<>> /\ events' = Tail(events) /\ Head(events)[1] = "ready"
  BY DEF ClientReady, Notified
<1>1. Typed'
  BY
  DEF Typed, Jobs, Exts, NoExt, Queries, Active, connVars, extVars, history,
      ClientReady, Notified
<1>2. RefsActive'
  BY
  DEF RefsActive, Typed, Active, Jobs, connVars, extVars, history, ClientReady,
      Notified
<1>3. TagsPending'
  BY <1>a, EventTaken DEF TagsPending, Active, Typed, ClientReady, Notified
<1>4. ReadyThenClose'
  BY <1>a, EventTaken
  DEF ReadyThenClose, RefsActive, Active, Typed, ClientReady, Notified
<1>5. ActiveSocks' /\ FdsDistinct' /\ RoutesLive' /\ RouteOrigin' /\ AskedIds'
     /\ JobsAsked' /\ SharedWithDead' /\ AnswerToAsker' /\ EvictsOnlyAsker'
  BY
  DEF ClientReady, Notified, connVars, extVars, history, ActiveSocks, Active,
      FdsDistinct, RoutesLive, RouteOrigin, AskedIds, JobsAsked,
      SharedWithDead, AnswerToAsker, EvictsOnlyAsker
<1>. QED  BY <1>1, <1>2, <1>3, <1>4, <1>5 DEF IInv

\* ClientClose preserves the invariant.
LEMMA ClientCloseStep ==
    ASSUME IInv, ClientClose
    PROVE  IInv'
<1>. USE DEF IInv
<1>a. events # <<>> /\ events' = Tail(events) /\ Head(events)[1] = "close"
  BY DEF ClientClose, Notified
<1>1. Typed'
  BY
  DEF Typed, Jobs, Exts, NoExt, Queries, Active, connVars, extVars, history,
      ClientClose, Notified, Without
<1>2. RefsActive'
  BY
  DEF RefsActive, Typed, Active, Jobs, connVars, extVars, history, ClientClose,
      Notified, Without
<1>3. TagsPending'
  BY <1>a, EventTaken DEF TagsPending, Active, Typed, ClientClose, Notified
<1>4. ReadyThenClose'
  BY <1>a, EventTaken
  DEF ReadyThenClose, RefsActive, Active, Typed, ClientClose, Notified
<1>5. RoutesLive'
  BY
  DEF RoutesLive, Typed, NoExt, Exts, connVars, extVars, history, ClientClose,
      Notified, Without
<1>6. RouteOrigin'
  BY
  DEF RouteOrigin, Typed, NoExt, Exts, connVars, extVars, history, ClientClose,
      Notified, Without
<1>7. SharedWithDead'
  BY
  DEF SharedWithDead, Typed, Queries, connVars, extVars, history, Exts, NoExt,
      ClientClose, Notified, Without
<1>8. ActiveSocks' /\ FdsDistinct' /\ AskedIds' /\ JobsAsked'
     /\ AnswerToAsker' /\ EvictsOnlyAsker'
  BY
  DEF ClientClose, Notified, connVars, extVars, history, ActiveSocks, Active,
      FdsDistinct, AskedIds, JobsAsked, AnswerToAsker, EvictsOnlyAsker
<1>. QED  BY <1>1, <1>2, <1>3, <1>4, <1>5, <1>6, <1>7, <1>8 DEF IInv

\* MiddleEndReady preserves the invariant.
LEMMA MiddleEndReadyStep ==
    ASSUME IInv, MiddleEndReady
    PROVE  IInv'
<1>. USE DEF IInv
<1>a. events # <<>> /\ events' = Tail(events) /\ Head(events)[1] = "ready"
  BY DEF MiddleEndReady, Notified
<1>1. Typed'
  BY
  DEF Typed, Jobs, Exts, NoExt, Queries, Active, connVars, extVars, history,
      MiddleEndReady, Notified
<1>2. RefsActive'
  BY
  DEF RefsActive, Typed, Active, Jobs, connVars, extVars, history,
      MiddleEndReady, Notified
<1>3. TagsPending'
  BY <1>a, EventTaken
  DEF TagsPending, ReadyThenClose, RefsActive, Active, Typed, MiddleEndReady,
      Notified
<1>4. ReadyThenClose'
  BY <1>a, EventTaken
  DEF ReadyThenClose, RefsActive, Active, Typed, MiddleEndReady, Notified
<1>5. RoutesLive'
  BY
  DEF RoutesLive, Typed, NoExt, Exts, connVars, extVars, history,
      MiddleEndReady, Notified
<1>6. ActiveSocks' /\ FdsDistinct' /\ RouteOrigin' /\ AskedIds' /\ JobsAsked'
     /\ SharedWithDead' /\ AnswerToAsker' /\ EvictsOnlyAsker'
  BY
  DEF MiddleEndReady, Notified, connVars, extVars, history, ActiveSocks,
      Active, FdsDistinct, RouteOrigin, AskedIds, JobsAsked, SharedWithDead,
      AnswerToAsker, EvictsOnlyAsker
<1>. QED  BY <1>1, <1>2, <1>3, <1>4, <1>5, <1>6 DEF IInv

\* MiddleEndClose preserves the invariant.
LEMMA MiddleEndCloseStep ==
    ASSUME IInv, MiddleEndClose
    PROVE  IInv'
<1>. USE DEF IInv
<1>a. events # <<>> /\ events' = Tail(events) /\ Head(events)[1] = "close"
  BY DEF MiddleEndClose, Notified
<1>1. Typed'
  BY
  DEF Typed, Jobs, Exts, NoExt, Queries, Active, connVars, extVars, history,
      MiddleEndClose, Notified, Without, Failing, RoutesOn, Gettable
<1>2. ActiveSocks'
  BY
  DEF ActiveSocks, Typed, Active, connVars, extVars, history, MiddleEndClose,
      Notified, Without, Failing, RoutesOn, Gettable
<1>3. RefsActive'
  BY
  DEF RefsActive, Typed, Active, Jobs, connVars, extVars, history,
      MiddleEndClose, Notified, Without, Failing, RoutesOn, Gettable
<1>4. TagsPending'
  BY <1>a, EventTaken
  DEF TagsPending, Active, Typed, MiddleEndClose, Notified, Failing
<1>5. ReadyThenClose'
  BY <1>a, EventTaken
  DEF ReadyThenClose, RefsActive, Active, Typed, MiddleEndClose, Notified,
      Failing
<1>6. FdsDistinct'
  BY
  DEF FdsDistinct, Typed, Active, connVars, extVars, history, MiddleEndClose,
      Notified, Without, Failing, RoutesOn, Gettable
<1>7. RoutesLive'
  BY
  DEF RoutesLive, Typed, NoExt, Exts, connVars, extVars, history,
      MiddleEndClose, Notified, Without, Failing, RoutesOn, Gettable
<1>8. RouteOrigin'
  BY
  DEF RouteOrigin, Typed, NoExt, Exts, connVars, extVars, history,
      MiddleEndClose, Notified, Without, Failing, RoutesOn, Gettable
<1>9. SharedWithDead'
  BY
  DEF SharedWithDead, Typed, Queries, connVars, extVars, history, Exts, NoExt,
      MiddleEndClose, Notified, Without, Failing, RoutesOn, Gettable
<1>10. AskedIds' /\ JobsAsked' /\ AnswerToAsker' /\ EvictsOnlyAsker'
  BY
  DEF MiddleEndClose, Notified, connVars, extVars, history, AskedIds,
      JobsAsked, AnswerToAsker, EvictsOnlyAsker
<1>. QED  BY <1>1, <1>2, <1>3, <1>4, <1>5, <1>6, <1>7, <1>8, <1>9, <1>10 DEF IInv

\* NotifyDone preserves the invariant.
LEMMA NotifyDoneStep ==
    ASSUME IInv, NotifyDone
    PROVE  IInv'
<1>. USE DEF IInv
<1>1. Typed'
  BY
  DEF Typed, Jobs, Exts, NoExt, Queries, Active, connVars, extVars, history,
      NotifyDone, EngineTakes
<1>2. RefsActive'
  BY
  DEF RefsActive, Typed, Active, Jobs, connVars, extVars, history, NotifyDone,
      EngineTakes
<1>3. JobsAsked'
  BY
  DEF JobsAsked, Typed, Jobs, connVars, extVars, history, NotifyDone,
      EngineTakes
<1>4. ActiveSocks' /\ TagsPending' /\ ReadyThenClose' /\ FdsDistinct'
     /\ RoutesLive' /\ RouteOrigin' /\ AskedIds' /\ SharedWithDead'
     /\ AnswerToAsker' /\ EvictsOnlyAsker'
  BY
  DEF NotifyDone, connVars, extVars, history, ActiveSocks, Active, TagsPending,
      CloseAfter, ReadyThenClose, FdsDistinct, RoutesLive, RouteOrigin,
      AskedIds, SharedWithDead, AnswerToAsker, EvictsOnlyAsker
<1>. QED  BY <1>1, <1>2, <1>3, <1>4 DEF IInv

\* CheckAllConnBuffers preserves the invariant.
LEMMA CheckAllConnBuffersStep ==
    ASSUME IInv, CheckAllConnBuffers
    PROVE  IInv'
<1>. USE DEF IInv
<1>1. Typed'
  BY
  DEF Typed, Jobs, Exts, NoExt, Queries, Active, connVars, extVars, history,
      CheckAllConnBuffers, Failing, Gettable
<1>2. ActiveSocks'
  BY
  DEF ActiveSocks, Typed, Active, connVars, extVars, history,
      CheckAllConnBuffers, Failing, Gettable
<1>3. RefsActive'
  BY
  DEF RefsActive, Typed, Active, Jobs, connVars, extVars, history,
      CheckAllConnBuffers, Failing, Gettable
<1>4. TagsPending'
  BY
  DEF TagsPending, Typed, Active, CloseAfter, connVars, extVars, history,
      CheckAllConnBuffers, Failing, Gettable
<1>5. ReadyThenClose'
  BY
  DEF ReadyThenClose, Typed, CloseAfter, connVars, extVars, history,
      CheckAllConnBuffers, Failing, Gettable
<1>6. FdsDistinct'
  BY
  DEF FdsDistinct, Typed, Active, connVars, extVars, history,
      CheckAllConnBuffers, Failing, Gettable
<1>7. RoutesLive'
  BY
  DEF RoutesLive, Typed, NoExt, Exts, connVars, extVars, history,
      CheckAllConnBuffers, Failing, Gettable
<1>8. RouteOrigin'
  BY
  DEF RouteOrigin, Typed, NoExt, Exts, connVars, extVars, history,
      CheckAllConnBuffers, Failing, Gettable
<1>9. AskedIds' /\ JobsAsked' /\ SharedWithDead' /\ AnswerToAsker'
     /\ EvictsOnlyAsker'
  BY
  DEF CheckAllConnBuffers, connVars, extVars, history, AskedIds, JobsAsked,
      SharedWithDead, AnswerToAsker, EvictsOnlyAsker
<1>. QED  BY <1>1, <1>2, <1>3, <1>4, <1>5, <1>6, <1>7, <1>8, <1>9 DEF IInv

-----------------------------------------------------------------------------
(* The theorems.                                                           *)

\* The invariant holds at the start.
LEMMA InitHolds == Init => IInv
BY ForwardAssumption
DEF Init, IInv, Typed, Active, ActiveSocks, RefsActive, TagsPending,
   ReadyThenClose, FdsDistinct, RoutesLive, RouteOrigin, AskedIds, JobsAsked,
   SharedWithDead, AnswerToAsker, EvictsOnlyAsker, Exts, Gens

\* A step that changes nothing preserves the invariant.
LEMMA StutterHolds == IInv /\ UNCHANGED vars => IInv'
BY DEF IInv, vars, connVars, extVars, history, Typed, Active, ActiveSocks,
   RefsActive, TagsPending, CloseAfter, ReadyThenClose, FdsDistinct, RoutesLive,
   RouteOrigin, AskedIds, JobsAsked, SharedWithDead, AnswerToAsker,
   EvictsOnlyAsker

\* Every step of the engine preserves the invariant.
LEMMA EngineHolds == IInv /\ Engine => IInv'
<1>. SUFFICES ASSUME IInv, Engine PROVE IInv'
  OBVIOUS
<1>1. CASE QueryRefused \/ QueryForwarded \/ QueryDropped \/ CloseExt
  BY <1>1, QueryRefusedStep, QueryForwardedStep, QueryDroppedStep, CloseExtStep
<1>2. CASE \E d \in Gens : QueryAfterDrop(d) \/ QueryRouted(d)
  BY <1>2, QueryAfterDropStep, QueryRoutedStep
<1>3. CASE \E op \in {"ans", "ack"} : Answer(op)
  BY <1>3, AnswerStep
<1>4. CASE Notify
  BY <1>4, ClientReadyStep, ClientCloseStep, MiddleEndReadyStep,
     MiddleEndCloseStep, NotifyDoneStep DEF Notify
<1>. QED  BY <1>1, <1>2, <1>3, <1>4 DEF Engine

\* Every step of the network preserves the invariant.
LEMMA NetworkHolds == ASSUME IInv, NEW g \in Gens, Network(g) PROVE IInv'
<1>1. CASE \E f \in Fds : Accept(g, f) \/ Connect(g, f)
  BY <1>1, AcceptStep, ConnectStep
<1>2. CASE Handshake(g) \/ FailConnection(g) \/ ClientPacket(g)
  BY <1>2, HandshakeStep, FailConnectionStep, ClientPacketStep
<1>3. CASE \E q \in asked, op \in {"ans", "ack", "close"} : MiddleEndPacket(g, q, op)
  BY <1>3, MiddleEndPacketStep
<1>. QED  BY <1>1, <1>2, <1>3 DEF Network

\* Every step preserves the invariant.
LEMMA StepHolds == IInv /\ [Next]_vars => IInv'
<1>. SUFFICES ASSUME IInv, [Next]_vars PROVE IInv'
  OBVIOUS
<1>1. CASE Engine
  BY <1>1, EngineHolds
<1>2. CASE CheckAllConnBuffers
  BY <1>2, CheckAllConnBuffersStep
<1>3. CASE \E g \in Gens : Network(g) \/ FailSocket(g) \/ Abort(g) \/ Finish(g)
  BY <1>3, NetworkHolds, FailSocketStep, AbortStep, FinishStep
<1>4. CASE UNCHANGED vars
  BY <1>4, StutterHolds
<1>. QED  BY <1>1, <1>2, <1>3, <1>4 DEF Next

\* The inductive invariant holds throughout.
THEOREM Inductive == Spec => []IInv
BY InitHolds, StepHolds, PTL DEF Spec

\* No route survives its middle-end connection, whatever the number of
\* connections and the order of their events (ext_connection lists of
\* mtfront_client_ready, create_ext_connection and mtfront_client_close).
THEOREM RoutesStayLive == Spec => []RoutesLive
<1>1. IInv => RoutesLive
  BY DEF IInv
<1>. QED  BY <1>1, Inductive, PTL

\* The assertion of mtfront_client_ready holds: no descriptor ever carries
\* two announced middle-end connections.
THEOREM OneAnnounced == Spec => []OneMiddleEndPerFd
<1>1. IInv => OneMiddleEndPerFd
  BY DEF IInv, OneMiddleEndPerFd, TagsPending, FdsDistinct
<1>. QED  BY <1>1, Inductive, PTL

\* Answers and acknowledgements of process_client_packet reach only the
\* connection that asked, though descriptors and slots are used again.
THEOREM AnswersReachAsker == Spec => []AnswerToAsker
<1>1. IInv => AnswerToAsker
  BY DEF IInv
<1>. QED  BY <1>1, Inductive, PTL

\* RPC_CLOSE_EXT fails only the connection whose query it is about.
THEOREM ClosesHitAsker == Spec => []EvictsOnlyAsker
<1>1. IInv => EvictsOnlyAsker
  BY DEF IInv
<1>. QED  BY <1>1, Inductive, PTL

-----------------------------------------------------------------------------
(* ConnLRU: removal from a list.                                           *)

\* A set of numbers has a least one.
LEMMA Least ==
    ASSUME NEW T \in SUBSET Nat, T # {}
    PROVE  \E n \in T : \A k \in T : n <= k
<1>. DEFINE R == {p \in Nat \X Nat : p[1] < p[2]}
<1>1. IsWellFoundedOn(R, Nat)
  <2>1. OpToRel(<, Nat) = R
    BY DEF OpToRel
  <2>. QED  BY <2>1, NatLessThanWellFounded
<1>. HIDE DEF R
<1>2. PICK n \in T : \A k \in T : <<k, n>> \notin R
  BY <1>1, WFMin
<1>3. ASSUME NEW k \in T PROVE n <= k
  <2>1. <<k, n>> \notin R
    BY <1>2
  <2>. QED  BY <2>1 DEF R
<1>. QED  BY <1>3

\* The first m prefixes without the members of S.
Prefixes(g, m, l, S) ==
    g = [i \in 0 .. m |->
           IF i = 0 THEN <<>>
           ELSE IF l[i] \in S THEN g[i - 1] ELSE Append(g[i - 1], l[i])]

LEMMA PrefixesExist ==
    ASSUME NEW l, NEW S, NEW n \in Nat
    PROVE  \E g : Prefixes(g, n, l, S)
<1>. DEFINE T == {m \in Nat : \A g : ~Prefixes(g, m, l, S)}
<1>1. ASSUME T # {} PROVE FALSE
  <2>1. PICK m \in T : \A k \in T : m <= k
    BY <1>1, Least
  <2>2. CASE m = 0
    <3>1. Prefixes([i \in 0 .. 0 |-> <<>>], 0, l, S)
      BY DEF Prefixes
    <3>. QED  BY <2>1, <2>2, <3>1
  <2>3. CASE m # 0
    <3>1. m - 1 \in Nat /\ m \in Nat /\ m - 1 \notin T
      BY <2>1, <2>3
    <3>2. PICK g : Prefixes(g, m - 1, l, S)
      BY <3>1
    <3>3. PICK v : v = IF l[m] \in S THEN g[m - 1] ELSE Append(g[m - 1], l[m])
      OBVIOUS
    <3>4. PICK h : h = [i \in 0 .. m |-> IF i < m THEN g[i] ELSE v]
      OBVIOUS
    <3>5. \A i \in 0 .. m - 1 : h[i] = g[i]
      BY <3>1, <3>4
    <3>6. \A i \in 0 .. m :
            h[i] = IF i = 0 THEN <<>>
                   ELSE IF l[i] \in S THEN h[i - 1] ELSE Append(h[i - 1], l[i])
      <4>1. ASSUME NEW i \in 0 .. m - 1
            PROVE  h[i] = IF i = 0 THEN <<>>
                   ELSE IF l[i] \in S THEN h[i - 1] ELSE Append(h[i - 1], l[i])
        <5>1. g[i] = IF i = 0 THEN <<>>
                     ELSE IF l[i] \in S THEN g[i - 1] ELSE Append(g[i - 1], l[i])
          BY <3>2 DEF Prefixes
        <5>2. i # 0 => h[i - 1] = g[i - 1]
          BY <3>1, <3>5
        <5>. QED  BY <3>5, <5>1, <5>2
      <4>2. h[m] = v /\ h[m - 1] = g[m - 1]
        BY <3>1, <3>4, <3>5
      <4>. QED  BY <2>3, <3>1, <3>3, <4>1, <4>2
    <3>7. Prefixes(h, m, l, S)
      BY <3>4, <3>6 DEF Prefixes
    <3>. QED  BY <2>1, <3>7
  <2>. QED  BY <2>2, <2>3
<1>. QED  BY <1>1

LEMMA WithoutPrefixes ==
    ASSUME NEW l \in Seq(Fds), NEW S
    PROVE  \E g : Prefixes(g, Len(l), l, S) /\ LruWithout(l, S) = g[Len(l)]
<1>1. PICK n : n = Len(l) /\ n \in Nat
  OBVIOUS
<1>2. \E g : Prefixes(g, n, l, S)
  BY <1>1, PrefixesExist
<1>. DEFINE k == CHOOSE g : Prefixes(g, n, l, S)
<1>3. Prefixes(k, n, l, S)
  BY <1>2
<1>4. LruWithout(l, S) = k[n]
  BY <1>1 DEF LruWithout, Prefixes
<1>. QED  BY <1>1, <1>3, <1>4

\* What is left: members of l in their order, none of S, none twice.
LEMMA Left ==
    ASSUME NEW l \in Seq(Fds), NEW S,
           \A i, j \in DOMAIN l : l[i] = l[j] => i = j
    PROVE  /\ LruWithout(l, S) \in Seq(Fds)
           /\ \A a \in DOMAIN LruWithout(l, S) :
                /\ LruWithout(l, S)[a] \notin S
                /\ \E i \in DOMAIN l : LruWithout(l, S)[a] = l[i]
           /\ \A a, b \in DOMAIN LruWithout(l, S) :
                LruWithout(l, S)[a] = LruWithout(l, S)[b] => a = b
<1>1. PICK g : Prefixes(g, Len(l), l, S) /\ LruWithout(l, S) = g[Len(l)]
  BY WithoutPrefixes
<1>. DEFINE Good(m) == /\ g[m] \in Seq(Fds)
                       /\ \A a \in DOMAIN g[m] :
                            /\ g[m][a] \notin S
                            /\ \E i \in 1 .. m : g[m][a] = l[i]
                       /\ \A a, b \in DOMAIN g[m] : g[m][a] = g[m][b] => a = b
            T == {m \in 0 .. Len(l) : ~Good(m)}
<1>2. Len(l) \in Nat /\ DOMAIN l = 1 .. Len(l) /\ \A i \in 1 .. Len(l) : l[i] \in Fds
  OBVIOUS
<1>3. ASSUME T # {} PROVE FALSE
  <2>1. PICK m \in T : \A k \in T : m <= k
    <3>1. T \in SUBSET Nat
      BY <1>2
    <3>. HIDE DEF T
    <3>. QED  BY <1>3, <3>1, Least
  <2>2. m \in 0 .. Len(l) /\ ~Good(m)
    OBVIOUS
  <2>3. CASE m = 0
    <3>1. g[0] = <<>>
      BY <1>1, <1>2 DEF Prefixes
    <3>. QED  BY <2>2, <2>3, <3>1
  <2>4. CASE m # 0
    <3>1. m \in Nat /\ m - 1 \in 0 .. Len(l) /\ m \in 1 .. Len(l) /\ m - 1 \in Nat
      BY <1>2, <2>2, <2>4
    <3>2. Good(m - 1)
      <4>1. m - 1 \notin T
        BY SMTT(40), <2>1, <3>1
      <4>. QED  BY <3>1, <4>1
    <3>3. g[m] = IF l[m] \in S THEN g[m - 1] ELSE Append(g[m - 1], l[m])
      BY <1>1, <2>2, <2>4 DEF Prefixes
    <3>4. PICK q \in Seq(Fds) : q = g[m - 1]
      BY <3>2
    <3>5. /\ \A a \in DOMAIN q : /\ q[a] \notin S
                                 /\ \E i \in 1 .. m - 1 : q[a] = l[i]
          /\ \A a, b \in DOMAIN q : q[a] = q[b] => a = b
      BY <3>2, <3>4
    <3>6. CASE l[m] \in S
      <4>1. g[m] = q /\ \A i \in 1 .. m - 1 : i \in 1 .. m
        BY <3>1, <3>3, <3>4, <3>6
      <4>2. Good(m)
        BY <3>5, <4>1
      <4>. QED  BY <2>2, <4>2
    <3>7. CASE l[m] \notin S
      <4>1. PICK r : r = Append(q, l[m])
        OBVIOUS
      <4>2. /\ r \in Seq(Fds) /\ Len(q) \in Nat
            /\ DOMAIN r = 1 .. Len(q) + 1 /\ DOMAIN q = 1 .. Len(q)
            /\ r[Len(q) + 1] = l[m]
            /\ \A a \in 1 .. Len(q) : r[a] = q[a]
        BY <1>2, <3>1, <4>1
      <4>3. \A a \in 1 .. Len(q) : q[a] # l[m]
        <5>. SUFFICES ASSUME NEW a \in 1 .. Len(q), q[a] = l[m] PROVE FALSE
          OBVIOUS
        <5>1. PICK i \in 1 .. m - 1 : q[a] = l[i]
          BY <3>5, <4>2
        <5>2. i \in DOMAIN l /\ m \in DOMAIN l /\ i # m
          BY <1>2, <3>1
        <5>. QED  BY <5>1, <5>2
      <4>4. \A a \in DOMAIN r : /\ r[a] \notin S
                                /\ \E i \in 1 .. m : r[a] = l[i]
        <5>. SUFFICES ASSUME NEW a \in DOMAIN r
                      PROVE  r[a] \notin S /\ \E i \in 1 .. m : r[a] = l[i]
          OBVIOUS
        <5>1. CASE a = Len(q) + 1
          BY <3>1, <3>7, <4>2, <5>1
        <5>2. CASE a \in 1 .. Len(q)
          <6>1. PICK i \in 1 .. m - 1 : q[a] = l[i]
            BY <3>5, <4>2, <5>2
          <6>2. i \in 1 .. m
            BY <3>1
          <6>. QED  BY <3>5, <4>2, <5>2, <6>1, <6>2
        <5>. QED  BY <4>2, <5>1, <5>2
      <4>5. \A a, b \in DOMAIN r : r[a] = r[b] => a = b
        <5>. SUFFICES ASSUME NEW a \in DOMAIN r, NEW b \in DOMAIN r, r[a] = r[b]
                      PROVE  a = b
          OBVIOUS
        <5>1. /\ a \in 1 .. Len(q) \/ a = Len(q) + 1
              /\ b \in 1 .. Len(q) \/ b = Len(q) + 1
          BY <4>2
        <5>. QED  BY <3>5, <4>2, <4>3, <5>1
      <4>6. g[m] = r
        BY <3>3, <3>4, <3>7, <4>1
      <4>7. Good(m)
        BY <4>2, <4>4, <4>5, <4>6
      <4>. QED  BY <2>2, <4>7
    <3>. QED  BY <3>6, <3>7
  <2>. QED  BY <2>3, <2>4
<1>4. Good(Len(l))
  <2>1. Len(l) \in 0 .. Len(l)
    BY <1>2
  <2>. QED  BY <1>3, <2>1
<1>. QED  BY <1>1, <1>2, <1>4

-----------------------------------------------------------------------------
(* ConnLRU: the steps.                                                     *)

ListInv == lru \in Seq(Fds) /\ LruLive

\* The parts of the type invariant that nothing else depends on.
Rest ==
    /\ shaken \in [Gens -> BOOLEAN] /\ dropped \in [Gens -> BOOLEAN]
    /\ queries \in 0 .. MaxQueries /\ replies \in 0 .. MaxReplies

\* ext_connections that are removed leave the list.
LEMMA CutList ==
    ASSUME ListInv, NEW S, lru' = LruWithout(lru, S),
           \A f \in Fds \ S : table'[f] = table[f]
    PROVE  ListInv' /\ \A i \in DOMAIN lru' : lru'[i] \notin S
<1>1. /\ lru' \in Seq(Fds)
      /\ \A a \in DOMAIN lru' : /\ lru'[a] \notin S
                                /\ \E i \in DOMAIN lru : lru'[a] = lru[i]
      /\ \A a, b \in DOMAIN lru' : lru'[a] = lru'[b] => a = b
  BY Left DEF ListInv, LruLive
<1>2. \A a \in DOMAIN lru' : lru'[a] \in Fds
  BY <1>1
<1>3. \A a \in DOMAIN lru' : table'[lru'[a]] # NoExt
  BY <1>1, <1>2 DEF ListInv, LruLive
<1>. QED  BY <1>1, <1>3 DEF ListInv, LruLive

\* lru_insert_conn: the ext_connection of a connection goes to the end.
LEMMA TouchedList ==
    ASSUME ListInv, NEW c \in Gens, fd[c] \in Fds, lru' = LruTouched(c), table' = table
    PROVE  ListInv'
<1>1. CASE table[fd[c]].inGen # c
  BY <1>1 DEF LruTouched, ListInv, LruLive
<1>2. CASE table[fd[c]].inGen = c
  <2>1. PICK f, S, q : f = fd[c] /\ S = {f} /\ q = LruWithout(lru, S)
    OBVIOUS
  <2>2. /\ q \in Seq(Fds)
        /\ \A a \in DOMAIN q : q[a] # f /\ \E i \in DOMAIN lru : q[a] = lru[i]
        /\ \A a, b \in DOMAIN q : q[a] = q[b] => a = b
    <3>1. lru \in Seq(Fds) /\ \A a, b \in DOMAIN lru : lru[a] = lru[b] => a = b
      BY DEF ListInv, LruLive
    <3>2. /\ q \in Seq(Fds)
          /\ \A a \in DOMAIN q : q[a] \notin S /\ \E i \in DOMAIN lru : q[a] = lru[i]
          /\ \A a, b \in DOMAIN q : q[a] = q[b] => a = b
      <4>1. PICK l : l = lru
        OBVIOUS
      <4>2. l \in Seq(Fds) /\ \A a, b \in DOMAIN l : l[a] = l[b] => a = b
        BY <3>1, <4>1
      <4>3. /\ LruWithout(l, S) \in Seq(Fds)
            /\ \A a \in DOMAIN LruWithout(l, S) :
                 /\ LruWithout(l, S)[a] \notin S
                 /\ \E i \in DOMAIN l : LruWithout(l, S)[a] = l[i]
            /\ \A a, b \in DOMAIN LruWithout(l, S) :
                 LruWithout(l, S)[a] = LruWithout(l, S)[b] => a = b
        BY <4>2, Left, Zenon
      <4>4. q = LruWithout(l, S)
        BY <2>1, <4>1
      <4>. QED  BY <4>1, <4>3, <4>4
    <3>. QED  BY <2>1, <3>2
  <2>3. lru' = Append(q, f) /\ f \in Fds
    BY <1>2, <2>1 DEF LruTouched
  <2>4. table[f] # NoExt
    BY <1>2, <2>1, ForwardAssumption DEF NoExt, Gens
  <2>5. /\ lru' \in Seq(Fds) /\ Len(q) \in Nat
        /\ DOMAIN lru' = 1 .. Len(q) + 1 /\ DOMAIN q = 1 .. Len(q)
        /\ lru'[Len(q) + 1] = f
        /\ \A a \in 1 .. Len(q) : lru'[a] = q[a]
    BY <2>2, <2>3
  <2>6. \A a \in DOMAIN lru' : a \in 1 .. Len(q) \/ a = Len(q) + 1
    BY <2>5
  <2>7. \A a \in DOMAIN lru' : table'[lru'[a]] # NoExt
    BY <2>2, <2>4, <2>5, <2>6 DEF ListInv, LruLive
  <2>8. \A a, b \in DOMAIN lru' : lru'[a] = lru'[b] => a = b
    BY <2>2, <2>5, <2>6
  <2>. QED  BY <2>5, <2>7, <2>8 DEF ListInv, LruLive
<1>. QED  BY <1>1, <1>2

\* The connection a query is of, or an event, still has its descriptor.
LEMMA HeadsHaveFds ==
    ASSUME IInv
    PROVE  /\ EngineTakes("query") => /\ Head(engine).conn \in Gens
                                      /\ fd[Head(engine).conn] \in Fds
           /\ events # <<>> => Head(events)[2] \in Gens /\ fd[Head(events)[2]] \in Fds
<1>. USE DEF IInv
<1>1. ASSUME EngineTakes("query")
      PROVE  Head(engine).conn \in Gens /\ fd[Head(engine).conn] \in Fds
  <2>1. engine # <<>> /\ Head(engine).op = "query" /\ engine \in Seq(Jobs)
    BY <1>1 DEF EngineTakes, Typed
  <2>2. Head(engine) \in Jobs /\ 1 \in DOMAIN engine /\ engine[1] = Head(engine)
    BY <2>1, TailOf
  <2>3. Head(engine).conn \in Gens
    BY <2>1, <2>2 DEF Jobs
  <2>. QED  BY <2>1, <2>2, <2>3 DEF RefsActive, Typed
<1>2. ASSUME events # <<>>
      PROVE  Head(events)[2] \in Gens /\ fd[Head(events)[2]] \in Fds
  <2>1. /\ Head(events) \in {"ready", "close"} \X Gens
        /\ 1 \in DOMAIN events /\ events[1] = Head(events)
    BY <1>2, TailOf DEF Typed
  <2>2. Head(events)[2] \in Gens
    BY <2>1
  <2>. QED  BY <2>1, <2>2 DEF RefsActive, Typed
<1>. QED  BY <1>1, <1>2

\* What a step does to the list and to the ext_connections on it.
LEMMA ListStep ==
    ASSUME IInv, ListInv, [Next]_vars
    PROVE  ListInv'
<1>1. CASE UNCHANGED <<table, lru>>
  BY <1>1 DEF ListInv, LruLive
<1>2. ASSUME NEW c \in Gens, fd[c] \in Fds, lru' = LruTouched(c), table' = table
      PROVE  ListInv'
  BY <1>2, TouchedList
<1>3. ASSUME NEW S, table' = Without(table, S), lru' = LruWithout(lru, S)
      PROVE  ListInv'
  <2>1. \A f \in Fds \ S : table'[f] = table[f]
    BY <1>3 DEF Without
  <2>. QED  BY <1>3, <2>1, CutList
<1>4. CASE CheckAllConnBuffers
  <2>1. lru # <<>> /\ lru' = Tail(lru) /\ table' = table
    BY <1>4 DEF CheckAllConnBuffers
  <2>2. /\ lru' \in Seq(Fds)
        /\ \A i \in DOMAIN lru' : i \in Nat /\ i + 1 \in DOMAIN lru /\ lru'[i] = lru[i + 1]
    BY <2>1, TailOf DEF ListInv
  <2>3. \A i \in DOMAIN lru' : table'[lru'[i]] # NoExt
    BY <2>1, <2>2 DEF ListInv, LruLive
  <2>4. ASSUME NEW i \in DOMAIN lru', NEW j \in DOMAIN lru', lru'[i] = lru'[j]
        PROVE  i = j
    <3>1. i + 1 = j + 1 /\ i \in Nat /\ j \in Nat
      BY <2>2, <2>4 DEF ListInv, LruLive
    <3>. QED  BY <3>1
  <2>. QED  BY <2>2, <2>3, <2>4 DEF ListInv, LruLive
<1>5. ASSUME NEW d \in Gens, QueryRouted(d) PROVE ListInv'
  <2>1. PICK f : f = fd[Head(engine).conn]
    OBVIOUS
  <2>2. /\ f \in Fds /\ lru' = LruWithout(lru, {f})
        /\ \A g \in Fds \ {f} : table'[g] = table[g]
    BY <1>5, <2>1, HeadsHaveFds DEF QueryRouted, IInv, Typed
  <2>. QED  BY <2>2, CutList
<1>6. CASE Engine
  <2>1. CASE QueryRefused \/ QueryForwarded
    BY <1>2, <2>1, HeadsHaveFds DEF QueryRefused, QueryForwarded
  <2>2. CASE QueryDropped
    BY <1>3, <2>2 DEF QueryDropped
  <2>3. ASSUME NEW d \in Gens, QueryAfterDrop(d) PROVE ListInv'
    BY <1>3, <2>3 DEF QueryAfterDrop
  <2>4. CASE CloseExt
    BY <1>3, <2>4 DEF CloseExt
  <2>5. ASSUME NEW op \in {"ans", "ack"}, Answer(op) PROVE ListInv'
    BY <1>1, <2>5 DEF Answer, extVars
  <2>6. CASE ClientReady
    BY <1>2, <2>6, HeadsHaveFds DEF ClientReady, Notified
  <2>7. CASE ClientClose
    BY <1>3, <2>7 DEF ClientClose
  <2>8. CASE MiddleEndClose
    BY <1>3, <2>8 DEF MiddleEndClose
  <2>9. CASE MiddleEndReady \/ NotifyDone
    BY <1>1, <2>9 DEF MiddleEndReady, NotifyDone, extVars
  <2>. QED
    BY <1>5, <1>6, <2>1, <2>2, <2>3, <2>4, <2>5, <2>6, <2>7, <2>8, <2>9 DEF Engine, Notify
<1>7. ASSUME NEW g \in Gens, Network(g) \/ FailSocket(g) \/ Abort(g) \/ Finish(g)
      PROVE  ListInv'
  BY <1>1, <1>7
  DEF Network, FailSocket, Abort, Finish, Accept, Connect, NewConnection, Handshake,
      FailConnection, ClientPacket, MiddleEndPacket, extVars
<1>8. CASE UNCHANGED vars
  BY <1>1, <1>8 DEF vars, extVars
<1>. QED  BY <1>4, <1>6, <1>7, <1>8 DEF Next

LEMMA RestStep ==
    ASSUME IInv, Rest, [Next]_vars
    PROVE  Rest'
<1>1. /\ MaxQueries \in Nat /\ MaxReplies \in Nat
      /\ queries \in Nat /\ replies \in Nat
  BY ForwardAssumption DEF Rest
<1>2. CASE UNCHANGED <<shaken, dropped, queries, replies>>
  BY <1>2 DEF Rest
<1>3. CASE Engine
  <2>1. CASE QueryDropped
    BY <2>1 DEF QueryDropped, Rest
  <2>2. CASE ~QueryDropped
    <3>1. UNCHANGED <<shaken, dropped, queries, replies>>
      BY <1>3, <2>2
      DEF Engine, Notify, QueryRefused, QueryForwarded, QueryAfterDrop, QueryRouted, CloseExt,
          Answer, ClientReady, ClientClose, MiddleEndReady, MiddleEndClose, NotifyDone,
          Notified, connVars
    <3>. QED  BY <3>1, <1>2
  <2>. QED  BY <2>1, <2>2
<1>4. ASSUME NEW g \in Gens, Network(g) PROVE Rest'
  <2>1. CASE \E f \in Fds : Accept(g, f) \/ Connect(g, f)
    BY <1>2, <2>1 DEF Accept, Connect, NewConnection
  <2>2. CASE Handshake(g)
    BY <2>2 DEF Handshake, Rest
  <2>3. CASE FailConnection(g)
    BY <1>2, <2>3 DEF FailConnection
  <2>4. CASE ClientPacket(g)
    BY <1>1, <2>4 DEF ClientPacket, connVars, Rest
  <2>5. CASE \E q \in asked, op \in {"ans", "ack", "close"} : MiddleEndPacket(g, q, op)
    BY <1>1, <2>5 DEF MiddleEndPacket, connVars, Rest
  <2>. QED  BY <1>4, <2>1, <2>2, <2>3, <2>4, <2>5 DEF Network
<1>5. ASSUME NEW g \in Gens, FailSocket(g) \/ Abort(g) \/ Finish(g) PROVE Rest'
  BY <1>2, <1>5 DEF FailSocket, Abort, Finish
<1>6. CASE CheckAllConnBuffers \/ UNCHANGED vars
  BY <1>2, <1>6 DEF CheckAllConnBuffers, vars, connVars
<1>. QED  BY <1>3, <1>4, <1>5, <1>6 DEF Next

(* Types; RPC_CLOSE_EXT closes only the connection it is about; ConnLRU    *)
(* holds each live ext_connection at most once, and nothing else, so that  *)
(* check_all_conn_buffers follows none that was freed.                     *)
THEOREM RoutesCorrect == Spec => []RoutesInv
<1>1. Init => ListInv /\ Rest
  BY ForwardAssumption DEF Init, ListInv, LruLive, Rest
<1>2. IInv /\ ListInv /\ Rest => RoutesInv
  BY DEF IInv, Typed, Active, TypeOK, ListInv, Rest, RoutesInv
<1>. QED  BY <1>1, <1>2, InitHolds, StepHolds, ListStep, RestStep, PTL DEF Spec
=============================================================================
