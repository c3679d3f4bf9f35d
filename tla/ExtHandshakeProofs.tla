------------------------- MODULE ExtHandshakeProofs -------------------------
(***************************************************************************)
(* Proofs about the door of the proxy: SecretStore, ExtHandshake and       *)
(* ReplayCache, for any secrets, options, old state files, connections,    *)
(* client randoms and bounds, whether or not allocations fail and writes   *)
(* are cut short.  First the store: what it holds, what it reads and what  *)
(* it saves.  Then the connections beside it: a handshake that works on a  *)
(* copy of the secrets is not fooled by what the admin thread does in      *)
(* between.  Then the cache of client randoms, and the door as a whole.    *)
(***************************************************************************)
EXTENDS MCHandshake, TLAPS

-----------------------------------------------------------------------------
(* The inductive invariant.                                                *)

\* The secret is given by an -S option.
Optioned(s) == \E i \in DOMAIN Bootstrap : Bootstrap[i] = s

\* Lines or entries q hold what promise p says of s.
Fulfils(q, s, p) ==
    IF p.present
    THEN \E i \in DOMAIN q : /\ q[i].secret = s
                             /\ q[i].enabled = p.enabled
                             /\ q[i].expires = p.expires
    ELSE \A i \in DOMAIN q : q[i].secret # s

\* q and r say the same of s.
SameFor(q, r, s) ==
    /\ \A i \in DOMAIN q : q[i].secret = s =>
         \E j \in DOMAIN r : /\ r[j].secret = s
                             /\ r[j].enabled = q[i].enabled
                             /\ r[j].expires = q[i].expires
    /\ \A j \in DOMAIN r : r[j].secret = s => \E i \in DOMAIN q : q[i].secret = s

\* The lines of the file are of different secrets; without a file there are none.
FileInv ==
    /\ \A i, j \in DOMAIN file.lines :
         file.lines[i].secret = file.lines[j].secret => i = j
    /\ ~file.present => file.lines = <<>>

\* The header of the file has been read before its lines.
HeaderRead == phase = "load" => file.next <= nextId

\* The first n lines are in the array.
LoadedTo(n) ==
    \A k \in DOMAIN file.lines : k <= n =>
        \E i \in DOMAIN store : /\ store[i].secret = file.lines[k].secret
                                /\ store[i].enabled = file.lines[k].enabled
                                /\ store[i].expires = file.lines[k].expires

\* A start-up that was not broken off has taken the lines before its cursor.
LoadedLines ==
    ~spoilt => /\ phase = "load" => LoadedTo(cursor - 1)
               /\ phase = "sum" => LoadedTo(Len(file.lines))

\* What start-up has put into the array is of an option or of a line.
LoadedFrom ==
    /\ phase = "boot" => \A i \in DOMAIN store : Optioned(store[i].secret)
    /\ phase \in {"load", "sum"} =>
         \A i \in DOMAIN store :
             \/ Optioned(store[i].secret)
             \/ \E k \in DOMAIN file.lines : file.lines[k].secret = store[i].secret

StoreInv ==
    /\ StoreTypeOK
    /\ IdsUnique
    /\ FileInv
    /\ HeaderRead
    /\ LoadedLines
    /\ LoadedFrom
    /\ AckedKept

-----------------------------------------------------------------------------
(* Operators.                                                              *)

\* A function on 1 .. n is a sequence.
LEMMA FunctionSeq ==
    ASSUME NEW S, NEW n \in Nat, NEW f \in [1 .. n -> S]
    PROVE  f \in Seq(S) /\ Len(f) = n /\ DOMAIN f = 1 .. n
OBVIOUS

\* A sequence with x put behind it.
LEMMA AppendedTo ==
    ASSUME NEW S, NEW q \in Seq(S), NEW x \in S
    PROVE  /\ Append(q, x) \in Seq(S)
           /\ Len(q) \in Nat /\ DOMAIN q = 1 .. Len(q)
           /\ DOMAIN Append(q, x) = 1 .. Len(q) + 1
           /\ \A i \in 1 .. Len(q) : Append(q, x)[i] = q[i]
           /\ Append(q, x)[Len(q) + 1] = x
OBVIOUS

\* Keeps is Fulfils for the promise of the moment.
LEMMA KeepsFulfils ==
    ASSUME NEW q, NEW s
    PROVE  Keeps(q, s) <=> Fulfils(q, s, promised[s])
BY DEF Keeps, Fulfils

\* What says the same of s keeps the same promise.
LEMMA SameFulfils ==
    ASSUME NEW q, NEW r, NEW s, NEW p, SameFor(q, r, s), Fulfils(q, s, p)
    PROVE  Fulfils(r, s, p)
BY DEF SameFor, Fulfils

\* AckedKept in terms of Fulfils.
LEMMA AckedFulfils ==
    AckedKept <=>
      (~spoilt /\ StateFile =>
         \A s \in Secrets :
           promised[s].known /\ ~(~promised[s].present /\ Optioned(s)) =>
             /\ Fulfils(file.lines, s, promised[s])
             /\ phase = "run" => Fulfils(store, s, promised[s]))
BY DEF AckedKept, AckedSurvive, Keeps, Fulfils, ReaddedByOption, Optioned

\* The counter array can grow past any id.
LEMMA CapReserved ==
    ASSUME metricsCap \in Nat, NEW want \in Ids
    PROVE  ReservedCap(want) \in Nat
<1>1. want \in 0 .. MaxId
  BY ConstantsAssumption DEF Ids
<1>2. \E c \in Caps : IsLeastCap(c, want)
  BY <1>1, CapsAssumption
<1>. QED
  BY <1>2, CapsAssumption DEF ReservedCap

\* The lines ext_persist_locked prints are of the same secrets and settings.
LEMMA ImageLines ==
    ASSUME StoreTypeOK, NEW q \in Seq(Entry), NEW n \in 1 .. MaxId + 1
    PROVE  /\ ImageOf(q, n) \in Image
           /\ ImageOf(q, n).present /\ ImageOf(q, n).next = n
           /\ Len(q) \in Nat /\ DOMAIN q = 1 .. Len(q)
           /\ DOMAIN ImageOf(q, n).lines = DOMAIN q
           /\ Len(ImageOf(q, n).lines) = Len(q)
           /\ ImageOf(q, n).lines \in Seq(Line)
           /\ \A i \in DOMAIN q :
                /\ ImageOf(q, n).lines[i].secret = q[i].secret
                /\ ImageOf(q, n).lines[i].id = q[i].id
                /\ ImageOf(q, n).lines[i].enabled = q[i].enabled
                /\ ImageOf(q, n).lines[i].expires = q[i].expires
<1>. DEFINE L == [i \in DOMAIN q |-> LineOf(q[i])]
<1>1. Len(q) \in Nat /\ DOMAIN q = 1 .. Len(q)
  OBVIOUS
<1>2. \A E \in Entry : LineOf(E) \in Line
  <2>. SUFFICES ASSUME NEW E \in Entry PROVE LineOf(E) \in Line
    OBVIOUS
  <2>1. MetricOf(E.id) \in Metric
    BY DEF StoreTypeOK, MetricOf, Entry, NoMetric, Metric
  <2>2. E.id \in 0 .. MaxId
    BY ConstantsAssumption DEF Entry, Ids
  <2>. QED
    BY <2>1, <2>2 DEF LineOf, Line, Entry, Metric
<1>3. L \in [1 .. Len(q) -> Line]
  BY <1>1, <1>2
<1>4. L \in Seq(Line) /\ Len(L) = Len(q)
  BY <1>1, <1>3, FunctionSeq
<1>5. n \in 0 .. MaxId + 1
  BY ConstantsAssumption
<1>. QED
  BY <1>1, <1>4, <1>5 DEF ImageOf, Image, LineOf

\* The first elements of a sequence.
LEMMA Prefix ==
    ASSUME NEW S, NEW q \in Seq(S), NEW n \in 0 .. Len(q)
    PROVE  /\ SubSeq(q, 1, n) \in Seq(S)
           /\ Len(q) \in Nat
           /\ DOMAIN q = 1 .. Len(q)
           /\ DOMAIN SubSeq(q, 1, n) = 1 .. n
           /\ \A i \in 1 .. n : SubSeq(q, 1, n)[i] = q[i]
OBVIOUS

LEMMA CutOne ==
    ASSUME NEW S, NEW q \in Seq(S), NEW m \in Nat, m >= 1, DOMAIN q = 1 .. m,
           NEW r, r = SubSeq(q, 1, m - 1)
    PROVE  /\ r \in Seq(S)
           /\ DOMAIN r = 1 .. m - 1
           /\ \A i \in 1 .. m - 1 : r[i] = q[i]
<1>1. m - 1 \in 0 .. Len(q)
  OBVIOUS
<1>. QED
  BY <1>1, Prefix

\* Entries of different secrets and ids, below the next id.
Distinct(q, n) ==
    /\ \A i, j \in DOMAIN q :
         i = j \/ (q[i].secret # q[j].secret /\ q[i].id # q[j].id)
    /\ \A i \in DOMAIN q : q[i].id < n

\* What ext_persist_locked leaves on disk, whether or not it succeeds.
LEMMA Persisted ==
    ASSUME StoreTypeOK, FileInv, IdsUnique,
           NEW q \in Seq(Entry), NEW n \in 1 .. MaxId + 1, Distinct(q, n),
           NEW r \in BOOLEAN, Persist(r, q, n)
    PROVE  /\ file' \in Image /\ spoilt' \in BOOLEAN
           /\ FileInv'
           /\ \A i \in DOMAIN file'.lines :
                file'.lines[i].id # 0 => file'.lines[i].id < file'.next
           /\ spoilt => spoilt'
           /\ ~r => UNCHANGED <<file, spoilt>>
           /\ r /\ StateFile /\ ~spoilt' =>
                \A s \in Secrets : SameFor(q, file'.lines, s)
<1>. DEFINE I == ImageOf(q, n)
<1>1. /\ I \in Image /\ I.present /\ I.next = n
      /\ Len(q) \in Nat /\ DOMAIN q = 1 .. Len(q)
      /\ DOMAIN I.lines = DOMAIN q /\ Len(I.lines) = Len(q)
      /\ I.lines \in Seq(Line)
      /\ \A i \in DOMAIN q : /\ I.lines[i].secret = q[i].secret
                             /\ I.lines[i].id = q[i].id
                             /\ I.lines[i].enabled = q[i].enabled
                             /\ I.lines[i].expires = q[i].expires
  BY ImageLines
<1>. HIDE DEF I
<1>2. CASE UNCHANGED <<file, spoilt>> /\ (r => ~StateFile)
  BY <1>2 DEF StoreTypeOK, FileInv, IdsUnique
<1>3. CASE r /\ StateFile /\ file' = I /\ UNCHANGED spoilt
  <2>1. FileInv'
    BY <1>1, <1>3 DEF FileInv, Distinct
  <2>2. \A i \in DOMAIN file'.lines :
          file'.lines[i].id # 0 => file'.lines[i].id < file'.next
    BY <1>1, <1>3 DEF Distinct
  <2>3. \A s \in Secrets : SameFor(q, file'.lines, s)
    BY <1>1, <1>3 DEF SameFor
  <2>. QED
    BY <1>1, <1>3, <2>1, <2>2, <2>3 DEF StoreTypeOK
<1>4. CASE /\ r /\ StateFile /\ spoilt' = TRUE
           /\ \E k \in 0 .. Len(q) - 1, h \in {0, n} :
                /\ h = 0 => k = 0
                /\ file' = [I EXCEPT !.next = h, !.lines = SubSeq(@, 1, k)]
  <2>1. PICK k \in 0 .. Len(q) - 1, h \in {0, n} :
          /\ h = 0 => k = 0
          /\ file' = [I EXCEPT !.next = h, !.lines = SubSeq(@, 1, k)]
    BY <1>4
  <2>2. /\ file'.present /\ file'.next = h
        /\ file'.lines = SubSeq(I.lines, 1, k)
        /\ file' = [present |-> I.present, next |-> h, lines |-> SubSeq(I.lines, 1, k)]
    BY <1>1, <2>1 DEF Image
  <2>3. k \in 0 .. Len(I.lines)
    BY <1>1
  <2>4. /\ file'.lines \in Seq(Line) /\ DOMAIN file'.lines = 1 .. k
        /\ \A i \in 1 .. k : file'.lines[i] = I.lines[i]
    BY <1>1, <2>2, <2>3, Prefix
  <2>5. \A i \in 1 .. k : i \in DOMAIN q
    BY <1>1, <2>1
  <2>6. file' \in Image
    <3>1. h \in 0 .. MaxId + 1
      BY ConstantsAssumption
    <3>. QED
      BY <1>1, <2>2, <2>4, <3>1 DEF Image
  <2>7. FileInv'
    <3>1. ASSUME NEW i \in 1 .. k, NEW j \in 1 .. k,
                 file'.lines[i].secret = file'.lines[j].secret
          PROVE  i = j
      <4>1. q[i].secret = q[j].secret /\ i \in DOMAIN q /\ j \in DOMAIN q
        BY ZenonT(40), <1>1, <2>4, <2>5, <3>1
      <4>. QED
        BY <4>1 DEF Distinct
    <3>. QED
      BY <2>2, <2>4, <3>1 DEF FileInv
  <2>8. \A i \in DOMAIN file'.lines :
          file'.lines[i].id # 0 => file'.lines[i].id < file'.next
    <3>. SUFFICES ASSUME NEW i \in 1 .. k
                  PROVE  file'.lines[i].id < file'.next
      BY <2>4
    <3>1. h = n
      BY <2>1
    <3>. QED
      BY <1>1, <2>2, <2>4, <2>5, <3>1 DEF Distinct
  <2>. QED
    BY <1>4, <2>6, <2>7, <2>8
<1>. QED
  BY <1>2, <1>3, <1>4 DEF Persist, I

-----------------------------------------------------------------------------
(* Start-up.                                                               *)

LEMMA StoreInitial ==
    ASSUME StoreInit
    PROVE  StoreInv
<1>1. /\ phase = "boot" /\ store = <<>> /\ nextId = 1 /\ spoilt = FALSE
      /\ promised = [s \in Secrets |-> Unknown]
      /\ file \in {NoFile} \cup {LegacyImage(q) : q \in Legacy}
  BY DEF StoreInit
<1>2. \A q \in Legacy :
        /\ LegacyImage(q) \in Image
        /\ LegacyImage(q).present
        /\ DOMAIN LegacyImage(q).lines = DOMAIN q
        /\ \A i \in DOMAIN q : /\ LegacyImage(q).lines[i].secret = q[i]
                               /\ LegacyImage(q).lines[i].id = 0
  <2>. SUFFICES ASSUME NEW q \in Legacy
                PROVE  /\ LegacyImage(q) \in Image
                       /\ LegacyImage(q).present
                       /\ DOMAIN LegacyImage(q).lines = DOMAIN q
                       /\ \A i \in DOMAIN q : /\ LegacyImage(q).lines[i].secret = q[i]
                                              /\ LegacyImage(q).lines[i].id = 0
    OBVIOUS
  <2>1. q \in Seq(Secrets)
    BY LegacyAssumption
  <2>2. Len(q) \in Nat /\ DOMAIN q = 1 .. Len(q) /\ \A i \in DOMAIN q : q[i] \in Secrets
    BY <2>1
  <2>3. LegacyImage(q).lines \in [1 .. Len(q) -> Line]
    BY <2>2, ConstantsAssumption DEF LegacyImage, Line, Times
  <2>4. LegacyImage(q).lines \in Seq(Line)
    BY <2>2, <2>3, FunctionSeq
  <2>. QED
    BY <2>4, ConstantsAssumption DEF LegacyImage, Image
<1>3. file \in Image
  <2>1. NoFile \in Image
    BY ConstantsAssumption DEF NoFile, Image
  <2>. QED
    BY <1>1, <1>2, <2>1
<1>4. StoreTypeOK
  <2>1. [s \in Secrets |-> Unknown] \in [Secrets -> Promise]
    BY ConstantsAssumption DEF Unknown, Promise, Times
  <2>2. [id \in Ids |-> NoMetric] \in [Ids -> Metric]
    BY DEF NoMetric, Metric
  <2>3. 1 \in 1 .. MaxId + 1 /\ 0 \in Times
    BY ConstantsAssumption DEF Times
  <2>4. store \in Seq(Entry)
    BY <1>1
  <2>5. promised \in [Secrets -> Promise]
    BY <1>1, <2>1
  <2>6. metrics \in [Ids -> Metric]
    BY <2>2 DEF StoreInit
  <2>7. /\ cursor \in Nat \ {0} /\ nextId \in 1 .. MaxId + 1 /\ clock \in Times
        /\ metricsCap \in Nat /\ totalBytes \in Nat /\ totalConns \in Nat
        /\ inflight \in Nat /\ crashes \in Nat
    BY <1>1, <2>3 DEF StoreInit
  <2>. QED
    BY <1>1, <1>3, <2>4, <2>5, <2>6, <2>7 DEF StoreTypeOK
<1>5. \A i \in DOMAIN file.lines : file.lines[i].id = 0
  BY <1>1, <1>2 DEF NoFile
<1>6. IdsUnique
  BY <1>1, <1>5 DEF IdsUnique
<1>7. FileInv
  BY <1>1, <1>2, LegacyAssumption DEF FileInv, NoFile
<1>8. HeaderRead /\ LoadedLines /\ LoadedFrom
  BY <1>1 DEF HeaderRead, LoadedLines, LoadedFrom
<1>9. AckedKept
  BY <1>1 DEF AckedKept, AckedSurvive, Unknown
<1>. QED
  BY <1>4, <1>6, <1>7, <1>8, <1>9 DEF StoreInv

\* The conjuncts of StoreInv that only speak of the array and its history.
LEMMA UniqueDistinct ==
    ASSUME IdsUnique
    PROVE  Distinct(store, nextId)
BY DEF IdsUnique, Distinct

\* ext_add_locked of a secret the array does not hold.
LEMMA EntryAppended ==
    ASSUME StoreTypeOK, IdsUnique, NEW s \in Secrets, NEW x \in Times,
           NEW e \in BOOLEAN, ~Holds(s), AppendEntry(s, x, e)
    PROVE  /\ store' \in Seq(Entry)
           /\ nextId' \in 1 .. MaxId + 1 /\ nextId' >= nextId
           /\ metricsCap' \in Nat
           /\ UNCHANGED <<metrics, totalBytes, totalConns>>
           /\ Distinct(store', nextId')
           /\ \A i \in DOMAIN store' :
                \/ store'[i].secret = s
                \/ i \in DOMAIN store /\ store'[i] = store[i]
           /\ \A i \in DOMAIN store : i \in DOMAIN store' /\ store'[i] = store[i]
           /\ \A i \in DOMAIN store' :
                \/ store'[i].secret = s /\ store'[i].id = nextId
                \/ \E j \in DOMAIN store : store'[i] = store[j]
           /\ \A y \in Secrets : y # s => SameFor(store, store', y)
           /\ \E i \in DOMAIN store' : /\ store'[i].secret = s
                                       /\ store'[i].enabled = e
                                       /\ store'[i].expires = x
<1>. DEFINE E == [secret |-> s, id |-> nextId, enabled |-> e, expires |-> x]
            n == Len(store)
<1>1. /\ nextId \in Ids /\ nextId \in Nat
      /\ nextId + 1 \in 1 .. MaxId + 1 /\ MaxId \in Nat
  BY ConstantsAssumption DEF StoreTypeOK, AppendEntry, Ids
<1>2. E \in Entry /\ store \in Seq(Entry)
  BY <1>1 DEF Entry, StoreTypeOK
<1>3. store' = Append(store, E) /\ nextId' = nextId + 1
      /\ metricsCap' = ReservedCap(nextId)
      /\ UNCHANGED <<metrics, totalBytes, totalConns>>
  BY DEF AppendEntry
<1>4. /\ store' \in Seq(Entry)
      /\ n \in Nat /\ DOMAIN store = 1 .. n /\ DOMAIN store' = 1 .. n + 1
      /\ \A i \in 1 .. n : store'[i] = store[i]
      /\ store'[n + 1] = E
  BY <1>2, <1>3, AppendedTo
<1>5. metricsCap' \in Nat
  BY <1>1, <1>3, CapReserved DEF StoreTypeOK
<1>6. \A i \in 1 .. n : /\ store[i].secret # s /\ store[i].id < nextId
                        /\ store[i].id \in Nat
  <2>1. \A i \in 1 .. n : store[i] \in Entry
    BY <1>2, <1>4
  <2>. QED
    BY <1>4, <2>1 DEF Holds, IdsUnique, Entry, Ids
<1>7. Distinct(store', nextId')
  <2>1. ASSUME NEW i \in 1 .. n + 1, NEW j \in 1 .. n + 1, i # j
        PROVE  store'[i].secret # store'[j].secret /\ store'[i].id # store'[j].id
    <3>1. CASE i \in 1 .. n /\ j \in 1 .. n
      BY <1>4, <2>1, <3>1 DEF IdsUnique
    <3>2. CASE i = n + 1 /\ j \in 1 .. n
      BY <1>1, <1>4, <1>6, <3>2
    <3>3. CASE i \in 1 .. n /\ j = n + 1
      BY <1>1, <1>4, <1>6, <3>3
    <3>. QED
      BY <1>4, <2>1, <3>1, <3>2, <3>3
  <2>2. \A i \in 1 .. n + 1 : store'[i].id < nextId'
    BY <1>1, <1>3, <1>4, <1>6
  <2>. QED
    BY <1>4, <2>1, <2>2 DEF Distinct
<1>8. \A y \in Secrets : y # s => SameFor(store, store', y)
  BY <1>4 DEF SameFor
<1>9. n + 1 \in DOMAIN store'
  BY <1>4
<1>10. \A i \in 1 .. n + 1 : i \in 1 .. n \/ i = n + 1
  BY <1>4
<1>. QED
  BY <1>1, <1>3, <1>4, <1>5, <1>7, <1>8, <1>9, <1>10

\* The entries of the array.
LEMMA StoreEntries ==
    ASSUME StoreTypeOK
    PROVE  /\ store \in Seq(Entry)
           /\ Len(store) \in Nat /\ DOMAIN store = 1 .. Len(store)
           /\ \A i \in DOMAIN store :
                /\ store[i] \in Entry
                /\ store[i].secret \in Secrets /\ store[i].id \in Ids
                /\ store[i].enabled \in BOOLEAN /\ store[i].expires \in Times
<1>1. store \in Seq(Entry)
  BY DEF StoreTypeOK
<1>2. \A i \in DOMAIN store : store[i] \in Entry
  BY <1>1
<1>. QED
  BY <1>1, <1>2 DEF Entry

LEMMA BootstrapAddStep ==
    ASSUME StoreInv, BootstrapAdd
    PROVE  StoreInv'
<1>. USE DEF StoreInv
<1>. DEFINE s == Bootstrap[cursor]
<1>1. /\ phase = "boot" /\ cursor' = cursor + 1 /\ cursor \in DOMAIN Bootstrap
      /\ UNCHANGED <<phase, inflight, file, clock, crashes, promised, spoilt>>
      /\ s \in Secrets
  <2>1. phase = "boot" /\ cursor <= Len(Bootstrap) /\ cursor' = cursor + 1
        /\ UNCHANGED <<phase, inflight, file, clock, crashes, promised, spoilt>>
    BY DEF BootstrapAdd
  <2>2. Len(Bootstrap) \in Nat /\ DOMAIN Bootstrap = 1 .. Len(Bootstrap)
        /\ \A i \in DOMAIN Bootstrap : Bootstrap[i] \in Secrets
    BY BootstrapAssumption
  <2>3. cursor \in 1 .. Len(Bootstrap)
    BY <2>1, <2>2 DEF StoreTypeOK
  <2>. QED
    BY <2>1, <2>2, <2>3
<1>2. Optioned(s)
  BY <1>1 DEF Optioned
<1>. SUFFICES /\ store' \in Seq(Entry) /\ nextId' \in 1 .. MaxId + 1
              /\ metricsCap' \in Nat /\ UNCHANGED <<metrics, totalBytes, totalConns>>
              /\ Distinct(store', nextId')
              /\ \A i \in DOMAIN store' : Optioned(store'[i].secret)
  <2>1. StoreTypeOK'
    BY <1>1 DEF StoreTypeOK
  <2>2. IdsUnique'
    BY <1>1 DEF IdsUnique, Distinct
  <2>3. FileInv' /\ HeaderRead' /\ LoadedLines' /\ LoadedFrom'
    BY <1>1 DEF FileInv, HeaderRead, LoadedLines, LoadedFrom, Optioned
  <2>4. AckedKept'
    BY <1>1 DEF AckedKept, AckedSurvive, Keeps, ReaddedByOption
  <2>. QED
    BY <2>1, <2>2, <2>3, <2>4
<1>3. \A i \in DOMAIN store : Optioned(store[i].secret) /\ store[i] \in Entry
  BY <1>1 DEF LoadedFrom, StoreTypeOK
<1>4. CASE \E i \in DOMAIN store :
             /\ store[i].secret = s
             /\ store' = [store EXCEPT ![i].enabled = TRUE, ![i].expires = 0]
             /\ UNCHANGED <<nextId, metrics, metricsCap, totalBytes, totalConns>>
  <2>1. PICK i \in DOMAIN store :
             /\ store[i].secret = s
             /\ store' = [store EXCEPT ![i].enabled = TRUE, ![i].expires = 0]
             /\ UNCHANGED <<nextId, metrics, metricsCap, totalBytes, totalConns>>
    BY <1>4
  <2>. DEFINE E == [store[i] EXCEPT !.enabled = TRUE, !.expires = 0]
  <2>2. E \in Entry /\ E.secret = store[i].secret /\ E.id = store[i].id
    <3>1. store[i] \in Entry /\ 0 \in Times
      BY <1>3, ConstantsAssumption DEF Times
    <3>. QED
      BY <3>1 DEF Entry
  <2>3. store' = [store EXCEPT ![i] = E]
    BY <2>1
  <2>4. store' \in Seq(Entry) /\ DOMAIN store' = DOMAIN store
        /\ \A j \in DOMAIN store : /\ store'[j].secret = store[j].secret
                                   /\ store'[j].id = store[j].id
    BY <2>2, <2>3 DEF StoreTypeOK
  <2>5. Distinct(store', nextId')
    BY <2>1, <2>4 DEF Distinct, IdsUnique
  <2>. QED
    BY <1>3, <2>1, <2>4, <2>5 DEF StoreTypeOK
<1>5. CASE ~Holds(s) /\ AppendEntry(s, 0, TRUE)
  <2>1. 0 \in Times
    BY ConstantsAssumption DEF Times
  <2>2. /\ store' \in Seq(Entry) /\ nextId' \in 1 .. MaxId + 1
        /\ metricsCap' \in Nat /\ UNCHANGED <<metrics, totalBytes, totalConns>>
        /\ Distinct(store', nextId')
        /\ \A i \in DOMAIN store' :
             \/ store'[i].secret = s
             \/ i \in DOMAIN store /\ store'[i] = store[i]
    <3>. HIDE DEF s
    <3>1. StoreTypeOK /\ IdsUnique
      OBVIOUS
    <3>. HIDE DEF StoreInv
    <3>. QED
      BY <1>1, <1>5, <2>1, <3>1, EntryAppended
  <2>. QED
    BY <1>2, <1>3, <2>2
<1>6. CASE OutOfMemory
  BY <1>3, <1>6, UniqueDistinct DEF OutOfMemory, memory, StoreTypeOK, Distinct
<1>. QED
  BY <1>4, <1>5, <1>6 DEF BootstrapAdd

\* The lines of the file.
LEMMA FileLines ==
    ASSUME StoreTypeOK
    PROVE  /\ file.present \in BOOLEAN /\ file.next \in 0 .. MaxId + 1
           /\ file.lines \in Seq(Line)
           /\ Len(file.lines) \in Nat /\ DOMAIN file.lines = 1 .. Len(file.lines)
           /\ \A k \in DOMAIN file.lines : file.lines[k] \in Line
BY DEF StoreTypeOK, Image

LEMMA LoadOpenStep ==
    ASSUME StoreInv, LoadOpen
    PROVE  StoreInv'
<1>. USE DEF StoreInv
<1>1. /\ phase = "boot" /\ cursor' = 1
      /\ UNCHANGED <<store, metrics, metricsCap, totalBytes, totalConns,
                     inflight, file, clock, crashes, promised, spoilt>>
  BY DEF LoadOpen
<1>2. \A i \in DOMAIN store : Optioned(store[i].secret)
  BY <1>1 DEF LoadedFrom
<1>3. nextId \in 1 .. MaxId + 1 /\ MaxId \in Nat /\ file.next \in 0 .. MaxId + 1
  BY FileLines, ConstantsAssumption DEF StoreTypeOK
<1>4. CASE phase' = "load" /\ nextId' = LargerOf(nextId, file.next)
  <2>1. nextId' \in 1 .. MaxId + 1 /\ nextId' >= nextId /\ nextId' >= file.next
    BY <1>3, <1>4 DEF LargerOf
  <2>2. StoreTypeOK'
    BY <1>1, <1>4, <2>1 DEF StoreTypeOK
  <2>3. IdsUnique'
    <3>1. \A i \in DOMAIN store : store[i].id \in Nat
      BY StoreEntries DEF Ids
    <3>. QED
      BY <1>1, <1>3, <2>1, <3>1 DEF IdsUnique
  <2>4. LoadedLines'
    BY <1>1, <1>4, FileLines DEF LoadedLines, LoadedTo
  <2>5. FileInv' /\ HeaderRead' /\ LoadedFrom'
    BY <1>1, <1>2, <1>4, <2>1, FileLines
    DEF FileInv, HeaderRead, LoadedFrom, Optioned
  <2>6. AckedKept'
    BY <1>1, <1>4 DEF AckedKept, AckedSurvive, Keeps, ReaddedByOption
  <2>. QED
    BY <2>2, <2>3, <2>4, <2>5, <2>6
<1>5. CASE phase' = "run" /\ nextId' = nextId /\ ~(StateFile /\ file.present)
  <2>1. StoreTypeOK' /\ IdsUnique' /\ FileInv' /\ HeaderRead' /\ LoadedFrom' /\ LoadedLines'
    BY <1>1, <1>5 DEF StoreTypeOK, IdsUnique, FileInv, HeaderRead, LoadedFrom, LoadedLines
  <2>2. AckedKept'
    <3>. SUFFICES ASSUME ~spoilt, StateFile, NEW s \in Secrets, promised[s].known,
                         ~(~promised[s].present /\ Optioned(s))
                  PROVE  /\ Fulfils(file.lines, s, promised[s])
                         /\ Fulfils(store, s, promised[s])
      BY <1>1 DEF AckedKept, AckedSurvive, Keeps, Fulfils, ReaddedByOption, Optioned
    <3>1. Fulfils(file.lines, s, promised[s])
      BY AckedFulfils
    <3>2. file.lines = <<>>
      BY <1>5 DEF FileInv
    <3>3. ~promised[s].present
      BY <3>1, <3>2 DEF Fulfils
    <3>. QED
      BY <1>2, <3>1, <3>3 DEF Fulfils
  <2>. QED
    BY <2>1, <2>2
<1>. QED
  BY <1>4, <1>5 DEF LoadOpen

\* A line gives its entry an id of its own.
LEMMA ParsedFresh ==
    ASSUME StoreTypeOK, NEW L \in Line
    PROVE  /\ ParsedId(L) \in 0 .. MaxId
           /\ ParsedId(L) > 0 =>
                /\ ParsedId(L) = L.id
                /\ \A i \in DOMAIN store :
                     store[i].secret = L.secret \/ store[i].id # ParsedId(L)
<1>1. L.id \in 0 .. MaxId /\ 0 \in 0 .. MaxId
  BY ConstantsAssumption DEF Line
<1>. QED
  BY <1>1 DEF ParsedId

\* What is left to show of an iteration of the loop over the lines.
LEMMA LineTaken ==
    ASSUME StoreInv, phase = "load", cursor <= Len(file.lines),
           UNCHANGED <<phase, totalBytes, totalConns, inflight, file, clock,
                       crashes, promised>>,
           store' \in Seq(Entry), nextId' \in 1 .. MaxId + 1, nextId' >= nextId,
           metrics' \in [Ids -> Metric], metricsCap' \in Nat,
           cursor' \in Nat \ {0}, spoilt' \in BOOLEAN, spoilt => spoilt',
           Distinct(store', nextId'),
           ~spoilt' => LoadedTo(cursor - 1)',
           \A i \in DOMAIN store' :
               \/ store'[i].secret = file.lines[cursor].secret
               \/ \E j \in DOMAIN store : store'[i].secret = store[j].secret
    PROVE  StoreInv'
<1>. USE DEF StoreInv
<1>1. StoreTypeOK'
  BY DEF StoreTypeOK
<1>2. IdsUnique'
  BY DEF IdsUnique, Distinct
<1>3. HeaderRead'
  <2>1. /\ file.next \in 0 .. MaxId + 1 /\ nextId \in 1 .. MaxId + 1
        /\ MaxId \in Nat /\ file.next <= nextId
    BY FileLines, ConstantsAssumption DEF HeaderRead, StoreTypeOK
  <2>. QED
    BY <2>1 DEF HeaderRead
<1>4. FileInv'
  BY DEF FileInv
<1>5. LoadedLines'
  BY DEF LoadedLines
<1>6. LoadedFrom'
  <2>1. cursor \in DOMAIN file.lines
    BY FileLines DEF StoreTypeOK
  <2>. QED
    BY <2>1 DEF LoadedFrom, Optioned
<1>7. AckedKept'
  BY DEF AckedKept, AckedSurvive, Keeps, ReaddedByOption
<1>. QED
  BY <1>1, <1>2, <1>3, <1>4, <1>5, <1>6, <1>7

LEMMA LoadNewStep ==
    ASSUME StoreInv, LoadLine, LoadNew(file.lines[cursor])
    PROVE  StoreInv'
<1>. DEFINE L  == file.lines[cursor]
            id == IF ParsedId(L) > 0 THEN ParsedId(L) ELSE nextId
            E  == Loaded(L, id)
            n  == Len(store)
<1>. USE DEF StoreInv
<1>1. /\ phase = "load" /\ cursor <= Len(file.lines)
      /\ UNCHANGED <<phase, totalBytes, totalConns, inflight, file, clock,
                     crashes, promised>>
  BY DEF LoadLine
<1>2. cursor \in DOMAIN file.lines /\ L \in Line /\ cursor \in Nat \ {0}
  BY <1>1, FileLines DEF StoreTypeOK
<1>3. /\ id \in Ids /\ MaxId \in Nat /\ nextId \in 1 .. MaxId + 1
      /\ \A i \in DOMAIN store : store[i].id # id /\ store[i].secret # L.secret
  <2>1. id <= MaxId /\ ~Holds(L.secret)
    BY DEF LoadNew
  <2>2. ParsedId(L) \in 0 .. MaxId /\ nextId \in 1 .. MaxId + 1 /\ MaxId \in Nat
    BY <1>2, ParsedFresh, ConstantsAssumption DEF StoreTypeOK
  <2>3. \A i \in DOMAIN store : store[i].id \in Ids /\ store[i].id < nextId
    BY StoreEntries DEF IdsUnique
  <2>4. \A i \in DOMAIN store : store[i].secret # L.secret
    BY <2>1 DEF Holds
  <2>5. CASE ParsedId(L) > 0
    BY <1>2, <2>1, <2>2, <2>4, <2>5, ParsedFresh DEF Ids
  <2>6. CASE ~(ParsedId(L) > 0)
    BY <2>1, <2>2, <2>3, <2>4, <2>6 DEF Ids
  <2>. QED
    BY <2>5, <2>6
<1>4. CASE /\ store' = Append(store, E) /\ cursor' = cursor + 1
           /\ TakeOver(L, id) /\ UNCHANGED spoilt
  <2>1. E \in Entry /\ E.secret = L.secret /\ E.enabled = L.enabled
        /\ E.expires = L.expires /\ E.id = id
    BY <1>2, <1>3 DEF Loaded, Line, Entry
  <2>2. /\ store' \in Seq(Entry) /\ n \in Nat /\ DOMAIN store = 1 .. n
        /\ DOMAIN store' = 1 .. n + 1
        /\ \A i \in 1 .. n : store'[i] = store[i]
        /\ store'[n + 1] = E
    <3>. HIDE DEF E
    <3>. QED
      BY <1>4, <2>1, AppendedTo, StoreEntries
  <2>3. /\ metrics' = [metrics EXCEPT ![id] = [bytes |-> L.bytes, conns |-> L.conns]]
        /\ metricsCap' = ReservedCap(id) /\ nextId' = LargerOf(nextId, id + 1)
    BY <1>4 DEF TakeOver
  <2>4. metrics' \in [Ids -> Metric] /\ metricsCap' \in Nat
    BY <1>2, <1>3, <2>3, CapReserved DEF Line, Metric, StoreTypeOK
  <2>5. nextId' \in 1 .. MaxId + 1 /\ nextId' >= nextId /\ nextId' > id
    BY <1>3, <2>3 DEF LargerOf, Ids
  <2>6. Distinct(store', nextId')
    <3>1. \A i \in 1 .. n : store'[i].id < nextId'
      BY <1>3, <2>2, <2>5, StoreEntries DEF IdsUnique, Ids
    <3>2. ASSUME NEW i \in 1 .. n + 1, NEW j \in 1 .. n + 1, i # j
          PROVE  store'[i].secret # store'[j].secret /\ store'[i].id # store'[j].id
      <4>1. CASE i \in 1 .. n /\ j \in 1 .. n
        BY <2>2, <3>2, <4>1 DEF IdsUnique
      <4>2. CASE i = n + 1 /\ j \in 1 .. n
        BY <1>3, <2>1, <2>2, <4>2
      <4>3. CASE i \in 1 .. n /\ j = n + 1
        BY <1>3, <2>1, <2>2, <4>3
      <4>. QED
        BY <2>2, <3>2, <4>1, <4>2, <4>3
    <3>. QED
      BY <2>1, <2>2, <2>5, <3>1, <3>2 DEF Distinct
  <2>7. ~spoilt' => LoadedTo(cursor - 1)'
    <3>. SUFFICES ASSUME ~spoilt, NEW k \in DOMAIN file.lines, k <= cursor
                  PROVE  \E i \in DOMAIN store' :
                           /\ store'[i].secret = file.lines[k].secret
                           /\ store'[i].enabled = file.lines[k].enabled
                           /\ store'[i].expires = file.lines[k].expires
      BY <1>1, <1>2, <1>4 DEF LoadedTo
    <3>1. CASE k = cursor
      BY <2>1, <2>2, <3>1
    <3>2. CASE k # cursor
      <4>1. k <= cursor - 1
        BY <1>2, <3>2, FileLines
      <4>2. PICK i \in DOMAIN store : /\ store[i].secret = file.lines[k].secret
                                      /\ store[i].enabled = file.lines[k].enabled
                                      /\ store[i].expires = file.lines[k].expires
        BY <1>1, <4>1 DEF LoadedLines, LoadedTo
      <4>. QED
        BY <2>2, <4>2
    <3>. QED
      BY <3>1, <3>2
  <2>8. \A i \in DOMAIN store' :
          \/ store'[i].secret = L.secret
          \/ \E j \in DOMAIN store : store'[i].secret = store[j].secret
    BY <2>1, <2>2
  <2>9. cursor' \in Nat \ {0} /\ spoilt' \in BOOLEAN /\ (spoilt => spoilt')
    BY <1>2, <1>4 DEF StoreTypeOK
  <2>. QED
    BY <1>1, <2>2, <2>4, <2>5, <2>6, <2>7, <2>8, <2>9, LineTaken
<1>5. CASE /\ spoilt' = TRUE
           /\ nextId' \in {nextId, IF id = nextId THEN nextId + 1 ELSE nextId}
           /\ cursor' = Len(file.lines) + 1
           /\ UNCHANGED <<store, metrics, metricsCap>>
  <2>1. nextId' \in 1 .. MaxId + 1 /\ nextId' >= nextId
    BY <1>3, <1>5 DEF Ids
  <2>2. Distinct(store', nextId')
    BY <1>3, <1>5, <2>1, StoreEntries DEF IdsUnique, Distinct, Ids
  <2>3. cursor' \in Nat \ {0}
    BY <1>5, FileLines
  <2>4. store' \in Seq(Entry) /\ metrics' \in [Ids -> Metric] /\ metricsCap' \in Nat
    BY <1>5 DEF StoreTypeOK
  <2>. QED
    BY <1>1, <1>5, <2>1, <2>2, <2>3, <2>4, LineTaken
<1>. QED
  BY <1>4, <1>5 DEF LoadNew

LEMMA LoadOverStep ==
    ASSUME StoreInv, LoadLine, NEW i \in DOMAIN store,
           LoadOver(file.lines[cursor], i), UNCHANGED spoilt
    PROVE  StoreInv'
<1>. DEFINE L  == file.lines[cursor]
            id == IF ParsedId(L) > 0 THEN ParsedId(L) ELSE store[i].id
            E  == Loaded(L, id)
<1>. USE DEF StoreInv
<1>1. /\ phase = "load" /\ cursor <= Len(file.lines)
      /\ UNCHANGED <<phase, totalBytes, totalConns, inflight, file, clock,
                     crashes, promised>>
  BY DEF LoadLine
<1>2. cursor \in DOMAIN file.lines /\ L \in Line /\ cursor \in Nat \ {0}
  BY <1>1, FileLines DEF StoreTypeOK
<1>3. /\ store[i].secret = L.secret /\ store' = [store EXCEPT ![i] = E]
      /\ cursor' = cursor + 1
      /\ TakeOver(L, id) \/ UNCHANGED <<nextId, metrics, metricsCap>>
  BY DEF LoadOver
<1>4. /\ MaxId \in Nat /\ nextId \in 1 .. MaxId + 1 /\ id \in Ids /\ id < nextId
      /\ \A j \in DOMAIN store : j # i => store[j].id # id
  <2>1. /\ ParsedId(L) \in 0 .. MaxId /\ nextId \in 1 .. MaxId + 1 /\ MaxId \in Nat
        /\ file.next <= nextId /\ file.next \in 0 .. MaxId + 1
    BY <1>1, <1>2, ParsedFresh, FileLines, ConstantsAssumption
    DEF StoreTypeOK, HeaderRead
  <2>2. \A j \in DOMAIN store : /\ store[j].id \in Ids /\ store[j].id < nextId
                                /\ j # i => /\ store[j].id # store[i].id
                                            /\ store[j].secret # store[i].secret
    BY StoreEntries DEF IdsUnique
  <2>3. CASE ParsedId(L) > 0
    <3>1. id = L.id /\ id \in 1 .. MaxId
      BY <1>2, <2>1, <2>3, ParsedFresh
    <3>2. id < file.next
      BY <1>2, <2>3, <3>1 DEF IdsUnique
    <3>3. \A j \in DOMAIN store : j # i => store[j].id # id
      BY <1>2, <1>3, <2>2, <2>3, ParsedFresh
    <3>. QED
      BY <2>1, <3>1, <3>2, <3>3 DEF Ids
  <2>4. CASE ~(ParsedId(L) > 0)
    BY <2>1, <2>2, <2>4
  <2>. QED
    BY <2>3, <2>4
<1>5. E \in Entry /\ E.secret = L.secret /\ E.enabled = L.enabled
      /\ E.expires = L.expires /\ E.id = id
  BY <1>2, <1>4 DEF Loaded, Line, Entry
<1>6. /\ store' \in Seq(Entry) /\ DOMAIN store' = DOMAIN store /\ store'[i] = E
      /\ \A j \in DOMAIN store : j # i => store'[j] = store[j]
  <2>. HIDE DEF E
  <2>. QED
    BY <1>3, <1>5 DEF StoreTypeOK
<1>7. /\ nextId' \in 1 .. MaxId + 1 /\ nextId' >= nextId /\ nextId' > id
      /\ metrics' \in [Ids -> Metric] /\ metricsCap' \in Nat
  <2>1. CASE TakeOver(L, id)
    <3>. HIDE DEF id
    <3>1. /\ metrics' = [metrics EXCEPT ![id] = [bytes |-> L.bytes, conns |-> L.conns]]
          /\ metricsCap' = ReservedCap(id) /\ nextId' = LargerOf(nextId, id + 1)
      BY <2>1 DEF TakeOver
    <3>2. metrics' \in [Ids -> Metric] /\ metricsCap' \in Nat
      BY <1>2, <1>4, <3>1, CapReserved DEF Line, Metric, StoreTypeOK
    <3>3. nextId' \in 1 .. MaxId + 1 /\ nextId' >= nextId /\ nextId' > id
      BY <1>4, <3>1 DEF LargerOf, Ids
    <3>. QED
      BY <3>2, <3>3
  <2>2. CASE UNCHANGED <<nextId, metrics, metricsCap>>
    BY <1>4, <2>2 DEF StoreTypeOK, Ids
  <2>. QED
    BY <1>3, <2>1, <2>2
<1>8. Distinct(store', nextId')
  <2>1. \A j \in DOMAIN store : store'[j].id < nextId'
    <3>. SUFFICES ASSUME NEW j \in DOMAIN store PROVE store'[j].id < nextId'
      OBVIOUS
    <3>1. CASE j = i
      BY <1>5, <1>6, <1>7, <3>1
    <3>2. CASE j # i
      <4>1. store[j].id < nextId /\ store[j].id \in Int
        BY StoreEntries DEF IdsUnique, Ids
      <4>. QED
        BY <1>4, <1>6, <1>7, <3>2, <4>1
    <3>. QED
      BY <3>1, <3>2
  <2>2. \A j \in DOMAIN store :
          j # i => /\ store'[j].id # store'[i].id
                   /\ store'[j].secret # store'[i].secret
    BY <1>3, <1>4, <1>5, <1>6 DEF IdsUnique
  <2>. QED
    BY <1>6, <2>1, <2>2 DEF Distinct, IdsUnique
<1>9. ~spoilt' => LoadedTo(cursor - 1)'
  <2>. SUFFICES ASSUME ~spoilt, NEW k \in DOMAIN file.lines, k <= cursor
                PROVE  \E j \in DOMAIN store' :
                         /\ store'[j].secret = file.lines[k].secret
                         /\ store'[j].enabled = file.lines[k].enabled
                         /\ store'[j].expires = file.lines[k].expires
    BY <1>1, <1>2, <1>3 DEF LoadedTo
  <2>1. CASE k = cursor
    BY <1>5, <1>6, <2>1
  <2>2. CASE k # cursor
    <3>1. k <= cursor - 1
      BY <1>2, <2>2, FileLines
    <3>2. PICK j \in DOMAIN store : /\ store[j].secret = file.lines[k].secret
                                    /\ store[j].enabled = file.lines[k].enabled
                                    /\ store[j].expires = file.lines[k].expires
      BY <1>1, <3>1 DEF LoadedLines, LoadedTo
    <3>3. j # i
      BY <1>2, <1>3, <2>2, <3>2 DEF FileInv
    <3>. QED
      BY <1>6, <3>2, <3>3
  <2>. QED
    BY <2>1, <2>2
<1>10. \A j \in DOMAIN store' :
         \/ store'[j].secret = L.secret
         \/ \E k \in DOMAIN store : store'[j].secret = store[k].secret
  BY <1>5, <1>6
<1>11. cursor' \in Nat \ {0} /\ spoilt' \in BOOLEAN /\ (spoilt => spoilt')
  BY <1>2, <1>3 DEF StoreTypeOK
<1>. QED
  BY <1>1, <1>6, <1>7, <1>8, <1>9, <1>10, <1>11, LineTaken

LEMMA LoadEndStep ==
    ASSUME StoreInv, LoadEnd
    PROVE  StoreInv'
<1>. USE DEF StoreInv
<1>1. /\ phase = "load" /\ cursor > Len(file.lines) /\ phase' = "sum" /\ cursor' = 1
      /\ totalBytes' = 0 /\ totalConns' = 0
      /\ UNCHANGED <<store, nextId, metrics, metricsCap, inflight, file, clock,
                     crashes, promised, spoilt>>
  BY DEF LoadEnd
<1>2. StoreTypeOK' /\ IdsUnique' /\ FileInv' /\ HeaderRead'
  BY <1>1 DEF StoreTypeOK, IdsUnique, FileInv, HeaderRead
<1>3. LoadedLines'
  <2>. SUFFICES ASSUME ~spoilt PROVE LoadedTo(Len(file.lines))'
    BY <1>1 DEF LoadedLines
  <2>1. LoadedTo(cursor - 1)
    BY <1>1 DEF LoadedLines
  <2>2. \A k \in DOMAIN file.lines : k <= cursor - 1
    BY <1>1, FileLines DEF StoreTypeOK
  <2>. QED
    BY <1>1, <2>1, <2>2 DEF LoadedTo
<1>4. LoadedFrom' /\ AckedKept'
  BY <1>1 DEF LoadedFrom, Optioned, AckedKept, AckedSurvive, Keeps, ReaddedByOption
<1>. QED
  BY <1>2, <1>3, <1>4

LEMMA LoadSumStep ==
    ASSUME StoreInv, LoadSum
    PROVE  StoreInv'
<1>. USE DEF StoreInv
<1>1. /\ phase = "sum"
      /\ UNCHANGED <<store, nextId, metrics, metricsCap, inflight, file, clock,
                     crashes, promised, spoilt>>
  BY DEF LoadSum
<1>2. FileInv' /\ IdsUnique'
  BY <1>1 DEF FileInv, IdsUnique
<1>3. CASE cursor <= Len(store)
  <2>. DEFINE M == MetricOf(store[cursor].id)
  <2>1. /\ totalBytes' = totalBytes + M.bytes /\ totalConns' = totalConns + M.conns
        /\ cursor' = cursor + 1 /\ UNCHANGED phase
    BY <1>3 DEF LoadSum
  <2>2. M \in Metric
    <3>1. cursor \in DOMAIN store
      BY <1>3, StoreEntries DEF StoreTypeOK
    <3>. QED
      BY <3>1, StoreEntries DEF StoreTypeOK, MetricOf, NoMetric, Metric
  <2>3. totalBytes' \in Nat /\ totalConns' \in Nat
    BY <2>1, <2>2 DEF StoreTypeOK, Metric
  <2>4. StoreTypeOK'
    BY <1>1, <2>1, <2>3 DEF StoreTypeOK
  <2>5. HeaderRead' /\ LoadedLines' /\ LoadedFrom' /\ AckedKept'
    BY <1>1, <2>1 DEF HeaderRead, LoadedLines, LoadedTo, LoadedFrom, Optioned,
                      AckedKept, AckedSurvive, Keeps, ReaddedByOption
  <2>. QED
    BY <1>2, <2>4, <2>5
<1>4. CASE ~(cursor <= Len(store))
  <2>1. phase' = "run" /\ cursor' = 1 /\ UNCHANGED <<totalBytes, totalConns>>
    BY <1>4 DEF LoadSum
  <2>2. StoreTypeOK' /\ HeaderRead' /\ LoadedLines' /\ LoadedFrom'
    BY <1>1, <2>1 DEF StoreTypeOK, HeaderRead, LoadedLines, LoadedFrom
  <2>3. AckedKept'
    <3>. SUFFICES ASSUME ~spoilt, StateFile, NEW s \in Secrets, promised[s].known,
                         ~(~promised[s].present /\ Optioned(s))
                  PROVE  /\ Fulfils(file.lines, s, promised[s])
                         /\ Fulfils(store, s, promised[s])
      BY <1>1 DEF AckedKept, AckedSurvive, Keeps, Fulfils, ReaddedByOption, Optioned
    <3>1. Fulfils(file.lines, s, promised[s])
      BY AckedFulfils
    <3>2. CASE promised[s].present
      <4>1. PICK k \in DOMAIN file.lines :
                   /\ file.lines[k].secret = s
                   /\ file.lines[k].enabled = promised[s].enabled
                   /\ file.lines[k].expires = promised[s].expires
        BY <3>1, <3>2 DEF Fulfils
      <4>2. k <= Len(file.lines)
        BY FileLines
      <4>. QED
        BY <1>1, <3>1, <3>2, <4>1, <4>2 DEF Fulfils, LoadedLines, LoadedTo
    <3>3. CASE ~promised[s].present
      BY <1>1, <3>1, <3>3 DEF Fulfils, LoadedFrom
    <3>. QED
      BY <3>1, <3>2, <3>3
  <2>. QED
    BY <1>2, <2>2, <2>3
<1>. QED
  BY <1>3, <1>4

LEMMA StartUpStep ==
    ASSUME StoreInv, StartUp
    PROVE  StoreInv'
<1>1. CASE LoadLine
  <2>1. CASE LoadNew(file.lines[cursor])
    BY <1>1, <2>1, LoadNewStep
  <2>2. CASE \E i \in DOMAIN store :
               LoadOver(file.lines[cursor], i) /\ UNCHANGED spoilt
    BY <1>1, <2>2, LoadOverStep
  <2>. QED
    BY <1>1, <2>1, <2>2 DEF LoadLine
<1>. QED
  BY <1>1, BootstrapAddStep, LoadOpenStep, LoadEndStep, LoadSumStep DEF StartUp

-----------------------------------------------------------------------------
(* The administrative commands.                                            *)

(* What is left to show of a command that changes what the array says of   *)
(* the secrets in T and writes the state file: the promises of the others  *)
(* stay, those of T are what the array says, or there are none.            *)
LEMMA Commanded ==
    ASSUME StoreInv, phase = "run", AdminUnchanged,
           UNCHANGED <<metrics, totalBytes, totalConns>>,
           store' \in Seq(Entry), nextId' \in 1 .. MaxId + 1, metricsCap' \in Nat,
           Distinct(store', nextId'),
           NEW r \in BOOLEAN, Persist(r, store', nextId'),
           promised' \in [Secrets -> Promise],
           NEW T,
           \A s \in Secrets : s \notin T =>
               SameFor(store, store', s) /\ promised'[s] = promised[s],
           \A s \in Secrets :
               /\ s \in T /\ StateFile /\ ~spoilt
               /\ promised'[s].known /\ ~(~promised'[s].present /\ Optioned(s))
               => r /\ Fulfils(store', s, promised'[s])
    PROVE  StoreInv'
<1>. USE DEF StoreInv
<1>1. /\ file' \in Image /\ spoilt' \in BOOLEAN
      /\ FileInv'
      /\ \A i \in DOMAIN file'.lines :
           file'.lines[i].id # 0 => file'.lines[i].id < file'.next
      /\ spoilt => spoilt'
      /\ ~r => UNCHANGED <<file, spoilt>>
      /\ r /\ StateFile /\ ~spoilt' =>
           \A s \in Secrets : SameFor(store', file'.lines, s)
  BY Persisted
<1>2. UNCHANGED <<phase, cursor, inflight, clock, crashes>>
  BY DEF AdminUnchanged
<1>3. StoreTypeOK'
  BY <1>1, <1>2 DEF StoreTypeOK
<1>4. IdsUnique'
  BY <1>1 DEF IdsUnique, Distinct
<1>5. HeaderRead' /\ LoadedLines' /\ LoadedFrom'
  BY <1>2 DEF HeaderRead, LoadedLines, LoadedFrom
<1>6. AckedKept'
  <2>. SUFFICES ASSUME ~spoilt', StateFile, NEW s \in Secrets, promised'[s].known,
                       ~(~promised'[s].present /\ Optioned(s))
                PROVE  /\ Fulfils(file'.lines, s, promised'[s])
                       /\ Fulfils(store', s, promised'[s])
    BY DEF AckedKept, AckedSurvive, Keeps, Fulfils, ReaddedByOption, Optioned
  <2>1. ~spoilt
    BY <1>1
  <2>2. Fulfils(store', s, promised'[s])
    <3>1. CASE s \in T
      BY <2>1, <3>1
    <3>2. CASE s \notin T
      <4>1. promised'[s] = promised[s] /\ SameFor(store, store', s)
        BY <3>2
      <4>2. Fulfils(store, s, promised[s])
        BY <2>1, <4>1, AckedFulfils
      <4>. QED
        BY <4>1, <4>2, SameFulfils
    <3>. QED
      BY <3>1, <3>2
  <2>3. Fulfils(file'.lines, s, promised'[s])
    <3>1. CASE r
      BY <1>1, <2>2, <3>1, SameFulfils
    <3>2. CASE ~r
      <4>1. s \notin T
        BY <2>1, <3>2
      <4>2. promised'[s] = promised[s] /\ file' = file
        BY <1>1, <3>2, <4>1
      <4>3. Fulfils(file.lines, s, promised[s])
        BY <2>1, <4>2, AckedFulfils
      <4>. QED
        BY <4>2, <4>3
    <3>. QED
      BY <3>1, <3>2
  <2>. QED
    BY <2>2, <2>3
<1>. QED
  BY <1>1, <1>3, <1>4, <1>5, <1>6

LEMMA CmdAddStep ==
    ASSUME StoreInv, NEW s \in Secrets, NEW x \in Times, NEW e \in BOOLEAN,
           CmdAdd(s, x, e)
    PROVE  StoreInv'
<1>. USE DEF StoreInv
<1>1. phase = "run" /\ ~Holds(s) /\ AdminUnchanged
  BY DEF CmdAdd
<1>2. CASE OutOfMemory /\ UNCHANGED <<file, promised, spoilt>>
  BY <1>1, <1>2
  DEF OutOfMemory, memory, AdminUnchanged, StoreTypeOK, IdsUnique, FileInv,
      HeaderRead, LoadedLines, LoadedFrom, AckedKept, AckedSurvive, Keeps,
      ReaddedByOption
<1>3. ASSUME AppendEntry(s, x, e), NEW r \in BOOLEAN,
             Persist(r, store', nextId'),
             Answer(s, r, PromiseOf([enabled |-> e, expires |-> x]))
      PROVE  StoreInv'
  <2>. DEFINE p == [known |-> TRUE, present |-> TRUE, enabled |-> e, expires |-> x]
  <2>1. /\ store' \in Seq(Entry) /\ nextId' \in 1 .. MaxId + 1 /\ metricsCap' \in Nat
        /\ UNCHANGED <<metrics, totalBytes, totalConns>>
        /\ Distinct(store', nextId')
        /\ \A y \in Secrets : y # s => SameFor(store, store', y)
        /\ \E i \in DOMAIN store' : /\ store'[i].secret = s
                                    /\ store'[i].enabled = e
                                    /\ store'[i].expires = x
    <3>. HIDE DEF StoreInv
    <3>1. StoreTypeOK /\ IdsUnique
      BY DEF StoreInv
    <3>. QED
      BY <1>1, <1>3, <3>1, EntryAppended
  <2>2. promised' = IF StateFile
                    THEN [promised EXCEPT ![s] = IF r THEN p ELSE Unknown]
                    ELSE promised
    BY <1>3 DEF Answer, PromiseOf
  <2>3. p \in Promise /\ Unknown \in Promise /\ promised \in [Secrets -> Promise]
    BY ConstantsAssumption DEF Promise, Unknown, Times, StoreTypeOK
  <2>4. /\ promised' \in [Secrets -> Promise]
        /\ \A y \in Secrets : y # s => promised'[y] = promised[y]
        /\ StateFile => promised'[s] = IF r THEN p ELSE Unknown
    BY <2>2, <2>3
  <2>5. \A y \in Secrets : y \in {s} /\ StateFile /\ promised'[y].known =>
          r /\ Fulfils(store', y, promised'[y])
    BY <2>1, <2>4 DEF Fulfils, Unknown
  <2>6. \A y \in Secrets : y \notin {s} =>
          SameFor(store, store', y) /\ promised'[y] = promised[y]
    BY <2>1, <2>4
  <2>. HIDE DEF StoreInv
  <2>. QED
    BY <1>1, <1>3, <2>1, <2>4, <2>5, <2>6, Commanded
<1>. QED
  BY <1>2, <1>3 DEF CmdAdd

\* The array without entry i, the last one in its place.
LEMMA SwappedOut ==
    ASSUME StoreTypeOK, IdsUnique, NEW i \in DOMAIN store
    PROVE  /\ SwapOut(store, i) \in Seq(Entry)
           /\ Distinct(SwapOut(store, i), nextId)
           /\ \A j \in DOMAIN SwapOut(store, i) :
                /\ SwapOut(store, i)[j].secret # store[i].secret
                /\ \E k \in DOMAIN store : SwapOut(store, i)[j] = store[k]
           /\ \A y \in Secrets : y # store[i].secret =>
                SameFor(store, SwapOut(store, i), y)
<1>. DEFINE n == Len(store)
            q == SwapOut(store, i)
<1>1. /\ store \in Seq(Entry) /\ n \in Nat /\ DOMAIN store = 1 .. n /\ i \in 1 .. n
      /\ n - 1 \in Nat
  BY StoreEntries
<1>2. /\ DOMAIN q = 1 .. n - 1
      /\ \A j \in 1 .. n - 1 : q[j] = IF j = i THEN store[n] ELSE store[j]
  BY DEF SwapOut
<1>3. q \in Seq(Entry)
  <2>1. q \in [1 .. n - 1 -> Entry]
    BY <1>1, StoreEntries DEF SwapOut
  <2>. QED
    BY <1>1, <2>1, FunctionSeq
<1>. HIDE DEF q, n
<1>4. \A j \in 1 .. n - 1 :
        \E k \in 1 .. n : /\ k # i /\ q[j] = store[k]
                          /\ k = IF j = i THEN n ELSE j
  <2>. SUFFICES ASSUME NEW j \in 1 .. n - 1
                PROVE  \E k \in 1 .. n : /\ k # i /\ q[j] = store[k]
                                         /\ k = IF j = i THEN n ELSE j
    OBVIOUS
  <2>1. n \in 1 .. n /\ j \in 1 .. n /\ j # n
    BY <1>1
  <2>. QED
    BY <1>2, <2>1
<1>5. \A k \in 1 .. n : k # i => \E j \in 1 .. n - 1 : q[j] = store[k]
  <2>. SUFFICES ASSUME NEW k \in 1 .. n, k # i
                PROVE  \E j \in 1 .. n - 1 : q[j] = store[k]
    OBVIOUS
  <2>1. CASE k = n
    <3>1. i \in 1 .. n - 1
      BY <1>1, <2>1
    <3>. QED
      BY <1>2, <2>1, <3>1
  <2>2. CASE k # n
    <3>1. k \in 1 .. n - 1
      BY <1>1, <2>2
    <3>. QED
      BY <1>2, <3>1
  <2>. QED
    BY <2>1, <2>2
<1>6. Distinct(q, nextId)
  <2>1. ASSUME NEW a \in 1 .. n - 1, NEW b \in 1 .. n - 1, a # b
        PROVE  q[a].secret # q[b].secret /\ q[a].id # q[b].id
    <3>1. PICK k \in 1 .. n : q[a] = store[k] /\ k = IF a = i THEN n ELSE a
      BY <1>4
    <3>2. PICK l \in 1 .. n : q[b] = store[l] /\ l = IF b = i THEN n ELSE b
      BY <1>4
    <3>3. k # l
      <4>1. a # n /\ b # n
        BY <1>1
      <4>. QED
        BY <2>1, <3>1, <3>2, <4>1
    <3>. QED
      BY <1>1, <3>1, <3>2, <3>3 DEF IdsUnique
  <2>2. \A j \in 1 .. n - 1 : q[j].id < nextId
    BY <1>1, <1>4 DEF IdsUnique
  <2>. QED
    BY <1>2, <2>1, <2>2 DEF Distinct
<1>7. \A j \in DOMAIN q : /\ q[j].secret # store[i].secret
                          /\ \E k \in DOMAIN store : q[j] = store[k]
  BY <1>1, <1>2, <1>4 DEF IdsUnique
<1>8. \A y \in Secrets : y # store[i].secret => SameFor(store, q, y)
  BY ZenonT(40), <1>1, <1>2, <1>4, <1>5 DEF SameFor
<1>. QED
  BY <1>3, <1>6, <1>7, <1>8 DEF q

LEMMA CmdRemoveStep ==
    ASSUME StoreInv, NEW s \in Secrets, CmdRemove(s)
    PROVE  StoreInv'
<1>1. PICK i \in DOMAIN store, r \in BOOLEAN :
        /\ phase = "run" /\ AdminUnchanged /\ CounterUnchanged
        /\ store[i].secret = s /\ store' = SwapOut(store, i)
        /\ Persist(r, store', nextId') /\ Answer(s, r, Gone)
  BY DEF CmdRemove
<1>2. StoreTypeOK /\ IdsUnique
  BY DEF StoreInv
<1>3. /\ nextId' = nextId /\ nextId' \in 1 .. MaxId + 1 /\ metricsCap' \in Nat
      /\ UNCHANGED <<metrics, totalBytes, totalConns>>
  BY <1>1, <1>2 DEF CounterUnchanged, StoreTypeOK
<1>4. /\ store' \in Seq(Entry) /\ Distinct(store', nextId')
      /\ \A j \in DOMAIN store' : store'[j].secret # s
      /\ \A y \in Secrets : y # s => SameFor(store, store', y)
  BY <1>1, <1>2, <1>3, SwappedOut
<1>5. Gone \in Promise /\ Unknown \in Promise /\ promised \in [Secrets -> Promise]
  BY <1>2, ConstantsAssumption DEF Promise, Unknown, Gone, Times, StoreTypeOK
<1>6. /\ promised' \in [Secrets -> Promise]
      /\ \A y \in Secrets : y # s => promised'[y] = promised[y]
      /\ StateFile => promised'[s] = IF r THEN Gone ELSE Unknown
  BY <1>1, <1>5 DEF Answer
<1>7. \A y \in Secrets : y \in {s} /\ StateFile /\ promised'[y].known =>
        r /\ Fulfils(store', y, promised'[y])
  BY <1>4, <1>6 DEF Fulfils, Unknown, Gone
<1>8. \A y \in Secrets : y \notin {s} =>
        SameFor(store, store', y) /\ promised'[y] = promised[y]
  BY <1>4, <1>6
<1>. QED
  BY <1>1, <1>3, <1>4, <1>6, <1>7, <1>8, Commanded

LEMMA CmdUpdateStep ==
    ASSUME StoreInv, NEW s \in Secrets, NEW x \in Times, NEW e \in BOOLEAN,
           CmdUpdate(s, x, e)
    PROVE  StoreInv'
<1>1. PICK i \in DOMAIN store, setExpires \in BOOLEAN, setEnabled \in BOOLEAN,
           r \in BOOLEAN :
        LET E == [store[i] EXCEPT !.expires = IF setExpires THEN x ELSE @,
                                  !.enabled = IF setEnabled THEN e ELSE @]
        IN  /\ phase = "run" /\ AdminUnchanged /\ CounterUnchanged
            /\ store[i].secret = s /\ store' = [store EXCEPT ![i] = E]
            /\ Persist(r, store', nextId') /\ Answer(s, r, PromiseOf(E))
  BY DEF CmdUpdate
<1>. DEFINE E == [store[i] EXCEPT !.expires = IF setExpires THEN x ELSE @,
                                  !.enabled = IF setEnabled THEN e ELSE @]
<1>2. StoreTypeOK /\ IdsUnique
  BY DEF StoreInv
<1>3. /\ nextId' = nextId /\ nextId' \in 1 .. MaxId + 1 /\ metricsCap' \in Nat
      /\ UNCHANGED <<metrics, totalBytes, totalConns>>
  BY <1>1, <1>2 DEF CounterUnchanged, StoreTypeOK
<1>4. E \in Entry /\ E.secret = s /\ E.id = store[i].id
  <2>1. store[i] \in Entry /\ store[i].secret = s
    BY <1>1, <1>2, StoreEntries
  <2>. QED
    BY <2>1 DEF Entry
<1>5. store' = [store EXCEPT ![i] = E] /\ Answer(s, r, PromiseOf(E))
  BY <1>1
<1>. HIDE DEF E
<1>6. /\ store' \in Seq(Entry) /\ DOMAIN store' = DOMAIN store /\ store'[i] = E
      /\ \A j \in DOMAIN store : j # i => store'[j] = store[j]
  BY <1>2, <1>4, <1>5, StoreEntries
<1>7. Distinct(store', nextId')
  BY <1>1, <1>2, <1>3, <1>4, <1>6 DEF IdsUnique, Distinct
<1>8. \A y \in Secrets : y # s => SameFor(store, store', y)
  BY <1>1, <1>4, <1>6 DEF SameFor
<1>9. /\ PromiseOf(E) \in Promise /\ Unknown \in Promise
      /\ promised \in [Secrets -> Promise]
  BY <1>2, <1>4, ConstantsAssumption
  DEF Promise, Unknown, PromiseOf, Times, StoreTypeOK, Entry
<1>10. /\ promised' \in [Secrets -> Promise]
       /\ \A y \in Secrets : y # s => promised'[y] = promised[y]
       /\ StateFile => promised'[s] = IF r THEN PromiseOf(E) ELSE Unknown
  BY <1>5, <1>9 DEF Answer
<1>11. \A y \in Secrets : y \in {s} /\ StateFile /\ promised'[y].known =>
         r /\ Fulfils(store', y, promised'[y])
  BY <1>4, <1>6, <1>10 DEF Fulfils, Unknown, PromiseOf
<1>12. \A y \in Secrets : y \notin {s} =>
         SameFor(store, store', y) /\ promised'[y] = promised[y]
  BY <1>8, <1>10
<1>. QED
  BY <1>1, <1>3, <1>6, <1>7, <1>10, <1>11, <1>12, Commanded

LEMMA CmdDisableExpiredStep ==
    ASSUME StoreInv, NEW at \in Times, CmdDisableExpired(at)
    PROVE  StoreInv'
<1>. DEFINE asked == IF at <= 0 THEN clock ELSE at
            Hit(i) == ExpiredAt(store[i], asked)
            T == {s \in Secrets : \E i \in DOMAIN store : store[i].secret = s /\ Hit(i)}
<1>1. PICK r \in BOOLEAN :
        /\ phase = "run" /\ AdminUnchanged /\ CounterUnchanged
        /\ store' = [i \in DOMAIN store |->
                       IF Hit(i) THEN [store[i] EXCEPT !.enabled = FALSE]
                                 ELSE store[i]]
        /\ Persist(r, store', nextId')
        /\ promised' = [s \in Secrets |->
             IF StateFile /\ \E i \in DOMAIN store : store[i].secret = s /\ Hit(i)
             THEN IF r THEN [promised[s] EXCEPT !.enabled = FALSE] ELSE Unknown
             ELSE promised[s]]
  BY DEF CmdDisableExpired
<1>2. StoreTypeOK /\ IdsUnique /\ AckedKept
  BY DEF StoreInv
<1>3. /\ nextId' = nextId /\ nextId' \in 1 .. MaxId + 1 /\ metricsCap' \in Nat
      /\ UNCHANGED <<metrics, totalBytes, totalConns>>
  BY <1>1, <1>2 DEF CounterUnchanged, StoreTypeOK
<1>. HIDE DEF Hit
<1>4. \A E \in Entry : /\ [E EXCEPT !.enabled = FALSE] \in Entry
                       /\ [E EXCEPT !.enabled = FALSE].secret = E.secret
                       /\ [E EXCEPT !.enabled = FALSE].id = E.id
                       /\ [E EXCEPT !.enabled = FALSE].expires = E.expires
                       /\ [E EXCEPT !.enabled = FALSE].enabled = FALSE
  BY DEF Entry
<1>5. /\ DOMAIN store' = DOMAIN store
      /\ \A i \in DOMAIN store :
           /\ store'[i] \in Entry
           /\ store'[i].secret = store[i].secret /\ store'[i].id = store[i].id
           /\ store'[i].expires = store[i].expires
           /\ Hit(i) => store'[i].enabled = FALSE
           /\ ~Hit(i) => store'[i] = store[i]
  BY <1>1, <1>2, <1>4, StoreEntries
<1>6. store' \in Seq(Entry)
  <2>1. store' \in [1 .. Len(store) -> Entry]
    BY <1>1, <1>2, <1>5, StoreEntries
  <2>. QED
    BY <1>2, <2>1, FunctionSeq, StoreEntries
<1>7. Distinct(store', nextId')
  BY <1>2, <1>3, <1>5 DEF IdsUnique, Distinct
<1>8. /\ promised \in [Secrets -> Promise] /\ Unknown \in Promise
      /\ \A p \in Promise : /\ [p EXCEPT !.enabled = FALSE] \in Promise
                            /\ [p EXCEPT !.enabled = FALSE].known = p.known
                            /\ [p EXCEPT !.enabled = FALSE].present = p.present
                            /\ [p EXCEPT !.enabled = FALSE].expires = p.expires
                            /\ [p EXCEPT !.enabled = FALSE].enabled = FALSE
  <2>1. promised \in [Secrets -> Promise] /\ Unknown \in Promise
    BY <1>2, ConstantsAssumption DEF StoreTypeOK, Unknown, Promise, Times
  <2>. QED
    BY <2>1 DEF Promise
<1>9. promised' \in [Secrets -> Promise]
  BY <1>1, <1>8
<1>10. \A s \in Secrets : s \notin T =>
         SameFor(store, store', s) /\ promised'[s] = promised[s]
  BY <1>1, <1>5 DEF SameFor
<1>11. ASSUME NEW s \in Secrets, s \in T, StateFile, ~spoilt, promised'[s].known,
              ~(~promised'[s].present /\ Optioned(s))
       PROVE  r /\ Fulfils(store', s, promised'[s])
  <2>1. promised'[s] = IF r THEN [promised[s] EXCEPT !.enabled = FALSE] ELSE Unknown
    BY <1>1, <1>11
  <2>2. r
    BY <1>11, <2>1 DEF Unknown
  <2>3. /\ promised'[s] = [promised[s] EXCEPT !.enabled = FALSE]
        /\ promised[s].known /\ promised'[s].present = promised[s].present
        /\ promised'[s].expires = promised[s].expires /\ promised'[s].enabled = FALSE
    BY <1>8, <1>11, <2>1, <2>2
  <2>4. Fulfils(store, s, promised[s])
    BY <1>1, <1>2, <1>11, <2>3, AckedFulfils
  <2>5. PICK i \in DOMAIN store : store[i].secret = s /\ Hit(i)
    BY <1>11
  <2>6. promised[s].present
    BY <2>4, <2>5 DEF Fulfils
  <2>7. PICK j \in DOMAIN store :
               store[j].secret = s /\ store[j].expires = promised[s].expires
    BY <2>4, <2>6 DEF Fulfils
  <2>8. i = j
    BY <1>2, <2>5, <2>7 DEF IdsUnique
  <2>9. /\ i \in DOMAIN store' /\ store'[i].secret = s
        /\ store'[i].enabled = promised'[s].enabled
        /\ store'[i].expires = promised'[s].expires
    BY <1>5, <2>3, <2>5, <2>7, <2>8
  <2>. QED
    BY <2>2, <2>3, <2>6, <2>9 DEF Fulfils
<1>. HIDE DEF T
<1>. QED
  BY <1>1, <1>3, <1>6, <1>7, <1>9, <1>10, <1>11, Commanded

LEMMA AdminStep ==
    ASSUME StoreInv, Admin
    PROVE  StoreInv'
BY CmdAddStep, CmdRemoveStep, CmdUpdateStep, CmdDisableExpiredStep DEF Admin

-----------------------------------------------------------------------------
(* Counters, time and the end of the process.                              *)

\* What touches neither the entries nor the file nor the promises.
LEMMA CountersOnly ==
    ASSUME StoreInv, StoreTypeOK',
           UNCHANGED <<phase, cursor, store, nextId, file, promised, spoilt>>
    PROVE  StoreInv'
BY DEF StoreInv, IdsUnique, FileInv, HeaderRead, LoadedLines, LoadedTo, LoadedFrom,
       Optioned, AckedKept, AckedSurvive, Keeps, ReaddedByOption

LEMMA CountStep ==
    ASSUME StoreInv, NEW id \in Ids,
           CountAttach(id) \/ CountTotal \/ CountTraffic(id)
    PROVE  StoreInv'
<1>1. StoreTypeOK
  BY DEF StoreInv
<1>2. metrics[id] \in Metric
  BY <1>1 DEF StoreTypeOK
<1>3. /\ [metrics[id] EXCEPT !.conns = @ + 1] \in Metric
      /\ [metrics[id] EXCEPT !.bytes = @ + 1] \in Metric
  BY <1>2 DEF Metric
<1>4. CASE CountAttach(id)
  <2>1. metrics' \in [Ids -> Metric]
    BY <1>1, <1>3, <1>4 DEF CountAttach, StoreTypeOK
  <2>2. StoreTypeOK'
    BY <1>1, <1>4, <2>1 DEF CountAttach, StoreTypeOK
  <2>. QED
    BY <1>4, <2>2, CountersOnly DEF CountAttach
<1>5. CASE CountTotal
  <2>1. StoreTypeOK'
    BY <1>1, <1>5 DEF CountTotal, StoreTypeOK
  <2>. QED
    BY <1>5, <2>1, CountersOnly DEF CountTotal
<1>6. CASE CountTraffic(id)
  <2>1. metrics' \in [Ids -> Metric]
    BY <1>1, <1>3, <1>6 DEF CountTraffic, StoreTypeOK
  <2>2. StoreTypeOK'
    BY <1>1, <1>6, <2>1 DEF CountTraffic, StoreTypeOK
  <2>. QED
    BY <1>6, <2>2, CountersOnly DEF CountTraffic
<1>. QED
  BY <1>4, <1>5, <1>6

LEMMA TickStep ==
    ASSUME StoreInv, Tick
    PROVE  StoreInv'
<1>1. StoreTypeOK'
  BY ConstantsAssumption DEF StoreInv, StoreTypeOK, Tick, Times
<1>. QED
  BY <1>1, CountersOnly DEF Tick

LEMMA RestartStep ==
    ASSUME StoreInv, NEW orderly \in BOOLEAN, Restart(orderly)
    PROVE  StoreInv'
<1>. USE DEF StoreInv
<1>1. /\ crashes' = crashes + 1 /\ phase' = "boot" /\ cursor' = 1 /\ store' = <<>>
      /\ nextId' = 1 /\ metrics' = [id \in Ids |-> NoMetric] /\ metricsCap' = 0
      /\ totalBytes' = 0 /\ totalConns' = 0 /\ inflight' = 0
      /\ UNCHANGED <<clock, promised>>
  BY DEF Restart
<1>2. /\ file' \in Image /\ spoilt' \in BOOLEAN /\ FileInv'
      /\ \A i \in DOMAIN file'.lines :
           file'.lines[i].id # 0 => file'.lines[i].id < file'.next
      /\ spoilt => spoilt'
      /\ \/ UNCHANGED <<file, spoilt>>
         \/ /\ phase = "run"
            /\ StateFile /\ ~spoilt' =>
                 \A s \in Secrets : SameFor(store, file'.lines, s)
  <2>1. CASE orderly
    <3>1. PICK r \in BOOLEAN : phase = "run" /\ Persist(r, store, nextId)
      BY <2>1 DEF Restart
    <3>2. store \in Seq(Entry) /\ nextId \in 1 .. MaxId + 1
      BY DEF StoreTypeOK
    <3>. QED
      BY <3>1, <3>2, Persisted, UniqueDistinct
  <2>2. CASE ~orderly
    BY <2>2 DEF Restart, StoreTypeOK, FileInv, IdsUnique
  <2>. QED
    BY <2>1, <2>2
<1>3. StoreTypeOK'
  <2>1. nextId' \in 1 .. MaxId + 1 /\ metrics' \in [Ids -> Metric]
        /\ store' \in Seq(Entry) /\ crashes' \in Nat
    BY <1>1, ConstantsAssumption DEF NoMetric, Metric, StoreTypeOK
  <2>. QED
    BY <1>1, <1>2, <2>1 DEF StoreTypeOK
<1>4. IdsUnique' /\ HeaderRead' /\ LoadedLines' /\ LoadedFrom'
  BY <1>1, <1>2 DEF IdsUnique, HeaderRead, LoadedLines, LoadedFrom
<1>5. AckedKept'
  <2>. SUFFICES ASSUME ~spoilt', StateFile, NEW s \in Secrets, promised[s].known,
                       ~(~promised[s].present /\ Optioned(s))
                PROVE  Fulfils(file'.lines, s, promised[s])
    BY <1>1 DEF AckedKept, AckedSurvive, Keeps, Fulfils, ReaddedByOption, Optioned
  <2>1. ~spoilt
    BY <1>2
  <2>2. CASE UNCHANGED <<file, spoilt>>
    BY <2>1, <2>2, AckedFulfils
  <2>3. CASE phase = "run" /\ SameFor(store, file'.lines, s)
    BY <2>1, <2>3, AckedFulfils, SameFulfils
  <2>. QED
    BY <1>2, <2>2, <2>3
<1>. QED
  BY <1>2, <1>3, <1>4, <1>5

-----------------------------------------------------------------------------
(* Theorems.                                                               *)

LEMMA StoreNextStep ==
    ASSUME StoreInv, [StoreNext]_storeVars
    PROVE  StoreInv'
<1>1. CASE UNCHANGED storeVars
  <2>1. StoreTypeOK'
    BY <1>1 DEF StoreInv, StoreTypeOK, storeVars
  <2>. QED
    BY <1>1, <2>1, CountersOnly DEF storeVars
<1>. QED
  BY <1>1, StartUpStep, AdminStep, TickStep, RestartStep DEF StoreNext

\* The conjunction is inductive.
THEOREM StoreInvariant == StoreSpec => []StoreInv
<1>1. StoreInit => StoreInv
  BY StoreInitial
<1>2. StoreInv /\ [StoreNext]_storeVars => StoreInv'
  BY StoreNextStep
<1>. QED
  BY <1>1, <1>2, PTL DEF StoreSpec

(* Whatever options, state files of either format, failed allocations and  *)
(* writes ext_add_locked and tcp_rpcs_load_secrets_state meet, ids identify *)
(* secrets and the next id is a fresh one.                                 *)
THEOREM IdsStayUnique == StoreSpec => []IdsUnique
<1>1. StoreInv => IdsUnique
  BY DEF StoreInv
<1>. QED
  BY <1>1, StoreInvariant, PTL

(* An acknowledged command survives crashes, failed writes and restarts as *)
(* long as no image was cut short and no load broken off: ext_persist_locked*)
(* writes the whole array, and the load overrides the options.             *)
THEOREM AcknowledgedSurvives == StoreSpec => []AckedKept
<1>1. StoreInv => AckedKept
  BY DEF StoreInv
<1>. QED
  BY <1>1, StoreInvariant, PTL

-----------------------------------------------------------------------------
(* Connections beside the store.                                           *)

-----------------------------------------------------------------------------
(* The inductive invariant.                                                *)

\* Connections are accepted by a running process only.
NoneAtStart == phase # "run" => \A c \in Conns : conn[c] = NoConn

\* An id has one secret for good: what a copy or a connection says of an id
\* is not contradicted by the store, now or later.
IdNames(id, s) ==
    id < nextId /\ \A i \in DOMAIN store : store[i].id = id => store[i].secret = s

SnapNames == \A c \in Conns : \A p \in conn[c].snap : IdNames(p[2], p[1])

OwnerNames == \A c \in Conns : conn[c].id > 0 => IdNames(conn[c].id, conn[c].owner)

\* The copy of a connection agrees with the id the connection has already.
SnapOwner ==
    \A c \in Conns : \A p \in conn[c].snap :
        conn[c].id = p[2] => conn[c].owner = p[1]

\* The secrets in a copy have been usable since the connection was accepted.
SnapAlive == \A c \in Conns : \A p \in conn[c].snap : p[1] \notin dead[c]

\* A secret that is usable now is not dead.
DeadNow == \A c \in Conns : dead[c] \cap Usable(store, clock) = {}

HandshakeInv ==
    /\ StoreInv
    /\ ConnTypeOK
    /\ NoneAtStart
    /\ SnapNames
    /\ OwnerNames
    /\ SnapOwner
    /\ SnapAlive
    /\ DeadNow
    /\ RevokedStaysOut
    /\ ChargedToAdmitting

-----------------------------------------------------------------------------
(* Steps of a connection.                                                  *)

(* What is left to show of a step of connection c that makes it C and      *)
(* leaves the entries, the phase and the clock alone.                      *)
LEMMA ConnChanged ==
    ASSUME HandshakeInv, StoreInv', NEW c \in Conns, NEW C \in Conn, NEW D,
           conn' = [conn EXCEPT ![c] = C],
           UNCHANGED <<phase, store, nextId, clock, allowOnlyTls>>,
           phase = "run",
           dead' = [dead EXCEPT ![c] = D], D \in SUBSET Secrets,
           D \cap Usable(store, clock) = {},
           \A p \in C.snap : /\ IdNames(p[2], p[1])
                             /\ C.id = p[2] => C.owner = p[1]
                             /\ p[1] \notin D,
           C.id > 0 => IdNames(C.id, C.owner),
           C.pc \in {"total", "open"} =>
               C.via \notin D /\ (C.via # NoSecret => C.owner = C.via)
    PROVE  HandshakeInv'
<1>. USE DEF HandshakeInv
<1>1. /\ conn \in [Conns -> Conn] /\ dead \in [Conns -> SUBSET Secrets]
      /\ conn'[c] = C /\ dead'[c] = D
      /\ \A d \in Conns : d # c => conn'[d] = conn[d] /\ dead'[d] = dead[d]
  BY DEF ConnTypeOK
<1>2. ConnTypeOK'
  BY <1>1 DEF ConnTypeOK
<1>3. NoneAtStart'
  BY DEF NoneAtStart
<1>4. SnapNames'
  BY <1>1 DEF SnapNames, IdNames
<1>5. OwnerNames'
  BY <1>1 DEF OwnerNames, IdNames
<1>6. SnapOwner' /\ SnapAlive'
  BY <1>1 DEF SnapOwner, SnapAlive
<1>7. DeadNow'
  BY <1>1 DEF DeadNow, Usable
<1>8. RevokedStaysOut'
  BY <1>1 DEF RevokedStaysOut, Settled
<1>9. ChargedToAdmitting'
  BY <1>1 DEF ChargedToAdmitting, Settled
<1>. QED
  BY <1>2, <1>3, <1>4, <1>5, <1>6, <1>7, <1>8, <1>9

\* What the invariant says of one connection that is not closed.
LEMMA ConnFacts ==
    ASSUME HandshakeInv, NEW c \in Conns, conn[c].pc # "closed"
    PROVE  /\ phase = "run"
           /\ conn[c] \in Conn /\ dead[c] \in SUBSET Secrets
           /\ conn \in [Conns -> Conn] /\ dead \in [Conns -> SUBSET Secrets]
           /\ dead = [dead EXCEPT ![c] = dead[c]]
           /\ dead[c] \cap Usable(store, clock) = {}
           /\ \A p \in conn[c].snap : /\ p \in Pairs
                                      /\ IdNames(p[2], p[1])
                                      /\ conn[c].id = p[2] => conn[c].owner = p[1]
                                      /\ p[1] \notin dead[c]
           /\ conn[c].id > 0 => IdNames(conn[c].id, conn[c].owner)
           /\ Settled(c) =>
                /\ conn[c].via \notin dead[c]
                /\ conn[c].via # NoSecret => conn[c].owner = conn[c].via
<1>. USE DEF HandshakeInv
<1>1. phase = "run"
  BY DEF NoneAtStart, NoConn
<1>2. conn[c] \in Conn /\ dead[c] \in SUBSET Secrets
  BY DEF ConnTypeOK
<1>3. conn[c].snap \in SUBSET Pairs
  BY <1>2 DEF Conn
<1>4. dead = [dead EXCEPT ![c] = dead[c]]
  BY DEF ConnTypeOK
<1>. QED
  BY <1>1, <1>2, <1>3, <1>4
  DEF ConnTypeOK, DeadNow, SnapNames, SnapOwner, SnapAlive, OwnerNames,
      RevokedStaysOut, ChargedToAdmitting

\* Steps that do not write to the store keep its invariant.
LEMMA StoreUntouched ==
    ASSUME StoreInv, UNCHANGED storeVars
    PROVE  StoreInv' /\ UNCHANGED <<phase, store, nextId, clock>>
<1>1. StoreInv'
  BY StoreNextStep
<1>. QED
  BY <1>1 DEF storeVars

\* A step of c that only moves it to another place before its admission.
LEMMA Moved ==
    ASSUME HandshakeInv, NEW c \in Conns, conn[c].pc # "closed",
           NEW x \in {"new", "hello", "header", "skip", "proxied"},
           Goto(c, x), UNCHANGED <<storeVars, dead, allowOnlyTls>>
    PROVE  HandshakeInv'
<1>. DEFINE C == [conn[c] EXCEPT !.pc = x]
<1>1. conn[c] \in Conn
  BY ConnFacts
<1>2. /\ C \in Conn /\ C.pc = x /\ C.snap = conn[c].snap /\ C.id = conn[c].id
      /\ C.owner = conn[c].owner
  BY <1>1 DEF Conn, Parsing, Waiting
<1>3. conn' = [conn EXCEPT ![c] = C]
  BY DEF Goto
<1>4. dead' = [dead EXCEPT ![c] = dead[c]]
  BY ConnFacts
<1>5. StoreInv' /\ UNCHANGED <<phase, store, nextId, clock>>
  BY StoreUntouched DEF HandshakeInv
<1>. HIDE DEF C
<1>6. /\ phase = "run" /\ dead[c] \in SUBSET Secrets
      /\ dead[c] \cap Usable(store, clock) = {}
      /\ \A p \in C.snap : /\ IdNames(p[2], p[1])
                           /\ C.id = p[2] => C.owner = p[1]
                           /\ p[1] \notin dead[c]
      /\ C.id > 0 => IdNames(C.id, C.owner)
  BY <1>2, ConnFacts
<1>7. C.pc \notin {"total", "open"}
  BY <1>2
<1>. QED
  BY <1>2, <1>3, <1>4, <1>5, <1>6, <1>7, ConnChanged

\* The copy ext_snapshot_active_secrets makes.
LEMMA Snapshot ==
    ASSUME HandshakeInv, NEW c \in Conns
    PROVE  /\ ActivePairs \in SUBSET Pairs
           /\ \A p \in ActivePairs : /\ IdNames(p[2], p[1])
                                     /\ conn[c].id = p[2] => conn[c].owner = p[1]
                                     /\ p[1] \notin dead[c]
<1>. USE DEF HandshakeInv
<1>1. StoreTypeOK /\ IdsUnique
  BY DEF StoreInv
<1>2. ActivePairs \in SUBSET Pairs
  BY <1>1, StoreEntries DEF ActivePairs, Pairs
<1>3. ASSUME NEW i \in DOMAIN store, IsActive(store[i], clock)
      PROVE  /\ IdNames(store[i].id, store[i].secret)
             /\ conn[c].id = store[i].id => conn[c].owner = store[i].secret
             /\ store[i].secret \notin dead[c]
  <2>1. IdNames(store[i].id, store[i].secret)
    BY <1>1 DEF IdNames, IdsUnique
  <2>2. conn[c].id = store[i].id => conn[c].owner = store[i].secret
    <3>1. store[i].id > 0
      BY <1>1, StoreEntries DEF Ids
    <3>. QED
      BY <3>1 DEF OwnerNames, IdNames
  <2>3. store[i].secret \in Usable(store, clock)
    BY <1>3 DEF Usable
  <2>. QED
    BY <2>1, <2>2, <2>3 DEF DeadNow
<1>4. \A p \in ActivePairs : \E i \in DOMAIN store :
        /\ IsActive(store[i], clock) /\ p[1] = store[i].secret /\ p[2] = store[i].id
  BY DEF ActivePairs
<1>. QED
  BY <1>2, <1>3, <1>4

\* The locked section in which a connection copies the secrets.
LEMMA Copied ==
    ASSUME HandshakeInv, NEW c \in Conns, conn[c].pc # "closed",
           NEW x \in {"tlsmatch", "match"},
           conn' = [conn EXCEPT ![c].pc = x, ![c].snap = ActivePairs],
           UNCHANGED <<storeVars, dead, allowOnlyTls>>
    PROVE  HandshakeInv'
<1>. DEFINE C == [conn[c] EXCEPT !.pc = x, !.snap = ActivePairs]
<1>1. conn[c] \in Conn /\ conn \in [Conns -> Conn]
  BY ConnFacts
<1>2. ActivePairs \in SUBSET Pairs
  BY Snapshot
<1>3. /\ C \in Conn /\ C.pc = x /\ C.snap = ActivePairs /\ C.id = conn[c].id
      /\ C.owner = conn[c].owner
  BY <1>1, <1>2 DEF Conn, Parsing, Waiting
<1>4. conn' = [conn EXCEPT ![c] = C]
  BY <1>1
<1>5. dead' = [dead EXCEPT ![c] = dead[c]]
  BY ConnFacts
<1>6. StoreInv' /\ UNCHANGED <<phase, store, nextId, clock>>
  BY StoreUntouched DEF HandshakeInv
<1>. HIDE DEF C
<1>7. /\ phase = "run" /\ dead[c] \in SUBSET Secrets
      /\ dead[c] \cap Usable(store, clock) = {}
      /\ C.id > 0 => IdNames(C.id, C.owner)
  BY <1>3, ConnFacts
<1>8. \A p \in C.snap :
        IdNames(p[2], p[1]) /\ (C.id = p[2] => C.owner = p[1]) /\ p[1] \notin dead[c]
  BY <1>3, Snapshot
<1>9. C.pc \notin {"total", "open"}
  BY <1>3
<1>. QED
  BY ZenonT(40), <1>3, <1>4, <1>5, <1>6, <1>7, <1>8, <1>9, ConnChanged

-----------------------------------------------------------------------------
(* One lemma per action of a connection.                                   *)

LEMMA AcceptStep ==
    ASSUME HandshakeInv, NEW c \in Conns, Accept(c), UNCHANGED allowOnlyTls
    PROVE  HandshakeInv'
<1>. DEFINE C == [NoConn EXCEPT !.pc = "new"]
            D == Secrets \ Usable(store, clock)
<1>1. /\ C \in Conn /\ C.pc = "new" /\ C.snap = {} /\ C.id = 0
  <2>1. NoConn \in Conn /\ NoConn.snap = {} /\ NoConn.id = 0
    BY ConstantsAssumption DEF NoConn, Conn, Parsing, Waiting
  <2>. QED
    BY <2>1 DEF Conn, Waiting
<1>2. /\ conn' = [conn EXCEPT ![c] = C] /\ dead' = [dead EXCEPT ![c] = D]
      /\ phase = "run"
  BY DEF Accept
<1>3. StoreInv' /\ UNCHANGED <<phase, store, nextId, clock>>
  BY StoreUntouched DEF HandshakeInv, Accept
<1>4. D \in SUBSET Secrets /\ D \cap Usable(store, clock) = {}
  OBVIOUS
<1>5. C.pc \notin {"total", "open"} /\ (\A p \in C.snap : FALSE) /\ ~(C.id > 0)
  BY <1>1
<1>. HIDE DEF C, D
<1>. QED
  BY <1>1, <1>2, <1>3, <1>4, <1>5, ConnChanged

LEMMA CloseStep ==
    ASSUME HandshakeInv, NEW c \in Conns, Close(c), UNCHANGED allowOnlyTls
    PROVE  HandshakeInv'
<1>1. /\ NoConn \in Conn /\ NoConn.pc = "closed" /\ NoConn.snap = {} /\ NoConn.id = 0
  BY ConstantsAssumption DEF NoConn, Conn, Parsing, Waiting
<1>2. conn[c].pc # "closed"
  BY DEF Close, Waiting
<1>3. /\ conn' = [conn EXCEPT ![c] = NoConn] /\ dead' = [dead EXCEPT ![c] = {}]
      /\ phase = "run"
  BY <1>2, ConnFacts DEF Close
<1>4. StoreInv' /\ UNCHANGED <<phase, store, nextId, clock>>
  BY StoreUntouched DEF HandshakeInv, Close
<1>5. /\ NoConn.pc \notin {"total", "open"} /\ (\A p \in NoConn.snap : FALSE)
      /\ ~(NoConn.id > 0) /\ {} \in SUBSET Secrets
  BY <1>1
<1>. QED
  BY <1>1, <1>3, <1>4, <1>5, ConnChanged

(* A client with secret s is found in the copy, as p: what                 *)
(* ext_metrics_attach_secret_to_connection makes of the connection C, from *)
(* which the copy is gone.  If C is let in, it is by s.                    *)
LEMMA AttachStep ==
    ASSUME HandshakeInv, NEW c \in Conns, conn[c].pc # "closed",
           NEW p \in conn[c].snap,
           NEW counting \in {"tlstotal", "total"}, NEW after \in {"header", "open"},
           NEW C \in Conn, C.snap = {}, C.id = conn[c].id, C.owner = conn[c].owner,
           counting = "total" \/ after = "open" => C.via = p[1],
           Attach(c, p[1], p[2], counting, after, C),
           UNCHANGED <<dead, allowOnlyTls>>
    PROVE  HandshakeInv'
<1>1. /\ p \in Pairs /\ IdNames(p[2], p[1]) /\ p[1] \notin dead[c]
      /\ conn[c].id = p[2] => conn[c].owner = p[1]
      /\ phase = "run" /\ dead[c] \in SUBSET Secrets
      /\ dead[c] \cap Usable(store, clock) = {}
      /\ conn[c].id > 0 => IdNames(conn[c].id, conn[c].owner)
      /\ dead' = [dead EXCEPT ![c] = dead[c]]
  BY ConnFacts
<1>2. p[1] \in Secrets /\ p[2] \in Ids
  BY <1>1 DEF Pairs
<1>3. CASE /\ conn[c].id = p[2] /\ UNCHANGED storeVars
           /\ conn' = [conn EXCEPT ![c] = [C EXCEPT !.pc = after]]
  <2>. DEFINE E == [C EXCEPT !.pc = after]
  <2>1. /\ E \in Conn /\ E.pc = after /\ E.snap = {} /\ E.id = conn[c].id
        /\ E.owner = conn[c].owner /\ E.via = C.via
    BY DEF Conn, Waiting
  <2>2. conn' = [conn EXCEPT ![c] = E]
    BY <1>3
  <2>3. StoreInv' /\ UNCHANGED <<phase, store, nextId, clock>>
    BY <1>3, StoreUntouched DEF HandshakeInv
  <2>. HIDE DEF E
  <2>4. E.pc \in {"total", "open"} =>
          E.via \notin dead[c] /\ (E.via # NoSecret => E.owner = E.via)
    BY <1>1, <1>3, <2>1
  <2>5. (E.id > 0 => IdNames(E.id, E.owner)) /\ (\A q \in E.snap : FALSE)
    BY <1>1, <2>1
  <2>. QED
    BY <1>1, <2>1, <2>2, <2>3, <2>4, <2>5, ConnChanged
<1>4. CASE /\ CountAttach(p[2])
           /\ conn' = [conn EXCEPT ![c] = [C EXCEPT !.pc = counting, !.id = p[2],
                                                    !.owner = p[1]]]
  <2>. DEFINE E == [C EXCEPT !.pc = counting, !.id = p[2], !.owner = p[1]]
  <2>1. /\ E \in Conn /\ E.pc = counting /\ E.snap = {} /\ E.id = p[2]
        /\ E.owner = p[1] /\ E.via = C.via
    <3>1. p[2] \in 0 .. MaxId
      BY <1>2, ConstantsAssumption DEF Ids
    <3>. QED
      BY <1>2, <3>1 DEF Conn, Parsing
  <2>2. conn' = [conn EXCEPT ![c] = E]
    BY <1>4
  <2>3. StoreInv' /\ UNCHANGED <<phase, store, nextId, clock>>
    BY <1>2, <1>4, CountStep DEF HandshakeInv, CountAttach
  <2>. HIDE DEF E
  <2>4. E.pc \in {"total", "open"} =>
          E.via \notin dead[c] /\ (E.via # NoSecret => E.owner = E.via)
    BY <1>1, <2>1
  <2>5. (E.id > 0 => IdNames(E.id, E.owner)) /\ (\A q \in E.snap : FALSE)
    BY <1>1, <2>1
  <2>. QED
    BY <1>1, <2>1, <2>2, <2>3, <2>4, <2>5, ConnChanged
<1>. QED
  BY <1>3, <1>4 DEF Attach

LEMMA HeaderSteps ==
    ASSUME HandshakeInv, NEW c \in Conns, UNCHANGED allowOnlyTls,
           ClientHello(c) \/ PlainHeader(c) \/ SnapshotHello(c) \/ SnapshotHeader(c)
             \/ Alarm(c)
    PROVE  HandshakeInv'
<1>1. conn[c].pc # "closed" /\ UNCHANGED <<storeVars, dead>>
  BY DEF ClientHello, PlainHeader, SnapshotHello, SnapshotHeader, Alarm
<1>2. CASE \E x \in {"new", "hello", "header", "skip", "proxied"} : Goto(c, x)
  BY <1>1, <1>2, Moved
<1>3. CASE \E x \in {"tlsmatch", "match"} :
             conn' = [conn EXCEPT ![c].pc = x, ![c].snap = ActivePairs]
  BY <1>1, <1>3, Copied
<1>4. CASE ClientHello(c)
  BY <1>2, <1>4 DEF ClientHello
<1>5. CASE PlainHeader(c)
  BY <1>2, <1>5 DEF PlainHeader
<1>6. CASE SnapshotHello(c)
  BY <1>2, <1>3, <1>6 DEF SnapshotHello
<1>7. CASE SnapshotHeader(c)
  BY <1>2, <1>3, <1>7 DEF SnapshotHeader
<1>8. CASE Alarm(c)
  BY <1>2, <1>8 DEF Alarm
<1>. QED
  BY <1>4, <1>5, <1>6, <1>7, <1>8

LEMMA MatchHelloStep ==
    ASSUME HandshakeInv, NEW c \in Conns, NEW s \in Secrets, MatchHello(c, s),
           UNCHANGED allowOnlyTls
    PROVE  HandshakeInv'
<1>1. conn[c].pc # "closed" /\ UNCHANGED dead /\ conn[c] \in Conn
      /\ conn \in [Conns -> Conn]
  <2>1. conn[c].pc # "closed" /\ UNCHANGED dead
    BY DEF MatchHello
  <2>. QED
    BY <2>1, ConnFacts
<1>2. ASSUME NEW p \in conn[c].snap, p[1] = s,
             Attach(c, s, p[2], "tlstotal", "header",
                    [conn[c] EXCEPT !.tls = TRUE, !.snap = {}])
      PROVE  HandshakeInv'
  <2>. DEFINE C == [conn[c] EXCEPT !.tls = TRUE, !.snap = {}]
  <2>1. C \in Conn /\ C.snap = {} /\ C.id = conn[c].id /\ C.owner = conn[c].owner
    BY <1>1 DEF Conn
  <2>2. Attach(c, p[1], p[2], "tlstotal", "header", C)
    BY <1>2
  <2>. HIDE DEF C
  <2>3. ~("tlstotal" = "total" \/ "header" = "open")
    OBVIOUS
  <2>. QED
    BY <1>1, <2>1, <2>2, <2>3, AttachStep
<1>3. CASE /\ conn' = [conn EXCEPT ![c].pc = "proxied", ![c].snap = {}]
           /\ UNCHANGED storeVars
  <2>. DEFINE C == [conn[c] EXCEPT !.pc = "proxied", !.snap = {}]
  <2>1. /\ C \in Conn /\ C.pc = "proxied" /\ C.snap = {} /\ C.id = conn[c].id
        /\ C.owner = conn[c].owner
    BY <1>1 DEF Conn, Waiting
  <2>2. conn' = [conn EXCEPT ![c] = C]
    BY <1>1, <1>3
  <2>3. StoreInv' /\ UNCHANGED <<phase, store, nextId, clock>>
    BY <1>3, StoreUntouched DEF HandshakeInv
  <2>. HIDE DEF C
  <2>4. /\ phase = "run" /\ dead[c] \in SUBSET Secrets
        /\ dead[c] \cap Usable(store, clock) = {}
        /\ C.id > 0 => IdNames(C.id, C.owner)
        /\ dead' = [dead EXCEPT ![c] = dead[c]]
    BY <1>1, <2>1, ConnFacts
  <2>5. C.pc \notin {"total", "open"} /\ (\A p \in C.snap : FALSE)
    BY <2>1
  <2>. QED
    BY <2>1, <2>2, <2>3, <2>4, <2>5, ConnChanged
<1>. QED
  BY <1>2, <1>3 DEF MatchHello

LEMMA AddTotalStep ==
    ASSUME HandshakeInv, NEW c \in Conns, AddTotal(c), UNCHANGED allowOnlyTls
    PROVE  HandshakeInv'
<1>. DEFINE x == IF conn[c].pc = "total" THEN "open" ELSE "header"
            C == [conn[c] EXCEPT !.pc = x]
<1>1. conn[c].pc # "closed" /\ UNCHANGED dead
  BY DEF AddTotal
<1>2. conn[c] \in Conn
  BY <1>1, ConnFacts
<1>3. /\ C \in Conn /\ C.pc = x /\ C.snap = conn[c].snap /\ C.id = conn[c].id
      /\ C.owner = conn[c].owner /\ C.via = conn[c].via
  BY <1>2 DEF Conn, Waiting
<1>4. conn' = [conn EXCEPT ![c] = C]
  BY DEF AddTotal, Goto
<1>5. StoreInv' /\ UNCHANGED <<phase, store, nextId, clock>>
  <2>1. 1 \in Ids
    BY ConstantsAssumption DEF Ids
  <2>. QED
    BY <2>1, CountStep DEF HandshakeInv, AddTotal, CountTotal
<1>. HIDE DEF C
<1>6. /\ phase = "run" /\ dead[c] \in SUBSET Secrets
      /\ dead[c] \cap Usable(store, clock) = {}
      /\ C.id > 0 => IdNames(C.id, C.owner)
      /\ dead' = [dead EXCEPT ![c] = dead[c]]
  BY <1>1, <1>3, ConnFacts
<1>7. \A p \in C.snap :
        IdNames(p[2], p[1]) /\ (C.id = p[2] => C.owner = p[1]) /\ p[1] \notin dead[c]
  BY <1>1, <1>3, ConnFacts
<1>8. C.pc \in {"total", "open"} =>
        C.via \notin dead[c] /\ (C.via # NoSecret => C.owner = C.via)
  <2>1. C.pc \in {"total", "open"} => Settled(c)
    BY <1>3 DEF Settled
  <2>. QED
    BY <1>1, <1>3, <2>1, ConnFacts
<1>. QED
  BY <1>3, <1>4, <1>5, <1>6, <1>7, <1>8, ConnChanged

LEMMA MatchHeaderStep ==
    ASSUME HandshakeInv, NEW c \in Conns, NEW s \in Secrets \cup {NoSecret},
           NEW padded \in BOOLEAN, MatchHeader(c, s, padded), UNCHANGED allowOnlyTls
    PROVE  HandshakeInv'
<1>. DEFINE N == [conn[c] EXCEPT !.snap = {}]
<1>1. conn[c].pc # "closed" /\ UNCHANGED dead /\ conn[c] \in Conn
  <2>1. conn[c].pc # "closed" /\ UNCHANGED dead
    BY DEF MatchHeader
  <2>. QED
    BY <2>1, ConnFacts
<1>2. /\ N \in Conn /\ N.snap = {} /\ N.id = conn[c].id /\ N.owner = conn[c].owner
  BY <1>1 DEF Conn
<1>. HIDE DEF N
<1>3. ASSUME NEW p \in conn[c].snap, p[1] = s,
             Attach(c, s, p[2], "total", "open", [N EXCEPT !.via = s])
      PROVE  HandshakeInv'
  <2>. DEFINE C == [N EXCEPT !.via = s]
  <2>1. /\ C \in Conn /\ C.snap = {} /\ C.id = conn[c].id
        /\ C.owner = conn[c].owner /\ C.via = p[1]
    BY <1>2, <1>3 DEF Conn
  <2>2. Attach(c, p[1], p[2], "total", "open", C)
    BY <1>3
  <2>. HIDE DEF C
  <2>. QED
    BY <1>1, <2>1, <2>2, AttachStep
<1>4. ASSUME NEW C \in Conn, conn' = [conn EXCEPT ![c] = C], UNCHANGED storeVars,
             C.snap = {}, C.id = conn[c].id, C.owner = conn[c].owner,
             C.pc = "open" => C.via = NoSecret, C.pc # "total"
      PROVE  HandshakeInv'
  <2>1. StoreInv' /\ UNCHANGED <<phase, store, nextId, clock>>
    BY <1>4, StoreUntouched DEF HandshakeInv
  <2>2. /\ phase = "run" /\ dead[c] \in SUBSET Secrets
        /\ dead[c] \cap Usable(store, clock) = {}
        /\ C.id > 0 => IdNames(C.id, C.owner)
        /\ dead' = [dead EXCEPT ![c] = dead[c]]
    BY <1>1, <1>4, ConnFacts
  <2>3. C.pc \in {"total", "open"} =>
          C.via \notin dead[c] /\ (C.via # NoSecret => C.owner = C.via)
    BY <1>4, <2>2, HandshakeAssumption
  <2>4. \A p \in C.snap : FALSE
    BY <1>4
  <2>. QED
    BY <1>4, <2>1, <2>2, <2>3, <2>4, ConnChanged
<1>5. CASE /\ Fits(c, s) /\ conn[c].snap = {} /\ UNCHANGED storeVars
           /\ conn' = [conn EXCEPT ![c] = [N EXCEPT !.pc = "open", !.via = s]]
  <2>. DEFINE C == [N EXCEPT !.pc = "open", !.via = s]
  <2>1. s = NoSecret
    BY <1>5 DEF Fits
  <2>2. /\ C \in Conn /\ C.pc = "open" /\ C.via = NoSecret /\ C.snap = {}
        /\ C.id = conn[c].id /\ C.owner = conn[c].owner
    BY <1>2, <2>1 DEF Conn, Waiting
  <2>. HIDE DEF C
  <2>3. C.pc # "total"
    BY <2>2
  <2>4. conn' = [conn EXCEPT ![c] = C]
    BY <1>5 DEF C
  <2>. QED
    BY <1>4, <1>5, <2>2, <2>3, <2>4
<1>6. ASSUME NEW x \in {"proxied", "skip"}, UNCHANGED storeVars,
             conn' = [conn EXCEPT ![c] = [N EXCEPT !.pc = x]]
      PROVE  HandshakeInv'
  <2>. DEFINE C == [N EXCEPT !.pc = x]
  <2>1. /\ C \in Conn /\ C.pc = x /\ C.snap = {}
        /\ C.id = conn[c].id /\ C.owner = conn[c].owner
    BY <1>2 DEF Conn, Waiting
  <2>2. C.pc # "total" /\ C.pc # "open"
    BY <2>1
  <2>3. conn' = [conn EXCEPT ![c] = C]
    BY <1>6
  <2>. HIDE DEF C
  <2>. QED
    BY <1>4, <1>6, <2>1, <2>2, <2>3
<1>. QED
  BY <1>3, <1>5, <1>6 DEF MatchHeader, N

LEMMA TrafficStep ==
    ASSUME HandshakeInv, NEW c \in Conns, Traffic(c), UNCHANGED allowOnlyTls
    PROVE  HandshakeInv'
<1>1. conn[c].id \in Ids
  BY DEF Traffic, HandshakeInv, ConnTypeOK, Conn, Ids
<1>2. StoreInv'
  BY <1>1, CountStep DEF Traffic, HandshakeInv
<1>3. UNCHANGED <<phase, store, nextId, clock, conn, dead>>
  BY DEF Traffic, CountTraffic
<1>. QED
  BY <1>2, <1>3
  DEF HandshakeInv, ConnTypeOK, NoneAtStart, SnapNames, OwnerNames, IdNames,
      SnapOwner, SnapAlive, DeadNow, Usable, RevokedStaysOut, ChargedToAdmitting,
      Settled

-----------------------------------------------------------------------------
(* Steps of the store beside the connections.                              *)

(* The commands and the clock take nothing back of what the ids name: an   *)
(* entry keeps its id and its secret, and a new one gets the next id.      *)
LEMMA NamesKept ==
    ASSUME StoreInv, phase = "run", StartUp \/ Admin \/ Tick
    PROVE  /\ phase' = "run"
           /\ \A id \in Int : \A s : IdNames(id, s) => IdNames(id, s)'
<1>1. StoreTypeOK /\ IdsUnique
  BY DEF StoreInv
<1>. SUFFICES /\ phase' = "run" /\ nextId' \in Int /\ nextId' >= nextId
              /\ \A i \in DOMAIN store' :
                   \/ store'[i].id = nextId
                   \/ \E j \in DOMAIN store : /\ store'[i].id = store[j].id
                                              /\ store'[i].secret = store[j].secret
  BY <1>1 DEF IdNames, StoreTypeOK
<1>2. CASE StartUp
  BY <1>2 DEF StartUp, BootstrapAdd, LoadOpen, LoadLine, LoadEnd, LoadSum
<1>3. CASE Tick
  BY <1>1, <1>3 DEF Tick, StoreTypeOK
<1>4. CASE Admin
  <2>1. phase' = "run" /\ nextId \in Int
    <3>1. \A s \in Secrets : CmdRemove(s) => AdminUnchanged
      BY DEF CmdRemove
    <3>2. \A s \in Secrets, x \in Times, e \in BOOLEAN :
            CmdAdd(s, x, e) => AdminUnchanged
      BY DEF CmdAdd
    <3>3. \A s \in Secrets, x \in Times, e \in BOOLEAN :
            CmdUpdate(s, x, e) => AdminUnchanged
      BY DEF CmdUpdate
    <3>4. \A at \in Times : CmdDisableExpired(at) => AdminUnchanged
      BY DEF CmdDisableExpired
    <3>5. AdminUnchanged
      BY <1>4, <3>1, <3>2, <3>3, <3>4 DEF Admin
    <3>6. nextId \in Int
      BY <1>1 DEF StoreTypeOK
    <3>. QED
      BY <3>5, <3>6 DEF AdminUnchanged
  <2>2. ASSUME NEW s \in Secrets, CmdRemove(s)
        PROVE  /\ nextId' = nextId
               /\ \A i \in DOMAIN store' : \E j \in DOMAIN store : store'[i] = store[j]
    <3>1. PICK i \in DOMAIN store : store' = SwapOut(store, i)
      BY <2>2 DEF CmdRemove
    <3>2. nextId' = nextId
      BY <2>2 DEF CmdRemove, CounterUnchanged
    <3>. QED
      BY <1>1, <3>1, <3>2, SwappedOut
  <2>3. ASSUME NEW s \in Secrets, NEW x \in Times, NEW e \in BOOLEAN, CmdAdd(s, x, e)
        PROVE  /\ nextId' \in Int /\ nextId' >= nextId
               /\ \A i \in DOMAIN store' :
                    \/ store'[i].id = nextId
                    \/ \E j \in DOMAIN store : store'[i] = store[j]
    <3>1. CASE OutOfMemory
      BY <2>1, <3>1 DEF OutOfMemory, memory
    <3>2. CASE AppendEntry(s, x, e)
      <4>1. ~Holds(s)
        BY <2>3 DEF CmdAdd
      <4>. QED
        BY <1>1, <3>2, <4>1, EntryAppended
    <3>. QED
      BY <2>3, <3>1, <3>2 DEF CmdAdd
  <2>4. ASSUME NEW s \in Secrets, NEW x \in Times, NEW e \in BOOLEAN, CmdUpdate(s, x, e)
        PROVE  /\ nextId' = nextId
               /\ \A i \in DOMAIN store' :
                    \E j \in DOMAIN store : /\ store'[i].id = store[j].id
                                            /\ store'[i].secret = store[j].secret
    <3>1. PICK k \in DOMAIN store, setExpires \in BOOLEAN, setEnabled \in BOOLEAN :
            store' = [store EXCEPT ![k] =
                        [store[k] EXCEPT
                           !.expires = IF setExpires THEN x ELSE @,
                           !.enabled = IF setEnabled THEN e ELSE @]]
      BY <2>4 DEF CmdUpdate
    <3>. DEFINE E == [store[k] EXCEPT !.expires = IF setExpires THEN x ELSE @,
                                      !.enabled = IF setEnabled THEN e ELSE @]
    <3>2. E.id = store[k].id /\ E.secret = store[k].secret
      <4>1. store[k] \in Entry
        BY <1>1, StoreEntries
      <4>. QED
        BY <4>1 DEF Entry
    <3>3. store' = [store EXCEPT ![k] = E]
      BY <3>1
    <3>4. nextId' = nextId
      BY <2>4 DEF CmdUpdate, CounterUnchanged
    <3>. HIDE DEF E
    <3>. QED
      BY <1>1, <3>2, <3>3, <3>4, StoreEntries
  <2>5. ASSUME NEW at \in Times, CmdDisableExpired(at)
        PROVE  /\ nextId' = nextId
               /\ \A i \in DOMAIN store' :
                    \E j \in DOMAIN store : /\ store'[i].id = store[j].id
                                            /\ store'[i].secret = store[j].secret
    <3>1. /\ DOMAIN store' = DOMAIN store
          /\ \A i \in DOMAIN store :
               store'[i] \in {store[i], [store[i] EXCEPT !.enabled = FALSE]}
      BY <2>5 DEF CmdDisableExpired
    <3>2. \A i \in DOMAIN store :
            /\ [store[i] EXCEPT !.enabled = FALSE].id = store[i].id
            /\ [store[i] EXCEPT !.enabled = FALSE].secret = store[i].secret
      <4>1. \A i \in DOMAIN store : store[i] \in Entry
        BY <1>1, StoreEntries
      <4>. QED
        BY <4>1 DEF Entry
    <3>3. nextId' = nextId
      BY <2>5 DEF CmdDisableExpired, CounterUnchanged
    <3>. QED
      BY <3>1, <3>2, <3>3
  <2>. QED
    BY <1>4, <2>1, <2>2, <2>3, <2>4, <2>5 DEF Admin
<1>. QED
  BY <1>2, <1>3, <1>4

LEMMA StoreStepStep ==
    ASSUME HandshakeInv, StoreStep, UNCHANGED allowOnlyTls
    PROVE  HandshakeInv'
<1>. USE DEF HandshakeInv
<1>1. /\ StartUp \/ Admin \/ Tick
      /\ conn' = conn
      /\ dead' = [c \in Conns |-> dead[c] \ Usable(store', clock')]
  BY DEF StoreStep, TrackDead
<1>2. StoreInv'
  BY <1>1, StartUpStep, AdminStep, TickStep
<1>3. /\ conn \in [Conns -> Conn]
      /\ \A c \in Conns : /\ conn[c] \in Conn
                          /\ conn[c].id \in Int
                          /\ \A p \in conn[c].snap : p[2] \in Int
                          /\ dead'[c] \subseteq dead[c]
                          /\ dead'[c] \cap Usable(store', clock') = {}
  <2>1. \A c \in Conns : conn[c] \in Conn
    BY DEF ConnTypeOK
  <2>2. MaxId \in Int
    BY ConstantsAssumption
  <2>. QED
    BY <1>1, <2>1, <2>2 DEF ConnTypeOK, Conn, Pairs, Ids
<1>4. ConnTypeOK'
  BY <1>1 DEF ConnTypeOK
<1>5. NoneAtStart'
  BY <1>1, NamesKept DEF NoneAtStart
<1>6. SnapNames' /\ OwnerNames'
  <2>1. CASE phase = "run"
    <3>1. \A id \in Int : \A s : IdNames(id, s) => IdNames(id, s)'
      BY <1>1, <2>1, NamesKept
    <3>. QED
      BY <1>1, <1>3, <3>1 DEF SnapNames, OwnerNames
  <2>2. CASE phase # "run"
    BY <1>1, <2>2 DEF NoneAtStart, NoConn, SnapNames, OwnerNames
  <2>. QED
    BY <2>1, <2>2
<1>7. SnapOwner' /\ SnapAlive' /\ DeadNow'
  BY <1>1, <1>3 DEF SnapOwner, SnapAlive, DeadNow
<1>8. RevokedStaysOut' /\ ChargedToAdmitting'
  BY <1>1, <1>3 DEF RevokedStaysOut, ChargedToAdmitting, Settled
<1>. QED
  BY <1>2, <1>4, <1>5, <1>6, <1>7, <1>8

\* Without connections there is only the store.
LEMMA NoConnections ==
    ASSUME StoreInv, allowOnlyTls \in BOOLEAN, conn = [c \in Conns |-> NoConn],
           dead = [c \in Conns |-> {}]
    PROVE  HandshakeInv
<1>1. NoConn \in Conn /\ NoConn.pc = "closed" /\ NoConn.snap = {} /\ NoConn.id = 0
  BY ConstantsAssumption DEF NoConn, Conn, Parsing, Waiting
<1>. HIDE DEF NoConn
<1>. QED
  BY <1>1
  DEF HandshakeInv, ConnTypeOK, NoneAtStart, SnapNames, OwnerNames, SnapOwner,
      SnapAlive, DeadNow, RevokedStaysOut, ChargedToAdmitting, Settled

LEMMA RestartAllStep ==
    ASSUME HandshakeInv, NEW orderly \in BOOLEAN, RestartAll(orderly),
           UNCHANGED allowOnlyTls
    PROVE  HandshakeInv'
<1>1. StoreInv'
  BY RestartStep DEF RestartAll, HandshakeInv
<1>2. /\ conn' = [c \in Conns |-> NoConn] /\ dead' = [c \in Conns |-> {}]
      /\ allowOnlyTls' \in BOOLEAN
  BY DEF RestartAll, HandshakeInv, ConnTypeOK
<1>3. NoConn \in Conn /\ NoConn.pc = "closed" /\ NoConn.snap = {} /\ NoConn.id = 0
  BY ConstantsAssumption DEF NoConn, Conn, Parsing, Waiting
<1>. HIDE DEF NoConn
<1>. QED
  BY <1>1, <1>2, <1>3
  DEF HandshakeInv, ConnTypeOK, NoneAtStart, SnapNames, OwnerNames, SnapOwner,
      SnapAlive, DeadNow, RevokedStaysOut, ChargedToAdmitting, Settled

-----------------------------------------------------------------------------
(* Theorems.                                                               *)

\* The conjunction is inductive.
THEOREM HandshakeInvariant == Spec => []HandshakeInv
<1>1. Init => HandshakeInv
  BY StoreInitial, NoConnections, HandshakeAssumption DEF Init
<1>2. HandshakeInv /\ [Next]_vars => HandshakeInv'
  <2>. SUFFICES ASSUME HandshakeInv, [Next]_vars PROVE HandshakeInv'
    OBVIOUS
  <2>1. CASE UNCHANGED vars
    <3>1. StoreInv'
      BY <2>1, StoreNextStep DEF HandshakeInv, vars
    <3>. QED
      BY <2>1, <3>1
      DEF HandshakeInv, vars, storeVars, ConnTypeOK, NoneAtStart, SnapNames,
          OwnerNames, IdNames, SnapOwner, SnapAlive, DeadNow, Usable,
          RevokedStaysOut, ChargedToAdmitting, Settled
  <2>2. ASSUME NEW c \in Conns, ConnStep(c), UNCHANGED allowOnlyTls
        PROVE  HandshakeInv'
    BY <2>2, AcceptStep, CloseStep, HeaderSteps, MatchHelloStep, AddTotalStep,
       MatchHeaderStep, TrafficStep
    DEF ConnStep
  <2>3. CASE StoreStep /\ UNCHANGED allowOnlyTls
    BY <2>3, StoreStepStep
  <2>4. CASE UNCHANGED allowOnlyTls /\ \E orderly \in BOOLEAN : RestartAll(orderly)
    BY <2>4, RestartAllStep
  <2>. QED
    BY <2>1, <2>2, <2>3, <2>4 DEF Next
<1>. QED
  BY <1>1, <1>2, PTL DEF Spec

(* Revocation takes effect at once for new connections, however the locked *)
(* sections of tcp_rpcs_compact_parse_execute fall between the commands of *)
(* the admin thread: a secret that was not usable at any moment since the  *)
(* connection was accepted does not let it in.                             *)
THEOREM RevocationImmediate == Spec => []RevokedStaysOut
<1>1. HandshakeInv => RevokedStaysOut
  BY DEF HandshakeInv
<1>. QED
  BY <1>1, HandshakeInvariant, PTL

(* An admitted connection is charged to the secret that let it in, also if *)
(* its ClientHello attached another one.                                   *)
THEOREM AdmittingIsCharged == Spec => []ChargedToAdmitting
<1>1. HandshakeInv => ChargedToAdmitting
  BY DEF HandshakeInv
<1>. QED
  BY <1>1, HandshakeInvariant, PTL

(* The id ext_metrics_attach_secret_to_connection took from a copy never   *)
(* comes to name another secret while the connection lives.                *)
THEOREM ChargesStay == Spec => []NoStrayCharge
<1>1. HandshakeInv => NoStrayCharge
  BY DEF HandshakeInv, NoStrayCharge, OwnerNames, IdNames
<1>. QED
  BY <1>1, HandshakeInvariant, PTL

(* What is shown of the store alone holds beside the connections that count*)
(* and attach: ids stay unique, acknowledged commands survive.             *)
THEOREM StoreBesideConnections == Spec => [](IdsUnique /\ AckedKept)
<1>1. HandshakeInv => IdsUnique /\ AckedKept
  BY DEF HandshakeInv, StoreInv
<1>. QED
  BY <1>1, HandshakeInvariant, PTL

-----------------------------------------------------------------------------
(* The cache of client randoms.                                            *)


\* Some entry of the list is of r.
Listed(r) == \E k \in DOMAIN byTime : byTime[k].random = r

\* The list is by time, and no entry is of the future.
ByTimeSorted ==
    /\ \A k, l \in DOMAIN byTime : k < l => byTime[k].time <= byTime[l].time
    /\ \A k \in DOMAIN byTime : byTime[k].time <= now

\* A client random has one entry.
ListedOnce ==
    \A k, l \in DOMAIN byTime : byTime[k].random = byTime[l].random => k = l

\* Every entry of a chain is in the list, and belongs in that chain.
ChainedListed ==
    \A b \in Buckets : \A i \in DOMAIN chain[b] :
        /\ \E k \in DOMAIN byTime : byTime[k] = chain[b][i]
        /\ BucketOf[chain[b][i].random] = b

\* Every entry of the list is in its chain.
ListedChained ==
    \A k \in DOMAIN byTime :
        LET q == chain[BucketOf[byTime[k].random]]
        IN \E i \in DOMAIN q : q[i] = byTime[k]

\* A chain is in the opposite order of the list.
NewestFirst ==
    \A b \in Buckets : \A i, j \in DOMAIN chain[b] : \A k, l \in DOMAIN byTime :
        i < j /\ chain[b][i] = byTime[k] /\ chain[b][j] = byTime[l] => l < k

\* The ClientHello being handled has the youngest entry, made now.
CurYoungest ==
    pc # "idle" => /\ byTime # <<>>
                   /\ byTime[Len(byTime)] = [random |-> cur, time |-> now]

\* What was accepted was not too far ahead of the time of its entry.
AcceptedNearEntry ==
    \A k \in DOMAIN byTime :
        accepted[byTime[k].random] > 0 =>
            stamp[byTime[k].random] <= byTime[k].time + Slack

\* What was accepted and had no entry left when it came again is too old for
\* is_allowed_timestamp, by both of its limits.
AcceptedTooOld ==
    \A r \in Randoms :
        accepted[r] > 0 /\ (Listed(r) => pc # "idle" /\ r = cur) =>
            /\ byTime # <<>>
            /\ stamp[r] <= byTime[1].time + Slack
            /\ stamp[r] <= now - StampError

ListInv ==
    /\ ReplayTypeOK
    /\ ByTimeSorted
    /\ ListedOnce
    /\ ChainedListed
    /\ ListedChained
    /\ NewestFirst

ReplayInv ==
    /\ ListInv
    /\ CurYoungest
    /\ AcceptedNearEntry
    /\ AcceptedTooOld
    /\ AcceptedOnce

-----------------------------------------------------------------------------
(* Sequences.                                                              *)

\* A sequence with x put behind it.
LEMMA Appended ==
    ASSUME NEW S, NEW q \in Seq(S), NEW x \in S
    PROVE  /\ Append(q, x) \in Seq(S)
           /\ Append(q, x) # <<>>
           /\ Len(q) \in Nat /\ Len(Append(q, x)) = Len(q) + 1
           /\ DOMAIN q = 1 .. Len(q)
           /\ DOMAIN Append(q, x) = 1 .. Len(q) + 1
           /\ \A i \in 1 .. Len(q) : Append(q, x)[i] = q[i]
           /\ Append(q, x)[Len(q) + 1] = x
OBVIOUS

\* A sequence with x put before it.
LEMMA Prepended ==
    ASSUME NEW S, NEW q \in Seq(S), NEW x \in S
    PROVE  /\ <<x>> \o q \in Seq(S)
           /\ Len(q) \in Nat
           /\ DOMAIN q = 1 .. Len(q)
           /\ DOMAIN (<<x>> \o q) = 1 .. Len(q) + 1
           /\ (<<x>> \o q)[1] = x
           /\ \A i \in 1 .. Len(q) : (<<x>> \o q)[i + 1] = q[i]
OBVIOUS

\* A sequence without its first element.
LEMMA TailOf ==
    ASSUME NEW S, NEW q \in Seq(S), q # <<>>
    PROVE  /\ Tail(q) \in Seq(S)
           /\ Len(q) \in Nat /\ Len(q) >= 1
           /\ DOMAIN q = 1 .. Len(q)
           /\ Len(Tail(q)) = Len(q) - 1
           /\ DOMAIN Tail(q) = 1 .. Len(q) - 1
           /\ \A i \in 1 .. Len(q) - 1 : Tail(q)[i] = q[i + 1]
OBVIOUS


-----------------------------------------------------------------------------
(* The list and the chains.                                                *)

\* What the cache's list holds are entries.
LEMMA Entries ==
    ASSUME ReplayTypeOK
    PROVE  /\ Len(byTime) \in Nat
           /\ DOMAIN byTime = 1 .. Len(byTime)
           /\ \A k \in DOMAIN byTime :
                /\ byTime[k] \in RandomEntry
                /\ byTime[k].random \in Randoms
                /\ byTime[k].time \in Int
                /\ BucketOf[byTime[k].random] \in Buckets
<1>1. byTime \in Seq(RandomEntry)
  BY DEF ReplayTypeOK
<1>2. \A k \in DOMAIN byTime : byTime[k] \in RandomEntry
  BY <1>1
<1>. QED
  BY <1>1, <1>2, ReplayAssumption DEF RandomEntry

\* have_client_random finds what is listed.
LEMMA ListedFound ==
    ASSUME ListInv, NEW r \in Randoms
    PROVE  Listed(r) => HaveClientRandom(r)
BY DEF ListInv, ListedChained, Listed, HaveClientRandom

\* add_client_random of a client random that has no entry.
LEMMA AddStep ==
    ASSUME ListInv, NEW r \in Randoms, ~HaveClientRandom(r),
           AddClientRandom(r), UNCHANGED <<now, stamp, accepted>>,
           adds' \in Nat, pc' = "evict", cur' = r
    PROVE  ListInv'
<1>. DEFINE e == [random |-> r, time |-> now]
            b == BucketOf[r]
            n == Len(byTime)
<1>. USE DEF ListInv
<1>1. e \in RandomEntry /\ b \in Buckets /\ e.random = r /\ e.time = now
  BY ReplayAssumption DEF ReplayTypeOK, RandomEntry
<1>2. byTime \in Seq(RandomEntry) /\ chain[b] \in Seq(RandomEntry)
  BY <1>1 DEF ReplayTypeOK
<1>3. byTime' = Append(byTime, e) /\ chain' = [chain EXCEPT ![b] = <<e>> \o @]
  BY DEF AddClientRandom
<1>4. /\ byTime' \in Seq(RandomEntry)
      /\ n \in Nat /\ DOMAIN byTime = 1 .. n /\ DOMAIN byTime' = 1 .. n + 1
      /\ \A k \in 1 .. n : byTime'[k] = byTime[k]
      /\ byTime'[n + 1] = e
  BY <1>1, <1>2, <1>3, Appended
<1>5. /\ chain'[b] \in Seq(RandomEntry)
      /\ Len(chain[b]) \in Nat /\ DOMAIN chain[b] = 1 .. Len(chain[b])
      /\ DOMAIN chain'[b] = 1 .. Len(chain[b]) + 1
      /\ chain'[b][1] = e
      /\ \A i \in 1 .. Len(chain[b]) : chain'[b][i + 1] = chain[b][i]
  <2>1. chain'[b] = <<e>> \o chain[b]
    BY <1>1, <1>3 DEF ReplayTypeOK
  <2>. QED
    BY <1>1, <1>2, <2>1, Prepended
<1>6. \A c \in Buckets : c # b => chain'[c] = chain[c]
  BY <1>3 DEF ReplayTypeOK
<1>7. ~Listed(r)
  BY ListedFound
<1>8. \A k \in 1 .. n : byTime[k].random # r
  BY <1>4, <1>7 DEF Listed
<1>9. ReplayTypeOK'
  BY <1>3, <1>4, <1>5 DEF ReplayTypeOK
<1>10. ByTimeSorted'
  <2>1. now \in Int
    BY DEF ReplayTypeOK
  <2>. QED
    BY <1>1, <1>4, <2>1 DEF ByTimeSorted
<1>11. ListedOnce'
  BY <1>1, <1>4, <1>8 DEF ListedOnce
<1>12. \A c \in Buckets : \A i \in DOMAIN chain'[c] :
         \/ c = b /\ i = 1 /\ chain'[c][i] = e
         \/ /\ c = b /\ i - 1 \in DOMAIN chain[c]
            /\ chain'[c][i] = chain[c][i - 1]
         \/ c # b /\ i \in DOMAIN chain[c] /\ chain'[c][i] = chain[c][i]
  <2>1. \A i \in 1 .. Len(chain[b]) + 1 :
          \/ i = 1
          \/ i - 1 \in 1 .. Len(chain[b]) /\ chain'[b][i] = chain[b][i - 1]
    <3>. SUFFICES ASSUME NEW i \in 1 .. Len(chain[b]) + 1, i # 1
                  PROVE  i - 1 \in 1 .. Len(chain[b])
                         /\ chain'[b][i] = chain[b][i - 1]
      OBVIOUS
    <3>1. i - 1 \in 1 .. Len(chain[b]) /\ (i - 1) + 1 = i
      BY <1>5
    <3>. QED
      BY <1>5, <3>1
  <2>. QED
    BY <1>5, <1>6, <2>1
<1>13. ChainedListed'
  <2>. SUFFICES ASSUME NEW c \in Buckets, NEW i \in DOMAIN chain'[c]
                PROVE  /\ \E k \in DOMAIN byTime' : byTime'[k] = chain'[c][i]
                       /\ BucketOf[chain'[c][i].random] = c
    BY DEF ChainedListed
  <2>1. CASE c = b /\ i = 1 /\ chain'[c][i] = e
    BY <1>1, <1>4, <2>1
  <2>2. CASE \E j \in DOMAIN chain[c] : chain'[c][i] = chain[c][j]
    BY <1>4, <2>2 DEF ChainedListed
  <2>. QED
    BY <1>12, <2>1, <2>2
<1>14. ListedChained'
  <2>. SUFFICES ASSUME NEW k \in DOMAIN byTime'
                PROVE  LET q == chain'[BucketOf[byTime'[k].random]]
                       IN \E i \in DOMAIN q : q[i] = byTime'[k]
    BY DEF ListedChained
  <2>1. CASE k = n + 1
    <3>1. byTime'[k] = e /\ BucketOf[byTime'[k].random] = b
      BY <1>1, <1>4, <2>1
    <3>2. 1 \in DOMAIN chain'[b] /\ chain'[b][1] = e
      BY <1>5
    <3>. QED
      BY <3>1, <3>2
  <2>2. CASE k \in 1 .. n
    <3>1. PICK i \in DOMAIN chain[BucketOf[byTime[k].random]] :
            chain[BucketOf[byTime[k].random]][i] = byTime[k]
      BY <1>4, <2>2 DEF ListedChained
    <3>2. BucketOf[byTime[k].random] \in Buckets
      BY <1>4, <2>2, Entries
    <3>3. byTime'[k] = byTime[k]
      BY <1>4, <2>2
    <3>4. CASE BucketOf[byTime[k].random] = b
      <4>1. i \in 1 .. Len(chain[b])
        BY <1>5, <3>1, <3>4
      <4>2. i + 1 \in DOMAIN chain'[b] /\ chain'[b][i + 1] = chain[b][i]
        BY <1>5, <4>1
      <4>. QED
        BY <3>1, <3>3, <3>4, <4>2
    <3>5. CASE BucketOf[byTime[k].random] # b
      BY <1>6, <3>1, <3>2, <3>3, <3>5
    <3>. QED
      BY <3>4, <3>5
  <2>. QED
    BY <1>4, <2>1, <2>2
<1>15. NewestFirst'
  <2>. SUFFICES ASSUME NEW c \in Buckets,
                       NEW i \in DOMAIN chain'[c], NEW j \in DOMAIN chain'[c],
                       NEW k \in DOMAIN byTime', NEW l \in DOMAIN byTime',
                       i < j, chain'[c][i] = byTime'[k], chain'[c][j] = byTime'[l]
                PROVE  l < k
    BY DEF NewestFirst
  <2>1. \A m \in DOMAIN byTime' : byTime'[m].random = r => m = n + 1
    BY <1>4, <1>8
  <2>2. \A m \in DOMAIN chain[c] : chain[c][m].random # r
    BY <1>4, <1>8 DEF ChainedListed
  <2>3. CASE c = b /\ i = 1
    <3>1. k = n + 1
      BY <1>1, <1>5, <2>1, <2>3
    <3>2. j - 1 \in DOMAIN chain[c] /\ chain'[c][j] = chain[c][j - 1]
      BY <1>12, <2>3
    <3>3. l # n + 1
      BY <1>1, <1>4, <2>2, <3>2
    <3>. QED
      BY <1>4, <3>1, <3>3
  <2>4. CASE ~(c = b /\ i = 1)
    <3>1. \E x, y \in DOMAIN chain[c] :
            x < y /\ chain[c][x] = chain'[c][i] /\ chain[c][y] = chain'[c][j]
      <4>1. CASE c = b
        <5>1. j # 1 /\ i - 1 < j - 1
          BY <1>5, <2>4, <4>1
        <5>. QED
          BY <1>12, <2>4, <4>1, <5>1
      <4>2. CASE c # b
        BY <1>12, <4>2
      <4>. QED
        BY <4>1, <4>2
    <3>2. k \in 1 .. n /\ l \in 1 .. n
      BY <1>1, <1>4, <2>2, <3>1
    <3>. QED
      BY <1>4, <3>1, <3>2 DEF NewestFirst
  <2>. QED
    BY <2>3, <2>4
<1>. QED
  BY <1>9, <1>10, <1>11, <1>13, <1>14, <1>15

\* One iteration of delete_old_client_randoms: the oldest entry ends its chain.
LEMMA OldestLast ==
    ASSUME ListInv, byTime # <<>>
    PROVE  LET q == chain[BucketOf[byTime[1].random]]
           IN /\ q \in Seq(RandomEntry) /\ q # <<>>
              /\ q[Len(q)] = byTime[1]
              /\ PlaceOf(q, byTime[1]) = Len(q)
<1>. DEFINE q == chain[BucketOf[byTime[1].random]]
<1>. USE DEF ListInv
<1>1. /\ Len(byTime) \in Nat /\ 1 \in DOMAIN byTime
      /\ DOMAIN byTime = 1 .. Len(byTime)
      /\ BucketOf[byTime[1].random] \in Buckets
  BY Entries DEF ReplayTypeOK
<1>2. q \in Seq(RandomEntry)
  BY <1>1 DEF ReplayTypeOK
<1>3. PICK i \in DOMAIN q : q[i] = byTime[1]
  BY <1>1 DEF ListedChained
<1>4. Len(q) \in Nat /\ DOMAIN q = 1 .. Len(q) /\ Len(q) \in DOMAIN q
  BY <1>2, <1>3
<1>5. \A j \in DOMAIN q : q[j] = byTime[1] => j = Len(q)
  <2>. SUFFICES ASSUME NEW j \in DOMAIN q, q[j] = byTime[1], j # Len(q)
                PROVE  FALSE
    OBVIOUS
  <2>1. j < Len(q)
    BY <1>4
  <2>2. PICK l \in DOMAIN byTime : byTime[l] = q[Len(q)]
    BY <1>1, <1>4 DEF ChainedListed
  <2>3. l < 1
    BY <1>1, <1>4, <2>1, <2>2 DEF NewestFirst
  <2>. QED
    BY <1>1, <2>3
<1>6. PlaceOf(q, byTime[1]) = Len(q)
  BY <1>3, <1>5 DEF PlaceOf
<1>. QED
  BY <1>2, <1>3, <1>4, <1>5, <1>6

LEMMA EvictListStep ==
    ASSUME ListInv, Evict
    PROVE  ListInv'
<1>. DEFINE e == byTime[1]
            b == BucketOf[e.random]
            n == Len(byTime)
            m == Len(chain[b])
<1>. USE DEF ListInv
<1>1. /\ byTime \in Seq(RandomEntry)
      /\ n \in Nat /\ n > 1 /\ byTime # <<>> /\ DOMAIN byTime = 1 .. n
      /\ b \in Buckets
  <2>1. n > 1
    BY DEF Evict, MustEvict
  <2>. QED
    BY <2>1, Entries DEF ReplayTypeOK
<1>2. /\ chain[b] \in Seq(RandomEntry) /\ chain[b] # <<>>
      /\ chain[b][m] = e /\ PlaceOf(chain[b], e) = m
  BY <1>1, OldestLast
<1>3. m \in Nat /\ m >= 1 /\ DOMAIN chain[b] = 1 .. m
  BY <1>2
<1>4. /\ byTime' = Tail(byTime)
      /\ chain' = [chain EXCEPT ![b] = SubSeq(@, 1, PlaceOf(@, e) - 1)]
      /\ UNCHANGED <<now, stamp, pc, cur, accepted, adds>>
  BY DEF Evict
<1>5. /\ byTime' \in Seq(RandomEntry)
      /\ DOMAIN byTime' = 1 .. n - 1
      /\ \A k \in 1 .. n - 1 : byTime'[k] = byTime[k + 1]
  BY <1>1, <1>4, TailOf
<1>6. /\ chain'[b] \in Seq(RandomEntry)
      /\ DOMAIN chain'[b] = 1 .. m - 1
      /\ \A i \in 1 .. m - 1 : chain'[b][i] = chain[b][i]
  <2>1. chain'[b] = SubSeq(chain[b], 1, m - 1)
    BY <1>1, <1>2, <1>4 DEF ReplayTypeOK
  <2>2. PICK p, r : p = chain[b] /\ r = chain'[b]
    OBVIOUS
  <2>3. PICK h : h = m
    OBVIOUS
  <2>4. /\ p \in Seq(RandomEntry) /\ h \in Nat /\ h >= 1 /\ DOMAIN p = 1 .. h
        /\ r = SubSeq(p, 1, h - 1)
    BY <1>2, <1>3, <2>1, <2>2, <2>3, ZenonT(40)
  <2>5. /\ r \in Seq(RandomEntry) /\ DOMAIN r = 1 .. h - 1
        /\ \A i \in 1 .. h - 1 : r[i] = p[i]
    BY ONLY <2>4, CutOne
  <2>. QED
    BY <2>2, <2>3, <2>5, ZenonT(40)
<1>7. \A c \in Buckets : c # b => chain'[c] = chain[c]
  BY <1>4 DEF ReplayTypeOK
<1>8. \A c \in Buckets : \A i \in DOMAIN chain'[c] :
        i \in DOMAIN chain[c] /\ chain'[c][i] = chain[c][i]
  <2>. SUFFICES ASSUME NEW c \in Buckets, NEW i \in DOMAIN chain'[c]
                PROVE  i \in DOMAIN chain[c] /\ chain'[c][i] = chain[c][i]
    OBVIOUS
  <2>1. CASE c = b
    <3>1. i \in 1 .. m - 1 /\ i \in 1 .. m
      BY <1>3, <1>6, <2>1
    <3>. QED
      BY <1>3, <1>6, <2>1, <3>1
  <2>2. CASE c # b
    BY <1>7, <2>2
  <2>. QED
    BY <2>1, <2>2
<1>9. ReplayTypeOK'
  BY <1>4, <1>5, <1>6 DEF ReplayTypeOK
<1>10. ByTimeSorted'
  BY SMTT(40), <1>1, <1>4, <1>5, Entries DEF ByTimeSorted
<1>11. ListedOnce'
  <2>. SUFFICES ASSUME NEW k \in DOMAIN byTime', NEW l \in DOMAIN byTime',
                       byTime'[k].random = byTime'[l].random
                PROVE  k = l
    BY DEF ListedOnce
  <2>1. /\ k \in Int /\ k + 1 \in 1 .. n /\ byTime'[k] = byTime[k + 1]
        /\ l \in Int /\ l + 1 \in 1 .. n /\ byTime'[l] = byTime[l + 1]
    BY <1>1, <1>5
  <2>2. k + 1 = l + 1
    BY <1>1, <2>1 DEF ListedOnce
  <2>. QED
    BY <2>1, <2>2
<1>12. ChainedListed'
  <2>. SUFFICES ASSUME NEW c \in Buckets, NEW i \in DOMAIN chain'[c]
                PROVE  /\ \E k \in DOMAIN byTime' : byTime'[k] = chain'[c][i]
                       /\ BucketOf[chain'[c][i].random] = c
    BY DEF ChainedListed
  <2>1. i \in DOMAIN chain[c] /\ chain'[c][i] = chain[c][i]
    BY <1>8
  <2>2. PICK k \in DOMAIN byTime : byTime[k] = chain[c][i]
    BY <2>1 DEF ChainedListed
  <2>3. k # 1
    <3>. SUFFICES ASSUME k = 1 PROVE FALSE
      OBVIOUS
    <3>1. c = b
      BY <2>1, <2>2 DEF ChainedListed
    <3>2. i < m
      BY <1>3, <1>6, <3>1
    <3>3. i \in DOMAIN chain[b] /\ m \in DOMAIN chain[b] /\ 1 \in DOMAIN byTime
      BY <1>1, <1>3, <2>1, <3>1
    <3>4. chain[b][i] = byTime[1] /\ chain[b][m] = byTime[1]
      BY <1>2, <2>1, <2>2, <3>1
    <3>5. 1 < 1
      BY <1>1, <3>2, <3>3, <3>4 DEF NewestFirst
    <3>. QED
      BY <3>5
  <2>4. k - 1 \in 1 .. n - 1 /\ (k - 1) + 1 = k
    BY <1>1, <2>3
  <2>5. byTime'[k - 1] = byTime[k]
    BY <1>5, <2>4
  <2>. QED
    BY <1>5, <2>1, <2>2, <2>4, <2>5 DEF ChainedListed
<1>13. ListedChained'
  <2>. SUFFICES ASSUME NEW k \in DOMAIN byTime'
                PROVE  \E i \in DOMAIN chain'[BucketOf[byTime'[k].random]] :
                         chain'[BucketOf[byTime'[k].random]][i] = byTime'[k]
    BY DEF ListedChained
  <2>1. k + 1 \in DOMAIN byTime /\ byTime'[k] = byTime[k + 1] /\ k + 1 # 1
    BY <1>1, <1>5
  <2>. DEFINE c == BucketOf[byTime[k + 1].random]
  <2>2. PICK i \in DOMAIN chain[c] : chain[c][i] = byTime[k + 1]
    BY <2>1 DEF ListedChained
  <2>3. c \in Buckets
    BY <2>1, Entries
  <2>4. CASE c = b
    <3>1. i # m
      <4>1. byTime[k + 1].random # byTime[1].random
        BY <1>1, <2>1 DEF ListedOnce
      <4>. QED
        BY <1>2, <2>2, <2>4, <4>1
    <3>2. i \in 1 .. m - 1
      BY <1>3, <2>2, <2>4, <3>1
    <3>. QED
      BY <1>6, <2>1, <2>2, <2>4, <3>2
  <2>5. CASE c # b
    BY <1>7, <2>1, <2>2, <2>3, <2>5
  <2>. QED
    BY <2>4, <2>5
<1>14. NewestFirst'
  <2>. SUFFICES ASSUME NEW c \in Buckets,
                       NEW i \in DOMAIN chain'[c], NEW j \in DOMAIN chain'[c],
                       NEW k \in DOMAIN byTime', NEW l \in DOMAIN byTime',
                       i < j, chain'[c][i] = byTime'[k], chain'[c][j] = byTime'[l]
                PROVE  l < k
    BY DEF NewestFirst
  <2>1. /\ k + 1 \in DOMAIN byTime /\ byTime'[k] = byTime[k + 1]
        /\ l + 1 \in DOMAIN byTime /\ byTime'[l] = byTime[l + 1]
    BY <1>1, <1>5
  <2>2. l + 1 < k + 1
    BY <1>8, <2>1 DEF NewestFirst
  <2>. QED
    BY <1>5, <2>2
<1>. QED
  BY <1>9, <1>10, <1>11, <1>12, <1>13, <1>14

-----------------------------------------------------------------------------
(* One lemma per action.                                                   *)

\* The first entry is the oldest.
LEMMA OldestFirst ==
    ASSUME ListInv
    PROVE  \A k \in DOMAIN byTime : byTime[1].time <= byTime[k].time
<1>. SUFFICES ASSUME NEW k \in DOMAIN byTime
              PROVE  byTime[1].time <= byTime[k].time
  OBVIOUS
<1>1. k \in 1 .. Len(byTime) /\ 1 \in DOMAIN byTime /\ byTime[1].time \in Int
  BY Entries DEF ListInv
<1>2. CASE k = 1
  BY <1>1, <1>2
<1>3. CASE k # 1
  BY <1>1, <1>3 DEF ListInv, ByTimeSorted
<1>. QED
  BY <1>2, <1>3

LEMMA ReplayInitial ==
    ASSUME ReplayInit
    PROVE  ReplayInv
<1>1. ReplayTypeOK
  <2>1. cur \in Randoms
    BY ReplayAssumption DEF ReplayInit
  <2>2. stamp \in [Randoms -> Int]
    BY ReplayAssumption DEF ReplayInit
  <2>. QED
    BY <2>1, <2>2 DEF ReplayInit, ReplayTypeOK
<1>2. byTime = <<>> /\ (\A b \in Buckets : chain[b] = <<>>)
      /\ (\A r \in Randoms : accepted[r] = 0)
  BY DEF ReplayInit
<1>3. ListInv
  BY <1>1, <1>2 DEF ListInv, ByTimeSorted, ListedOnce, ChainedListed,
                    ListedChained, NewestFirst
<1>4. CurYoungest /\ AcceptedNearEntry /\ AcceptedTooOld /\ AcceptedOnce
  BY <1>2 DEF ReplayInit, CurYoungest, AcceptedNearEntry, AcceptedTooOld,
              AcceptedOnce
<1>. QED
  BY <1>3, <1>4 DEF ReplayInv

LEMMA HelloStep ==
    ASSUME ReplayInv, NEW r \in Randoms, Hello(r)
    PROVE  ReplayInv'
<1>. USE DEF ReplayInv
<1>1. CASE HaveClientRandom(r)
  BY <1>1 DEF Hello, ListInv, ReplayTypeOK, ByTimeSorted, ListedOnce,
              ChainedListed, ListedChained, NewestFirst, CurYoungest,
              AcceptedNearEntry, AcceptedTooOld, AcceptedOnce, Listed
<1>2. CASE ~HaveClientRandom(r)
  <2>. DEFINE e == [random |-> r, time |-> now]
              n == Len(byTime)
  <2>1. /\ pc = "idle" /\ pc' = "evict" /\ cur' = r
        /\ adds' = adds + 1 /\ UNCHANGED <<now, stamp, accepted>>
        /\ AddClientRandom(r) /\ byTime' = Append(byTime, e)
    BY <1>2 DEF Hello, AddClientRandom
  <2>2. ListInv'
    <3>1. adds' \in Nat
      BY <2>1 DEF ListInv, ReplayTypeOK
    <3>. QED
      BY <1>2, <2>1, <3>1, AddStep
  <2>3. ~Listed(r)
    BY <1>2, ListedFound
  <2>4. /\ now \in Int /\ accepted \in [Randoms -> Nat]
        /\ stamp \in [Randoms -> Int]
        /\ byTime \in Seq(RandomEntry) /\ e \in RandomEntry
        /\ CacheTime \in Nat /\ StampError \in Nat /\ Slack \in Nat
    BY ReplayAssumption DEF ListInv, ReplayTypeOK, RandomEntry
  <2>5. /\ byTime' # <<>>
        /\ n \in Nat /\ Len(byTime') = n + 1
        /\ DOMAIN byTime = 1 .. n /\ DOMAIN byTime' = 1 .. n + 1
        /\ \A k \in 1 .. n : byTime'[k] = byTime[k]
        /\ byTime'[n + 1] = e
    BY <2>1, <2>4, Appended
  <2>6. accepted[r] > 0 => /\ n >= 1
                           /\ stamp[r] <= byTime[1].time + Slack
                           /\ stamp[r] <= now - StampError
    BY <2>3, <2>4, <2>5 DEF AcceptedTooOld
  <2>7. CurYoungest'
    BY <2>1, <2>5 DEF CurYoungest
  <2>8. AcceptedNearEntry'
    <3>. SUFFICES ASSUME NEW k \in DOMAIN byTime',
                         accepted[byTime'[k].random] > 0
                  PROVE  stamp[byTime'[k].random] <= byTime'[k].time + Slack
      BY <2>1 DEF AcceptedNearEntry
    <3>1. CASE k \in 1 .. n
      BY <2>5, <3>1 DEF AcceptedNearEntry
    <3>2. CASE k = n + 1
      <4>1. 1 \in DOMAIN byTime /\ byTime[1].time \in Int /\ byTime[1].time <= now
        BY <2>5, <2>6, <3>2, Entries DEF ListInv, ByTimeSorted
      <4>2. stamp[r] \in Int
        BY <2>4
      <4>. QED
        BY <2>4, <2>5, <2>6, <3>2, <4>1, <4>2
    <3>. QED
      BY <2>5, <3>1, <3>2
  <2>9. AcceptedTooOld'
    <3>. SUFFICES ASSUME NEW x \in Randoms, accepted[x] > 0,
                         Listed(x)' => x = r
                  PROVE  /\ n >= 1 
                         /\ stamp[x] <= byTime[1].time + Slack
                         /\ stamp[x] <= now - StampError
      BY <2>1, <2>5 DEF AcceptedTooOld
    <3>1. CASE x = r
      BY <2>6, <3>1
    <3>2. CASE x # r
      <4>1. ~Listed(x)
        BY <2>5, <3>2 DEF Listed
      <4>. QED
        BY <2>4, <2>5, <4>1 DEF AcceptedTooOld
    <3>. QED
      BY <3>1, <3>2
  <2>10. AcceptedOnce'
    BY <2>1 DEF AcceptedOnce
  <2>. QED
    BY <2>2, <2>7, <2>8, <2>9, <2>10
<1>. QED
  BY <1>1, <1>2

LEMMA EvictStep ==
    ASSUME ReplayInv, Evict
    PROVE  ReplayInv'
<1>. DEFINE n == Len(byTime)
            e == byTime[1]
<1>. USE DEF ReplayInv
<1>1. ListInv'
  BY EvictListStep
<1>2. /\ pc = "evict" /\ byTime' = Tail(byTime)
      /\ UNCHANGED <<now, stamp, pc, cur, accepted, adds>>
      /\ n > 1 /\ e.time <= now - CacheTime
  BY DEF Evict, MustEvict
<1>3. /\ n \in Nat /\ DOMAIN byTime = 1 .. n /\ byTime # <<>>
      /\ byTime \in Seq(RandomEntry)
      /\ \A k \in 1 .. n : /\ byTime[k].time \in Int /\ byTime[k].random \in Randoms
                           /\ e.time <= byTime[k].time
  BY <1>2, Entries, OldestFirst DEF ListInv, ReplayTypeOK
<1>4. /\ Len(byTime') = n - 1 /\ DOMAIN byTime' = 1 .. n - 1
      /\ \A k \in 1 .. n - 1 : byTime'[k] = byTime[k + 1]
  BY <1>2, <1>3, TailOf
<1>5. /\ now \in Int /\ accepted \in [Randoms -> Nat]
      /\ stamp \in [Randoms -> Int]
      /\ CacheTime \in Nat /\ StampError \in Nat /\ Slack \in Nat
      /\ StampError + Slack <= CacheTime
  BY ReplayAssumption DEF ListInv, ReplayTypeOK
<1>6. CurYoungest'
  <2>1. n - 1 \in 1 .. n - 1 /\ (n - 1) + 1 = n
    BY <1>2, <1>3
  <2>2. byTime'[n - 1] = byTime[n]
    BY <1>4, <2>1
  <2>3. byTime' # <<>>
    BY <1>4, <2>1
  <2>. QED
    BY <1>2, <1>4, <2>2, <2>3 DEF CurYoungest
<1>7. AcceptedNearEntry'
  BY <1>2, <1>3, <1>4 DEF AcceptedNearEntry
<1>8. AcceptedTooOld'
  <2>. SUFFICES ASSUME NEW x \in Randoms, accepted[x] > 0,
                       Listed(x)' => x = cur
                PROVE  /\ byTime' # <<>>
                       /\ stamp[x] <= byTime'[1].time + Slack
                       /\ stamp[x] <= now - StampError
    BY <1>2 DEF AcceptedTooOld
  <2>1. /\ byTime' # <<>> /\ 1 \in 1 .. n - 1 /\ byTime'[1] = byTime[2]
        /\ 2 \in 1 .. n
    <3>1. n > 1 /\ n \in Nat
      BY <1>2, <1>3
    <3>2. 1 \in 1 .. n - 1 /\ 2 \in 1 .. n /\ 1 + 1 = 2
      BY <3>1
    <3>3. byTime'[1] = byTime[2]
      BY <1>4, <3>2
    <3>4. byTime' # <<>>
      BY <1>4, <3>2
    <3>. QED
      BY <3>2, <3>3, <3>4
  <2>2. byTime[2].time \in Int /\ e.time <= byTime[2].time /\ e.time \in Int
    BY <1>2, <1>3, <2>1
  <2>3. stamp[x] \in Int
    BY <1>5
  <2>4. CASE Listed(x) /\ x # cur
    <3>1. \A k \in 1 .. n : byTime[k].random = x => k = 1
      <4>. SUFFICES ASSUME NEW k \in 1 .. n, byTime[k].random = x, k # 1
                    PROVE  FALSE
        OBVIOUS
      <4>1. k - 1 \in 1 .. n - 1 /\ (k - 1) + 1 = k
        BY <1>3
      <4>2. byTime'[k - 1] = byTime[k]
        BY <1>4, <4>1
      <4>3. Listed(x)'
        BY <1>4, <4>1, <4>2 DEF Listed
      <4>. QED
        BY <2>4, <4>3
    <3>2. e.random = x
      BY <1>3, <2>4, <3>1 DEF Listed
    <3>3. stamp[x] <= e.time + Slack
      BY <1>3, <2>1, <3>2 DEF AcceptedNearEntry
    <3>4. stamp[x] <= byTime[2].time + Slack
      BY <1>5, <2>2, <2>3, <3>3
    <3>5. e.time <= now - CacheTime
      BY <1>2
    <3>6. stamp[x] <= now - StampError
      BY <1>5, <2>2, <2>3, <3>3, <3>5
    <3>. QED
      BY <2>1, <3>4, <3>6
  <2>5. CASE ~(Listed(x) /\ x # cur)
    <3>1. stamp[x] <= e.time + Slack /\ stamp[x] <= now - StampError
      BY <1>2, <2>5 DEF AcceptedTooOld
    <3>. QED
      BY <1>5, <2>1, <2>2, <2>3, <3>1
  <2>. QED
    BY <2>4, <2>5
<1>9. AcceptedOnce'
  BY <1>2 DEF AcceptedOnce
<1>. QED
  BY <1>1, <1>6, <1>7, <1>8, <1>9

LEMMA EvictDoneStep ==
    ASSUME ReplayInv, EvictDone
    PROVE  ReplayInv'
BY DEF ReplayInv, EvictDone, ListInv, ReplayTypeOK, ByTimeSorted, ListedOnce,
       ChainedListed, ListedChained, NewestFirst, CurYoungest,
       AcceptedNearEntry, AcceptedTooOld, AcceptedOnce, Listed

LEMMA CheckHelloStep ==
    ASSUME ReplayInv, NEW matched \in BOOLEAN, CheckHello(matched)
    PROVE  ReplayInv'
<1>. DEFINE n == Len(byTime)
            ok == matched /\ IsAllowedTimestamp(stamp[cur])
<1>. USE DEF ReplayInv
<1>1. /\ pc = "check" /\ pc' = "idle"
      /\ accepted' = IF ok THEN [accepted EXCEPT ![cur] = @ + 1] ELSE accepted
      /\ UNCHANGED <<now, stamp, byTime, chain, cur, adds>>
  BY DEF CheckHello
<1>2. /\ now \in Int /\ accepted \in [Randoms -> Nat] /\ cur \in Randoms
      /\ stamp \in [Randoms -> Int]
      /\ StampError \in Nat /\ Slack \in Nat
  BY ReplayAssumption DEF ListInv, ReplayTypeOK
<1>3. /\ n \in Nat /\ DOMAIN byTime = 1 .. n /\ n >= 1
      /\ byTime[n] = [random |-> cur, time |-> now]
      /\ byTime[1].time \in Int
  <2>1. byTime # <<>> /\ byTime[n] = [random |-> cur, time |-> now]
    BY <1>1 DEF CurYoungest
  <2>. QED
    BY <2>1, Entries DEF ListInv, ReplayTypeOK
<1>4. Listed(cur)
  BY <1>3 DEF Listed
<1>5. ok => accepted[cur] = 0 /\ stamp[cur] <= now + Slack
  <2>. SUFFICES ASSUME ok PROVE accepted[cur] = 0 /\ stamp[cur] <= now + Slack
    OBVIOUS
  <2>1. /\ stamp[cur] <= now + Slack
        /\ stamp[cur] > byTime[1].time + Slack \/ stamp[cur] > now - StampError
    BY DEF IsAllowedTimestamp
  <2>2. accepted[cur] > 0 => /\ stamp[cur] <= byTime[1].time + Slack
                             /\ stamp[cur] <= now - StampError
    BY <1>1, <1>2 DEF AcceptedTooOld
  <2>3. stamp[cur] \in Int /\ accepted[cur] \in Nat
    BY <1>2
  <2>. QED
    BY <1>2, <1>3, <2>1, <2>2, <2>3
<1>6. /\ accepted' \in [Randoms -> Nat]
      /\ \A r \in Randoms : r # cur => accepted'[r] = accepted[r]
      /\ ~ok => accepted' = accepted
      /\ ok => accepted'[cur] = 1
  BY <1>1, <1>2, <1>5
<1>7. ListInv'
  BY <1>1, <1>6 DEF ListInv, ReplayTypeOK, ByTimeSorted, ListedOnce,
                    ChainedListed, ListedChained, NewestFirst
<1>8. CurYoungest'
  BY <1>1 DEF CurYoungest
<1>9. AcceptedNearEntry'
  <2>. SUFFICES ASSUME NEW k \in DOMAIN byTime, accepted'[byTime[k].random] > 0
                PROVE  stamp[byTime[k].random] <= byTime[k].time + Slack
    BY <1>1 DEF AcceptedNearEntry
  <2>1. byTime[k].random \in Randoms
    BY Entries DEF ListInv
  <2>2. CASE ok /\ byTime[k].random = cur
    <3>1. k = n
      BY <1>3, <2>2 DEF ListInv, ListedOnce
    <3>. QED
      BY <1>3, <1>5, <2>2, <3>1
  <2>3. CASE ~(ok /\ byTime[k].random = cur)
    BY <1>6, <2>1, <2>3 DEF AcceptedNearEntry
  <2>. QED
    BY <2>2, <2>3
<1>10. AcceptedTooOld'
  <2>. SUFFICES ASSUME NEW x \in Randoms, accepted'[x] > 0, ~Listed(x)
                PROVE  /\ byTime # <<>>
                       /\ stamp[x] <= byTime[1].time + Slack
                       /\ stamp[x] <= now - StampError
    BY <1>1 DEF AcceptedTooOld, Listed
  <2>1. accepted'[x] = accepted[x]
    BY <1>4, <1>6
  <2>. QED
    BY <2>1 DEF AcceptedTooOld
<1>11. AcceptedOnce'
  BY <1>2, <1>6 DEF AcceptedOnce
<1>. QED
  BY <1>7, <1>8, <1>9, <1>10, <1>11

LEMMA ReplayTickStep ==
    ASSUME ReplayInv, ReplayTick
    PROVE  ReplayInv'
<1>. USE DEF ReplayInv
<1>1. /\ now \in Int /\ now' = now + 1 /\ pc = "idle"
      /\ UNCHANGED <<stamp, byTime, chain, pc, cur, accepted, adds>>
      /\ stamp \in [Randoms -> Int] /\ StampError \in Nat
  BY ReplayAssumption DEF ReplayTick, ListInv, ReplayTypeOK
<1>2. ListInv'
  BY <1>1, Entries DEF ListInv, ReplayTypeOK, ByTimeSorted, ListedOnce,
                       ChainedListed, ListedChained, NewestFirst
<1>3. CurYoungest' /\ AcceptedNearEntry' /\ AcceptedOnce'
  BY <1>1 DEF CurYoungest, AcceptedNearEntry, AcceptedOnce
<1>4. AcceptedTooOld'
  BY <1>1 DEF AcceptedTooOld, Listed
<1>. QED
  BY <1>2, <1>3, <1>4

-----------------------------------------------------------------------------
(* Theorems.                                                               *)

\* The conjunction is inductive.
THEOREM ReplayInvariant == ReplaySpec => []ReplayInv
<1>1. ReplayInit => ReplayInv
  BY ReplayInitial
<1>2. ReplayInv /\ [ReplayNext]_replayVars => ReplayInv'
  <2>. SUFFICES ASSUME ReplayInv, [ReplayNext]_replayVars PROVE ReplayInv'
    OBVIOUS
  <2>1. CASE \E r \in Randoms : Hello(r)
    BY <2>1, HelloStep
  <2>2. CASE Evict
    BY <2>2, EvictStep
  <2>3. CASE EvictDone
    BY <2>3, EvictDoneStep
  <2>4. CASE \E matched \in BOOLEAN : CheckHello(matched)
    BY <2>4, CheckHelloStep
  <2>5. CASE ReplayTick
    BY <2>5, ReplayTickStep
  <2>6. CASE UNCHANGED replayVars
    BY <2>6 DEF ReplayInv, replayVars, ListInv, ReplayTypeOK, ByTimeSorted,
                ListedOnce, ChainedListed, ListedChained, NewestFirst,
                CurYoungest, AcceptedNearEntry, AcceptedTooOld, AcceptedOnce,
                Listed
  <2>. QED
    BY <2>1, <2>2, <2>3, <2>4, <2>5, <2>6 DEF ReplayNext
<1>. QED
  BY <1>1, <1>2, PTL DEF ReplaySpec

(* No ClientHello is accepted twice, however long after the first time it  *)
(* comes again: have_client_random refuses it while its client random is   *)
(* cached, and is_allowed_timestamp afterwards.                            *)
THEOREM NoReplay == ReplaySpec => []AcceptedOnce
<1>1. ReplayInv => AcceptedOnce
  BY DEF ReplayInv
<1>. QED
  BY <1>1, ReplayInvariant, PTL

(* The assertion of delete_old_client_randoms holds: the entry it takes off *)
(* the list is the last of its chain, so the chain loses nothing else.     *)
THEOREM EvictsChainEnd == ReplaySpec => []OldestEndsChain
<1>1. ReplayInv => OldestEndsChain
  <2>. SUFFICES ASSUME ReplayInv, pc = "evict", MustEvict
                PROVE  LET q == chain[BucketOf[byTime[1].random]]
                       IN q # <<>> /\ q[Len(q)] = byTime[1]
    BY DEF OldestEndsChain
  <2>1. byTime # <<>>
    BY DEF MustEvict
  <2>. QED
    BY <2>1, OldestLast DEF ReplayInv
<1>. QED
  BY <1>1, ReplayInvariant, PTL

-----------------------------------------------------------------------------
(* The door as a whole.                                                    *)

(* Types; the entry that delete_old_client_randoms takes off the list is   *)
(* the last of its chain, as it asserts; traffic is never charged to a     *)
(* secret but the one whose id a connection was matched with.              *)
THEOREM DoorCorrect == DoorSpec => []DoorInv
<1>1. DoorInit => Init /\ ReplayInit
  BY DEF DoorInit
<1>2. [DoorNext]_doorVars => [Next]_vars
  BY DEF DoorNext, doorVars
<1>3. [DoorNext]_doorVars => [ReplayNext]_replayVars
  BY DEF DoorNext, doorVars
<1>4. DoorSpec => Spec /\ ReplaySpec
  BY <1>1, <1>2, <1>3, PTL DEF DoorSpec, Spec, ReplaySpec
<1>5. HandshakeInv => TypeOK
  BY DEF HandshakeInv, StoreInv, TypeOK
<1>6. ReplayInv => ReplayTypeOK
  BY DEF ReplayInv, ListInv
<1>7. TypeOK /\ ReplayTypeOK /\ OldestEndsChain /\ NoStrayCharge => DoorInv
  BY DEF DoorInv
<1>. QED
  BY <1>4, <1>5, <1>6, <1>7, HandshakeInvariant, ReplayInvariant, EvictsChainEnd,
     ChargesStay, PTL
=============================================================================
