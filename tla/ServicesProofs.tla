--------------------------- MODULE ServicesProofs ---------------------------
(***************************************************************************)
(* What is proved of four services that share nothing: of the entry of a   *)
(* descriptor (EventSlot) for any threads and sockets, of the admin thread *)
(* (AdminServer) for any clients and requests, of the probe of a TLS       *)
(* domain (DomainProbe) for any number of tries and any sizes, and of the  *)
(* two ends of an RPC connection (RpcPair) for any settings.               *)
(***************************************************************************)
EXTENDS EventSlot, AdminServer, DomainProbe, RpcPair,
        FiniteSetTheorems, SequenceTheorems, TLAPS

-----------------------------------------------------------------------------
(* EventSlot.  The two halves of refcnt count who holds the entry and who  *)
(* has announced himself; the rest follows from what a holder may rely on. *)

GettersAt(pcs) == {u \in Getters : getter[u].pc \in pcs}
Holders   == GettersAt({"take", "incref", "drop"})
Announced == GettersAt({"undo", "convert"})
MainHolds == IF smain.pc \in {"handler", "open", "failing"} THEN 1 ELSE 0

SlotCounted ==
  /\ ev.lo = Cardinality(Holders) + MainHolds
  /\ ev.hi = Cardinality(Announced)

\* data points to the socket that has the descriptor, whose job has a reference
\* for it, from epoll_sethandler until it is cleared.
EntryRefers ==
  /\ ev.data # NoJob =>
       /\ ev.data = smain.gen /\ "slot" \in sjob[ev.data].refs
       /\ smain.pc \in {"open", "failing", "clear", "close"}
  /\ smain.pc = "handler" =>
       smain.gen \in Gens /\ ev.data = NoJob /\ "slot" \in sjob[smain.gen].refs
  /\ smain.pc \in {"open", "failing"} => ev.data # NoJob

\* A thread that is in, or was told it is, finds data set, except before
\* epoll_sethandler has set it.
HeldIsSet ==
  \A u \in Holders \cup GettersAt({"convert"}) : ev.data # NoJob \/ smain.pc = "handler"

TakenIsData ==
  \A u \in GettersAt({"incref"}) : ev.data # NoJob /\ getter[u].job = ev.data

\* One clears, and nobody holds the entry meanwhile or comes to.
ClearIsAlone ==
  /\ \A u \in GettersAt({"clear"}) :
       /\ GettersAt({"clear"}) = {u} /\ smain.pc # "clear"
  /\ GettersAt({"clear"}) # {} \/ smain.pc = "clear" =>
       ev.lo = 0 /\ ev.data # NoJob /\ GettersAt({"convert"}) = {}

SlotLive == SlotCounted /\ EntryRefers /\ HeldIsSet /\ TakenIsData /\ ClearIsAlone
SlotInv  == SlotTypeOK /\ (died = "no" => SlotLive)

LEMMA GettersFinite ==
  ASSUME NEW pcs PROVE /\ IsFiniteSet(GettersAt(pcs))
                       /\ Cardinality(GettersAt(pcs)) \in Nat
<1>1. GettersAt(pcs) \subseteq Getters
  BY DEF GettersAt
<1> QED BY <1>1, SlotAssumption, FS_Subset, FS_CardinalityType

\* A getter comes to, or leaves, a set of places.
LEMMA GetterComes ==
  ASSUME SlotTypeOK, NEW u \in Getters, NEW pcs, getter[u].pc \notin pcs,
         NEW pc \in pcs, getter'[u].pc = pc,
         \A v \in Getters \ {u} : getter'[v] = getter[v]
  PROVE  /\ GettersAt(pcs)' = GettersAt(pcs) \cup {u}
         /\ Cardinality(GettersAt(pcs)') = Cardinality(GettersAt(pcs)) + 1
<1>1. GettersAt(pcs)' = GettersAt(pcs) \cup {u} /\ u \notin GettersAt(pcs)
  BY DEF GettersAt
<1> QED BY <1>1, GettersFinite, FS_AddElement

LEMMA GetterLeaves ==
  ASSUME SlotTypeOK, NEW u \in Getters, NEW pcs, getter[u].pc \in pcs,
         getter'[u].pc \notin pcs,
         \A v \in Getters \ {u} : getter'[v] = getter[v]
  PROVE  /\ GettersAt(pcs)' = GettersAt(pcs) \ {u}
         /\ Cardinality(GettersAt(pcs)') = Cardinality(GettersAt(pcs)) - 1
<1>1. GettersAt(pcs)' = GettersAt(pcs) \ {u} /\ u \in GettersAt(pcs)
  BY DEF GettersAt
<1> QED BY <1>1, GettersFinite, FS_RemoveElement

LEMMA GetterStays ==
  ASSUME SlotTypeOK, NEW u \in Getters, NEW pcs,
         getter[u].pc \in pcs <=> getter'[u].pc \in pcs,
         \A v \in Getters \ {u} : getter'[v] = getter[v]
  PROVE  GettersAt(pcs)' = GettersAt(pcs)
BY DEF GettersAt

LEMMA GettersRest ==
  ASSUME UNCHANGED getter, NEW pcs PROVE GettersAt(pcs)' = GettersAt(pcs)
BY DEF GettersAt

\* The last hold: nobody else is in, and nobody has been told he is.
LEMMA NobodyHolds ==
  ASSUME SlotTypeOK, SlotCounted
  PROVE  /\ ev.lo = 0 => Holders = {} /\ smain.pc \notin {"handler", "open", "failing"}
         /\ ev.hi = 0 => GettersAt({"convert"}) = {}
<1>1. Cardinality(Holders) \in Nat /\ IsFiniteSet(Holders)
  BY GettersFinite DEF Holders
<1>2. IsFiniteSet(Announced)
  BY GettersFinite DEF Announced
<1>3. ev.lo = 0 => Cardinality(Holders) = 0 /\ MainHolds = 0
  BY <1>1 DEF SlotCounted, MainHolds
<1>4. ev.hi = 0 => Announced = {}
  BY <1>2, FS_EmptySet DEF SlotCounted
<1>5. GettersAt({"convert"}) \subseteq Announced
  BY DEF GettersAt, Announced
<1> QED BY <1>1, <1>3, <1>4, <1>5, FS_EmptySet DEF MainHolds

-----------------------------------------------------------------------------
(* Type correctness, step by step.                                         *)

LEMMA ReleaseType ==
  ASSUME SlotTypeOK, NEW g, NEW u
  PROVE  Release(sjob, g, u) \in [Gens -> [refs: SUBSET (Users \cup {"slot"}), failed: BOOLEAN]]
BY ZenonT(40) DEF SlotTypeOK, Release

GetterPlaces == {"idle", "data", "add", "undo", "convert", "take", "incref", "drop",
                 "clear", "flag"}

LEMMA GoType ==
  ASSUME SlotTypeOK, NEW u \in Getters, NEW pc \in GetterPlaces, GetGo(u, pc)
  PROVE  getter' \in [Getters -> [pc: GetterPlaces, job: Gens \cup {NoJob}]]
BY DEF SlotTypeOK, GetGo, GetterPlaces

LEMMA SlotTypeStep ==
  ASSUME SlotInv, [SlotNext]_slotVars PROVE SlotTypeOK'
<1>1. CASE UNCHANGED slotVars
  BY <1>1 DEF SlotInv, SlotTypeOK, slotVars
<1>2. CASE died = "no" /\ SlotOpen
  <2>1. smain.gen + 1 \in Gens \/ UNCHANGED smain
    BY <1>2, SlotAssumption DEF SlotOpen, SlotInv, SlotTypeOK, Gens, NoJob
  <2> QED BY <1>2, <2>1 DEF SlotOpen, SlotInv, SlotTypeOK, Users
<1>3. CASE died = "no" /\ SlotHandler
  BY <1>3 DEF SlotHandler, SlotInv, SlotTypeOK
<1>4. CASE died = "no" /\ SlotFail
  <2>1. sjob' \in [Gens -> [refs: SUBSET (Users \cup {"slot"}), failed: BOOLEAN]]
    <3> DEFINE k == smain.gen
    <3>1. sjob' = [sjob EXCEPT ![k].failed = TRUE]
      BY <1>4 DEF SlotFail
    <3> HIDE DEF k
    <3>2. CASE k \in Gens
      <4>1. sjob[k] \in [refs: SUBSET (Users \cup {"slot"}), failed: BOOLEAN]
        BY <3>2 DEF SlotInv, SlotTypeOK
      <4> QED BY <3>1, <3>2, <4>1 DEF SlotInv, SlotTypeOK
    <3>3. CASE k \notin Gens
      BY <3>1, <3>3 DEF SlotInv, SlotTypeOK
    <3> QED BY <3>2, <3>3
  <2>2. smain' \in [pc: {"closed", "handler", "open", "failing", "clear", "close"},
                    gen: Gens \cup {NoJob}]
    BY <1>4 DEF SlotFail, SlotInv, SlotTypeOK
  <2> QED BY <1>4, <2>1, <2>2 DEF SlotFail, SlotInv, SlotTypeOK
<1>5. CASE died = "no" /\ SlotUnhold
  <2>1. ev.lo - 1 \in Nat
    <3>1. Cardinality(Holders) \in Nat /\ MainHolds = 1 /\ ev.lo = Cardinality(Holders) + MainHolds
      BY <1>5, GettersFinite DEF Holders, MainHolds, SlotUnhold, SlotInv, SlotLive, SlotCounted
    <3> QED BY <3>1
  <2> QED BY <1>5, <2>1 DEF SlotUnhold, SlotInv, SlotTypeOK
<1>6. CASE died = "no" /\ SlotClear
  BY <1>6, ReleaseType DEF SlotClear, SlotInv, SlotTypeOK
<1>7. CASE died = "no" /\ SlotClose
  BY <1>7 DEF SlotClose, SlotInv, SlotTypeOK
<1>8. CASE died = "no" /\ \E g \in Gens : IoDrops(g)
  BY <1>8, ReleaseType DEF IoDrops, SlotInv, SlotTypeOK
<1>9. ASSUME died = "no", NEW u \in Getters, Get(u) PROVE SlotTypeOK'
  <2> USE <1>9
  <2>1. CASE GetLook(u)
    BY <2>1 DEF GetLook, GetGo, SlotInv, SlotTypeOK
  <2>2. CASE GetData(u)
    BY <2>2 DEF GetData, GetGo, SlotInv, SlotTypeOK
  <2>3. CASE GetAdd(u)
    BY <2>3 DEF GetAdd, GetGo, SlotInv, SlotTypeOK
  <2>4. CASE GetUndo(u) \/ GetConvert(u)
    <3>1. ev.hi - 1 \in Nat
      <4>1. u \in Announced
        BY <2>4 DEF GetUndo, GetConvert, GetAt, Announced, GettersAt
      <4>2. Cardinality(Announced) \in Nat /\ Cardinality(Announced) # 0
        BY <4>1, GettersFinite, FS_EmptySet DEF Announced
      <4> QED BY <4>2 DEF SlotInv, SlotLive, SlotCounted
    <3>2. CASE GetUndo(u)
      <4>1. ev' \in [lo: Nat, hi: Nat, data: Gens \cup {NoJob}]
        BY <3>1, <3>2 DEF GetUndo, SlotInv, SlotTypeOK
      <4> QED BY <3>2, <4>1, GoType DEF GetterPlaces, GetUndo, SlotInv, SlotTypeOK
    <3>3. CASE GetConvert(u)
      <4>1. ev' \in [lo: Nat, hi: Nat, data: Gens \cup {NoJob}]
        <5>1. ev' = [ev EXCEPT !.hi = ev.hi - 1, !.lo = ev.lo + 1]
          BY <3>3 DEF GetConvert
        <5>2. ev.lo + 1 \in Nat
          BY DEF SlotInv, SlotTypeOK
        <5> QED BY <3>1, <5>1, <5>2 DEF SlotInv, SlotTypeOK
      <4> QED BY <3>3, <4>1, GoType DEF GetterPlaces, GetConvert, SlotInv, SlotTypeOK
    <3> QED BY <2>4, <3>2, <3>3
  <2>5. CASE GetTake(u)
    BY <2>5 DEF GetTake, SlotInv, SlotTypeOK
  <2>6. CASE GetIncref(u)
    <3>1. sjob' \in [Gens -> [refs: SUBSET (Users \cup {"slot"}), failed: BOOLEAN]]
      <4> DEFINE k == getter[u].job
      <4>1. sjob' = [sjob EXCEPT ![k].refs = @ \cup {u}]
        BY <2>6 DEF GetIncref
      <4>2. CASE k \in Gens
        <5>1. sjob[k] \in [refs: SUBSET (Users \cup {"slot"}), failed: BOOLEAN]
          BY <4>2 DEF SlotInv, SlotTypeOK
        <5>2. sjob[k].refs \cup {u} \in SUBSET (Users \cup {"slot"})
          BY <5>1 DEF Users
        <5> QED BY <4>1, <4>2, <5>1, <5>2 DEF SlotInv, SlotTypeOK
      <4>3. CASE k \notin Gens
        BY <4>1, <4>3 DEF SlotInv, SlotTypeOK
      <4> QED BY <4>2, <4>3
    <3> QED BY <2>6, <3>1, GoType DEF GetterPlaces, GetIncref, SlotInv, SlotTypeOK
  <2>7. CASE GetDrop(u)
    <3>1. ev.lo - 1 \in Nat
      <4>1. u \in Holders
        BY <2>7 DEF GetDrop, GetAt, Holders, GettersAt
      <4>2. Cardinality(Holders) \in Nat /\ Cardinality(Holders) # 0
        BY <4>1, GettersFinite, FS_EmptySet DEF Holders
      <4> QED BY <4>2 DEF SlotInv, SlotLive, SlotCounted, MainHolds
    <3>2. ev' \in [lo: Nat, hi: Nat, data: Gens \cup {NoJob}]
      BY <2>7, <3>1 DEF GetDrop, SlotInv, SlotTypeOK
    <3> QED BY <2>7, <3>2, GoType DEF GetterPlaces, GetDrop, SlotInv, SlotTypeOK
  <2>8. CASE GetClear(u)
    BY <2>8, ReleaseType DEF GetClear, GetGo, SlotInv, SlotTypeOK
  <2>9. CASE GetFlag(u)
    BY <2>9, ReleaseType DEF GetFlag, SlotInv, SlotTypeOK
  <2> QED BY <2>1, <2>2, <2>3, <2>4, <2>5, <2>6, <2>7, <2>8, <2>9 DEF Get
<1> QED BY <1>1, <1>2, <1>3, <1>4, <1>5, <1>6, <1>7, <1>8, <1>9 DEF SlotNext

-----------------------------------------------------------------------------
(* The main thread and the connections.                                    *)

\* Where the getters are is the same in every place.
GettersKept ==
  /\ Holders' = Holders /\ Announced' = Announced
  /\ \A pcs \in {{"convert"}, {"incref"}, {"clear"}} : GettersAt(pcs)' = GettersAt(pcs)

LEMMA GettersUnmoved == ASSUME UNCHANGED getter PROVE GettersKept
BY GettersRest DEF GettersKept, Holders, Announced

LEMMA SlotOpenStep ==
  ASSUME SlotTypeOK, SlotLive, SlotOpen, died' = "no" PROVE SlotLive'
<1> USE DEF SlotOpen, SlotLive
<1>1. GettersKept
  BY GettersUnmoved
<1>2. ev.lo \in Nat /\ ev.hi \in Nat /\ smain.gen \in Gens \cup {NoJob}
  BY DEF SlotTypeOK
<1>4. CASE /\ ev.data = NoJob /\ ev.lo + ev.hi = 0
           /\ smain' = [pc |-> "handler", gen |-> smain.gen + 1]
           /\ sjob' = [sjob EXCEPT ![smain.gen + 1].refs = {"slot", "io"}]
           /\ ev' = [ev EXCEPT !.lo = 1]
  <2>1. ev.lo = 0 /\ ev.hi = 0
    BY <1>2, <1>4
  <2>2. Holders = {} /\ GettersAt({"convert"}) = {} /\ GettersAt({"incref"}) = {}
    BY <2>1, NobodyHolds DEF Holders, GettersAt
  <2>3. GettersAt({"clear"}) = {}
    BY <1>4 DEF ClearIsAlone
  <2>4. smain.gen + 1 \in Gens
    BY <1>2, SlotAssumption DEF Gens, NoJob
  <2>5. ev'.lo = 1 /\ ev'.hi = 0 /\ ev'.data = NoJob /\ smain'.pc = "handler"
    BY <1>4, <2>1 DEF SlotTypeOK
  <2>6. SlotCounted'
    <3>1. Cardinality(Holders') = 0 /\ Cardinality(Announced') = ev.hi /\ MainHolds' = 1
      BY <1>1, <2>2, <2>5, FS_EmptySet DEF GettersKept, SlotCounted, MainHolds
    <3> QED BY <2>1, <2>5, <3>1 DEF SlotCounted
  <2>7. EntryRefers'
    <3>1. smain'.gen = smain.gen + 1 /\ "slot" \in sjob'[smain.gen + 1].refs
      BY <1>4, <2>4 DEF SlotTypeOK
    <3> QED BY <2>4, <2>5, <3>1 DEF EntryRefers
  <2>8. HeldIsSet' /\ TakenIsData'
    BY <1>1, <2>2, <2>5 DEF HeldIsSet, TakenIsData, GettersKept
  <2>9. ClearIsAlone'
    BY <1>1, <2>3, <2>5 DEF ClearIsAlone, GettersKept
  <2> QED BY <2>6, <2>7, <2>8, <2>9
<1> QED BY <1>4

LEMMA SlotHandlerStep ==
  ASSUME SlotTypeOK, SlotLive, SlotHandler PROVE SlotLive'
<1> USE DEF SlotHandler, SlotLive
<1>1. GettersKept
  BY GettersUnmoved
<1>2. /\ ev'.lo = ev.lo /\ ev'.hi = ev.hi /\ ev'.data = smain.gen
      /\ smain'.pc = "open" /\ smain'.gen = smain.gen
  BY DEF SlotTypeOK
<1>3. smain.gen # NoJob /\ ev.data = NoJob
  BY DEF EntryRefers, Gens, NoJob
<1>4. GettersAt({"incref"}) = {} /\ GettersAt({"clear"}) = {}
  BY <1>3 DEF TakenIsData, ClearIsAlone
<1>5. SlotCounted'
  BY <1>1, <1>2 DEF SlotCounted, GettersKept, MainHolds
<1>6. EntryRefers'
  BY <1>2, <1>3 DEF EntryRefers
<1>7. HeldIsSet' /\ TakenIsData'
  BY <1>1, <1>2, <1>3, <1>4 DEF HeldIsSet, TakenIsData, GettersKept
<1>8. ClearIsAlone'
  BY <1>1, <1>2, <1>4 DEF ClearIsAlone, GettersKept
<1> QED BY <1>5, <1>6, <1>7, <1>8

LEMMA SlotFailStep ==
  ASSUME SlotTypeOK, SlotLive, SlotFail PROVE SlotLive'
<1> USE DEF SlotFail, SlotLive
<1>1. GettersKept
  BY GettersUnmoved
<1>2. smain'.pc = "failing" /\ smain'.gen = smain.gen /\ ev' = ev
  BY DEF SlotTypeOK
<1>3. \A g \in Gens : sjob'[g].refs = sjob[g].refs
  <2> DEFINE k == smain.gen
  <2>1. sjob' = [sjob EXCEPT ![k].failed = TRUE]
    OBVIOUS
  <2> HIDE DEF k
  <2> QED BY <2>1 DEF SlotTypeOK
<1>4. ev.data # NoJob => ev.data \in Gens
  BY DEF SlotTypeOK
<1>5. SlotCounted'
  BY <1>1, <1>2 DEF SlotCounted, GettersKept, MainHolds
<1>6. EntryRefers'
  BY <1>2, <1>3, <1>4 DEF EntryRefers
<1>7. HeldIsSet' /\ TakenIsData'
  BY <1>1, <1>2 DEF HeldIsSet, TakenIsData, GettersKept
<1>8. ClearIsAlone'
  BY <1>1, <1>2 DEF ClearIsAlone, GettersKept
<1> QED BY <1>5, <1>6, <1>7, <1>8

LEMMA SlotUnholdStep ==
  ASSUME SlotTypeOK, SlotLive, SlotUnhold PROVE SlotLive'
<1> USE DEF SlotUnhold, SlotLive
<1>1. GettersKept
  BY GettersUnmoved
<1>2. /\ ev'.lo = ev.lo - 1 /\ ev'.hi = ev.hi /\ ev'.data = ev.data
      /\ smain'.gen = smain.gen /\ sjob' = sjob
      /\ smain'.pc = IF LastHold /\ ev.data # NoJob THEN "clear" ELSE "close"
  BY DEF SlotTypeOK
<1>3. Cardinality(Holders) \in Nat
  BY GettersFinite DEF Holders
<1>4. MainHolds = 1 /\ MainHolds' = 0
  BY <1>2 DEF MainHolds
<1>5. SlotCounted'
  BY <1>1, <1>2, <1>3, <1>4 DEF SlotCounted, GettersKept
<1>6. ev.data # NoJob
  BY DEF EntryRefers
<1>7. EntryRefers' /\ HeldIsSet' /\ TakenIsData'
  BY <1>1, <1>2, <1>6 DEF EntryRefers, HeldIsSet, TakenIsData, GettersKept
<1>8. GettersAt({"clear"}) = {}
  BY <1>3, <1>4 DEF ClearIsAlone, SlotCounted
<1>9. ClearIsAlone'
  <2>1. LastHold => ev'.lo = 0 /\ GettersAt({"convert"}) = {}
    BY <1>2, NobodyHolds DEF LastHold
  <2> QED BY <1>1, <1>2, <1>6, <1>8, <2>1 DEF ClearIsAlone, GettersKept
<1> QED BY <1>5, <1>7, <1>9

\* Clearing the entry, in whichever thread.
LEMMA Clears ==
  ASSUME SlotTypeOK, SlotLive, GettersAt({"clear"}) # {} \/ smain.pc = "clear"
  PROVE  /\ ev.lo = 0 /\ ev.data # NoJob /\ Holders = {}
         /\ GettersAt({"convert"}) = {} /\ GettersAt({"incref"}) = {}
         /\ smain.pc \in {"clear", "close"}
<1>1. ev.lo = 0 /\ ev.data # NoJob /\ GettersAt({"convert"}) = {}
  BY DEF SlotLive, ClearIsAlone
<1>2. Holders = {} /\ smain.pc \notin {"handler", "open", "failing"}
  BY <1>1, NobodyHolds DEF SlotLive
<1>3. GettersAt({"incref"}) \subseteq Holders
  BY DEF Holders, GettersAt
<1>4. smain.pc \in {"open", "failing", "clear", "close"}
  BY <1>1 DEF SlotLive, EntryRefers
<1> QED BY <1>1, <1>2, <1>3, <1>4

LEMMA SlotClearStep ==
  ASSUME SlotTypeOK, SlotLive, SlotClear PROVE SlotLive'
<1> USE DEF SlotClear, SlotLive
<1>1. GettersKept
  BY GettersUnmoved
<1>2. /\ ev'.lo = ev.lo /\ ev'.hi = ev.hi /\ ev'.data = NoJob
      /\ smain'.pc = "close"
  BY DEF SlotTypeOK
<1>3. /\ Holders = {} /\ GettersAt({"convert"}) = {} /\ GettersAt({"incref"}) = {}
      /\ GettersAt({"clear"}) = {}
  BY Clears DEF ClearIsAlone
<1>4. SlotCounted'
  BY <1>1, <1>2 DEF SlotCounted, GettersKept, MainHolds
<1> QED BY <1>1, <1>2, <1>3, <1>4
        DEF EntryRefers, HeldIsSet, TakenIsData, ClearIsAlone, GettersKept

LEMMA SlotCloseStep ==
  ASSUME SlotTypeOK, SlotLive, SlotClose PROVE SlotLive'
<1> USE DEF SlotClose, SlotLive
<1>1. GettersKept
  BY GettersUnmoved
<1>2. ev' = ev /\ sjob' = sjob /\ smain'.pc = "closed" /\ smain'.gen = smain.gen
  BY DEF SlotTypeOK
<1>3. ev.data = NoJob
  BY DEF EntryRefers
<1>4. GettersAt({"clear"}) = {}
  BY <1>3 DEF ClearIsAlone
<1>5. SlotCounted'
  BY <1>1, <1>2 DEF SlotCounted, GettersKept, MainHolds
<1> QED BY <1>1, <1>2, <1>3, <1>4, <1>5
        DEF EntryRefers, HeldIsSet, TakenIsData, ClearIsAlone, GettersKept

\* A reference other than the entry's comes or goes.
LEMMA OtherReference ==
  ASSUME SlotTypeOK, SlotLive, UNCHANGED <<ev, smain, getter>>,
         \A g \in Gens : "slot" \in sjob[g].refs => "slot" \in sjob'[g].refs
  PROVE  SlotLive'
<1>1. GettersKept
  BY GettersUnmoved
<1>2. ev.data # NoJob => ev.data \in Gens
  BY DEF SlotTypeOK
<1>3. SlotCounted'
  BY <1>1 DEF SlotLive, SlotCounted, GettersKept, MainHolds
<1>4. EntryRefers'
  BY <1>2 DEF SlotLive, EntryRefers
<1>5. HeldIsSet' /\ TakenIsData' /\ ClearIsAlone'
  BY <1>1 DEF SlotLive, HeldIsSet, TakenIsData, ClearIsAlone, GettersKept
<1> QED BY <1>3, <1>4, <1>5 DEF SlotLive

LEMMA ReleaseKeeps ==
  ASSUME SlotTypeOK, NEW k, NEW u, u # "slot", NEW g \in Gens,
         "slot" \in sjob[g].refs
  PROVE  "slot" \in Release(sjob, k, u)[g].refs
BY DEF SlotTypeOK, Release

LEMMA IoDropsStep ==
  ASSUME SlotTypeOK, SlotLive, NEW k \in Gens, IoDrops(k) PROVE SlotLive'
<1>1. \A g \in Gens : "slot" \in sjob[g].refs => "slot" \in sjob'[g].refs
  BY ReleaseKeeps DEF IoDrops
<1> QED BY <1>1, OtherReference DEF IoDrops

-----------------------------------------------------------------------------
(* The getters.                                                            *)

\* A step that only moves u, and not from or to a place where it counts.
LEMMA QuietGetter ==
  ASSUME SlotTypeOK, SlotLive, NEW u \in Getters, UNCHANGED <<ev, smain>>,
         getter[u].pc \in {"idle", "data", "add", "flag"},
         getter'[u].pc \in {"idle", "data", "add", "flag"},
         \A v \in Getters \ {u} : getter'[v] = getter[v],
         \A g \in Gens : "slot" \in sjob[g].refs => "slot" \in sjob'[g].refs
  PROVE  SlotLive'
<1>1. /\ Holders' = Holders /\ Announced' = Announced
      /\ GettersAt({"convert"})' = GettersAt({"convert"})
      /\ GettersAt({"clear"})' = GettersAt({"clear"})
      /\ GettersAt({"incref"})' = GettersAt({"incref"})
  BY GetterStays DEF Holders, Announced
<1>2. \A v \in GettersAt({"incref"}) : getter'[v] = getter[v]
  BY DEF GettersAt
<1>3. ev.data # NoJob => ev.data \in Gens
  BY DEF SlotTypeOK
<1>4. SlotCounted'
  BY <1>1 DEF SlotLive, SlotCounted, MainHolds
<1>5. EntryRefers'
  BY <1>3 DEF SlotLive, EntryRefers
<1>6. HeldIsSet' /\ TakenIsData' /\ ClearIsAlone'
  BY <1>1, <1>2 DEF SlotLive, HeldIsSet, TakenIsData, ClearIsAlone
<1> QED BY <1>4, <1>5, <1>6 DEF SlotLive

LEMMA GoMoves ==
  ASSUME SlotTypeOK, NEW u \in Getters, NEW pc, GetGo(u, pc)
  PROVE  /\ getter'[u].pc = pc /\ getter'[u].job = getter[u].job
         /\ \A v \in Getters \ {u} : getter'[v] = getter[v]
BY DEF SlotTypeOK, GetGo

LEMMA GetAddStep ==
  ASSUME SlotTypeOK, SlotLive, NEW u \in Getters, GetAdd(u) PROVE SlotLive'
<1> USE DEF GetAdd, GetAt, SlotLive
<1> DEFINE pc == IF ev.lo # 0 THEN "convert" ELSE "undo"
<1>1. getter'[u].pc = pc /\ \A v \in Getters \ {u} : getter'[v] = getter[v]
  BY GoMoves
<1>2. /\ ev'.lo = ev.lo /\ ev'.hi = ev.hi + 1 /\ ev'.data = ev.data
      /\ smain' = smain /\ sjob' = sjob
  BY DEF SlotTypeOK
<1>3. /\ Holders' = Holders
      /\ GettersAt({"clear"})' = GettersAt({"clear"})
      /\ GettersAt({"incref"})' = GettersAt({"incref"})
  BY <1>1, GetterStays DEF Holders
<1>4. Cardinality(Announced') = Cardinality(Announced) + 1
  BY <1>1, GetterComes DEF Announced
<1>5. GettersAt({"convert"})' = GettersAt({"convert"}) \cup (IF ev.lo # 0 THEN {u} ELSE {})
  BY <1>1 DEF GettersAt
<1>6. \A v \in GettersAt({"incref"}) : getter'[v] = getter[v]
  BY <1>1 DEF GettersAt
<1>7. SlotCounted'
  BY <1>2, <1>3, <1>4 DEF SlotCounted, MainHolds
<1>8. EntryRefers'
  BY <1>2 DEF EntryRefers
<1>9. HeldIsSet'
  <2>1. ASSUME ev.lo # 0 PROVE ev.data # NoJob \/ smain.pc = "handler"
    <3>1. CASE Holders # {}
      BY <3>1 DEF HeldIsSet
    <3>2. CASE Holders = {}
      <4>1. MainHolds # 0
        BY <2>1, <3>2, FS_EmptySet DEF SlotCounted, MainHolds
      <4> QED BY <4>1 DEF MainHolds, EntryRefers
    <3> QED BY <3>1, <3>2
  <2> QED BY <1>2, <1>3, <1>5, <2>1 DEF HeldIsSet
<1>10. TakenIsData'
  BY <1>2, <1>3, <1>6 DEF TakenIsData
<1>11. ClearIsAlone'
  BY <1>2, <1>3, <1>5 DEF ClearIsAlone
<1> QED BY <1>7, <1>8, <1>9, <1>10, <1>11

LEMMA GetUndoStep ==
  ASSUME SlotTypeOK, SlotLive, NEW u \in Getters, GetUndo(u) PROVE SlotLive'
<1> USE DEF GetUndo, GetAt, SlotLive
<1>1. /\ getter'[u].pc \in {"add", "idle"}
      /\ \A v \in Getters \ {u} : getter'[v] = getter[v]
  BY GoMoves
<1>2. /\ ev'.lo = ev.lo /\ ev'.hi = ev.hi - 1 /\ ev'.data = ev.data
      /\ smain' = smain /\ sjob' = sjob
  BY DEF SlotTypeOK
<1>3. /\ Holders' = Holders
      /\ GettersAt({"convert"})' = GettersAt({"convert"})
      /\ GettersAt({"clear"})' = GettersAt({"clear"})
      /\ GettersAt({"incref"})' = GettersAt({"incref"})
  BY <1>1, GetterStays DEF Holders
<1>4. Cardinality(Announced') = Cardinality(Announced) - 1
  BY <1>1, GetterLeaves DEF Announced
<1>5. \A v \in GettersAt({"incref"}) : getter'[v] = getter[v]
  BY <1>1 DEF GettersAt
<1>6. SlotCounted'
  BY <1>2, <1>3, <1>4 DEF SlotCounted, MainHolds
<1>7. EntryRefers' /\ HeldIsSet'
  BY <1>2, <1>3 DEF EntryRefers, HeldIsSet
<1>8. TakenIsData' /\ ClearIsAlone'
  BY <1>2, <1>3, <1>5 DEF TakenIsData, ClearIsAlone
<1> QED BY <1>6, <1>7, <1>8

LEMMA GetConvertStep ==
  ASSUME SlotTypeOK, SlotLive, NEW u \in Getters, GetConvert(u) PROVE SlotLive'
<1> USE DEF GetConvert, GetAt, SlotLive
<1>1. getter'[u].pc = "take" /\ \A v \in Getters \ {u} : getter'[v] = getter[v]
  BY GoMoves
<1>2. /\ ev'.lo = ev.lo + 1 /\ ev'.hi = ev.hi - 1 /\ ev'.data = ev.data
      /\ smain' = smain /\ sjob' = sjob
  BY DEF SlotTypeOK
<1>3. /\ GettersAt({"clear"})' = GettersAt({"clear"})
      /\ GettersAt({"incref"})' = GettersAt({"incref"})
  BY <1>1, GetterStays
<1>4. /\ Cardinality(Announced') = Cardinality(Announced) - 1
      /\ Cardinality(Holders') = Cardinality(Holders) + 1 /\ Holders' = Holders \cup {u}
      /\ GettersAt({"convert"})' = GettersAt({"convert"}) \ {u}
      /\ u \in GettersAt({"convert"})
  <2>1. Cardinality(Announced') = Cardinality(Announced) - 1
    BY <1>1, GetterLeaves DEF Announced
  <2>2. Cardinality(Holders') = Cardinality(Holders) + 1 /\ Holders' = Holders \cup {u}
    BY <1>1, GetterComes DEF Holders
  <2>3. GettersAt({"convert"})' = GettersAt({"convert"}) \ {u} /\ u \in GettersAt({"convert"})
    BY <1>1 DEF GettersAt
  <2> QED BY <2>1, <2>2, <2>3
<1>5. \A v \in GettersAt({"incref"}) : getter'[v] = getter[v]
  BY <1>1 DEF GettersAt
<1>6. SlotCounted'
  <2>1. Cardinality(Holders) \in Nat /\ MainHolds \in Nat
    BY GettersFinite DEF Holders, MainHolds
  <2> QED BY <1>2, <1>4, <2>1 DEF SlotCounted, MainHolds
<1>7. EntryRefers' /\ HeldIsSet'
  BY <1>2, <1>4 DEF EntryRefers, HeldIsSet
<1>8. TakenIsData' /\ ClearIsAlone'
  BY <1>2, <1>3, <1>4, <1>5 DEF TakenIsData, ClearIsAlone
<1> QED BY <1>6, <1>7, <1>8

\* The pointer is null only before epoll_sethandler has stored it.
LEMMA GetTakeStep ==
  ASSUME SlotTypeOK, SlotLive, NEW u \in Getters, GetTake(u), died = "no"
  PROVE  /\ died' = "no" => SlotLive'
         /\ died' = "no" \/ (died' = "null" /\ smain'.pc = "handler")
<1> USE DEF GetTake, GetAt, SlotLive
<1>1. /\ getter'[u].pc = "incref" /\ getter'[u].job = ev.data
      /\ \A v \in Getters \ {u} : getter'[v] = getter[v]
  BY DEF SlotTypeOK
<1>2. u \in Holders
  BY DEF Holders, GettersAt
<1>3. ev.data # NoJob \/ smain.pc = "handler"
  BY <1>2 DEF HeldIsSet
<1>4. ASSUME ev.data # NoJob PROVE SlotLive'
  <2>1. /\ Holders' = Holders /\ Announced' = Announced
        /\ GettersAt({"convert"})' = GettersAt({"convert"})
        /\ GettersAt({"clear"})' = GettersAt({"clear"})
    BY <1>1, GetterStays DEF Holders, Announced
  <2>2. SlotCounted'
    BY <2>1 DEF SlotCounted, MainHolds
  <2>3. TakenIsData'
    <3> SUFFICES ASSUME NEW v \in GettersAt({"incref"})'
                 PROVE  ev.data # NoJob /\ getter'[v].job = ev.data
      BY DEF TakenIsData
    <3>1. v = u \/ (v \in GettersAt({"incref"}) /\ getter'[v] = getter[v])
      BY <1>1 DEF GettersAt
    <3> QED BY <1>1, <1>4, <3>1 DEF TakenIsData
  <2>4. EntryRefers' /\ HeldIsSet' /\ ClearIsAlone'
    BY <2>1 DEF EntryRefers, HeldIsSet, ClearIsAlone
  <2> QED BY <2>2, <2>3, <2>4
<1> QED BY <1>3, <1>4

LEMMA GetIncrefStep ==
  ASSUME SlotTypeOK, SlotLive, NEW u \in Getters, GetIncref(u) PROVE SlotLive'
<1> USE DEF GetIncref, GetAt, SlotLive
<1>1. getter'[u].pc = "drop" /\ \A v \in Getters \ {u} : getter'[v] = getter[v]
  BY GoMoves
<1>2. /\ Holders' = Holders /\ Announced' = Announced
      /\ GettersAt({"convert"})' = GettersAt({"convert"})
      /\ GettersAt({"clear"})' = GettersAt({"clear"})
  BY <1>1, GetterStays DEF Holders, Announced
<1>3. \A g \in Gens : "slot" \in sjob[g].refs => "slot" \in sjob'[g].refs
  <2> DEFINE k == getter[u].job
  <2>1. sjob' = [sjob EXCEPT ![k].refs = @ \cup {u}]
    OBVIOUS
  <2> HIDE DEF k
  <2> QED BY <2>1 DEF SlotTypeOK
<1>4. ev.data # NoJob => ev.data \in Gens
  BY DEF SlotTypeOK
<1>5. SlotCounted'
  BY <1>2 DEF SlotCounted, MainHolds
<1>6. EntryRefers'
  BY <1>3, <1>4 DEF EntryRefers
<1>7. TakenIsData'
  <2>1. \A v \in GettersAt({"incref"})' : v \in GettersAt({"incref"}) /\ getter'[v] = getter[v]
    BY <1>1 DEF GettersAt
  <2> QED BY <2>1 DEF TakenIsData
<1>8. HeldIsSet' /\ ClearIsAlone'
  BY <1>2 DEF HeldIsSet, ClearIsAlone
<1> QED BY <1>5, <1>6, <1>7, <1>8

LEMMA GetDropStep ==
  ASSUME SlotTypeOK, SlotLive, NEW u \in Getters, GetDrop(u) PROVE SlotLive'
<1> USE DEF GetDrop, GetAt, SlotLive
<1> DEFINE pc == IF LastHold /\ ev.data # NoJob THEN "clear" ELSE "flag"
<1>1. getter'[u].pc = pc /\ \A v \in Getters \ {u} : getter'[v] = getter[v]
  BY GoMoves
<1>2. /\ ev'.lo = ev.lo - 1 /\ ev'.hi = ev.hi /\ ev'.data = ev.data
      /\ smain' = smain /\ sjob' = sjob
  BY DEF SlotTypeOK
<1>3. /\ Announced' = Announced
      /\ GettersAt({"convert"})' = GettersAt({"convert"})
      /\ GettersAt({"incref"})' = GettersAt({"incref"})
  BY <1>1, GetterStays DEF Announced
<1>4. /\ Cardinality(Holders') = Cardinality(Holders) - 1
      /\ Holders' = Holders \ {u} /\ u \in Holders
  <2>1. u \in Holders
    BY DEF Holders, GettersAt
  <2> QED BY <1>1, <2>1, GetterLeaves DEF Holders
<1>5. Cardinality(Holders) \in Nat /\ Cardinality(Holders) # 0 /\ MainHolds \in Nat
  BY <1>4, GettersFinite, FS_EmptySet DEF Holders, MainHolds
<1>6. \A v \in GettersAt({"incref"}) : getter'[v] = getter[v]
  BY <1>1 DEF GettersAt
<1>7. SlotCounted'
  BY <1>2, <1>3, <1>4, <1>5 DEF SlotCounted, MainHolds
<1>8. EntryRefers' /\ HeldIsSet' /\ TakenIsData'
  BY <1>2, <1>3, <1>4, <1>6 DEF EntryRefers, HeldIsSet, TakenIsData
<1>9. ev.lo # 0
  BY <1>5 DEF SlotCounted
<1>10. GettersAt({"clear"}) = {} /\ smain.pc # "clear"
  BY <1>9 DEF ClearIsAlone
<1>11. GettersAt({"clear"})' = IF pc = "clear" THEN {u} ELSE {}
  BY <1>1, <1>10 DEF GettersAt
<1>12. pc = "clear" => ev'.lo = 0 /\ ev.data # NoJob /\ GettersAt({"convert"}) = {}
  BY <1>2, NobodyHolds DEF LastHold
<1>13. ClearIsAlone'
  BY <1>2, <1>3, <1>10, <1>11, <1>12 DEF ClearIsAlone
<1> QED BY <1>7, <1>8, <1>13

LEMMA GetClearStep ==
  ASSUME SlotTypeOK, SlotLive, NEW u \in Getters, GetClear(u), died = "no"
  PROVE  SlotLive' /\ died' = "no"
<1> USE DEF GetClear, GetAt, SlotLive
<1>1. getter'[u].pc = "flag" /\ \A v \in Getters \ {u} : getter'[v] = getter[v]
  BY GoMoves
<1>2. ev'.lo = ev.lo /\ ev'.hi = ev.hi /\ ev'.data = NoJob /\ smain' = smain
  BY DEF SlotTypeOK
<1>3. u \in GettersAt({"clear"})
  BY DEF GettersAt
<1>4. /\ Holders = {} /\ GettersAt({"convert"}) = {} /\ GettersAt({"incref"}) = {}
      /\ smain.pc = "close" /\ GettersAt({"clear"}) = {u} /\ ev.data # NoJob
  BY <1>3, Clears DEF ClearIsAlone
<1>5. /\ Holders' = Holders /\ Announced' = Announced
      /\ GettersAt({"convert"})' = GettersAt({"convert"})
      /\ GettersAt({"incref"})' = GettersAt({"incref"})
  BY <1>1, GetterStays DEF Holders, Announced
<1>6. GettersAt({"clear"})' = {}
  BY <1>1, <1>4 DEF GettersAt
<1>7. SlotCounted'
  BY <1>2, <1>5 DEF SlotCounted, MainHolds
<1>8. EntryRefers' /\ HeldIsSet' /\ TakenIsData' /\ ClearIsAlone'
  BY <1>2, <1>4, <1>5, <1>6 DEF EntryRefers, HeldIsSet, TakenIsData, ClearIsAlone
<1> QED BY <1>4, <1>7, <1>8

LEMMA GetStep ==
  ASSUME SlotTypeOK, SlotLive, NEW u \in Getters, Get(u), died = "no"
  PROVE  /\ died' = "no" => SlotLive'
         /\ died' = "no" \/ (died' = "null" /\ smain'.pc = "handler")
<1>1. CASE GetLook(u)
  <2>1. getter'[u].pc = "data" /\ \A v \in Getters \ {u} : getter'[v] = getter[v]
    BY <1>1, GoMoves DEF GetLook
  <2> QED BY <1>1, <2>1, QuietGetter DEF GetLook, GetAt
<1>2. CASE GetData(u)
  <2>1. /\ getter'[u].pc \in {"idle", "add"}
        /\ \A v \in Getters \ {u} : getter'[v] = getter[v]
    BY <1>2, GoMoves DEF GetData
  <2> QED BY <1>2, <2>1, QuietGetter DEF GetData, GetAt
<1>3. CASE GetAdd(u)
  BY <1>3, GetAddStep DEF GetAdd
<1>4. CASE GetUndo(u)
  BY <1>4, GetUndoStep DEF GetUndo
<1>5. CASE GetConvert(u)
  BY <1>5, GetConvertStep DEF GetConvert
<1>6. CASE GetTake(u)
  BY <1>6, GetTakeStep
<1>7. CASE GetIncref(u)
  BY <1>7, GetIncrefStep DEF GetIncref
<1>8. CASE GetDrop(u)
  BY <1>8, GetDropStep DEF GetDrop
<1>9. CASE GetClear(u)
  BY <1>9, GetClearStep
<1>10. CASE GetFlag(u)
  <2>1. getter'[u].pc = "idle" /\ \A v \in Getters \ {u} : getter'[v] = getter[v]
    BY <1>10 DEF GetFlag, SlotTypeOK
  <2>2. u # "slot"
    BY SlotAssumption
  <2>3. \A g \in Gens : "slot" \in sjob[g].refs => "slot" \in sjob'[g].refs
    BY <1>10, <2>2, ReleaseKeeps DEF GetFlag
  <2> QED BY <1>10, <2>1, <2>3, QuietGetter DEF GetFlag, GetAt
<1> QED BY <1>1, <1>2, <1>3, <1>4, <1>5, <1>6, <1>7, <1>8, <1>9, <1>10 DEF Get

-----------------------------------------------------------------------------

LEMMA SlotInvInit == SlotInit => SlotInv
<1> SUFFICES ASSUME SlotInit PROVE SlotInv
  OBVIOUS
<1> USE DEF SlotInit
<1>1. SlotTypeOK
  BY DEF SlotTypeOK, NoJob
<1>2. \A pcs : "idle" \notin pcs => GettersAt(pcs) = {}
  BY DEF GettersAt
<1>3. /\ Holders = {} /\ Announced = {} /\ GettersAt({"convert"}) = {}
      /\ GettersAt({"incref"}) = {} /\ GettersAt({"clear"}) = {}
  BY <1>2 DEF Holders, Announced
<1>4. SlotCounted
  BY <1>3, FS_EmptySet DEF SlotCounted, MainHolds
<1>5. EntryRefers /\ HeldIsSet /\ TakenIsData /\ ClearIsAlone
  BY <1>3 DEF EntryRefers, HeldIsSet, TakenIsData, ClearIsAlone, NoJob
<1> QED BY <1>1, <1>4, <1>5 DEF SlotInv, SlotLive

\* How the process may die in a step.
NullInTime == died = "null" => smain.pc = "handler"

LEMMA SlotInvStep ==
  ASSUME SlotInv, NullInTime, [SlotNext]_slotVars PROVE SlotInv' /\ NullInTime'
<1>1. SlotTypeOK'
  BY SlotTypeStep
<1>2. SUFFICES (died' = "no" => SlotLive') /\ NullInTime'
  BY <1>1 DEF SlotInv
<1>3. CASE UNCHANGED slotVars
  BY <1>3 DEF slotVars, SlotInv, SlotLive, SlotCounted, EntryRefers, HeldIsSet, TakenIsData,
       ClearIsAlone, Holders, Announced, GettersAt, MainHolds, NullInTime
<1>4. ASSUME SlotNext PROVE (died' = "no" => SlotLive') /\ NullInTime'
  <2>1. died = "no" /\ SlotTypeOK /\ SlotLive
    BY <1>4 DEF SlotNext, SlotInv
  <2>2. CASE SlotOpen
    BY <2>1, <2>2, SlotOpenStep DEF SlotOpen, NullInTime
  <2>3. CASE SlotHandler
    BY <2>1, <2>3, SlotHandlerStep DEF SlotHandler, NullInTime
  <2>4. CASE SlotFail
    BY <2>1, <2>4, SlotFailStep DEF SlotFail, NullInTime
  <2>5. CASE SlotUnhold
    BY <2>1, <2>5, SlotUnholdStep DEF SlotUnhold, NullInTime
  <2>6. CASE SlotClear
    <3>1. ev.data # NoJob
      BY <2>1, <2>6, Clears DEF SlotClear
    <3> QED BY <2>1, <2>6, <3>1, SlotClearStep DEF SlotClear, NullInTime
  <2>7. CASE SlotClose
    BY <2>1, <2>7, SlotCloseStep DEF SlotClose, NullInTime
  <2>8. CASE \E g \in Gens : IoDrops(g)
    BY <2>1, <2>8, IoDropsStep DEF IoDrops, NullInTime
  <2>9. CASE \E u \in Getters : Get(u)
    BY <2>1, <2>9, GetStep DEF NullInTime
  <2> QED BY <1>4, <2>2, <2>3, <2>4, <2>5, <2>6, <2>7, <2>8, <2>9 DEF SlotNext
<1> QED BY <1>3, <1>4

LEMMA SlotInvariant == SlotSpec => [](SlotInv /\ NullInTime)
<1>1. SlotInit => SlotInv /\ NullInTime
  BY SlotInvInit DEF SlotInit, NullInTime
<1>2. SlotInv /\ NullInTime /\ [SlotNext]_slotVars => SlotInv' /\ NullInTime'
  BY SlotInvStep
<1> QED BY <1>1, <1>2, PTL DEF SlotSpec

\* connection_get_by_fd: a thread that has loaded the pointer counts itself in on
\* a job that lives, however the socket fails and the descriptor is given out.
THEOREM TakesLivingJob == SlotSpec => []TakenJobLives
<1>1. SlotInv => TakenJobLives
  <2> SUFFICES ASSUME SlotInv, NEW u \in Getters, GetAt(u, "incref"), died = "no"
               PROVE  sjob[getter[u].job].refs # {}
    BY DEF TakenJobLives
  <2>1. u \in GettersAt({"incref"})
    BY DEF GettersAt, GetAt
  <2> QED BY <2>1 DEF SlotInv, SlotLive, TakenIsData, EntryRefers
<1> QED BY <1>1, SlotInvariant, PTL

\* The one window in which connection_get_by_fd and connection_event_incref can use
\* a null pointer: alloc_new_socket_connection has counted the entry as held, and
\* epoll_sethandler has not stored data yet.
THEOREM NullOnlyBeforeHandler == SlotSpec => []NullInTime
BY SlotInvariant, PTL

-----------------------------------------------------------------------------
(* AdminServer.  First what a request is cut from.                         *)

Pieces == {"m1", "m2", "head", "e1", "e2", "cmd", "token", "secret", "opt", "nl"}

LEMMA OnePiece ==
  ASSUME NEW S, NEW piece \in S
  PROVE  <<piece>> \in Seq(S) /\ <<>> \in Seq(S)
OBVIOUS

LEMMA BodySeq ==
  ASSUME NEW r
  PROVE  Body(r) \in Seq({"secret", "opt"}) /\ Len(Body(r)) \in Nat
<1> DEFINE S == {"secret", "opt"}
           x == Given(r.secret /\ ~InPath(r), "secret")
           y == Given(r.opt, "opt")
<1>1. x \in Seq(S) /\ y \in Seq(S)
  <2>1. x = <<"secret">> \/ x = <<>>
    BY DEF Given
  <2>2. y = <<"opt">> \/ y = <<>>
    BY DEF Given
  <2> HIDE DEF x, y
  <2> QED BY <2>1, <2>2, OnePiece
<1>2. x \o y \in Seq(S)
  BY <1>1, ConcatProperties
<1> QED BY <1>2, LenProperties DEF Body

\* An HTTP request ends its headers with the fifth piece and has no newline piece.
LEMMA HttpStream ==
  ASSUME NEW r, r.proto = "http"
  PROVE  /\ Len(Stream(r)) = 5 + Len(Body(r))
         /\ Stream(r)[1] = "m1" /\ Stream(r)[2] = "m2" /\ Stream(r)[5] = "e2"
         /\ \A i \in 1 .. Len(Stream(r)) : Stream(r)[i] # "nl"
<1> DEFINE S == {"m1", "m2", "head", "e1", "e2", "secret", "opt"}
           h == <<"m1", "m2", "head", "e1", "e2">>
<1>1. h \in Seq(S) /\ Len(h) = 5 /\ h[1] = "m1" /\ h[2] = "m2" /\ h[5] = "e2"
  OBVIOUS
<1>2. Body(r) \in Seq(S) /\ Len(Body(r)) \in Nat
  BY BodySeq
<1>3. Stream(r) = h \o Body(r)
  BY DEF Stream
<1> HIDE DEF h
<1>4. /\ h \o Body(r) \in Seq(S) /\ Len(h \o Body(r)) = 5 + Len(Body(r))
      /\ \A i \in 1 .. 5 + Len(Body(r)) : (h \o Body(r))[i] = IF i <= 5 THEN h[i] ELSE Body(r)[i - 5]
  <2>1. /\ h \o Body(r) \in Seq(S) /\ Len(h \o Body(r)) = Len(h) + Len(Body(r))
        /\ \A i \in 1 .. Len(h) + Len(Body(r)) :
             (h \o Body(r))[i] = IF i <= Len(h) THEN h[i] ELSE Body(r)[i - Len(h)]
    BY <1>1, <1>2, ConcatProperties
  <2> QED BY <1>1, <2>1
<1>5. \A i \in 1 .. Len(Stream(r)) : Stream(r)[i] \in S
  BY <1>3, <1>4, ElementOfSeq
<1>6. \A i \in 1 .. 5 : Stream(r)[i] = h[i]
  BY <1>2, <1>3, <1>4
<1>7. Len(Stream(r)) = 5 + Len(Body(r))
  BY <1>3, <1>4
<1>8. Stream(r)[1] = "m1" /\ Stream(r)[2] = "m2" /\ Stream(r)[5] = "e2"
  BY <1>1, <1>6
<1>9. \A i \in 1 .. Len(Stream(r)) : Stream(r)[i] # "nl"
  BY <1>5
<1> QED BY <1>7, <1>8, <1>9

\* A line has its newline at its end and nowhere else, and is not taken for HTTP.
LEMMA LineStream ==
  ASSUME NEW r, r.proto # "http"
  PROVE  /\ Len(Stream(r)) \in Nat
         /\ \A i \in 1 .. Len(Stream(r)) :
              /\ Stream(r)[i] = "nl" => i = Len(Stream(r))
              /\ Stream(r)[i] # "m1"
<1> DEFINE S == {"cmd", "token", "secret", "opt"}
           T == S \cup {"nl"}
           a == <<"cmd">>
           g == Given(r.auth, "token")
           p == (a \o g) \o Body(r)
           z == <<"nl">>
<1>1. a \in Seq(S) /\ g \in Seq(S) /\ Body(r) \in Seq(S)
  <2>1. g = <<"token">> \/ g = <<>>
    BY DEF Given
  <2>2. a \in Seq(S)
    BY OnePiece
  <2>3. Body(r) \in Seq(S)
    BY BodySeq
  <2> HIDE DEF g
  <2> QED BY <2>1, <2>2, <2>3, OnePiece
<1>2. a \o g \in Seq(S)
  BY <1>1, ConcatProperties
<1>3. p \in Seq(S)
  BY <1>1, <1>2, ConcatProperties
<1>4. Stream(r) = p \o z
  BY DEF Stream
<1> HIDE DEF p
<1>5. p \in Seq(T) /\ z \in Seq(T) /\ Len(z) = 1 /\ Len(p) \in Nat
  BY <1>3, LenProperties
<1>6. /\ p \o z \in Seq(T) /\ Len(p \o z) = Len(p) + 1
      /\ \A i \in 1 .. Len(p) + 1 : (p \o z)[i] = IF i <= Len(p) THEN p[i] ELSE z[i - Len(p)]
  BY <1>5, ConcatProperties
<1>7. \A i \in 1 .. Len(p) : p[i] \in S
  BY <1>3, ElementOfSeq
<1>8. \A i \in 1 .. Len(p) + 1 : (p \o z)[i] \in T
  BY <1>6, ElementOfSeq
<1> QED BY <1>4, <1>5, <1>6, <1>7, <1>8

\* What ends the loop of recv is the whole request.
LEMMA CompleteIsWhole ==
  ASSUME NEW r, NEW n \in Nat, n <= Len(Stream(r)), Complete(r, n)
  PROVE  n = Len(Stream(r))
<1>1. CASE r.proto = "http"
  <2>1. "nl" \notin Got(r, n)
    BY <1>1, HttpStream, BodySeq DEF Got
  <2>2. n >= 5 + Len(Body(r))
    BY <2>1 DEF Complete
  <2> QED BY <1>1, <2>2, HttpStream, BodySeq
<1>2. CASE r.proto # "http"
  <2>1. "m1" \notin Got(r, n)
    BY <1>2, LineStream DEF Got
  <2>2. "nl" \in Got(r, n)
    BY <2>1 DEF Complete, IsHttp
  <2> QED BY <1>2, <2>2, LineStream DEF Got
<1> QED BY <1>1, <1>2

-----------------------------------------------------------------------------
(* The invariant: what the thread has taken of a request, and who is at    *)
(* the lock.                                                               *)

AdminPlaces == {"accept", "recv", "parse", "change", "changed", "look", "format", "list",
                "lines", "send", "close"}

ClientRecord == [state: {"out", "waiting", "served", "gone"}, req: AdminRequests \cup {0},
                 sent: Nat, unread: {0, 1}, ended: BOOLEAN]

AdminTypes ==
  /\ acl \in [AdminClients -> ClientRecord]
  /\ backlog \in Seq(AdminClients)
  /\ asrv \in [pc: AdminPlaces, client: AdminClients \cup {0}, in: 0 .. AdminBuf, left: Nat]
  /\ alock \in [readers: SUBSET {"admin", "proxy"}, writer: {"none", "admin", "proxy"}]
  /\ proxying \in {"idle", "wantrd", "rd", "wantwr", "wr"}

\* ext_secret_lock is held where the code is between its lock and its unlock, and
\* nowhere else.
LockPlaces ==
  /\ alock.writer = "admin" <=> asrv.pc = "changed"
  /\ "admin" \in alock.readers <=> asrv.pc \in {"format", "lines"}
  /\ alock.writer = "proxy" <=> proxying = "wr"
  /\ "proxy" \in alock.readers <=> proxying = "rd"
  /\ alock.writer # "none" => alock.readers = {}

\* A client waits once, and has sent nothing that was looked at.
WaitsOnce ==
  /\ \A i \in 1 .. Len(backlog) : acl[backlog[i]].state = "waiting"
  /\ \A i, j \in 1 .. Len(backlog) : backlog[i] = backlog[j] => i = j
  /\ \A c \in AdminClients : acl[c].state \in {"out", "waiting"} => acl[c].sent = 0

\* What the loop of recv leaves is the whole request, unless the client ended it or
\* it does not fit.
WholeOrCut ==
  asrv.pc # "accept" =>
    /\ asrv.client \in AdminClients
    /\ Me.state \in {"served", "gone"}
    /\ Me.sent <= Len(Stream(Me.req)) /\ asrv.in <= Me.sent
    /\ asrv.pc # "recv" =>
         asrv.in = Len(Stream(Me.req)) \/ Me.ended \/ Len(Stream(Me.req)) > AdminBuf

OneCall == ran # <<>> => asrv.pc \in {"changed", "send", "close"} /\ ran = <<Asked>>

AdminInv == AdminTypes /\ LockPlaces /\ WaitsOnce /\ WholeOrCut /\ OneCall

LEMMA StreamLen == ASSUME NEW r PROVE Len(Stream(r)) \in Nat
<1>1. CASE r.proto = "http"
  BY <1>1, HttpStream, BodySeq
<1>2. CASE r.proto # "http"
  BY <1>2, LineStream
<1> QED BY <1>1, <1>2

LEMMA AdminInvInit == AdminInit => AdminInv
<1> SUFFICES ASSUME AdminInit PROVE AdminInv
  OBVIOUS
<1> USE AdminAssumption DEF AdminInit, AdminIdle, NoClient
<1>1. AdminTypes
  BY DEF AdminTypes, AdminPlaces, ClientRecord
<1>2. LockPlaces /\ WaitsOnce /\ WholeOrCut /\ OneCall
  BY DEF LockPlaces, WaitsOnce, WholeOrCut, OneCall
<1> QED BY <1>1, <1>2 DEF AdminInv

-----------------------------------------------------------------------------
(* The lock.                                                               *)

LEMMA TakeRead ==
  ASSUME AdminTypes, NEW t \in {"admin", "proxy"}, Take(t, "read")
  PROVE  alock'.readers = alock.readers \cup {t} /\ alock'.writer = alock.writer
BY DEF AdminTypes, Take

LEMMA TakeWrite ==
  ASSUME AdminTypes, NEW t \in {"admin", "proxy"}, Take(t, "write")
  PROVE  alock'.readers = alock.readers /\ alock'.writer = t
BY DEF AdminTypes, Take

LEMMA DropBoth ==
  ASSUME AdminTypes, NEW t \in {"admin", "proxy"}, Drop(t)
  PROVE  /\ alock'.readers = alock.readers \ {t}
         /\ alock'.writer = IF alock.writer = t THEN "none" ELSE alock.writer
BY DEF AdminTypes, Drop

LEMMA LockType ==
  ASSUME AdminTypes, NEW t \in {"admin", "proxy"},
         Take(t, "read") \/ Take(t, "write") \/ Drop(t)
  PROVE  alock' \in [readers: SUBSET {"admin", "proxy"}, writer: {"none", "admin", "proxy"}]
BY DEF AdminTypes, Take, Drop

\* The server moves from pc to another place with the same client and input.
MovesTo(pc, left) ==
  /\ asrv'.pc = pc /\ asrv'.client = asrv.client /\ asrv'.in = asrv.in
  /\ asrv' \in [pc: AdminPlaces, client: AdminClients \cup {0}, in: 0 .. AdminBuf, left: Nat]

LEMMA ReplyMoves ==
  ASSUME AdminTypes, NEW n \in Nat, Reply(n) PROVE MovesTo("send", n)
BY DEF AdminTypes, Reply, MovesTo, AdminPlaces

\* A step of the thread after the request has been read, with the lock as it goes.
LEMMA ServedStep ==
  ASSUME AdminInv, NEW pc, NEW left, MovesTo(pc, left),
         asrv.pc \notin {"accept", "recv"}, pc # "accept", pc # "recv",
         UNCHANGED <<backlog, acl, proxying>>,
         alock' \in [readers: SUBSET {"admin", "proxy"}, writer: {"none", "admin", "proxy"}],
         LockPlaces',
         \/ UNCHANGED ran /\ (ran # <<>> => pc \in {"changed", "send", "close"})
         \/ ran = <<>> /\ ran' = <<Asked>> /\ pc = "changed"
  PROVE  AdminInv'
<1>1. AdminTypes'
  BY DEF AdminInv, AdminTypes, MovesTo
<1>2. Asked' = Asked
  BY DEF MovesTo, Asked, Me
<1>3. WaitsOnce'
  BY DEF AdminInv, WaitsOnce
<1>4. WholeOrCut'
  BY DEF AdminInv, WholeOrCut, MovesTo, Me
<1>5. OneCall'
  BY <1>2 DEF AdminInv, OneCall, MovesTo
<1> QED BY <1>1, <1>3, <1>4, <1>5 DEF AdminInv

-----------------------------------------------------------------------------
(* The admin thread, step by step.                                         *)

LEMMA AcceptStep ==
  ASSUME AdminInv, AdminAccept PROVE AdminInv'
<1> USE DEF AdminInv
<1> DEFINE c == Head(backlog)
<1>1. /\ c \in AdminClients /\ Tail(backlog) \in Seq(AdminClients)
      /\ Len(Tail(backlog)) = Len(backlog) - 1 /\ c = backlog[1] /\ Len(backlog) \in Nat \ {0}
      /\ \A i \in 1 .. Len(Tail(backlog)) : Tail(backlog)[i] = backlog[i + 1]
  <2>1. backlog \in Seq(AdminClients) /\ backlog # <<>>
    BY DEF AdminAccept, AdminTypes
  <2> QED BY <2>1, HeadTailProperties, LenProperties, EmptySeq
<1> HIDE DEF c
<1>2. PICK r \in AdminRequests : acl' = [acl EXCEPT ![c].state = "served", ![c].req = r]
  BY DEF AdminAccept, c
<1>3. /\ acl'[c] = [acl[c] EXCEPT !.state = "served", !.req = r]
      /\ \A d \in AdminClients \ {c} : acl'[d] = acl[d]
      /\ acl' \in [AdminClients -> ClientRecord]
  <2>1. acl[c] \in ClientRecord
    BY <1>1 DEF AdminTypes
  <2>2. acl' = [acl EXCEPT ![c] = [acl[c] EXCEPT !.state = "served", !.req = r]]
    BY <1>1, <1>2 DEF AdminTypes
  <2>3. [acl[c] EXCEPT !.state = "served", !.req = r] \in ClientRecord
    BY <2>1 DEF ClientRecord
  <2> QED BY <1>1, <2>2, <2>3 DEF AdminTypes
<1>4. /\ asrv' \in [pc: AdminPlaces, client: AdminClients \cup {0}, in: 0 .. AdminBuf, left: Nat]
      /\ asrv'.pc = "recv" /\ asrv'.client = c /\ asrv'.in = 0
  <2>1. asrv' = [pc |-> "recv", client |-> c, in |-> 0, left |-> 0]
    BY DEF AdminAccept, AdminIdle, c
  <2> QED BY <1>1, <2>1, AdminAssumption DEF AdminPlaces
<1>5. asrv.pc = "accept" /\ UNCHANGED <<alock, proxying, ran>> /\ backlog' = Tail(backlog)
  BY DEF AdminAccept
<1>6. AdminTypes'
  BY <1>1, <1>3, <1>4, <1>5 DEF AdminTypes
<1>7. LockPlaces'
  BY <1>4, <1>5 DEF LockPlaces
<1>8. acl[c].state = "waiting" /\ acl[c].sent = 0
  BY <1>1 DEF WaitsOnce
<1>9. WaitsOnce'
  <2>1. \A i \in 1 .. Len(backlog') : i + 1 \in 1 .. Len(backlog) /\ backlog'[i] = backlog[i + 1]
    BY <1>1, <1>5
  <2>2. \A i \in 1 .. Len(backlog') : backlog'[i] # c
    BY <1>1, <2>1 DEF WaitsOnce
  <2>3. \A i \in 1 .. Len(backlog') : acl'[backlog'[i]].state = "waiting"
    <3> SUFFICES ASSUME NEW i \in 1 .. Len(backlog') PROVE acl'[backlog'[i]].state = "waiting"
      OBVIOUS
    <3>1. backlog'[i] \in AdminClients \ {c} /\ acl[backlog'[i]].state = "waiting"
      BY <1>1, <1>5, <2>1, <2>2, ElementOfSeq DEF WaitsOnce
    <3> QED BY <1>3, <3>1
  <2>4. \A i, j \in 1 .. Len(backlog') : backlog'[i] = backlog'[j] => i = j
    <3> SUFFICES ASSUME NEW i \in 1 .. Len(backlog'), NEW j \in 1 .. Len(backlog'),
                        backlog'[i] = backlog'[j]
                 PROVE  i = j
      OBVIOUS
    <3>1. i + 1 = j + 1
      BY <2>1 DEF WaitsOnce
    <3> QED BY <1>1, <1>5, <3>1
  <2>5. acl'[c].state = "served"
    BY <1>1, <1>3 DEF AdminTypes, ClientRecord
  <2>6. \A d \in AdminClients : acl'[d].state \in {"out", "waiting"} => acl'[d].sent = 0
    BY <1>3, <2>5 DEF WaitsOnce
  <2> QED BY <2>3, <2>4, <2>6 DEF WaitsOnce
<1>10. WholeOrCut'
  <2>1. acl'[c].state = "served" /\ acl'[c].req = r /\ acl'[c].sent = 0
    BY <1>1, <1>3, <1>8 DEF AdminTypes, ClientRecord
  <2> QED BY <1>1, <1>4, <2>1, StreamLen DEF WholeOrCut, Me
<1>11. OneCall'
  BY <1>5 DEF OneCall
<1> QED BY <1>6, <1>7, <1>9, <1>10, <1>11

LEMMA RecvStep ==
  ASSUME AdminInv, AdminRecv PROVE AdminInv'
<1> USE DEF AdminInv
<1>0. asrv.pc = "recv" /\ UNCHANGED <<backlog, acl, alock, proxying, ran>>
  BY DEF AdminRecv
<1>1. PICK n \in asrv.in + 1 .. Me.sent :
        /\ n <= AdminBuf
        /\ asrv' = [asrv EXCEPT !.in = n,
             !.pc = IF Complete(Me.req, n) \/ n = AdminBuf THEN "parse" ELSE "recv"]
  BY DEF AdminRecv
<1>2. asrv.client \in AdminClients /\ Me \in ClientRecord
  BY <1>0 DEF WholeOrCut, AdminTypes, Me
<1>3. asrv.in \in Nat /\ n \in Nat /\ n <= Me.sent /\ AdminBuf \in Nat
  BY <1>1, <1>2, AdminAssumption DEF AdminTypes, ClientRecord
<1>4. asrv'.client = asrv.client /\ asrv'.in = n /\ asrv'.pc \in {"parse", "recv"} /\ Me' = Me
  BY <1>0, <1>1 DEF AdminTypes, Me
<1>5. AdminTypes'
  <2>1. asrv' \in [pc: AdminPlaces, client: AdminClients \cup {0}, in: 0 .. AdminBuf, left: Nat]
    <3> DEFINE pc == IF Complete(Me.req, n) \/ n = AdminBuf THEN "parse" ELSE "recv"
    <3>1. pc \in AdminPlaces /\ n \in 0 .. AdminBuf
      BY <1>1, <1>3 DEF AdminPlaces
    <3>2. asrv' = [asrv EXCEPT !.in = n, !.pc = pc]
      BY <1>1
    <3> HIDE DEF pc
    <3> QED BY <3>1, <3>2 DEF AdminTypes
  <2> QED BY <1>0, <2>1 DEF AdminTypes
<1>6. LockPlaces' /\ WaitsOnce' /\ OneCall'
  BY <1>0, <1>4 DEF LockPlaces, WaitsOnce, OneCall
<1>7. WholeOrCut'
  <2>1. Len(Stream(Me.req)) \in Nat /\ Me.sent <= Len(Stream(Me.req)) /\ Me.sent \in Nat
    BY <1>0, <1>2, StreamLen DEF WholeOrCut, ClientRecord
  <2>2. ASSUME asrv'.pc = "parse" PROVE n = Len(Stream(Me.req)) \/ Len(Stream(Me.req)) > AdminBuf
    <3>1. Complete(Me.req, n) \/ n = AdminBuf
      BY <1>1, <2>2 DEF AdminTypes
    <3>2. CASE Complete(Me.req, n)
      BY <1>3, <2>1, <3>2, CompleteIsWhole
    <3>3. CASE n = AdminBuf
      BY <1>3, <2>1, <3>3
    <3> QED BY <3>1, <3>2, <3>3
  <2> QED BY <1>0, <1>2, <1>3, <1>4, <2>1, <2>2 DEF WholeOrCut
<1> QED BY <1>5, <1>6, <1>7

LEMMA EofStep ==
  ASSUME AdminInv, AdminEof PROVE AdminInv'
<1> USE DEF AdminInv
<1>1. asrv.pc = "recv" /\ Me.ended /\ UNCHANGED <<backlog, acl, alock, proxying, ran>>
  BY DEF AdminEof
<1>2. /\ asrv'.client = asrv.client /\ asrv'.in = asrv.in /\ asrv'.pc \in {"parse", "close"}
      /\ Me' = Me
      /\ asrv' \in [pc: AdminPlaces, client: AdminClients \cup {0}, in: 0 .. AdminBuf, left: Nat]
  BY <1>1 DEF AdminEof, AdminTypes, Me, AdminPlaces
<1>3. AdminTypes'
  BY <1>1, <1>2 DEF AdminTypes
<1>4. LockPlaces' /\ WaitsOnce' /\ OneCall'
  BY <1>1, <1>2 DEF LockPlaces, WaitsOnce, OneCall
<1>5. WholeOrCut'
  BY <1>1, <1>2 DEF WholeOrCut
<1> QED BY <1>3, <1>4, <1>5

\* A place of the thread as it is set.
LEMMA SetPlace ==
  ASSUME AdminTypes, NEW pc \in AdminPlaces, asrv' = [asrv EXCEPT !.pc = pc]
  PROVE  MovesTo(pc, asrv.left)
BY DEF AdminTypes, MovesTo

LEMMA ParseStep ==
  ASSUME AdminInv, AdminParse PROVE AdminInv'
<1>1. asrv.pc = "parse" /\ UNCHANGED <<backlog, acl, alock, proxying, ran>>
  BY DEF AdminParse
<1>2. AdminTypes /\ ran = <<>>
  BY <1>1 DEF AdminInv, OneCall
<1>3. \E pc \in {"send", "list", "look", "change"} : \E left : MovesTo(pc, left)
  <2>1. \/ Reply(1)
        \/ \E pc \in {"list", "look", "change"} : asrv' = [asrv EXCEPT !.pc = pc]
    BY DEF AdminParse
  <2>2. CASE Reply(1)
    BY <1>2, <2>2, ReplyMoves
  <2>3. ASSUME NEW pc \in {"list", "look", "change"}, asrv' = [asrv EXCEPT !.pc = pc]
        PROVE  MovesTo(pc, asrv.left)
    BY <1>2, <2>3, SetPlace DEF AdminPlaces
  <2> QED BY <2>1, <2>2, <2>3
<1>4. PICK pc \in {"send", "list", "look", "change"} : \E left : MovesTo(pc, left)
  BY <1>3
<1>5. PICK left : MovesTo(pc, left)
  BY <1>4
<1>6. LockPlaces'
  BY <1>1, <1>5 DEF AdminInv, LockPlaces, MovesTo
<1>7. alock' \in [readers: SUBSET {"admin", "proxy"}, writer: {"none", "admin", "proxy"}]
  BY <1>1, <1>2 DEF AdminTypes
<1> QED BY <1>1, <1>2, <1>5, <1>6, <1>7, ServedStep

LEMMA ChangeStep ==
  ASSUME AdminInv, AdminChange PROVE AdminInv'
<1>1. /\ asrv.pc = "change" /\ UNCHANGED <<backlog, acl, proxying>> /\ MayWrite
      /\ Take("admin", "write") /\ asrv' = [asrv EXCEPT !.pc = "changed"]
      /\ ran' = Append(ran, Asked)
  BY DEF AdminChange
<1>2. AdminTypes /\ ran = <<>>
  BY <1>1 DEF AdminInv, OneCall
<1>3. MovesTo("changed", asrv.left)
  BY <1>1, <1>2, SetPlace DEF AdminPlaces
<1>4. alock'.readers = alock.readers /\ alock'.writer = "admin"
  BY <1>1, <1>2, TakeWrite
<1>5. LockPlaces'
  BY <1>1, <1>3, <1>4 DEF AdminInv, LockPlaces, MovesTo, MayWrite
<1>6. alock' \in [readers: SUBSET {"admin", "proxy"}, writer: {"none", "admin", "proxy"}]
  BY <1>1, <1>2, LockType
<1>7. ran' = <<Asked>>
  BY <1>1, <1>2
<1> QED BY <1>1, <1>2, <1>3, <1>5, <1>6, <1>7, ServedStep

\* The lock is given back and the reply begins.
LEMMA DropAndReply ==
  ASSUME AdminInv, asrv.pc \in {"changed", "format", "lines"}, Drop("admin"), NEW n \in Nat,
         Reply(n), UNCHANGED <<backlog, acl, proxying, ran>>
  PROVE  AdminInv'
<1>1. AdminTypes
  BY DEF AdminInv
<1>2. MovesTo("send", n)
  BY <1>1, ReplyMoves
<1>3. /\ alock'.readers = alock.readers \ {"admin"}
      /\ alock'.writer = IF alock.writer = "admin" THEN "none" ELSE alock.writer
  BY <1>1, DropBoth
<1>4. LockPlaces'
  BY <1>2, <1>3 DEF AdminInv, LockPlaces, MovesTo
<1>5. alock' \in [readers: SUBSET {"admin", "proxy"}, writer: {"none", "admin", "proxy"}]
  BY <1>1, LockType
<1> QED BY <1>2, <1>4, <1>5, ServedStep

\* The lock is taken for reading.
LEMMA TakeAndGo ==
  ASSUME AdminInv, asrv.pc \in {"look", "list"}, MayRead, Take("admin", "read"),
         NEW pc \in {"format", "lines"}, NEW left, MovesTo(pc, left),
         UNCHANGED <<backlog, acl, proxying, ran>>
  PROVE  AdminInv'
<1>1. AdminTypes /\ ran = <<>>
  BY DEF AdminInv, OneCall
<1>2. alock'.readers = alock.readers \cup {"admin"} /\ alock'.writer = alock.writer
  BY <1>1, TakeRead
<1>3. LockPlaces'
  BY <1>2 DEF AdminInv, LockPlaces, MovesTo, MayRead
<1>4. alock' \in [readers: SUBSET {"admin", "proxy"}, writer: {"none", "admin", "proxy"}]
  BY <1>1, LockType
<1> QED BY <1>1, <1>3, <1>4, ServedStep

LEMMA SendStep ==
  ASSUME AdminInv, AdminSend PROVE AdminInv'
<1> USE DEF AdminInv
<1> DEFINE c == asrv.client
           n == IF Me.state = "gone" THEN 0 ELSE 1
<1>1. /\ asrv.pc \in {"send", "lines"} /\ asrv.left > 0 /\ asrv' = [asrv EXCEPT !.left = @ - 1]
      /\ UNCHANGED <<backlog, alock, proxying, ran>> /\ acl' = [acl EXCEPT ![c].unread = n]
  BY DEF AdminSend
<1>2. c \in AdminClients /\ acl[c] \in ClientRecord /\ n \in {0, 1}
  BY <1>1 DEF WholeOrCut, AdminTypes
<1> HIDE DEF c, n
<1>3. /\ acl' \in [AdminClients -> ClientRecord]
      /\ \A d \in AdminClients : /\ acl'[d].state = acl[d].state /\ acl'[d].req = acl[d].req
                                 /\ acl'[d].sent = acl[d].sent /\ acl'[d].ended = acl[d].ended
  <2>1. acl' = [acl EXCEPT ![c] = [acl[c] EXCEPT !.unread = n]]
    BY <1>1, <1>2 DEF AdminTypes
  <2>2. [acl[c] EXCEPT !.unread = n] \in ClientRecord
    BY <1>2 DEF ClientRecord
  <2> QED BY <1>2, <2>1, <2>2 DEF AdminTypes, ClientRecord
<1>4. /\ asrv'.pc = asrv.pc /\ asrv'.client = asrv.client /\ asrv'.in = asrv.in
      /\ asrv' \in [pc: AdminPlaces, client: AdminClients \cup {0}, in: 0 .. AdminBuf, left: Nat]
  <2>1. asrv.left - 1 \in Nat
    BY <1>1 DEF AdminTypes
  <2> QED BY <1>1, <2>1 DEF AdminTypes
<1>5. AdminTypes'
  BY <1>1, <1>3, <1>4 DEF AdminTypes
<1>6. LockPlaces'
  BY <1>1, <1>4 DEF LockPlaces
<1>7. WaitsOnce'
  <2>1. \A i \in 1 .. Len(backlog) : backlog[i] \in AdminClients
    BY ElementOfSeq DEF AdminTypes
  <2> QED BY <1>1, <1>3, <2>1 DEF WaitsOnce
<1>8. /\ Me'.state = Me.state /\ Me'.req = Me.req /\ Me'.sent = Me.sent /\ Me'.ended = Me.ended
  BY <1>2, <1>3, <1>4 DEF Me, c
<1>9. WholeOrCut'
  BY <1>1, <1>4, <1>8 DEF WholeOrCut
<1>10. OneCall'
  BY <1>1, <1>4, <1>8 DEF OneCall, Asked
<1> QED BY <1>5, <1>6, <1>7, <1>9, <1>10

LEMMA CloseStep ==
  ASSUME AdminInv, AdminClose PROVE AdminInv'
<1> USE DEF AdminInv
<1> DEFINE c == asrv.client
<1>1. /\ asrv.pc \in {"close", "send"} /\ acl' = [acl EXCEPT ![c] = NoClient]
      /\ asrv' = AdminIdle /\ ran' = <<>> /\ UNCHANGED <<backlog, alock, proxying>>
  BY DEF AdminClose
<1>2. c \in AdminClients /\ acl[c].state \in {"served", "gone"}
  BY <1>1 DEF WholeOrCut, Me
<1> HIDE DEF c
<1>3. NoClient \in ClientRecord
  BY DEF NoClient, ClientRecord
<1>4. /\ acl' \in [AdminClients -> ClientRecord] /\ acl'[c] = NoClient
      /\ \A d \in AdminClients \ {c} : acl'[d] = acl[d]
  BY <1>1, <1>2, <1>3 DEF AdminTypes
<1>5. AdminTypes'
  BY <1>1, <1>4, AdminAssumption DEF AdminTypes, AdminIdle, AdminPlaces
<1>6. LockPlaces'
  BY <1>1 DEF LockPlaces, AdminIdle
<1>7. WaitsOnce'
  <2>1. \A i \in 1 .. Len(backlog) : backlog[i] \in AdminClients \ {c}
    BY <1>2, ElementOfSeq DEF AdminTypes, WaitsOnce
  <2> QED BY <1>1, <1>4, <2>1 DEF WaitsOnce, NoClient
<1>8. WholeOrCut' /\ OneCall'
  BY <1>1 DEF WholeOrCut, OneCall, AdminIdle
<1> QED BY <1>5, <1>6, <1>7, <1>8

LEMMA AdminStepInv ==
  ASSUME AdminInv, AdminStep PROVE AdminInv'
<1>0. AdminTypes
  BY DEF AdminInv
<1>1. CASE AdminAccept \/ AdminRecv \/ AdminEof \/ AdminParse \/ AdminChange
  BY <1>1, AcceptStep, RecvStep, EofStep, ParseStep, ChangeStep
<1>2. CASE AdminChanged
  BY <1>2, DropAndReply DEF AdminChanged
<1>3. CASE AdminLook
  <2>1. MovesTo("format", asrv.left)
    BY <1>0, <1>3, SetPlace DEF AdminLook, AdminPlaces
  <2> QED BY <1>3, <2>1, TakeAndGo DEF AdminLook
<1>4. CASE AdminLooked
  <2>1. PICK n \in {1, 2} : Reply(n)
    BY <1>4 DEF AdminLooked
  <2> QED BY <1>4, <2>1, DropAndReply DEF AdminLooked
<1>5. CASE AdminList
  <2>1. MovesTo("lines", 1 + AdminSecrets)
    <3>1. 1 + AdminSecrets \in Nat /\ "lines" \in AdminPlaces
      BY AdminAssumption DEF AdminPlaces
    <3>2. asrv' = [asrv EXCEPT !.pc = "lines", !.left = 1 + AdminSecrets]
      BY <1>5 DEF AdminList
    <3> QED BY <1>0, <3>1, <3>2 DEF AdminTypes, MovesTo
  <2> QED BY <1>5, <2>1, TakeAndGo DEF AdminList
<1>6. CASE AdminSend \/ AdminClose
  BY <1>6, SendStep, CloseStep
<1>7. CASE AdminListed
  BY <1>7, DropAndReply DEF AdminListed
<1> QED BY <1>1, <1>2, <1>3, <1>4, <1>5, <1>6, <1>7 DEF AdminStep

-----------------------------------------------------------------------------
(* The clients, and the thread of the client connections.                  *)

\* One client's record changes, and the rest is as it was.
GoesOn(old, rec) ==
  /\ rec.state = old.state \/ (old.state = "served" /\ rec.state = "gone")
  /\ rec.state \in {"out", "waiting"} => rec.sent = 0
  /\ rec.req = old.req /\ (old.ended => rec.ended)
  /\ old.sent <= rec.sent
  /\ rec.sent <= Len(Stream(rec.req)) \/ rec.sent = old.sent

LEMMA ClientStep ==
  ASSUME AdminInv, NEW c \in AdminClients, NEW rec \in ClientRecord, GoesOn(acl[c], rec),
         acl' = [acl EXCEPT ![c] = rec], UNCHANGED <<backlog, asrv, alock, proxying, ran>>
  PROVE  AdminInv'
<1> USE DEF AdminInv
<1>1. acl' \in [AdminClients -> ClientRecord] /\ acl'[c] = rec
      /\ \A d \in AdminClients \ {c} : acl'[d] = acl[d]
  BY DEF AdminTypes
<1>2. AdminTypes' /\ LockPlaces'
  BY <1>1 DEF AdminTypes, LockPlaces
<1>3. WaitsOnce'
  <2>1. \A i \in 1 .. Len(backlog) : backlog[i] \in AdminClients
    BY ElementOfSeq DEF AdminTypes
  <2>2. \A i \in 1 .. Len(backlog) : acl'[backlog[i]].state = "waiting"
    BY <1>1, <2>1 DEF WaitsOnce, GoesOn
  <2>3. \A d \in AdminClients : acl'[d].state \in {"out", "waiting"} => acl'[d].sent = 0
    BY <1>1 DEF WaitsOnce, GoesOn
  <2> QED BY <2>2, <2>3 DEF WaitsOnce
<1>4. CASE asrv.pc = "accept"
  BY <1>2, <1>3, <1>4 DEF WholeOrCut, OneCall
<1>5. CASE asrv.pc # "accept"
  <2>1. asrv.client \in AdminClients /\ Me \in ClientRecord /\ Me' \in ClientRecord
    BY <1>1, <1>5 DEF WholeOrCut, Me, AdminTypes
  <2>2. Me' = Me \/ (Me = acl[c] /\ Me' = rec)
    BY <1>1, <2>1 DEF Me
  <2>3. GoesOn(Me, Me')
    <3>1. CASE Me' = Me
      <4>1. Me.sent <= Me.sent
        BY <2>1 DEF ClientRecord
      <4>2. Me.state \in {"served", "gone"}
        BY <1>5 DEF WholeOrCut
      <4> QED BY <2>1, <3>1, <4>1, <4>2 DEF GoesOn
    <3> QED BY <2>1, <2>2, <3>1
  <2>4. Me.sent \in Nat /\ Me'.sent \in Nat /\ asrv.in \in Nat /\ asrv' = asrv
    BY <2>1, AdminAssumption DEF ClientRecord, AdminTypes
  <2>5. Len(Stream(Me.req)) \in Nat /\ Me.sent <= Len(Stream(Me.req)) /\ asrv.in <= Me.sent
    BY <1>5, StreamLen DEF WholeOrCut
  <2>6. Me'.state \in {"served", "gone"} /\ Me'.req = Me.req /\ (Me.ended => Me'.ended)
    BY <1>5, <2>3 DEF WholeOrCut, GoesOn
  <2>7. Me'.sent <= Len(Stream(Me.req)) /\ asrv.in <= Me'.sent
    BY <2>3, <2>4, <2>5, <2>6 DEF GoesOn
  <2>8. WholeOrCut'
    BY <1>5, <2>1, <2>4, <2>6, <2>7 DEF WholeOrCut
  <2>9. Asked' = Asked
    BY <2>4, <2>6 DEF Asked
  <2>10. OneCall'
    BY <2>4, <2>9 DEF OneCall
  <2> QED BY <1>2, <1>3, <2>8, <2>10
<1> QED BY <1>4, <1>5

LEMMA ConnectStep ==
  ASSUME AdminInv, NEW c \in AdminClients, ClientConnects(c) PROVE AdminInv'
<1> USE DEF AdminInv
<1>1. /\ acl[c].state = "out" /\ acl' = [acl EXCEPT ![c].state = "waiting"]
      /\ backlog' = Append(backlog, c) /\ UNCHANGED <<asrv, alock, proxying, ran>>
  BY DEF ClientConnects
<1>2. /\ acl' \in [AdminClients -> ClientRecord]
      /\ acl'[c].state = "waiting" /\ acl'[c].sent = 0
      /\ \A d \in AdminClients \ {c} : acl'[d] = acl[d]
  <2>1. acl[c] \in ClientRecord /\ acl[c].sent = 0
    BY <1>1 DEF AdminTypes, WaitsOnce
  <2>2. acl' = [acl EXCEPT ![c] = [acl[c] EXCEPT !.state = "waiting"]]
    BY <1>1 DEF AdminTypes
  <2>3. [acl[c] EXCEPT !.state = "waiting"] \in ClientRecord
    BY <2>1 DEF ClientRecord
  <2> QED BY <2>1, <2>2, <2>3 DEF AdminTypes, ClientRecord
<1>3. /\ backlog' \in Seq(AdminClients) /\ Len(backlog') = Len(backlog) + 1
      /\ \A i \in 1 .. Len(backlog) : backlog'[i] = backlog[i]
      /\ backlog'[Len(backlog) + 1] = c /\ Len(backlog) \in Nat
  BY <1>1, AppendProperties, LenProperties DEF AdminTypes
<1>4. AdminTypes' /\ LockPlaces'
  BY <1>1, <1>2, <1>3 DEF AdminTypes, LockPlaces
<1>5. WaitsOnce'
  <2>1. \A i \in 1 .. Len(backlog) : backlog[i] \in AdminClients \ {c}
    BY <1>1, ElementOfSeq DEF AdminTypes, WaitsOnce
  <2>2. \A i \in 1 .. Len(backlog') : i \in 1 .. Len(backlog) \/ i = Len(backlog) + 1
    BY <1>3
  <2>3. \A i \in 1 .. Len(backlog') : acl'[backlog'[i]].state = "waiting"
    BY <1>2, <1>3, <2>1, <2>2 DEF WaitsOnce
  <2>4. \A i, j \in 1 .. Len(backlog') : backlog'[i] = backlog'[j] => i = j
    BY <1>3, <2>1, <2>2 DEF WaitsOnce
  <2>5. \A d \in AdminClients : acl'[d].state \in {"out", "waiting"} => acl'[d].sent = 0
    BY <1>2 DEF WaitsOnce
  <2> QED BY <2>3, <2>4, <2>5 DEF WaitsOnce
<1>6. WholeOrCut' /\ OneCall'
  <2>1. asrv.pc # "accept" => asrv.client \in AdminClients \ {c}
    BY <1>1 DEF WholeOrCut, Me
  <2>2. asrv.pc # "accept" => Me' = Me
    BY <1>1, <1>2, <2>1 DEF Me
  <2> QED BY <1>1, <2>1, <2>2 DEF WholeOrCut, OneCall, Asked
<1> QED BY <1>4, <1>5, <1>6

\* The records of a client's steps.
LEMMA RecordOf ==
  ASSUME AdminTypes, NEW c \in AdminClients
  PROVE  /\ acl[c] \in ClientRecord
         /\ \A n \in Nat : [acl[c] EXCEPT !.sent = n] \in ClientRecord
         /\ \A n \in Nat : [acl[c] EXCEPT !.sent = n, !.ended = TRUE] \in ClientRecord
         /\ [acl[c] EXCEPT !.ended = TRUE, !.state = "gone"] \in ClientRecord
         /\ [acl[c] EXCEPT !.unread = 0] \in ClientRecord
<1>1. acl[c] \in ClientRecord
  BY DEF AdminTypes
<1> QED BY <1>1 DEF ClientRecord

LEMMA ClientSteps ==
  ASSUME AdminInv, NEW c \in AdminClients,
         ClientSends(c) \/ ClientCuts(c) \/ ClientLeaves(c) \/ ClientReads(c)
  PROVE  AdminInv'
<1>1. AdminTypes /\ acl[c] \in ClientRecord /\ acl[c].sent \in Nat
  BY RecordOf DEF AdminInv, ClientRecord
<1>2. CASE ClientSends(c)
  <2> DEFINE n == Len(Stream(acl[c].req))
             rec == [acl[c] EXCEPT !.sent = n]
  <2>1. n \in Nat /\ rec \in ClientRecord
    BY <1>1, StreamLen, RecordOf
  <2>2. acl' = [acl EXCEPT ![c] = rec]
    BY <1>1, <1>2 DEF ClientSends, AdminTypes
  <2>3. /\ rec.state = acl[c].state /\ rec.req = acl[c].req /\ rec.ended = acl[c].ended
        /\ rec.sent = n /\ acl[c].sent = 0 /\ acl[c].state = "served"
    BY <1>1, <1>2 DEF ClientSends, ClientRecord
  <2>4. UNCHANGED <<backlog, asrv, alock, proxying, ran>>
    BY <1>2 DEF ClientSends
  <2>5. GoesOn(acl[c], rec)
    BY <1>1, <2>1, <2>3 DEF GoesOn
  <2> HIDE DEF rec
  <2> QED BY <2>1, <2>2, <2>4, <2>5, ClientStep
<1>3. CASE ClientCuts(c)
  <2>1. PICK n \in 0 .. Len(Stream(acl[c].req)) :
          acl' = [acl EXCEPT ![c].sent = n, ![c].ended = TRUE]
    BY <1>3 DEF ClientCuts
  <2> DEFINE rec == [acl[c] EXCEPT !.sent = n, !.ended = TRUE]
  <2>2. n \in Nat /\ rec \in ClientRecord /\ n <= Len(Stream(acl[c].req))
    <3>1. n \in Nat /\ n <= Len(Stream(acl[c].req))
      BY <2>1, StreamLen
    <3> QED BY <1>1, <3>1, RecordOf
  <2>3. acl' = [acl EXCEPT ![c] = rec]
    BY <1>1, <2>1 DEF AdminTypes
  <2>4. /\ rec.state = acl[c].state /\ rec.req = acl[c].req /\ rec.ended
        /\ rec.sent = n /\ acl[c].sent = 0 /\ acl[c].state = "served"
    BY <1>1, <1>3 DEF ClientCuts, ClientRecord
  <2>5. UNCHANGED <<backlog, asrv, alock, proxying, ran>>
    BY <1>3 DEF ClientCuts
  <2>6. GoesOn(acl[c], rec)
    BY <1>1, <2>2, <2>4 DEF GoesOn
  <2> HIDE DEF rec
  <2> QED BY <2>2, <2>3, <2>5, <2>6, ClientStep
<1>4. CASE ClientLeaves(c)
  <2> DEFINE rec == [acl[c] EXCEPT !.ended = TRUE, !.state = "gone"]
  <2>1. rec \in ClientRecord
    BY <1>1, RecordOf
  <2>2. acl' = [acl EXCEPT ![c] = rec]
    BY <1>1, <1>4 DEF ClientLeaves, AdminTypes
  <2>3. /\ rec.state = "gone" /\ rec.req = acl[c].req /\ rec.ended
        /\ rec.sent = acl[c].sent /\ acl[c].state = "served"
    BY <1>1, <1>4 DEF ClientLeaves, ClientRecord
  <2>4. UNCHANGED <<backlog, asrv, alock, proxying, ran>>
    BY <1>4 DEF ClientLeaves
  <2>5. GoesOn(acl[c], rec)
    BY <1>1, <2>1, <2>3 DEF GoesOn
  <2> HIDE DEF rec
  <2> QED BY <2>1, <2>2, <2>4, <2>5, ClientStep
<1>5. CASE ClientReads(c)
  <2> DEFINE rec == [acl[c] EXCEPT !.unread = 0]
  <2>1. rec \in ClientRecord
    BY <1>1, RecordOf
  <2>2. acl' = [acl EXCEPT ![c] = rec]
    BY <1>1, <1>5 DEF ClientReads, AdminTypes
  <2>3. /\ rec.state = acl[c].state /\ rec.req = acl[c].req /\ rec.ended = acl[c].ended
        /\ rec.sent = acl[c].sent
    BY <1>1 DEF ClientRecord
  <2>4. rec.state \in {"out", "waiting"} => rec.sent = 0
    BY <2>3 DEF AdminInv, WaitsOnce
  <2>5. UNCHANGED <<backlog, asrv, alock, proxying, ran>>
    BY <1>5 DEF ClientReads
  <2>6. GoesOn(acl[c], rec)
    BY <1>1, <2>1, <2>3, <2>4 DEF GoesOn
  <2> HIDE DEF rec
  <2> QED BY <2>1, <2>2, <2>5, <2>6, ClientStep
<1> QED BY <1>2, <1>3, <1>4, <1>5

\* The other thread at the lock does not touch what the admin thread works with.
LEMMA ProxySteps ==
  ASSUME AdminInv, ProxyStep \/ Handshake PROVE AdminInv'
<1> USE DEF AdminInv
<1>1. UNCHANGED <<backlog, acl, asrv, ran>>
  BY DEF ProxyStep, Handshake
<1>2. WaitsOnce' /\ WholeOrCut' /\ OneCall'
  BY <1>1 DEF WaitsOnce, WholeOrCut, OneCall, Me, Asked
<1>3. proxying' \in {"idle", "wantrd", "rd", "wantwr", "wr"}
  BY DEF ProxyStep, Handshake
<1>4. CASE Handshake
  BY <1>1, <1>2, <1>3, <1>4 DEF Handshake, AdminTypes, LockPlaces
<1>5. CASE proxying = "wantrd" /\ MayRead /\ Take("proxy", "read") /\ proxying' = "rd"
  <2>1. alock'.readers = alock.readers \cup {"proxy"} /\ alock'.writer = alock.writer
    BY <1>5, TakeRead
  <2>2. LockPlaces'
    BY <1>1, <1>5, <2>1 DEF LockPlaces, MayRead
  <2> QED BY <1>1, <1>2, <1>3, <1>5, <2>2, LockType DEF AdminTypes
<1>6. CASE proxying = "wantwr" /\ MayWrite /\ Take("proxy", "write") /\ proxying' = "wr"
  <2>1. alock'.readers = alock.readers /\ alock'.writer = "proxy"
    BY <1>6, TakeWrite
  <2>2. LockPlaces'
    BY <1>1, <1>6, <2>1 DEF LockPlaces, MayWrite
  <2> QED BY <1>1, <1>2, <1>3, <1>6, <2>2, LockType DEF AdminTypes
<1>7. CASE proxying \in {"rd", "wr"} /\ Drop("proxy") /\ proxying' \in {"wantwr", "idle"}
  <2>1. /\ alock'.readers = alock.readers \ {"proxy"}
        /\ alock'.writer = IF alock.writer = "proxy" THEN "none" ELSE alock.writer
    BY <1>7, DropBoth
  <2>2. LockPlaces'
    BY <1>1, <1>7, <2>1 DEF LockPlaces
  <2> QED BY <1>1, <1>2, <1>3, <1>7, <2>2, LockType DEF AdminTypes
<1> QED BY <1>4, <1>5, <1>6, <1>7 DEF ProxyStep

LEMMA AdminInvStep == AdminInv /\ [AdminNext]_adminVars => AdminInv'
<1> SUFFICES ASSUME AdminInv, [AdminNext]_adminVars PROVE AdminInv'
  OBVIOUS
<1>1. CASE AdminStep
  BY <1>1, AdminStepInv
<1>2. CASE ProxyStep \/ Handshake
  BY <1>2, ProxySteps
<1>3. CASE \E c \in AdminClients : ClientConnects(c)
  BY <1>3, ConnectStep
<1>4. CASE \E c \in AdminClients :
             ClientSends(c) \/ ClientCuts(c) \/ ClientLeaves(c) \/ ClientReads(c)
  BY <1>4, ClientSteps
<1>5. CASE UNCHANGED adminVars
  BY <1>5 DEF adminVars, AdminInv, AdminTypes, LockPlaces, WaitsOnce, WholeOrCut, OneCall, Me,
       Asked
<1> QED BY <1>1, <1>2, <1>3, <1>4, <1>5 DEF AdminNext

LEMMA AdminInvariant == AdminSpec => []AdminInv
BY AdminInvInit, AdminInvStep, PTL DEF AdminSpec

\* ext_admin_handle_client: a change is made once, and as the client asked for it,
\* however recv cut the request.
THEOREM MadeAsAsked == AdminSpec => []AdminAsAsked
<1>1. AdminInv => AdminAsAsked
  <2> SUFFICES ASSUME AdminInv, ran # <<>> PROVE AdminAsAsked
    BY DEF AdminAsAsked
  <2>1. asrv.pc \in {"changed", "send", "close"} /\ ran = <<Asked>>
    BY DEF AdminInv, OneCall
  <2>2. asrv.in = Len(Stream(Me.req)) \/ Me.ended \/ Len(Stream(Me.req)) > AdminBuf
    BY <2>1 DEF AdminInv, WholeOrCut
  <2>3. Len(ran) = 1 /\ ran[1] = Parsed(Me.req, asrv.in)
    BY <2>1 DEF Asked
  <2> QED BY <2>2, <2>3 DEF AdminAsAsked
<1> QED BY <1>1, AdminInvariant, PTL

\* Whatever the client asks and whichever way the thread leaves, ext_secret_lock is
\* given back: the thread has it exactly while a change is made, a list or statistics
\* are formatted, or the lines of a text LIST are sent, and the other thread never has
\* it at the same time as one that writes.
THEOREM LockGivenBack == AdminSpec => []LockPlaces
<1>1. AdminInv => LockPlaces
  BY DEF AdminInv
<1> QED BY <1>1, AdminInvariant, PTL

-----------------------------------------------------------------------------
(* DomainProbe.  What is counted is counted of the tries that are finished:*)
(* bounds that are attained, and a sum between them.                       *)

Finished == {i \in Tries : probe[i].finished}

DomainInfo == [pc: {"start", "select", "over", "default", "known", "guessed"}, size: Int,
               random: BOOLEAN, reversed: {0, 1}]

ProbeTypes ==
  /\ answer \in [Tries -> Answers \cup {NoAnswer}]
  /\ probe \in [Tries -> [written: BOOLEAN, pos: 0 .. 4, len: {3, 4}, finished: BOOLEAN]]
  /\ stat \in [finished: Nat, min: Nat, max: Nat, sum: Nat, rmin: {0, 1}, rmax: {0, 1}]
  /\ domain \in DomainInfo

\* min, max and rmin are those of the answers of the tries in F.
Bounds(F, st, ans) ==
  /\ \E i \in F : ans[i].size = st.min
  /\ \E i \in F : ans[i].size = st.max
  /\ \E i \in F : ans[i].reversed = st.rmin
  /\ \A i \in F : /\ st.min <= ans[i].size /\ ans[i].size <= st.max
                  /\ st.rmin <= ans[i].reversed

Summed ==
  /\ stat.finished = Cardinality(Finished)
  /\ Finished # {} => Bounds(Finished, stat, answer)
  /\ stat.finished * stat.min <= stat.sum /\ stat.sum <= stat.finished * stat.max

GoodAnswers == \A i \in Finished : answer[i] \in Answers /\ answer[i].good

Verdict ==
  domain.pc = "known" =>
    /\ Finished = Tries
    /\ domain = [pc |-> "known", reversed |-> stat.rmin, random |-> stat.min # stat.max,
                 size |-> IF stat.min = stat.max THEN stat.min
                          ELSE IF stat.max - stat.min <= 3 THEN stat.max - 1
                          ELSE (stat.sum + Half) \div Cardinality(Tries)]

ProbeInv == ProbeTypes /\ Summed /\ GoodAnswers /\ Verdict

-----------------------------------------------------------------------------
(* Min and Max of FiniteSetsExt.                                           *)

LEMMA MinIs ==
  ASSUME NEW S \in SUBSET Int, NEW m \in S, \A x \in S : m <= x PROVE Min(S) = m
<1>1. Min(S) \in S /\ \A x \in S : Min(S) <= x
  <2>1. \E y \in S : \A x \in S : y <= x
    OBVIOUS
  <2> QED BY <2>1 DEF Min
<1>2. m \in Int /\ Min(S) \in Int /\ Min(S) <= m
  BY <1>1
<1> QED BY <1>1, <1>2

LEMMA MaxIs ==
  ASSUME NEW S \in SUBSET Int, NEW m \in S, \A x \in S : x <= m PROVE Max(S) = m
<1>1. Max(S) \in S /\ \A x \in S : Max(S) >= x
  <2>1. \E y \in S : \A x \in S : y >= x
    OBVIOUS
  <2> QED BY <2>1 DEF Max
<1>2. m \in Int /\ Max(S) \in Int /\ Max(S) >= m
  BY <1>1
<1> QED BY <1>1, <1>2

LEMMA MinOfTwo == 
  ASSUME NEW a \in Nat, NEW b \in Nat PROVE Min({a, b}) = IF a <= b THEN a ELSE b
<1>1. CASE a <= b
  BY <1>1, MinIs
<1>2. CASE ~(a <= b)
  BY <1>2, MinIs
<1> QED BY <1>1, <1>2

LEMMA MaxOfTwo == 
  ASSUME NEW a \in Nat, NEW b \in Nat PROVE Max({a, b}) = IF a <= b THEN b ELSE a
<1>1. CASE a <= b
  BY <1>1, MaxIs
<1>2. CASE ~(a <= b)
  BY <1>2, MaxIs
<1> QED BY <1>1, <1>2

LEMMA FinishedFinite == IsFiniteSet(Finished) /\ Cardinality(Finished) \in Nat
<1>1. Finished \subseteq Tries
  BY DEF Finished
<1> QED BY <1>1, ProbeAssumption, FS_Subset, FS_CardinalityType

-----------------------------------------------------------------------------

\* The sum stays between the bounds as they move apart.
LEMMA Between ==
  ASSUME NEW n \in Nat, NEW lo \in Nat, NEW hi \in Nat, NEW sum \in Nat,
         n * lo <= sum, sum <= n * hi, NEW x \in Nat, NEW lo2 \in Nat, NEW hi2 \in Nat,
         n = 0 \/ (lo2 <= lo /\ hi <= hi2), lo2 <= x, x <= hi2
  PROVE  (n + 1) * lo2 <= sum + x /\ sum + x <= (n + 1) * hi2
<1>1. (n + 1) * lo2 = n * lo2 + lo2 /\ (n + 1) * hi2 = n * hi2 + hi2
  OBVIOUS
<1>2. n * lo2 \in Nat /\ n * hi2 \in Nat /\ n * lo \in Nat /\ n * hi \in Nat
  OBVIOUS
<1>3. n * lo2 <= sum /\ sum <= n * hi2
  <2>1. CASE n = 0
    BY <2>1
  <2>2. CASE lo2 <= lo /\ hi <= hi2
    <3>1. n * lo2 <= n * lo /\ n * hi <= n * hi2
      BY <2>2
    <3> QED BY <1>2, <3>1
  <2> QED BY <2>1, <2>2
<1> QED BY <1>1, <1>2, <1>3

LEMMA CountAdds ==
  ASSUME ProbeTypes, Summed, NEW i \in Tries \ Finished, NEW a \in Answers,
         stat' = Count(stat, a), answer' = [answer EXCEPT ![i] = a],
         Finished' = Finished \cup {i}
  PROVE  Summed' /\ stat' \in [finished: Nat, min: Nat, max: Nat, sum: Nat, rmin: {0, 1}, rmax: {0, 1}]
<1> DEFINE n == stat.finished
<1>1. a.size \in Nat /\ a.reversed \in {0, 1}
  BY ProbeAssumption DEF Answers
<1>2. /\ n \in Nat /\ stat.min \in Nat /\ stat.max \in Nat /\ stat.sum \in Nat
      /\ stat.rmin \in {0, 1} /\ stat.rmax \in {0, 1}
  BY DEF ProbeTypes
<1>3. /\ stat'.finished = n + 1 /\ stat'.sum = stat.sum + a.size
      /\ stat'.min = IF n = 0 \/ a.size < stat.min THEN a.size ELSE stat.min
      /\ stat'.max = IF n = 0 \/ a.size > stat.max THEN a.size ELSE stat.max
      /\ stat'.rmin = IF n = 0 \/ a.reversed < stat.rmin THEN a.reversed ELSE stat.rmin
      /\ stat'.rmax = IF n = 0 \/ a.reversed > stat.rmax THEN a.reversed ELSE stat.rmax
  <2>1. /\ stat'.finished = n + 1 /\ stat'.sum = stat.sum + a.size
        /\ stat'.min = IF n = 0 THEN a.size ELSE Min({stat.min, a.size})
        /\ stat'.max = IF n = 0 THEN a.size ELSE Max({stat.max, a.size})
        /\ stat'.rmin = IF n = 0 THEN a.reversed ELSE Min({stat.rmin, a.reversed})
        /\ stat'.rmax = IF n = 0 THEN a.reversed ELSE Max({stat.rmax, a.reversed})
    BY DEF Count
  <2>2. Min({stat.min, a.size}) = IF stat.min <= a.size THEN stat.min ELSE a.size
    BY <1>1, <1>2, MinOfTwo
  <2>3. Max({stat.max, a.size}) = IF stat.max <= a.size THEN a.size ELSE stat.max
    BY <1>1, <1>2, MaxOfTwo
  <2>4. Min({stat.rmin, a.reversed}) = IF stat.rmin <= a.reversed THEN stat.rmin ELSE a.reversed
    BY <1>1, <1>2, MinOfTwo
  <2>5. Max({stat.rmax, a.reversed}) = IF stat.rmax <= a.reversed THEN a.reversed ELSE stat.rmax
    BY <1>1, <1>2, MaxOfTwo
  <2> QED BY <1>1, <1>2, <2>1, <2>2, <2>3, <2>4, <2>5
<1>4. stat' \in [finished: Nat, min: Nat, max: Nat, sum: Nat, rmin: {0, 1}, rmax: {0, 1}]
  <2>1. /\ stat'.finished \in Nat /\ stat'.sum \in Nat /\ stat'.min \in Nat /\ stat'.max \in Nat
        /\ stat'.rmin \in {0, 1} /\ stat'.rmax \in {0, 1}
    BY <1>1, <1>2, <1>3
  <2>2. stat' = [finished |-> stat'.finished, min |-> stat'.min, max |-> stat'.max,
                 sum |-> stat'.sum, rmin |-> stat'.rmin, rmax |-> stat'.rmax]
    BY DEF Count
  <2> QED BY <2>1, <2>2
<1>5. stat'.finished = Cardinality(Finished')
  BY <1>2, <1>3, FinishedFinite, FS_AddElement DEF Summed
<1>6. answer'[i] = a /\ \A k \in Finished : answer'[k] = answer[k]
  BY DEF ProbeTypes, Finished
<1>7. n = 0 <=> Finished = {}
  BY FinishedFinite, FS_EmptySet DEF Summed
<1>8. \A k \in Finished : answer[k].size \in Nat /\ answer[k].reversed \in {0, 1}
  <2> SUFFICES ASSUME NEW k \in Finished
               PROVE  answer[k].size \in Nat /\ answer[k].reversed \in {0, 1}
    OBVIOUS
  <2>1. answer[k] \in Answers \cup {NoAnswer}
    BY DEF ProbeTypes, Finished
  <2>2. CASE answer[k] \in Answers
    BY <2>2, ProbeAssumption DEF Answers
  <2>3. CASE answer[k] = NoAnswer
    BY <2>3 DEF NoAnswer
  <2> QED BY <2>1, <2>2, <2>3
<1>9. Bounds(Finished', stat', answer')
  <2>1. CASE n = 0
    BY <1>1, <1>3, <1>6, <1>7, <2>1 DEF Bounds
  <2>2. CASE n # 0
    <3>1. Bounds(Finished, stat, answer)
      BY <1>7, <2>2 DEF Summed
    <3>2. \E k \in Finished' : answer'[k].size = stat'.min
      BY <1>1, <1>2, <1>3, <1>6, <2>2, <3>1 DEF Bounds
    <3>3. \E k \in Finished' : answer'[k].size = stat'.max
      BY <1>1, <1>2, <1>3, <1>6, <2>2, <3>1 DEF Bounds
    <3>4. \E k \in Finished' : answer'[k].reversed = stat'.rmin
      BY <1>1, <1>2, <1>3, <1>6, <2>2, <3>1 DEF Bounds
    <3>5. \A k \in Finished' : /\ stat'.min <= answer'[k].size /\ answer'[k].size <= stat'.max
                               /\ stat'.rmin <= answer'[k].reversed
      BY <1>1, <1>2, <1>3, <1>6, <1>8, <2>2, <3>1 DEF Bounds
    <3> QED BY <3>2, <3>3, <3>4, <3>5 DEF Bounds
  <2> QED BY <2>1, <2>2
<1>10. /\ stat'.finished * stat'.min <= stat'.sum
       /\ stat'.sum <= stat'.finished * stat'.max
  <2>1. n * stat.min <= stat.sum /\ stat.sum <= n * stat.max
    BY DEF Summed
  <2>2. n = 0 \/ (stat'.min <= stat.min /\ stat.max <= stat'.max)
    BY <1>1, <1>2, <1>3
  <2>3. stat'.min <= a.size /\ a.size <= stat'.max /\ stat'.min \in Nat /\ stat'.max \in Nat
    BY <1>1, <1>2, <1>3
  <2> HIDE DEF n
  <2> QED BY <1>1, <1>2, <1>3, <2>1, <2>2, <2>3, Between
<1> QED BY <1>4, <1>5, <1>9, <1>10 DEF Summed

-----------------------------------------------------------------------------

LEMMA ProbeInvInit == ProbeInit => ProbeInv
<1> SUFFICES ASSUME ProbeInit PROVE ProbeInv
  OBVIOUS
<1> USE DEF ProbeInit
<1>1. ProbeTypes
  BY DEF ProbeTypes, NoStat, DomainInfo
<1>2. Finished = {}
  BY DEF Finished
<1>3. Summed
  BY <1>2, FS_EmptySet DEF Summed, NoStat
<1>4. GoodAnswers /\ Verdict
  BY <1>2 DEF GoodAnswers, Verdict
<1> QED BY <1>1, <1>3, <1>4 DEF ProbeInv

\* No try is finished in the step, and no finished one is answered again.
LEMMA NoneFinishes ==
  ASSUME ProbeInv, UNCHANGED <<stat, domain>>, Finished' = Finished, ProbeTypes',
         \A i \in Finished : answer'[i] = answer[i]
  PROVE  ProbeInv'
<1>1. Finished # {} => Bounds(Finished, stat, answer)'
  BY DEF ProbeInv, Summed, Bounds
<1>2. Summed'
  BY <1>1 DEF ProbeInv, Summed
<1>3. GoodAnswers' /\ Verdict'
  BY DEF ProbeInv, GoodAnswers, Verdict
<1> QED BY <1>2, <1>3 DEF ProbeInv

\* The record of one try changes.
LEMMA OneProbe ==
  ASSUME ProbeTypes, NEW i \in Tries, NEW p, probe' = [probe EXCEPT ![i] = p],
         p \in [written: BOOLEAN, pos: 0 .. 4, len: {3, 4}, finished: BOOLEAN]
  PROVE  /\ probe' \in [Tries -> [written: BOOLEAN, pos: 0 .. 4, len: {3, 4}, finished: BOOLEAN]]
         /\ Finished' = (Finished \ {i}) \cup (IF p.finished THEN {i} ELSE {})
<1>1. /\ probe' \in [Tries -> [written: BOOLEAN, pos: 0 .. 4, len: {3, 4}, finished: BOOLEAN]]
      /\ probe'[i] = p /\ \A k \in Tries \ {i} : probe'[k] = probe[k]
  BY DEF ProbeTypes
<1> QED BY <1>1 DEF Finished

LEMMA WriteAndHeader ==
  ASSUME ProbeInv, NEW i \in Tries, ProbeWrite(i) \/ ReadHeader(i) PROVE ProbeInv'
<1> DEFINE PT == [written: BOOLEAN, pos: 0 .. 4, len: {3, 4}, finished: BOOLEAN]
<1>0. ProbeTypes /\ probe[i] \in PT
  BY DEF ProbeInv, ProbeTypes
<1>1. UNCHANGED <<answer, stat, domain>>
  BY DEF ProbeWrite, ReadHeader
<1>2. \E p \in PT : probe' = [probe EXCEPT ![i] = p] /\ p.finished = probe[i].finished
  <2>1. CASE ProbeWrite(i)
    <3>1. PICK whole \in BOOLEAN : probe' = [probe EXCEPT ![i].written = whole]
      BY <2>1 DEF ProbeWrite
    <3>2. probe' = [probe EXCEPT ![i] = [probe[i] EXCEPT !.written = whole]]
      BY <1>0, <3>1 DEF ProbeTypes
    <3>3. /\ [probe[i] EXCEPT !.written = whole] \in PT
          /\ [probe[i] EXCEPT !.written = whole].finished = probe[i].finished
      BY <1>0
    <3> QED BY <3>2, <3>3
  <2>2. CASE ReadHeader(i)
    <3>1. PICK n \in {0, 1} : probe' = [probe EXCEPT ![i].pos = n]
      BY <2>2 DEF ReadHeader
    <3>2. probe' = [probe EXCEPT ![i] = [probe[i] EXCEPT !.pos = n]]
      BY <1>0, <3>1 DEF ProbeTypes
    <3>3. /\ [probe[i] EXCEPT !.pos = n] \in PT
          /\ [probe[i] EXCEPT !.pos = n].finished = probe[i].finished
      BY <1>0
    <3> QED BY <3>2, <3>3
  <2> QED BY <2>1, <2>2
<1>3. PICK p \in PT : probe' = [probe EXCEPT ![i] = p] /\ p.finished = probe[i].finished
  BY <1>2
<1>4. probe' \in [Tries -> PT] /\ Finished' = (Finished \ {i}) \cup (IF p.finished THEN {i} ELSE {})
  BY <1>0, <1>3, OneProbe
<1>5. Finished' = Finished
  BY <1>3, <1>4 DEF Finished
<1>6. ProbeTypes'
  BY <1>0, <1>1, <1>4 DEF ProbeTypes
<1> QED BY <1>1, <1>5, <1>6, NoneFinishes

LEMMA BodyStep ==
  ASSUME ProbeInv, NEW i \in Tries, ReadBody(i) PROVE ProbeInv'
<1> DEFINE PT == [written: BOOLEAN, pos: 0 .. 4, len: {3, 4}, finished: BOOLEAN]
<1>0. ProbeTypes /\ probe[i] \in PT /\ UNCHANGED domain /\ ~probe[i].finished /\ i \notin Finished
  BY DEF ProbeInv, ProbeTypes, ReadBody, Finished
<1>1. PICK n \in probe[i].pos + 1 .. probe[i].len :
        LET p == [probe[i] EXCEPT !.pos = n]
        IN  CASE n = 3 /\ p.len = 3 ->
                   /\ probe' = [probe EXCEPT ![i] = [p EXCEPT !.len = 4]]
                   /\ UNCHANGED <<answer, stat, error>>
              [] n = 4 -> \E a \in Answers :
                   /\ answer' = [answer EXCEPT ![i] = a]
                   /\ probe' = [probe EXCEPT ![i] = [p EXCEPT !.finished = a.good]]
                   /\ stat' = IF a.good THEN Count(stat, a) ELSE stat
                   /\ error' = ~a.good
              [] OTHER ->
                   /\ probe' = [probe EXCEPT ![i] = p]
                   /\ UNCHANGED <<answer, stat, error>>
  BY DEF ReadBody
<1> DEFINE p == [probe[i] EXCEPT !.pos = n]
<1>2. n \in 0 .. 4 /\ p \in PT /\ p.len = probe[i].len /\ p.finished = FALSE
  <2>1. n \in 0 .. 4
    BY <1>0
  <2> QED BY <1>0, <2>1
<1> HIDE DEF p
<1>3. ASSUME NEW q \in PT, probe' = [probe EXCEPT ![i] = q], ~q.finished,
             UNCHANGED <<answer, stat>>
      PROVE  ProbeInv'
  <2>1. probe' \in [Tries -> PT] /\ Finished' = Finished
    <3>1. /\ probe' \in [Tries -> PT]
          /\ Finished' = (Finished \ {i}) \cup (IF q.finished THEN {i} ELSE {})
      BY <1>0, <1>3, OneProbe
    <3>2. Finished' = (Finished \ {i}) \cup {}
      BY <1>3, <3>1
    <3> QED BY <1>0, <3>1, <3>2
  <2>2. ProbeTypes'
    BY <1>0, <1>3, <2>1 DEF ProbeTypes
  <2> QED BY <1>0, <1>3, <2>1, <2>2, NoneFinishes
<1>4. ASSUME NEW a \in Answers, answer' = [answer EXCEPT ![i] = a],
             probe' = [probe EXCEPT ![i] = [p EXCEPT !.finished = a.good]],
             stat' = IF a.good THEN Count(stat, a) ELSE stat
      PROVE  ProbeInv'
  <2>1. a.good \in BOOLEAN
    BY DEF Answers
  <2>2. /\ [p EXCEPT !.finished = a.good] \in PT
        /\ [p EXCEPT !.finished = a.good].finished = a.good
    BY <1>2, <2>1
  <2>3. /\ probe' \in [Tries -> PT]
        /\ Finished' = (Finished \ {i}) \cup (IF [p EXCEPT !.finished = a.good].finished THEN {i} ELSE {})
    <3> DEFINE q == [p EXCEPT !.finished = a.good]
    <3>1. q \in PT /\ probe' = [probe EXCEPT ![i] = q]
      BY <1>4, <2>2
    <3> HIDE DEF q
    <3>2. probe' \in [Tries -> PT] /\ Finished' = (Finished \ {i}) \cup (IF q.finished THEN {i} ELSE {})
      BY <1>0, <3>1, OneProbe
    <3> QED BY <3>2 DEF q
  <2>4. answer' \in [Tries -> Answers \cup {NoAnswer}] /\ answer'[i] = a
        /\ \A k \in Finished : answer'[k] = answer[k]
    BY <1>0, <1>4 DEF ProbeTypes, Finished
  <2>5. CASE ~a.good
    <3>1. Finished' = Finished /\ stat' = stat
      BY <1>0, <1>4, <2>2, <2>3, <2>5
    <3>2. ProbeTypes'
      BY <1>0, <2>3, <2>4, <3>1 DEF ProbeTypes
    <3> QED BY <1>0, <2>4, <3>1, <3>2, NoneFinishes
  <2>6. CASE a.good
    <3>1. Finished' = Finished \cup {i} /\ stat' = Count(stat, a)
      BY <1>0, <1>4, <2>2, <2>3, <2>6
    <3>2. Summed' /\ stat' \in [finished: Nat, min: Nat, max: Nat, sum: Nat, rmin: {0, 1}, rmax: {0, 1}]
      BY <1>0, <1>4, <3>1, CountAdds DEF ProbeInv
    <3>3. ProbeTypes'
      BY <1>0, <2>3, <2>4, <3>2 DEF ProbeTypes
    <3>4. GoodAnswers'
      BY <2>4, <2>6, <3>1 DEF ProbeInv, GoodAnswers
    <3>5. Verdict'
      <4>1. domain.pc # "known"
        BY DEF ReadBody, Probing
      <4> QED BY <1>0, <4>1 DEF Verdict
    <3> QED BY <3>2, <3>3, <3>4, <3>5 DEF ProbeInv
  <2> QED BY <2>5, <2>6
<1>5. CASE n = 3 /\ p.len = 3
  <2>1. probe' = [probe EXCEPT ![i] = [p EXCEPT !.len = 4]] /\ UNCHANGED <<answer, stat>>
    BY <1>1, <1>5 DEF p
  <2>2. [p EXCEPT !.len = 4] \in PT /\ [p EXCEPT !.len = 4].finished = FALSE
    BY <1>2
  <2> QED BY <1>3, <2>1, <2>2
<1>6. CASE n = 4
  <2>1. \E a \in Answers :
          /\ answer' = [answer EXCEPT ![i] = a]
          /\ probe' = [probe EXCEPT ![i] = [p EXCEPT !.finished = a.good]]
          /\ stat' = IF a.good THEN Count(stat, a) ELSE stat
    <3>1. n # 3
      BY <1>6
    <3> QED BY <1>1, <1>6, <3>1, Zenon DEF p
  <2> QED BY <1>4, <2>1
<1>7. CASE ~(n = 3 /\ p.len = 3) /\ n # 4
  <2>1. probe' = [probe EXCEPT ![i] = p] /\ UNCHANGED <<answer, stat>>
    BY <1>1, <1>7 DEF p
  <2> QED BY <1>2, <1>3, <2>1
<1> QED BY <1>5, <1>6, <1>7

\* The steps that only move on.
LEMMA MoveOn ==
  ASSUME ProbeInv, UNCHANGED <<answer, probe, stat>>,
         domain' \in DomainInfo, domain' = domain \/ domain'.pc # "known"
  PROVE  ProbeInv'
<1>1. Finished' = Finished
  BY DEF Finished
<1>2. ProbeTypes' /\ Summed' /\ GoodAnswers'
  BY <1>1 DEF ProbeInv, ProbeTypes, Summed, GoodAnswers, Bounds
<1>3. Verdict'
  BY <1>1 DEF ProbeInv, Verdict
<1> QED BY <1>2, <1>3 DEF ProbeInv

LEMMA VerdictStep ==
  ASSUME ProbeInv, ProbeVerdict PROVE ProbeInv'
<1>1. UNCHANGED <<answer, probe, stat>> /\ Finished' = Finished
  BY DEF ProbeVerdict, Finished
<1>2. CASE stat.finished # Cardinality(Tries)
  <2>1. domain'.pc = "default"
    <3>1. domain' = [domain EXCEPT !.pc = "default"] /\ domain.pc = "over"
      BY <1>2 DEF ProbeVerdict
    <3> QED BY <3>1 DEF ProbeInv, ProbeTypes, DomainInfo
  <2>2. domain' \in DomainInfo
    BY <1>2 DEF ProbeVerdict, ProbeInv, ProbeTypes, DomainInfo
  <2> QED BY <1>1, <2>1, <2>2, MoveOn
<1>3. CASE stat.finished = Cardinality(Tries)
  <2>1. Finished \subseteq Tries
    BY DEF Finished
  <2>2. Finished = Tries
    BY <1>3, <2>1, FS_Subset, ProbeAssumption DEF ProbeInv, Summed
  <2>3. domain' = [pc |-> "known", reversed |-> stat.rmin,
                   random |-> stat.min # stat.max,
                   size |-> IF stat.min = stat.max THEN stat.min
                            ELSE IF stat.max - stat.min <= 3 THEN stat.max - 1
                            ELSE (stat.sum + Half) \div Cardinality(Tries)]
    BY <1>3 DEF ProbeVerdict
  <2>4. domain'.pc = "known"
    BY <2>3
  <2>5. Verdict'
    BY <1>1, <2>2, <2>3 DEF Verdict
  <2>6. ProbeTypes' /\ Summed' /\ GoodAnswers'
    <3>1. Cardinality(Tries) \in Nat \ {0} /\ Half \in Int
      BY ProbeAssumption, FS_CardinalityType, FS_EmptySet DEF Half
    <3>2. stat.min \in Nat /\ stat.max \in Nat /\ stat.sum \in Nat /\ stat.rmin \in {0, 1}
      BY DEF ProbeInv, ProbeTypes
    <3>3. (stat.sum + Half) \div Cardinality(Tries) \in Int
      BY <3>1, <3>2
    <3> DEFINE size == IF stat.min = stat.max THEN stat.min
                       ELSE IF stat.max - stat.min <= 3 THEN stat.max - 1
                       ELSE (stat.sum + Half) \div Cardinality(Tries)
    <3>4. size \in Int
      BY <3>2, <3>3
    <3>5. domain' = [pc |-> "known", reversed |-> stat.rmin, random |-> stat.min # stat.max,
                     size |-> size]
      BY <2>3
    <3> HIDE DEF size
    <3>6. domain' \in DomainInfo
      BY <3>2, <3>4, <3>5 DEF DomainInfo
    <3> QED BY <1>1, <3>6 DEF ProbeInv, ProbeTypes, Summed, GoodAnswers, Bounds
  <2> QED BY <2>5, <2>6 DEF ProbeInv
<1> QED BY <1>2, <1>3

LEMMA ProbeInvStep == ProbeInv /\ [ProbeNext]_probeVars => ProbeInv'
<1> SUFFICES ASSUME ProbeInv, [ProbeNext]_probeVars PROVE ProbeInv'
  OBVIOUS
<1>0. domain \in DomainInfo
  BY DEF ProbeInv, ProbeTypes
<1>1. CASE ProbeStart \/ Deadline \/ LoopEnds
  <2>1. UNCHANGED <<answer, probe, stat>>
    BY <1>1 DEF ProbeStart, Deadline, LoopEnds
  <2>2. \E pc \in {"select", "default", "over"} : domain' = [domain EXCEPT !.pc = pc]
    BY <1>1 DEF ProbeStart, Deadline, LoopEnds
  <2>3. domain' \in DomainInfo /\ domain'.pc # "known"
    BY <1>0, <2>2 DEF DomainInfo
  <2> QED BY <2>1, <2>3, MoveOn
<1>2. CASE ProbeVerdict
  BY <1>2, VerdictStep
<1>3. CASE ProbeDefault
  <2>1. UNCHANGED <<answer, probe, stat>>
    BY <1>3 DEF ProbeDefault
  <2>2. domain' \in DomainInfo /\ domain'.pc # "known"
    BY <1>3, ProbeAssumption DEF ProbeDefault, DomainInfo
  <2> QED BY <2>1, <2>2, MoveOn
<1>4. CASE \E i \in Tries : ProbeWrite(i) \/ ReadHeader(i)
  BY <1>4, WriteAndHeader
<1>5. CASE \E i \in Tries : ReadBody(i)
  BY <1>5, BodyStep
<1>6. CASE \E i \in Tries : ProbeFails(i)
  BY <1>0, <1>6, MoveOn DEF ProbeFails
<1>7. CASE UNCHANGED probeVars
  BY <1>0, <1>7, MoveOn DEF probeVars
<1> QED BY <1>1, <1>2, <1>3, <1>4, <1>5, <1>6, <1>7 DEF ProbeNext

LEMMA ProbeInvariant == ProbeSpec => []ProbeInv
BY ProbeInvInit, ProbeInvStep, PTL DEF ProbeSpec

\* A rounded average is between the bounds of what it is taken of.
LEMMA Average ==
  ASSUME NEW n \in Nat \ {0}, NEW lo \in Nat, NEW hi \in Nat, NEW sum \in Nat,
         n * lo <= sum, sum <= n * hi, NEW h \in Nat, h < n
  PROVE  lo <= (sum + h) \div n /\ (sum + h) \div n <= hi
<1> DEFINE q == (sum + h) \div n
           m == (sum + h) % n
<1>1. q \in Int /\ m \in 0 .. n - 1 /\ sum + h = n * q + m
  OBVIOUS
<1> HIDE DEF q, m
<1>2. CASE q < lo
  <2>1. n * q + n <= n * lo
    <3>1. n * (q + 1) <= n * lo
      BY <1>1, <1>2
    <3>2. n * (q + 1) = n * q + n
      BY <1>1
    <3> QED BY <3>1, <3>2
  <2>2. n * q \in Int /\ n * lo \in Int
    BY <1>1
  <2> QED BY <1>1, <2>1, <2>2
<1>3. CASE q > hi
  <2>1. n * q >= n * hi + n
    <3>1. n * (hi + 1) <= n * q
      BY <1>1, <1>3
    <3>2. n * (hi + 1) = n * hi + n
      OBVIOUS
    <3> QED BY <3>1, <3>2
  <2>2. n * q \in Int /\ n * hi \in Int
    BY <1>1
  <2> QED BY <1>1, <2>1, <2>2
<1> QED BY <1>1, <1>2, <1>3 DEF q

\* update_domain_info: what the proxy imitates is a function of all the answers, in
\* whatever order and pieces they came.
THEOREM ImitatesTheServer == ProbeSpec => []ProbeExact
<1>1. ProbeInv => ProbeExact
  <2> SUFFICES ASSUME ProbeInv, domain.pc = "known" PROVE ProbeExact
    BY DEF ProbeExact
  <2> DEFINE sizes == {answer[i].size : i \in Tries}
             rev == {answer[i].reversed : i \in Tries}
             n == Cardinality(Tries)
  <2>1. n \in Nat \ {0} /\ Half \in Nat /\ Half < n
    <3>1. n \in Nat \ {0}
      BY ProbeAssumption, FS_CardinalityType, FS_EmptySet
    <3> HIDE DEF n
    <3>2. n \div 2 \in Nat /\ n \div 2 < n
      BY <3>1
    <3> QED BY <3>1, <3>2 DEF Half, n
  <2>2. Finished = Tries /\ Bounds(Tries, stat, answer)
    BY ProbeAssumption DEF ProbeInv, Verdict, Summed
  <2>3. \A i \in Tries : answer[i].good /\ answer[i].size \in Nat /\ answer[i].reversed \in {0, 1}
    BY <2>2, ProbeAssumption DEF ProbeInv, GoodAnswers, Answers
  <2>4. /\ stat.min \in Nat /\ stat.max \in Nat /\ stat.sum \in Nat
        /\ stat.rmin \in {0, 1} /\ stat.finished = n
    BY <2>2 DEF ProbeInv, ProbeTypes, Summed
  <2>5. sizes \in SUBSET Int /\ stat.min \in sizes /\ stat.max \in sizes
        /\ \A s \in sizes : stat.min <= s /\ s <= stat.max
    BY <2>2, <2>3 DEF Bounds
  <2>6. Min(sizes) = stat.min /\ Max(sizes) = stat.max
    <3> HIDE DEF sizes
    <3> QED BY <2>5, MinIs, MaxIs
  <2>7. Min(rev) = stat.rmin
    <3>1. rev \in SUBSET Int /\ stat.rmin \in rev /\ \A x \in rev : stat.rmin <= x
      BY <2>2, <2>3 DEF Bounds
    <3> HIDE DEF rev
    <3> QED BY <3>1, MinIs
  <2>8. stat.min <= stat.max
    BY <2>5
  <2> DEFINE size == IF stat.min = stat.max THEN stat.min
                     ELSE IF stat.max - stat.min <= 3 THEN stat.max - 1
                     ELSE (stat.sum + Half) \div n
  <2>9. domain.reversed = stat.rmin /\ domain.random = (stat.min # stat.max) /\ domain.size = size
    BY DEF ProbeInv, Verdict
  <2>10. stat.min <= (stat.sum + Half) \div n /\ (stat.sum + Half) \div n <= stat.max
    <3>1. n * stat.min <= stat.sum /\ stat.sum <= n * stat.max
      BY <2>4 DEF ProbeInv, Summed
    <3> HIDE DEF n
    <3> QED BY <2>1, <2>4, <3>1, Average
  <2>11. (stat.sum + Half) \div n \in Int
    <3> HIDE DEF n
    <3> QED BY <2>1, <2>4
  <2>12. size \in Int /\ stat.min <= size /\ size <= stat.max
    BY <2>4, <2>8, <2>10, <2>11
  <2>13. EmulatedSizes = IF stat.min # stat.max THEN size - 1 .. size + 1 ELSE {stat.min}
    <3>1. stat.min = stat.max => size = stat.min
      OBVIOUS
    <3> HIDE DEF size
    <3> QED BY <2>9, <3>1 DEF EmulatedSizes
  <2>14. \A s \in EmulatedSizes : s >= stat.min - 1 /\ s <= stat.max + 1
    <3> HIDE DEF size
    <3> QED BY <2>4, <2>8, <2>12, <2>13
  <2>15. stat.max - stat.min <= 3 => stat.max \in EmulatedSizes
    <3>1. stat.min # stat.max /\ stat.max - stat.min <= 3 => size = stat.max - 1
      OBVIOUS
    <3> HIDE DEF size
    <3> QED BY <2>4, <2>12, <2>13, <3>1
  <2>16. ASSUME Cardinality(sizes) = 1 PROVE EmulatedSizes = sizes
    <3> DEFINE f == [i \in Tries |-> answer[i].size]
    <3>1. f \in Surjection(Tries, sizes)
      BY DEF Surjection
    <3> HIDE DEF f, sizes
    <3>2. IsFiniteSet(sizes)
      BY <3>1, FS_Surjection, ProbeAssumption
    <3>3. PICK x : sizes = {x}
      BY <2>16, <3>2, FS_Singleton
    <3>4. stat.min = x /\ stat.max = x
      BY <2>5, <3>3
    <3> HIDE DEF size
    <3> QED BY <2>13, <3>3, <3>4
  <2> HIDE DEF sizes, rev, size
  <2>17. /\ \A i \in Tries : answer[i].good
         /\ domain.reversed = Min(rev)
         /\ Cardinality(sizes) = 1 => EmulatedSizes = sizes
         /\ \A s \in EmulatedSizes : s >= Min(sizes) - 1 /\ s <= Max(sizes) + 1
         /\ Max(sizes) - Min(sizes) <= 3 => Max(sizes) \in EmulatedSizes
    BY <2>3, <2>6, <2>7, <2>9, <2>14, <2>15, <2>16
  <2> QED BY <2>17 DEF ProbeExact, sizes, rev
<1> QED BY <1>1, ProbeInvariant, PTL

-----------------------------------------------------------------------------
(* RpcPair.  What each end may have decided is a function of the settings   *)
(* alone; packets carry it, and who parsed a packet knows what its writer   *)
(* had decided.  A number names one message for good.                       *)

PacketTypes == {"nonce", "handshake", "error", "msg", "ping", "pong", "pad"}
Schemas   == {"NONE", "AES", "AES_DH"}
Nonces    == {"nonce_c", "nonce_s", "zero"}
Crcs      == {"crc32", "crc32c", "none"}
AppBodies == [type : {"msg", "ping", "pong"}, id : Nat]
Bodies ==
  AppBodies \cup [type : {"handshake"}, crc32c : BOOLEAN]
    \cup [type : {"nonce"}, key_select : BOOLEAN, schema : Schemas, nonce : Nonces]
    \cup [type : {"error", "pad"}]
RpcKeys == {Plain} \cup ({"nonce_s"} \X Nonces \X (Nonces \cup {"secret"}) \X BOOLEAN)
RpcPackets == [type : PacketTypes, body : Bodies, num : Int, crc : Crcs,
               key : RpcKeys, intact : BOOLEAN]
Ends == [up : BOOLEAN, in : Int, num : Int, flags : SUBSET RpcFlags, crc : Crcs,
         key : RpcKeys, temp : BOOLEAN, outq : Seq(Bodies), out : Seq(RpcPackets),
         error : Int]

RpcShape ==
  /\ rcfg \in RpcConfigs
  /\ rend \in [Sides -> Ends]
  /\ rwire \in [Sides -> Seq(RpcPackets)]
  /\ rsent \in [Sides -> Seq(AppBodies)]
  /\ rgot \in [Sides -> Seq(AppBodies)]

\* What an end that has accepted the nonce of its peer knows of the settings.
Opened == "REQ_DH" \in rcfg.perm["client"] => "client" \notin rcfg.busy
Chosen(t) ==
  IF CanEncrypt
  THEN /\ t = "server" => ~ rcfg.skew /\ (BothDh => "server" \notin rcfg.busy)
       /\ "REQ_DH" \in rcfg.perm[t] => BothDh \/ "SKIP_DH" \in rcfg.perm[t]
  ELSE "UNENC" \in rcfg.perm[t]

\* The key it then uses, and what its nonce and its handshake say.
KeyOf(t) ==
  IF CanEncrypt
  THEN CreateKey("nonce_s", "nonce_c",
                 IF rcfg.secret = "same" THEN "secret" ELSE OwnNonce(t), BothDh)
  ELSE Plain
NonceOf(t) ==
  IF t = "client" THEN ClientNonce(rcfg.perm["client"])
  ELSE [type |-> "nonce", key_select |-> CanEncrypt,
        schema |-> IF ~ CanEncrypt THEN "NONE" ELSE IF BothDh THEN "AES_DH" ELSE "AES",
        nonce |-> IF CanEncrypt THEN "nonce_s" ELSE "zero"]
HandshakeOf(t) ==
  [type |-> "handshake",
   crc32c |-> "client" \in rcfg.crc /\ (t = "server" => "server" \in rcfg.crc)]
CrcAgreed == IF rcfg.crc = Sides THEN "crc32c" ELSE "crc32"
FirstFlags(t) == rcfg.perm[t] \cup (IF t = "client" THEN {"ENC_SENT"} ELSE {})

\* The body that packet n of end t has: the nonce, the handshake, or message n + 1.
BodyAt(t, n, b) ==
  /\ n >= -2
  /\ n = -2 => Opened /\ b = NonceOf(t) /\ (t = "server" => Chosen(t))
  /\ n = -1 => b = HandshakeOf(t)
  /\ n >= 0 => n < Len(rsent[t]) /\ b = rsent[t][n + 1]
PacketAt(t, p) == p.type # "pad" => BodyAt(t, p.num, p.body)

Untouched ==
  /\ rend = [s \in Sides |-> NewEnd]
  /\ \A s \in Sides : rwire[s] = <<>> /\ rsent[s] = <<>> /\ rgot[s] = <<>>

\* An end that has not failed, by the number of the packet it waits for.
EndPlain(s, d) ==
  /\ d.num >= -2 /\ d.in >= -2
  /\ s = "client" \/ d.in >= -1 => Opened
  /\ d.in < 0 => /\ rsent[s] = <<>> /\ d.crc = "crc32"
                 /\ s = "server" => d.outq = <<>>
  /\ d.in = -2 => /\ d.flags = FirstFlags(s)
                  /\ d.num + Len(d.outq) = IF s = "client" THEN -1 ELSE -2
  /\ d.in = -1 => d.num + Len(d.outq) = IF s = "client" THEN 0 ELSE -1
  /\ d.in >= -1 => Chosen(s) /\ d.key = KeyOf(s)
  /\ d.in >= 0 =>
       /\ d.num + Len(d.outq) = Len(rsent[s])
       /\ \A t \in Sides : Chosen(t) /\ KeyOf(t) = KeyOf(s)
       /\ ~ PidRefused(s) /\ d.crc = CrcAgreed
EndQueues(s, d) ==
  /\ \A i \in DOMAIN d.outq : BodyAt(s, d.num + i - 1, d.outq[i])
  /\ \A i \in DOMAIN d.out :
       /\ PacketAt(s, d.out[i])
       /\ d.out[i].type # "pad" /\ d.out[i].num >= -1 => d.in >= -1
EndInv(s) ==
  rend[s].up /\ rend[s].error = 0 => EndPlain(s, rend[s]) /\ EndQueues(s, rend[s])

\* A packet after the nonce comes under the key its writer had chosen.
WireAt(t, p) ==
  /\ PacketAt(t, p)
  /\ p.type # "pad" /\ p.num >= -1 => Chosen(t) /\ p.key = KeyOf(t)
WireInv(s) == \A i \in DOMAIN rwire[s] : WireAt(Peer(s), rwire[s][i])

GotInv(s) ==
  /\ Len(rgot[s]) = IF rend[s].in >= 0 THEN rend[s].in ELSE 0
  /\ \A i \in DOMAIN rgot[s] :
       i <= Len(rsent[Peer(s)]) /\ rgot[s][i] = rsent[Peer(s)][i]

RpcInv ==
  /\ RpcShape
  /\ rend["server"].up = rend["client"].up
  /\ ~ rend["client"].up => Untouched
  /\ \A s \in Sides : EndInv(s) /\ WireInv(s) /\ GotInv(s)

LEMMA Configured ==
    ASSUME RpcShape
    PROVE  /\ rcfg.perm \in [Sides -> SUBSET PermFlags]
           /\ \A s \in Sides : rcfg.perm[s] \cap {"UNENC", "ENC"} # {}
           /\ rcfg.crc \in SUBSET Sides /\ rcfg.secret \in {"same", "prefix", "different"}
           /\ rcfg.skew \in BOOLEAN /\ rcfg.pid \in BOOLEAN
BY RpcAssumption DEF RpcShape, ConfigOK

LEMMA AppendOf ==
    ASSUME NEW S, NEW q \in Seq(S), NEW b \in S, NEW r, r = Append(q, b)
    PROVE  /\ q \in Seq(S) /\ r \in Seq(S) /\ Len(r) = Len(q) + 1
           /\ Len(q) \in Nat /\ r[Len(q) + 1] = b
           /\ \A i \in 1 .. Len(q) : r[i] = q[i]
OBVIOUS

LEMMA SidesTwo ==
    /\ "client" \in Sides /\ "server" \in Sides
    /\ \A s \in Sides : /\ Peer(s) \in Sides /\ Peer(s) # s /\ Peer(Peer(s)) = s
                        /\ \A t \in Sides : t = s \/ t = Peer(s)
BY DEF Sides, Peer

\* The settings do not change, and nothing of what follows from them.
LEMMA SettingsStay ==
    ASSUME rcfg' = rcfg
    PROVE  /\ Opened' <=> Opened
           /\ CrcAgreed' = CrcAgreed
           /\ \A t : /\ Chosen(t)' <=> Chosen(t)
                     /\ KeyOf(t)' = KeyOf(t) /\ NonceOf(t)' = NonceOf(t)
                     /\ HandshakeOf(t)' = HandshakeOf(t)
                     /\ FirstFlags(t)' = FirstFlags(t)
                     /\ PidRefused(t)' <=> PidRefused(t)
<1>1. CanEncrypt' = CanEncrypt /\ BothDh' = BothDh
  BY DEF CanEncrypt, BothDh
<1>2. Opened' <=> Opened /\ CrcAgreed' = CrcAgreed
  BY DEF Opened, CrcAgreed
<1>3. ASSUME NEW t PROVE Chosen(t)' <=> Chosen(t)
  BY <1>1 DEF Chosen
<1>4. ASSUME NEW t PROVE KeyOf(t)' = KeyOf(t)
  BY <1>1 DEF KeyOf, CreateKey, OwnNonce, Plain
<1>5. ASSUME NEW t PROVE NonceOf(t)' = NonceOf(t)
  BY <1>1 DEF NonceOf, ClientNonce, OwnNonce
<1>6. ASSUME NEW t PROVE HandshakeOf(t)' = HandshakeOf(t) /\ FirstFlags(t)' = FirstFlags(t)
  BY DEF HandshakeOf, FirstFlags
<1>7. ASSUME NEW t PROVE PidRefused(t)' <=> PidRefused(t)
  BY DEF PidRefused
<1>. QED  BY <1>2, <1>3, <1>4, <1>5, <1>6, <1>7 DEF Opened, CrcAgreed

\* A message that was sent keeps its number.
Grows(t) ==
  /\ Len(rsent[t]) <= Len(rsent'[t])
  /\ \A i \in 1 .. Len(rsent[t]) : rsent'[t][i] = rsent[t][i]

LEMMA BodiesStay ==
    ASSUME RpcShape, rcfg' = rcfg, NEW t \in Sides, Grows(t), RpcShape'
    PROVE  \A n \in Int : \A b : BodyAt(t, n, b) => BodyAt(t, n, b)'
<1>1. Len(rsent[t]) \in Nat /\ Len(rsent'[t]) \in Nat
  BY DEF RpcShape
<1>. SUFFICES ASSUME NEW n \in Int, NEW b, BodyAt(t, n, b) PROVE BodyAt(t, n, b)'
  OBVIOUS
<1>2. n >= 0 => n < Len(rsent'[t]) /\ b = rsent'[t][n + 1]
  <2>1. n >= 0 => n + 1 \in 1 .. Len(rsent[t]) /\ b = rsent[t][n + 1]
    BY <1>1 DEF BodyAt
  <2>. QED  BY <1>1, <2>1 DEF Grows
<1>. QED  BY <1>2, SettingsStay DEF BodyAt

LEMMA PacketsStay ==
    ASSUME RpcShape, rcfg' = rcfg, NEW t \in Sides, Grows(t), RpcShape'
    PROVE  \A p \in RpcPackets : /\ PacketAt(t, p) => PacketAt(t, p)'
                                 /\ WireAt(t, p) => WireAt(t, p)'
<1>. SUFFICES ASSUME NEW p \in RpcPackets
              PROVE  /\ PacketAt(t, p) => PacketAt(t, p)'
                     /\ WireAt(t, p) => WireAt(t, p)'
  OBVIOUS
<1>1. p.num \in Int
  BY DEF RpcPackets
<1>2. PacketAt(t, p) => PacketAt(t, p)'
  BY <1>1, BodiesStay DEF PacketAt
<1>. QED  BY <1>2, SettingsStay DEF WireAt

\* What is on the way came from its writer, whatever the network did to it.
WireFrom(s) ==
  \A i \in DOMAIN rwire'[s] : \E j \in DOMAIN rwire[s] :
    /\ rwire'[s][i].type = rwire[s][j].type /\ rwire'[s][i].num = rwire[s][j].num
    /\ rwire'[s][i].body = rwire[s][j].body /\ rwire'[s][i].key = rwire[s][j].key

LEMMA WireStays ==
    ASSUME RpcInv, RpcShape', rcfg' = rcfg, NEW s \in Sides, Grows(Peer(s)), WireFrom(s)
    PROVE  WireInv(s)'
<1>1. Peer(s) \in Sides /\ Peer(s)' = Peer(s)
  BY SidesTwo DEF Peer
<1>. SUFFICES ASSUME NEW i \in DOMAIN rwire'[s], NEW q, q = rwire'[s][i]
              PROVE  WireAt(Peer(s), q)'
  BY <1>1 DEF WireInv
<1>2. PICK j \in DOMAIN rwire[s] :
        /\ rwire'[s][i].type = rwire[s][j].type /\ rwire'[s][i].num = rwire[s][j].num
        /\ rwire'[s][i].body = rwire[s][j].body /\ rwire'[s][i].key = rwire[s][j].key
  BY DEF WireFrom
<1>3. rwire[s][j] \in RpcPackets /\ WireAt(Peer(s), rwire[s][j])
  BY DEF RpcInv, RpcShape, WireInv
<1>4. PICK p : p = rwire[s][j]
  OBVIOUS
<1>5. WireAt(Peer(s), p)'
  BY <1>1, <1>3, <1>4, PacketsStay DEF RpcInv
<1>. QED  BY <1>1, <1>2, <1>4, <1>5 DEF WireAt, PacketAt

LEMMA GotStays ==
    ASSUME RpcInv, RpcShape', NEW s \in Sides, Grows(Peer(s)), rgot'[s] = rgot[s],
           \/ rend'[s].in = rend[s].in
           \/ rend'[s].in = rend[s].in + 1 /\ rend'[s].in <= 0
    PROVE  GotInv(s)'
<1>1. Peer(s) \in Sides /\ Peer(s)' = Peer(s)
  BY SidesTwo DEF Peer
<1>2. rend[s].in \in Int /\ rgot[s] \in Seq(AppBodies)
  BY DEF RpcInv, RpcShape, Ends
<1>3. Len(rsent[Peer(s)]) \in Nat /\ Len(rsent'[Peer(s)]) \in Nat
  <2>1. RpcShape
    BY DEF RpcInv
  <2>2. \A u \in Sides : Len(rsent[u]) \in Nat /\ Len(rsent'[u]) \in Nat
    BY <2>1 DEF RpcShape
  <2>. QED  BY <1>1, <2>2
<1>4. GotInv(s)
  BY DEF RpcInv
<1>5. \A i \in DOMAIN rgot[s] : /\ i <= Len(rsent'[Peer(s)])
                                /\ rgot[s][i] = rsent'[Peer(s)][i]
  <2>. SUFFICES ASSUME NEW i \in DOMAIN rgot[s]
                PROVE  i <= Len(rsent'[Peer(s)]) /\ rgot[s][i] = rsent'[Peer(s)][i]
    OBVIOUS
  <2>1. i \in 1 .. Len(rsent[Peer(s)]) /\ rgot[s][i] = rsent[Peer(s)][i]
    BY <1>2, <1>3, <1>4 DEF GotInv
  <2>. QED  BY <1>3, <2>1 DEF Grows
<1>6. Len(rgot[s]) = IF rend'[s].in >= 0 THEN rend'[s].in ELSE 0
  BY <1>2, <1>4 DEF GotInv
<1>. QED  BY <1>1, <1>5, <1>6 DEF GotInv

\* What an end knows and has queued stays true while its own messages stay.
LEMMA EndKeeps ==
    ASSUME RpcInv, RpcShape', rcfg' = rcfg, NEW u \in Sides, rsent'[u] = rsent[u],
           NEW d \in Ends, EndPlain(u, d), EndQueues(u, d)
    PROVE  EndPlain(u, d)' /\ EndQueues(u, d)'
<1>1. Len(rsent[u]) \in Nat
  BY DEF RpcInv, RpcShape
<1>0. Grows(u)
  BY <1>1 DEF Grows
<1>2. EndPlain(u, d)'
  BY SettingsStay DEF EndPlain
<1>3. /\ d.num \in Int /\ d.outq \in Seq(Bodies) /\ d.out \in Seq(RpcPackets)
  BY DEF Ends
<1>4. \A i \in DOMAIN d.outq : BodyAt(u, d.num + i - 1, d.outq[i])'
  <2>. SUFFICES ASSUME NEW i \in DOMAIN d.outq
                PROVE  BodyAt(u, d.num + i - 1, d.outq[i])'
    OBVIOUS
  <2>1. PICK n, b : n = d.num + i - 1 /\ b = d.outq[i]
    OBVIOUS
  <2>2. n \in Int /\ BodyAt(u, n, b)
    BY <1>3, <2>1 DEF EndQueues
  <2>3. BodyAt(u, n, b)'
    BY <2>2, <1>0, BodiesStay DEF RpcInv
  <2>. QED  BY <2>1, <2>3
<1>5. \A i \in DOMAIN d.out : PacketAt(u, d.out[i])'
  <2>. SUFFICES ASSUME NEW i \in DOMAIN d.out PROVE PacketAt(u, d.out[i])'
    OBVIOUS
  <2>1. PICK p : p = d.out[i]
    OBVIOUS
  <2>2. p \in RpcPackets /\ PacketAt(u, p)
    BY <1>3, <2>1 DEF EndQueues
  <2>3. PacketAt(u, p)'
    BY <2>2, <1>0, PacketsStay DEF RpcInv
  <2>. QED  BY <2>1, <2>3
<1>. QED  BY <1>2, <1>4, <1>5 DEF EndQueues

\* One end moves: the other keeps what it knows.
LEMMA EndMoves ==
    ASSUME RpcInv, RpcShape', rcfg' = rcfg, NEW s \in Sides, NEW e,
           rend' = [rend EXCEPT ![s] = e], rend[s].up, e.up,
           Grows(s), rsent'[Peer(s)] = rsent[Peer(s)],
           e.error = 0 => EndPlain(s, e)' /\ EndQueues(s, e)',
           \A t \in Sides : WireInv(t)' /\ GotInv(t)'
    PROVE  RpcInv'
<1>1. Peer(s) \in Sides /\ Peer(s) # s /\ \A t \in Sides : t = s \/ t = Peer(s)
  BY SidesTwo
<1>2. rend'[s] = e /\ rend'[Peer(s)] = rend[Peer(s)]
  BY <1>1 DEF RpcInv, RpcShape
<1>3. rend["server"].up /\ rend["client"].up /\ rend'["server"].up /\ rend'["client"].up
  BY <1>1, <1>2, SidesTwo DEF RpcInv, Sides
<1>4. EndInv(s)'
  BY <1>2 DEF EndInv
<1>5. EndInv(Peer(s))'
  <2>1. PICK u, d : u = Peer(s) /\ d = rend[u]
    OBVIOUS
  <2>2. u \in Sides /\ d \in Ends /\ rsent'[u] = rsent[u] /\ rend'[u] = d
    BY <1>1, <1>2, <2>1 DEF RpcInv, RpcShape
  <2>3. Len(rsent[u]) \in Nat
    BY <2>2 DEF RpcInv, RpcShape
  <2>4. Grows(u)
    BY <2>2, <2>3 DEF Grows
  <2>5. ASSUME d.up, d.error = 0 PROVE EndPlain(u, d)' /\ EndQueues(u, d)'
    BY <2>1, <2>2, <2>5, EndKeeps DEF RpcInv, EndInv
  <2>6. EndInv(u)'
    BY <2>2, <2>5 DEF EndInv
  <2>. QED  BY <2>1, <2>6 DEF Peer
<1>6. \A t \in Sides : EndInv(t)'
  BY <1>1, <1>4, <1>5
<1>. QED  BY <1>3, <1>6 DEF RpcInv

LEMMA EndFails ==
    ASSUME RpcInv, RpcShape', rcfg' = rcfg, rsent' = rsent, rgot' = rgot,
           NEW s \in Sides, NEW e,
           rend' = [rend EXCEPT ![s] = e], rend[s].up, e.up, e.error # 0,
           e.in = rend[s].in \/ (e.in = rend[s].in + 1 /\ e.in <= 0),
           \A t \in Sides : WireFrom(t)
    PROVE  RpcInv'
<1>1. \A t \in Sides : Grows(t)
  <2>1. \A t \in Sides : Len(rsent[t]) \in Nat
    BY DEF RpcInv, RpcShape
  <2>. QED  BY <2>1 DEF Grows
<1>2. \A t \in Sides : Peer(t) \in Sides
  BY SidesTwo
<1>3. \A t \in Sides : WireInv(t)'
  BY <1>1, <1>2, WireStays
<1>4. \A t \in Sides : \/ rend'[t].in = rend[t].in
                       \/ rend'[t].in = rend[t].in + 1 /\ rend'[t].in <= 0
  BY DEF RpcInv, RpcShape
<1>5. \A t \in Sides : GotInv(t)'
  BY <1>1, <1>2, <1>4, GotStays
<1>. QED  BY <1>1, <1>3, <1>5, EndMoves

LEMMA HeadTail ==
    ASSUME RpcInv, NEW s \in Sides, rwire[s] # <<>>
    PROVE  /\ rwire \in [Sides -> Seq(RpcPackets)]
           /\ Tail(rwire[s]) \in Seq(RpcPackets)
           /\ Head(rwire[s]) \in RpcPackets /\ WireAt(Peer(s), Head(rwire[s]))
           /\ \A i \in DOMAIN Tail(rwire[s]) :
                i + 1 \in DOMAIN rwire[s] /\ Tail(rwire[s])[i] = rwire[s][i + 1]
           /\ rend["client"].up /\ rend["server"].up
<1>1. rwire[s] \in Seq(RpcPackets) /\ rwire \in [Sides -> Seq(RpcPackets)]
  BY DEF RpcInv, RpcShape
<1>2. PICK q : q = rwire[s]
  OBVIOUS
<1>3. /\ Tail(q) \in Seq(RpcPackets) /\ Head(q) \in RpcPackets
      /\ Head(q) = q[1] /\ 1 \in DOMAIN q
      /\ \A i \in DOMAIN Tail(q) : i + 1 \in DOMAIN q /\ Tail(q)[i] = q[i + 1]
  BY <1>1, <1>2
<1>4. WireAt(Peer(s), Head(rwire[s]))
  BY <1>2, <1>3 DEF RpcInv, WireInv
<1>5. rend["client"].up /\ rend["server"].up
  BY DEF RpcInv, Untouched
<1>. QED  BY <1>1, <1>2, <1>3, <1>4, <1>5

LEMMA TailFrom ==
    ASSUME RpcInv, NEW s \in Sides, rwire[s] # <<>>,
           rwire' = [rwire EXCEPT ![s] = Tail(@)]
    PROVE  /\ rwire' \in [Sides -> Seq(RpcPackets)]
           /\ \A t \in Sides : WireFrom(t)
           /\ rend["client"].up /\ rend["server"].up
<1>1. rwire' \in [Sides -> Seq(RpcPackets)]
  BY HeadTail
<1>2. ASSUME NEW t \in Sides PROVE WireFrom(t)
  <2>1. CASE t = s
    <3>1. rwire'[t] = Tail(rwire[s])
      BY <2>1, HeadTail
    <3>. QED  BY <2>1, <3>1, HeadTail DEF WireFrom
  <2>2. CASE t # s
    <3>1. rwire'[t] = rwire[t]
      BY <2>2, HeadTail
    <3>. QED  BY <3>1 DEF WireFrom
  <2>. QED  BY <2>1, <2>2
<1>. QED  BY <1>1, <1>2, HeadTail

\* An end stays one when a field is set to a value of its kind.
LEMMA EndUpdates ==
    ASSUME NEW d \in Ends
    PROVE  /\ \A x \in Int : /\ [d EXCEPT !.in = x] \in Ends
                             /\ [d EXCEPT !.num = x] \in Ends
                             /\ [d EXCEPT !.error = x] \in Ends
           /\ \A x \in SUBSET RpcFlags : [d EXCEPT !.flags = x] \in Ends
           /\ \A x \in RpcKeys : [d EXCEPT !.key = x] \in Ends
           /\ \A x \in Crcs : [d EXCEPT !.crc = x] \in Ends
           /\ \A x \in BOOLEAN : [d EXCEPT !.temp = x] \in Ends
           /\ \A x \in Seq(Bodies) : [d EXCEPT !.outq = x] \in Ends
           /\ \A x \in Seq(RpcPackets) : [d EXCEPT !.out = x] \in Ends
<1>1. ASSUME NEW x \in Int PROVE [d EXCEPT !.in = x] \in Ends
  BY DEF Ends
<1>2. ASSUME NEW x \in Int PROVE [d EXCEPT !.num = x] \in Ends
  BY DEF Ends
<1>3. ASSUME NEW x \in Int PROVE [d EXCEPT !.error = x] \in Ends
  BY DEF Ends
<1>4. ASSUME NEW x \in SUBSET RpcFlags PROVE [d EXCEPT !.flags = x] \in Ends
  BY DEF Ends
<1>5. ASSUME NEW x \in RpcKeys PROVE [d EXCEPT !.key = x] \in Ends
  BY DEF Ends
<1>6. ASSUME NEW x \in Crcs PROVE [d EXCEPT !.crc = x] \in Ends
  BY DEF Ends
<1>7. ASSUME NEW x \in BOOLEAN PROVE [d EXCEPT !.temp = x] \in Ends
  BY DEF Ends
<1>8. ASSUME NEW x \in Seq(Bodies) PROVE [d EXCEPT !.outq = x] \in Ends
  BY DEF Ends
<1>9. ASSUME NEW x \in Seq(RpcPackets) PROVE [d EXCEPT !.out = x] \in Ends
  BY DEF Ends
<1>. QED  BY <1>1, <1>2, <1>3, <1>4, <1>5, <1>6, <1>7, <1>8, <1>9

LEMMA BothUp ==
    ASSUME RpcInv, NEW s \in Sides, rend[s].up
    PROVE  \A t \in Sides : rend[t].up
BY DEF RpcInv, Sides

LEMMA ErrorShape ==
    ASSUME RpcShape, NEW s \in Sides, NEW c \in Int
    PROVE  /\ FailEnd(rend[s], c) \in Ends
           /\ FailEnd(rend[s], c).error = c
           /\ FailEnd(rend[s], c).in = rend[s].in
           /\ FailEnd(rend[s], c).up = rend[s].up
BY DEF RpcShape, FailEnd, Ends

\* An end fails where it stands, and one packet at most leaves the wire.
LEMMA Failing ==
    ASSUME RpcInv, NEW s \in Sides, rend[s].up, NEW c \in Int \ {0},
           rend' = [rend EXCEPT ![s] = FailEnd(@, c)],
           rcfg' = rcfg, rsent' = rsent, rgot' = rgot,
           rwire' \in [Sides -> Seq(RpcPackets)], \A t \in Sides : WireFrom(t)
    PROVE  RpcInv'
<1>1. PICK e : e = FailEnd(rend[s], c)
  OBVIOUS
<1>2. e \in Ends /\ e.error # 0 /\ e.in = rend[s].in /\ e.up
  BY <1>1, ErrorShape DEF RpcInv
<1>3. rend' = [rend EXCEPT ![s] = e]
  BY <1>1 DEF RpcInv, RpcShape
<1>4. RpcShape'
  BY <1>2, <1>3 DEF RpcInv, RpcShape
<1>. QED  BY <1>2, <1>3, <1>4, EndFails

\* The ends stay as they are, and the wire loses or repeats.
LEMMA WireOnly ==
    ASSUME RpcInv, rend["client"].up, rend' = rend,
           rcfg' = rcfg, rsent' = rsent, rgot' = rgot,
           rwire' \in [Sides -> Seq(RpcPackets)], \A t \in Sides : WireFrom(t)
    PROVE  RpcInv'
<1>1. RpcShape'
  BY DEF RpcInv, RpcShape
<1>2. \A t \in Sides : Grows(t)
  <2>1. \A t \in Sides : Len(rsent[t]) \in Nat
    BY DEF RpcInv, RpcShape
  <2>. QED  BY <2>1 DEF Grows
<1>3. \A t \in Sides : WireInv(t)' /\ GotInv(t)'
  BY <1>1, <1>2, SidesTwo, WireStays, GotStays
<1>4. ASSUME NEW t \in Sides PROVE EndInv(t)'
  <2>1. PICK d : d = rend[t]
    OBVIOUS
  <2>2. d \in Ends /\ EndInv(t)
    BY <2>1 DEF RpcInv, RpcShape
  <2>3. d.up /\ d.error = 0 => EndPlain(t, d)' /\ EndQueues(t, d)'
    BY <1>1, <2>1, <2>2, EndKeeps DEF EndInv
  <2>. QED  BY <2>1, <2>3 DEF EndInv
<1>. QED  BY <1>1, <1>3, <1>4 DEF RpcInv

LEMMA GoodPacket ==
    ASSUME RpcInv, NEW s \in Sides, NEW p \in Good(s)
    PROVE  /\ rend[s].up /\ rend[s].error = 0 /\ rwire[s] # <<>>
           /\ p = Head(rwire[s]) /\ p \in RpcPackets /\ p.type # "pad"
           /\ p.num = rend[s].in /\ p.key = rend[s].key
           /\ WireAt(Peer(s), p) /\ BodyAt(Peer(s), p.num, p.body)
           /\ EndPlain(s, rend[s]) /\ EndQueues(s, rend[s])
<1>1. CanParse(s) /\ p = Head(rwire[s]) /\ p.type # "pad" /\ FrameError(s, p) = 0
  BY DEF Good
<1>2. p.num = rend[s].in /\ p.key = rend[s].key
  BY <1>1 DEF FrameError
<1>3. rwire[s] \in Seq(RpcPackets) /\ rwire[s] # <<>>
  BY <1>1 DEF CanParse, RpcInv, RpcShape
<1>4. p \in RpcPackets /\ p = rwire[s][1] /\ 1 \in DOMAIN rwire[s]
  BY <1>1, <1>3
<1>5. WireAt(Peer(s), p)
  BY <1>4 DEF RpcInv, WireInv
<1>. QED  BY <1>1, <1>2, <1>3, <1>4, <1>5 DEF CanParse, RpcInv, EndInv, WireAt, PacketAt

LEMMA KeepsParseFrame ==
    ASSUME RpcInv, NEW s \in Sides, ParseFrame(s)
    PROVE  RpcInv'
<1>1. rend[s].up /\ rwire[s] # <<>> /\ rwire' = [rwire EXCEPT ![s] = Tail(@)]
  BY DEF ParseFrame, CanParse
<1>2. /\ rwire' \in [Sides -> Seq(RpcPackets)] /\ \A t \in Sides : WireFrom(t)
      /\ rend["client"].up
  BY <1>1, TailFrom
<1>3. CASE rend' = rend
  BY <1>2, <1>3, WireOnly DEF ParseFrame
<1>4. CASE /\ FrameError(s, Head(rwire[s])) # 0
           /\ rend' = [rend EXCEPT ![s] = FailEnd(@, FrameError(s, Head(rwire[s])))]
  <2>1. PICK c : c = FrameError(s, Head(rwire[s]))
    OBVIOUS
  <2>2. c \in Int \ {0} /\ rend' = [rend EXCEPT ![s] = FailEnd(@, c)]
    BY <1>4, <2>1 DEF FrameError
  <2>. QED  BY <1>1, <1>2, <2>2, Failing DEF ParseFrame
<1>. QED  BY <1>3, <1>4 DEF ParseFrame

LEMMA KeepsRpcTimeout ==
    ASSUME RpcInv, RpcTimeout
    PROVE  RpcInv'
<1>1. \A t \in Sides : WireFrom(t)
  BY DEF RpcTimeout, WireFrom
<1>2. rwire' \in [Sides -> Seq(RpcPackets)]
  BY DEF RpcTimeout, RpcInv, RpcShape
<1>3. -6 \in Int \ {0} /\ "client" \in Sides
  BY SidesTwo
<1>. QED  BY <1>1, <1>2, <1>3, Failing DEF RpcTimeout

LEMMA KeepsPeerClosed ==
    ASSUME RpcInv, NEW s \in Sides, PeerClosed(s)
    PROVE  RpcInv'
<1>1. \A t \in Sides : WireFrom(t)
  BY DEF PeerClosed, WireFrom
<1>2. rwire' \in [Sides -> Seq(RpcPackets)]
  BY DEF PeerClosed, RpcInv, RpcShape
<1>3. -1 \in Int \ {0}
  OBVIOUS
<1>. QED  BY <1>1, <1>2, <1>3, Failing DEF PeerClosed

LEMMA KeepsNetFault ==
    ASSUME RpcInv, NEW s \in Sides, NetFault(s)
    PROVE  RpcInv'
<1>1. PICK q : q = rwire[s]
  OBVIOUS
<1>2. /\ q # <<>> /\ q \in Seq(RpcPackets) /\ rwire \in [Sides -> Seq(RpcPackets)]
      /\ 1 \in DOMAIN q /\ q[1] = Head(q) /\ q[1] \in RpcPackets
  BY <1>1 DEF NetFault, RpcInv, RpcShape
<1>3. rend["client"].up
  BY DEF NetFault, RpcInv, Untouched
<1>4. CASE rwire' = [rwire EXCEPT ![s] = Tail(@)]
  BY <1>1, <1>2, <1>3, <1>4, TailFrom, WireOnly DEF NetFault
<1>5. ASSUME NEW r, rwire' = [rwire EXCEPT ![s] = r], r \in Seq(RpcPackets),
             \A i \in DOMAIN r : \E j \in DOMAIN q :
                /\ r[i].type = q[j].type /\ r[i].num = q[j].num
                /\ r[i].body = q[j].body /\ r[i].key = q[j].key
      PROVE  RpcInv'
  <2>1. rwire' \in [Sides -> Seq(RpcPackets)]
    BY <1>2, <1>5
  <2>2. ASSUME NEW t \in Sides PROVE WireFrom(t)
    <3>1. CASE t = s
      <4>1. rwire'[t] = r /\ rwire[t] = q
        BY <1>1, <1>2, <1>5, <3>1
      <4>2. ASSUME NEW i \in DOMAIN r
            PROVE  \E j \in DOMAIN q :
                      /\ r[i].type = q[j].type /\ r[i].num = q[j].num
                      /\ r[i].body = q[j].body /\ r[i].key = q[j].key
        BY <1>5
      <4>. QED  BY <4>1, <4>2, Zenon DEF WireFrom
    <3>2. CASE t # s
      <4>1. rwire'[t] = rwire[t]
        BY <1>2, <1>5, <3>2
      <4>. QED  BY <4>1 DEF WireFrom
    <3>. QED  BY <3>1, <3>2
  <2>. QED  BY <1>3, <2>1, <2>2, WireOnly DEF NetFault
<1>6. CASE rwire' = [rwire EXCEPT ![s][1].intact = FALSE]
  <2>1. PICK r : r = [q EXCEPT ![1].intact = FALSE]
    OBVIOUS
  <2>2. [q[1] EXCEPT !.intact = FALSE] \in RpcPackets
    BY <1>2 DEF RpcPackets
  <2>3. r = [q EXCEPT ![1] = [q[1] EXCEPT !.intact = FALSE]]
    BY <1>2, <2>1
  <2>4. r \in Seq(RpcPackets) /\ DOMAIN r = DOMAIN q
    BY <1>2, <2>2, <2>3
  <2>5. \A i \in DOMAIN r : r[i] = IF i = 1 THEN [q[1] EXCEPT !.intact = FALSE] ELSE q[i]
    BY <1>2, <2>3
  <2>6. \A i \in DOMAIN r : /\ r[i].type = q[i].type /\ r[i].num = q[i].num
                            /\ r[i].body = q[i].body /\ r[i].key = q[i].key
    <3>1. PICK a : a = q[1]
      OBVIOUS
    <3>2. PICK b : b = [a EXCEPT !.intact = FALSE]
      OBVIOUS
    <3>3. b.type = a.type /\ b.num = a.num /\ b.body = a.body /\ b.key = a.key
      BY <1>2, <3>1, <3>2 DEF RpcPackets
    <3>4. \A i \in DOMAIN r : r[i] = IF i = 1 THEN b ELSE q[i]
      BY <2>5, <3>1, <3>2
    <3>. QED  BY <3>1, <3>3, <3>4
  <2>7. rwire' = [rwire EXCEPT ![s] = r]
    BY <1>1, <1>2, <1>6, <2>1
  <2>. QED  BY <1>5, <2>4, <2>6, <2>7
<1>7. CASE rwire' = [rwire EXCEPT ![s] = <<Head(@)>> \o @]
  <2>1. PICK r : r = <<q[1]>> \o q
    OBVIOUS
  <2>2. r \in Seq(RpcPackets) /\ Len(r) = Len(q) + 1 /\ Len(q) \in Nat
    BY <1>2, <2>1
  <2>3. \A i \in DOMAIN r : r[i] = IF i = 1 THEN q[1] ELSE q[i - 1]
    BY <1>2, <2>1
  <2>4. \A i \in DOMAIN r : i = 1 \/ i - 1 \in DOMAIN q
    BY <1>2, <2>2
  <2>5. \A i \in DOMAIN r : \E j \in DOMAIN q : r[i] = q[j]
    BY <1>2, <2>3, <2>4
  <2>6. rwire' = [rwire EXCEPT ![s] = r]
    BY <1>1, <1>2, <1>7, <2>1
  <2>. QED  BY <1>5, <2>2, <2>5, <2>6
<1>. QED  BY <1>4, <1>6, <1>7 DEF NetFault

\* tcp_rpcs_process_nonce_packet decides by the settings and the client's nonce.
LEMMA ServerChooses ==
    ASSUME RpcShape, NEW d \in Ends, NEW p \in RpcPackets,
           d.flags = FirstFlags("server"), p.body = NonceOf("client"),
           ServerNonceError(d, p) = 0
    PROVE  /\ Chosen("server")
           /\ ServerNonce(d, p).end.key = KeyOf("server")
           /\ ServerNonce(d, p).reply.body = NonceOf("server")
<1>1. /\ rcfg.perm["server"] \subseteq PermFlags /\ rcfg.perm["client"] \subseteq PermFlags
      /\ rcfg.secret \in {"same", "prefix", "different"}
  BY Configured, SidesTwo
<1>2. d.flags = rcfg.perm["server"]
  BY DEF FirstFlags
<1>3. /\ p.body.key_select = ("ENC" \in rcfg.perm["client"])
      /\ p.body.schema = IF "ENC" \notin rcfg.perm["client"] THEN "NONE"
                         ELSE IF "REQ_DH" \in rcfg.perm["client"] THEN "AES_DH" ELSE "AES"
      /\ p.body.nonce = IF "ENC" \in rcfg.perm["client"] THEN "nonce_c" ELSE "zero"
  BY DEF NonceOf, ClientNonce, OwnNonce
<1>4. ServerFallsBack(d, p) <=> ~ CanEncrypt
  BY <1>2, <1>3 DEF ServerFallsBack, KeyKnown, CanEncrypt, Sides
<1>5. CASE ~ CanEncrypt
  <2>1. "UNENC" \in rcfg.perm["server"]
    BY <1>2, <1>4, <1>5 DEF ServerNonceError
  <2>2. Chosen("server")
    BY <1>5, <2>1 DEF Chosen
  <2>3. ServerNonce(d, p).end.key = Plain
    BY <1>4, <1>5 DEF ServerNonce, Ends
  <2>4. ServerNonce(d, p).reply.body = NonceOf("server")
    <3>1. CanEncrypt = FALSE
      BY <1>5 DEF CanEncrypt
    <3>2. ServerNonce(d, p).reply.body =
            [type |-> "nonce", key_select |-> FALSE, schema |-> "NONE", nonce |-> "zero"]
      BY <1>4, <1>5 DEF ServerNonce, Packet
    <3>. QED  BY <3>1, <3>2 DEF NonceOf
  <2>. QED  BY <1>5, <2>2, <2>3, <2>4 DEF KeyOf
<1>6. CASE CanEncrypt
  <2>1. "ENC" \in rcfg.perm["client"] /\ "ENC" \in rcfg.perm["server"]
    BY <1>6 DEF CanEncrypt, Sides
  <2>2. p.body.schema = "AES_DH" <=> "REQ_DH" \in rcfg.perm["client"]
    BY <1>3, <2>1
  <2>3. BothDh <=> "REQ_DH" \in rcfg.perm["client"] /\ "REQ_DH" \in rcfg.perm["server"]
    BY DEF BothDh, Sides
  <2>4. /\ ~ rcfg.skew
        /\ "REQ_DH" \in rcfg.perm["server"] =>
             \/ SkipsDh(d, p)
             \/ p.body.schema = "AES_DH" /\ "server" \notin rcfg.busy
    BY <1>2, <1>4, <1>6 DEF ServerNonceError
  <2>5. SkipsDh(d, p) <=> /\ "REQ_DH" \in rcfg.perm["server"]
                          /\ "REQ_DH" \notin rcfg.perm["client"]
                          /\ "SKIP_DH" \in rcfg.perm["server"]
    BY <1>2, <2>2 DEF SkipsDh
  <2>6. Chosen("server")
    BY <1>6, <2>2, <2>3, <2>4, <2>5 DEF Chosen
  <2>. DEFINE flags == (d.flags \ {"UNENC"}) \
                         (IF SkipsDh(d, p) THEN {"REQ_DH", "SKIP_DH"} ELSE {})
  <2>7. ("REQ_DH" \in flags <=> BothDh) /\ "ENC" \in flags
    BY <1>2, <2>1, <2>2, <2>3, <2>4, <2>5
  <2>8. flags # {"UNENC"}
    BY <2>7
  <2>9. ("REQ_DH" \in flags) = BothDh
    <3>1. PICK f : f = flags
      OBVIOUS
    <3>2. "REQ_DH" \in f <=> BothDh
      BY <2>7, <3>1
    <3>3. BothDh \in BOOLEAN
      BY DEF BothDh
    <3>. HIDE DEF flags
    <3>. QED  BY <3>1, <3>2, <3>3
  <2>10. /\ ServerNonce(d, p).end.key =
              CreateKey("nonce_s", "nonce_c", OwnSecret("server"), "REQ_DH" \in flags)
         /\ ServerNonce(d, p).reply.body =
              [type |-> "nonce", key_select |-> TRUE,
               schema |-> IF "REQ_DH" \in flags THEN "AES_DH" ELSE "AES",
               nonce |-> "nonce_s"]
    <3>1. p.body.nonce = "nonce_c" /\ OwnNonce("server") = "nonce_s"
      BY <1>3, <2>1 DEF OwnNonce
    <3>2. PICK f : f = flags
      OBVIOUS
    <3>3. f # {"UNENC"}
      BY <2>8, <3>2
    <3>. HIDE DEF flags
    <3>4. ServerNonce(d, p).end =
            [d EXCEPT !.flags = f \cup {"ENC_SENT"}, !.in = @ + 1, !.num = @ + 1,
                      !.key = CreateKey("nonce_s", "nonce_c", OwnSecret("server"),
                                        "REQ_DH" \in f)]
      BY <1>4, <1>6, <3>1, <3>2, <3>3 DEF ServerNonce, flags
    <3>5. ServerNonce(d, p).reply.body =
            [type |-> "nonce", key_select |-> TRUE,
             schema |-> IF "REQ_DH" \in f THEN "AES_DH" ELSE "AES", nonce |-> "nonce_s"]
      BY <1>4, <1>6, <3>1, <3>2, <3>3 DEF ServerNonce, Packet, flags
    <3>. QED  BY <3>2, <3>4, <3>5 DEF Ends
  <2>. HIDE DEF flags
  <2>11. KeyOf("server") = CreateKey("nonce_s", "nonce_c", OwnSecret("server"), BothDh)
    BY <1>6 DEF KeyOf, OwnSecret
  <2>12. NonceOf("server") = [type |-> "nonce", key_select |-> TRUE,
                              schema |-> IF BothDh THEN "AES_DH" ELSE "AES",
                              nonce |-> "nonce_s"]
    <3>1. CanEncrypt = TRUE
      BY <1>6 DEF CanEncrypt
    <3>. QED  BY <3>1 DEF NonceOf
  <2>. QED  BY <2>6, <2>9, <2>10, <2>11, <2>12
<1>. QED  BY <1>5, <1>6

\* tcp_rpcc_process_nonce_packet, by the settings and the server's answer.
LEMMA ClientChooses ==
    ASSUME RpcShape, NEW d \in Ends, NEW p \in RpcPackets, NEW rest,
           d.flags = FirstFlags("client"), p.body = NonceOf("server"),
           ClientNonceError(d, p, rest) = 0
    PROVE  /\ Chosen("client")
           /\ ClientAnswer(d, p).key = KeyOf("client")
<1>1. d.flags = rcfg.perm["client"] \cup {"ENC_SENT"}
  BY DEF FirstFlags
<1>2. /\ p.body.key_select <=> CanEncrypt
      /\ p.body.schema = IF ~ CanEncrypt THEN "NONE" ELSE IF BothDh THEN "AES_DH" ELSE "AES"
      /\ p.body.nonce = IF CanEncrypt THEN "nonce_s" ELSE "zero"
  BY DEF NonceOf
<1>3. BothDh => "REQ_DH" \in rcfg.perm["client"]
  BY DEF BothDh, Sides
<1>4. CASE ~ CanEncrypt
  <2>1. p.body.schema = "NONE"
    BY <1>2, <1>4
  <2>2. "UNENC" \in rcfg.perm["client"]
    BY <1>1, <2>1 DEF ClientNonceError
  <2>3. ClientAnswer(d, p).key = Plain
    BY <2>1 DEF ClientAnswer, Queue, Ends
  <2>. QED  BY <1>4, <2>2, <2>3 DEF Chosen, KeyOf
<1>5. CASE CanEncrypt
  <2>1. /\ p.body.schema # "NONE" /\ p.body.nonce = "nonce_s"
        /\ p.body.schema = "AES_DH" <=> BothDh
    BY <1>2, <1>5
  <2>2. "REQ_DH" \in rcfg.perm["client"] => BothDh \/ "SKIP_DH" \in rcfg.perm["client"]
    BY <1>1, <2>1 DEF ClientNonceError
  <2>3. (p.body.schema = "AES_DH") = BothDh
    BY <2>1 DEF BothDh
  <2>4. ClientAnswer(d, p).key =
          CreateKey("nonce_s", "nonce_c", OwnSecret("client"), p.body.schema = "AES_DH")
    BY <2>1 DEF ClientAnswer, Queue, Ends, OwnNonce
  <2>5. KeyOf("client") = CreateKey("nonce_s", "nonce_c", OwnSecret("client"), BothDh)
    BY <1>5 DEF KeyOf, OwnSecret
  <2>. QED  BY <1>5, <2>2, <2>3, <2>4, <2>5 DEF Chosen
<1>. QED  BY <1>4, <1>5

LEMMA KeyTypes ==
    ASSUME NEW t \in Sides
    PROVE  KeyOf(t) \in RpcKeys
<1>1. BothDh \in BOOLEAN
  BY DEF BothDh
<1>2. PICK n : n = IF rcfg.secret = "same" THEN "secret" ELSE OwnNonce(t)
  OBVIOUS
<1>3. n \in Nonces \cup {"secret"}
  BY <1>2 DEF OwnNonce, Nonces
<1>4. CreateKey("nonce_s", "nonce_c", n, BothDh) \in RpcKeys
  BY <1>1, <1>3 DEF CreateKey, RpcKeys, Nonces
<1>. QED  BY <1>2, <1>4 DEF KeyOf, RpcKeys

LEMMA NonceTypes ==
    ASSUME NEW t \in Sides
    PROVE  NonceOf(t) \in Bodies /\ HandshakeOf(t) \in Bodies
<1>1. HandshakeOf(t) \in Bodies
  BY DEF HandshakeOf, Bodies
<1>2. PICK k \in BOOLEAN, c \in Schemas, n \in Nonces :
        NonceOf(t) = [type |-> "nonce", key_select |-> k, schema |-> c, nonce |-> n]
  <2>1. CASE t = "client"
    <3>1. PICK k, c, n :
            /\ k = ("ENC" \in rcfg.perm["client"])
            /\ c = IF ~ k THEN "NONE"
                   ELSE IF "REQ_DH" \in rcfg.perm["client"] THEN "AES_DH" ELSE "AES"
            /\ n = IF k THEN OwnNonce("client") ELSE "zero"
      OBVIOUS
    <3>2. k \in BOOLEAN /\ c \in Schemas /\ n \in Nonces
      BY <3>1 DEF Schemas, Nonces, OwnNonce
    <3>3. NonceOf(t) = [type |-> "nonce", key_select |-> k, schema |-> c, nonce |-> n]
      BY <2>1, <3>1 DEF NonceOf, ClientNonce
    <3>. QED  BY <3>2, <3>3
  <2>2. CASE t # "client"
    <3>1. PICK k, c, n :
            /\ k = CanEncrypt
            /\ c = IF ~ k THEN "NONE" ELSE IF BothDh THEN "AES_DH" ELSE "AES"
            /\ n = IF k THEN "nonce_s" ELSE "zero"
      OBVIOUS
    <3>2. k \in BOOLEAN
      BY <3>1 DEF CanEncrypt
    <3>3. c \in Schemas /\ n \in Nonces
      BY <3>1 DEF Schemas, Nonces
    <3>4. NonceOf(t) = [type |-> "nonce", key_select |-> k, schema |-> c, nonce |-> n]
      BY <2>2, <3>1 DEF NonceOf
    <3>. QED  BY <3>2, <3>3, <3>4
  <2>. QED  BY <2>1, <2>2
<1>. QED  BY <1>1, <1>2 DEF Bodies

\* A body put at the end of a queue.
LEMMA QueuedAt ==
    ASSUME NEW d \in Ends, NEW b \in Bodies
    PROVE  /\ Queue(d, b) \in Ends
           /\ Queue(d, b) = [d EXCEPT !.outq = Append(d.outq, b)]
           /\ Len(Queue(d, b).outq) = Len(d.outq) + 1
           /\ \A i \in DOMAIN Queue(d, b).outq :
                \/ i \in DOMAIN d.outq /\ Queue(d, b).outq[i] = d.outq[i]
                \/ i = Len(d.outq) + 1 /\ Queue(d, b).outq[i] = b
<1>1. PICK q, r : q = d.outq /\ r = Append(q, b)
  OBVIOUS
<1>2. q \in Seq(Bodies) /\ r \in Seq(Bodies) /\ Len(q) \in Nat /\ Len(r) = Len(q) + 1
  BY <1>1 DEF Ends
<1>3. \A i \in DOMAIN r : \/ i \in DOMAIN q /\ r[i] = q[i]
                          \/ i = Len(q) + 1 /\ r[i] = b
  BY <1>1, <1>2
<1>4. Queue(d, b) = [d EXCEPT !.outq = r]
  BY <1>1 DEF Queue, Ends
<1>5. Queue(d, b) \in Ends /\ Queue(d, b).outq = r
  BY <1>2, <1>4 DEF Ends
<1>. QED  BY <1>1, <1>2, <1>3, <1>4, <1>5

\* An end as RpcConnect leaves it.
OpenEnd(F, b, c) ==
  [up |-> TRUE, in |-> -2, num |-> -2, flags |-> F, crc |-> "crc32", key |-> Plain,
   temp |-> b, outq |-> <<>>, out |-> <<>>, error |-> c]

LEMMA KeepsRpcConnect ==
    ASSUME RpcInv, RpcConnect
    PROVE  RpcInv'
<1>1. Untouched
  BY DEF RpcInv, RpcConnect
<1>2. /\ rcfg.perm["server"] \subseteq PermFlags /\ rcfg.perm["client"] \subseteq PermFlags
  BY Configured, SidesTwo DEF RpcInv
<1>3. /\ Plain \in RpcKeys /\ "crc32" \in Crcs
      /\ <<>> \in Seq(Bodies) /\ <<>> \in Seq(RpcPackets)
  BY DEF RpcKeys, Crcs
<1>4. PICK a, c : /\ a = [NewEnd EXCEPT !.up = TRUE, !.flags = rcfg.perm["server"]]
                  /\ c = rend'["client"]
  OBVIOUS
<1>5. rend' = [t \in Sides |-> IF t = "server" THEN a ELSE c]
  BY <1>4, SidesTwo DEF RpcConnect, Sides
<1>6. /\ a.up /\ a.in = -2 /\ a.num = -2 /\ a.flags = rcfg.perm["server"]
      /\ a.outq = <<>> /\ a.out = <<>> /\ a.crc = "crc32" /\ a \in Ends
  <2>1. a = OpenEnd(rcfg.perm["server"], FALSE, 0)
    BY <1>4 DEF NewEnd, OpenEnd
  <2>2. rcfg.perm["server"] \in SUBSET RpcFlags
    BY <1>2 DEF RpcFlags
  <2>. QED  BY <1>3, <2>1, <2>2 DEF OpenEnd, Ends
<1>7. /\ c \in Ends /\ c.up /\ c.in = -2 /\ c.num = -2
      /\ c.error = 0 =>
           /\ c.flags = FirstFlags("client") /\ c.crc = "crc32" /\ c.out = <<>>
           /\ c.outq = <<NonceOf("client")>> /\ Opened
  <2>. DEFINE refused == "REQ_DH" \in rcfg.perm["client"] /\ "client" \in rcfg.busy
              dh == {"ENC", "REQ_DH"} \subseteq rcfg.perm["client"]
              new == [NewEnd EXCEPT !.up = TRUE,
                        !.flags = rcfg.perm["client"] \cup {"ENC_SENT"}, !.temp = dh]
  <2>1. c = IF refused THEN [NewEnd EXCEPT !.up = TRUE, !.error = -1]
            ELSE Queue(new, ClientNonce(rcfg.perm["client"]))
    BY <1>4, SidesTwo DEF RpcConnect
  <2>2. CASE refused
    <3>1. c = OpenEnd({}, FALSE, -1)
      BY <2>1, <2>2 DEF NewEnd, OpenEnd
    <3>2. c \in Ends /\ c.up /\ c.in = -2 /\ c.num = -2 /\ c.error = -1
      BY <1>3, <3>1 DEF OpenEnd, Ends
    <3>. QED  BY <3>2
  <2>3. CASE ~ refused
    <3>1. PICK n, b : n = new /\ b = ClientNonce(rcfg.perm["client"])
      OBVIOUS
    <3>2. /\ n \in Ends /\ n.up /\ n.in = -2 /\ n.num = -2 /\ n.crc = "crc32"
          /\ n.outq = <<>> /\ n.out = <<>> /\ n.flags = FirstFlags("client")
      <4>1. PICK h, F : h = dh /\ F = FirstFlags("client")
        OBVIOUS
      <4>2. h \in BOOLEAN /\ F \in SUBSET RpcFlags
        BY <1>2, <4>1 DEF FirstFlags, RpcFlags
      <4>3. n = OpenEnd(F, h, 0)
        BY <3>1, <4>1 DEF NewEnd, OpenEnd, FirstFlags
      <4>. QED  BY <1>3, <4>1, <4>2, <4>3 DEF OpenEnd, Ends
    <3>3. b = NonceOf("client") /\ b \in Bodies
      BY <3>1, NonceTypes, SidesTwo DEF NonceOf
    <3>4. c = Queue(n, b)
      BY <2>1, <2>3, <3>1
    <3>5. c \in Ends /\ c = [n EXCEPT !.outq = Append(n.outq, b)]
      BY <3>2, <3>3, <3>4, QueuedAt
    <3>6. c.outq = <<b>>
      BY <3>2, <3>3, <3>5 DEF Ends
    <3>7. Opened
      BY <2>3 DEF Opened
    <3>. QED  BY <3>2, <3>3, <3>5, <3>6, <3>7 DEF Ends
  <2>. QED  BY <2>2, <2>3
<1>8. RpcShape'
  BY <1>5, <1>6, <1>7 DEF RpcConnect, RpcInv, RpcShape
<1>9. /\ rwire' = rwire /\ rsent' = rsent /\ rgot' = rgot /\ rcfg' = rcfg
      /\ \A t \in Sides : rwire'[t] = <<>> /\ rsent'[t] = <<>> /\ rgot'[t] = <<>>
  BY <1>1 DEF RpcConnect, Untouched
<1>10. \A t \in Sides : rend'[t].in = -2 /\ rend'[t].up
  BY <1>5, <1>6, <1>7
<1>11. \A t \in Sides : WireInv(t)' /\ GotInv(t)'
  BY <1>9, <1>10 DEF WireInv, GotInv
<1>12. EndInv("server")'
  <2>1. rend'["server"] = a
    BY <1>5, SidesTwo
  <2>2. EndPlain("server", a)'
    <3>1. a.flags = FirstFlags("server")'
      BY <1>6, <1>9, SettingsStay DEF FirstFlags
    <3>. QED  BY <1>6, <1>9, <3>1, SidesTwo DEF EndPlain
  <2>3. EndQueues("server", a)'
    BY <1>6 DEF EndQueues
  <2>. QED  BY <2>1, <2>2, <2>3 DEF EndInv
<1>13. EndInv("client")'
  <2>1. rend'["client"] = c
    BY <1>5, SidesTwo
  <2>. SUFFICES ASSUME c.error = 0 PROVE EndPlain("client", c)' /\ EndQueues("client", c)'
    BY <2>1 DEF EndInv
  <2>2. Len(c.outq) = 1 /\ c.outq[1] = NonceOf("client") /\ DOMAIN c.outq = {1}
    <3>1. PICK q : q = c.outq
      OBVIOUS
    <3>2. q = <<NonceOf("client")>>
      BY <1>7, <3>1
    <3>. QED  BY <3>1, <3>2
  <2>3. EndPlain("client", c)'
    <3>1. c.flags = FirstFlags("client")' /\ Opened'
      BY <1>7, <1>9, SettingsStay
    <3>. QED  BY <1>7, <1>9, <2>2, <3>1, SidesTwo DEF EndPlain
  <2>4. BodyAt("client", c.num + 1 - 1, c.outq[1])'
    BY <1>7, <1>9, <2>2, SettingsStay DEF BodyAt
  <2>5. EndQueues("client", c)'
    BY <1>7, <2>2, <2>4 DEF EndQueues
  <2>. QED  BY <2>3, <2>5
<1>14. \A t \in Sides : EndInv(t)'
  BY <1>12, <1>13 DEF Sides
<1>15. rend'["server"].up = rend'["client"].up /\ rend'["client"].up
  <2>1. rend'["server"] = a /\ rend'["client"] = c
    BY <1>5, SidesTwo
  <2>2. a.up = TRUE /\ c.up = TRUE
    BY <1>6, <1>7 DEF Ends
  <2>. QED  BY <2>1, <2>2
<1>. QED  BY <1>8, <1>11, <1>14, <1>15 DEF RpcInv

LEMMA KeepsParseServerNonce ==
    ASSUME RpcInv, ParseServerNonce
    PROVE  RpcInv'
<1>1. PICK p \in Good("server") :
        /\ p.num = -2
        /\ LET d == rend["server"]
               code == ServerNonceError(d, p)
               done == ServerNonce(d, p)
           IN  \/ /\ code # 0
                  /\ rend' = [rend EXCEPT !["server"] = FailEnd(@, code)]
                  /\ rwire' = [rwire EXCEPT !["server"] = Tail(@)]
               \/ /\ code = 0
                  /\ rend' = [rend EXCEPT !["server"] = done.end]
                  /\ rwire' = [rwire EXCEPT !["server"] = Tail(@),
                                            !["client"] = Append(@, done.reply)]
        /\ UNCHANGED <<rcfg, rsent, rgot, rfaults>>
  BY DEF ParseServerNonce
<1>2. "server" \in Sides /\ "client" \in Sides /\ Peer("server") = "client"
  BY DEF Sides, Peer
<1>3. PICK d : d = rend["server"]
  OBVIOUS
<1>4. /\ d.up /\ d.error = 0 /\ rwire["server"] # <<>>
      /\ p = Head(rwire["server"]) /\ p \in RpcPackets /\ p.num = d.in
      /\ BodyAt("client", p.num, p.body)
      /\ EndPlain("server", d) /\ EndQueues("server", d) /\ d \in Ends
  BY <1>2, <1>3, GoodPacket DEF RpcInv, RpcShape
<1>5. CASE ServerNonceError(d, p) # 0
  <2>1. PICK c : c = ServerNonceError(d, p)
    OBVIOUS
  <2>2. c \in Int \ {0}
    BY <1>5, <2>1 DEF ServerNonceError
  <2>3. /\ rend' = [rend EXCEPT !["server"] = FailEnd(@, c)]
        /\ rwire' = [rwire EXCEPT !["server"] = Tail(@)]
    BY <1>1, <1>3, <1>5, <2>1
  <2>. QED  BY <1>1, <1>2, <1>3, <1>4, <2>2, <2>3, TailFrom, Failing
<1>6. CASE ServerNonceError(d, p) = 0
  <2>1. PICK e, r : e = ServerNonce(d, p).end /\ r = ServerNonce(d, p).reply
    OBVIOUS
  <2>2. /\ rend' = [rend EXCEPT !["server"] = e]
        /\ rwire' = [rwire EXCEPT !["server"] = Tail(@), !["client"] = Append(@, r)]
    BY <1>1, <1>3, <1>6, <2>1
  <2>3. d.flags = FirstFlags("server") /\ p.body = NonceOf("client") /\ Opened
    BY <1>1, <1>4 DEF EndPlain, BodyAt
  <2>4. Chosen("server") /\ e.key = KeyOf("server") /\ r.body = NonceOf("server")
    BY <1>4, <1>6, <2>1, <2>3, ServerChooses DEF RpcInv
  <2>5. d.num = -2 /\ d.in = -2 /\ d.outq = <<>> /\ rsent["server"] = <<>> /\ d.crc = "crc32"
    <3>1. /\ d.in = -2 /\ d.outq = <<>> /\ rsent["server"] = <<>> /\ d.crc = "crc32"
          /\ d.num + Len(d.outq) = -2 /\ d.num \in Int
      BY <1>1, <1>4 DEF EndPlain, Ends
    <3>2. Len(d.outq) = 0
      BY <3>1
    <3>. QED  BY <3>1, <3>2
  <2>6. /\ e \in Ends /\ e.up /\ e.error = 0 /\ e.in = -1 /\ e.num = -1
        /\ e.outq = <<>> /\ e.out = d.out /\ e.crc = d.crc
    <3>0. PICK F : F = IF ServerFallsBack(d, p) THEN {"UNENC"}
                       ELSE (d.flags \ {"UNENC"}) \
                              (IF SkipsDh(d, p) THEN {"REQ_DH", "SKIP_DH"} ELSE {})
      OBVIOUS
    <3>5. F = {"UNENC"} \/ F \subseteq d.flags
      BY <3>0
    <3>6. PICK K : K = IF F = {"UNENC"} THEN Plain
                       ELSE CreateKey(OwnNonce("server"), p.body.nonce,
                                      OwnSecret("server"), "REQ_DH" \in F)
      OBVIOUS
    <3>1. e = [d EXCEPT !.flags = F \cup {"ENC_SENT"}, !.in = @ + 1, !.num = @ + 1,
                        !.key = K]
      BY <2>1, <3>0, <3>6 DEF ServerNonce
    <3>2. F \cup {"ENC_SENT"} \in SUBSET RpcFlags
      BY <1>4, <3>5 DEF Ends, RpcFlags, PermFlags
    <3>3. e.key = K
      BY <1>4, <3>1 DEF Ends
    <3>4. K \in RpcKeys
      BY <1>2, <2>4, <3>3, KeyTypes
    <3>7. PICK G : G = F \cup {"ENC_SENT"}
      OBVIOUS
    <3>8. e = [d EXCEPT !.flags = G, !.in = -1, !.num = -1, !.key = K] /\ G \in SUBSET RpcFlags
      BY <1>4, <2>5, <3>1, <3>2, <3>7 DEF Ends
    <3>9. e \in Ends
      <4>0. PICK n \in Int : n = -1
        OBVIOUS
      <4>1. PICK a, b, c : /\ a = [d EXCEPT !.flags = G] /\ b = [a EXCEPT !.in = n]
                           /\ c = [b EXCEPT !.num = n]
        OBVIOUS
      <4>2. a \in Ends
        BY <1>4, <3>8, <4>1, EndUpdates
      <4>3. b \in Ends
        BY <4>1, <4>2, EndUpdates
      <4>4. c \in Ends
        BY <4>1, <4>3, EndUpdates
      <4>5. e = [c EXCEPT !.key = K]
        BY <3>8, <4>0, <4>1
      <4>. QED  BY <3>4, <4>4, <4>5, EndUpdates
    <3>. QED  BY <1>4, <2>5, <3>8, <3>9 DEF Ends
  <2>7. r \in RpcPackets /\ r.num = -2
    <3>1. PICK b : b = NonceOf("server")
      OBVIOUS
    <3>2. r = Packet(r.body, d.num, d.crc)
      BY <2>1 DEF ServerNonce, Packet
    <3>3. b.type = "nonce" /\ b \in Bodies
      BY <1>2, <3>1, NonceTypes DEF NonceOf
    <3>4. r = Packet(b, -2, d.crc)
      BY <2>4, <2>5, <3>1, <3>2
    <3>. QED  BY <1>4, <3>3, <3>4 DEF Packet, RpcPackets, PacketTypes, Ends, RpcKeys
  <2>8. PICK q, w : q = rwire["client"] /\ w = Tail(rwire["server"])
    OBVIOUS
  <2>9. /\ q \in Seq(RpcPackets) /\ w \in Seq(RpcPackets)
        /\ rwire'["client"] = Append(q, r) /\ rwire'["server"] = w
        /\ rwire' \in [Sides -> Seq(RpcPackets)]
    <3>1. q \in Seq(RpcPackets) /\ w \in Seq(RpcPackets) /\ Append(q, r) \in Seq(RpcPackets)
      BY <1>2, <1>4, <2>7, <2>8, HeadTail
    <3>2. rwire \in [Sides -> Seq(RpcPackets)]
      BY <1>2, <1>4, HeadTail
    <3>3. rwire' = [[rwire EXCEPT !["server"] = w] EXCEPT !["client"] = Append(q, r)]
      BY <1>2, <2>2, <2>8, <3>2
    <3>. QED  BY <1>2, <3>1, <3>2, <3>3
  <2>10. RpcShape'
    BY <1>1, <1>2, <2>2, <2>6, <2>9 DEF RpcInv, RpcShape
  <2>11. \A t \in Sides : Grows(t)
    <3>1. \A t \in Sides : Len(rsent[t]) \in Nat
      BY DEF RpcInv, RpcShape
    <3>. QED  BY <1>1, <3>1 DEF Grows
  <2>12. WireInv("server")'
    <3>1. WireFrom("server")
      BY <1>2, <1>4, <2>8, <2>9, HeadTail DEF WireFrom
    <3>. QED  BY <1>1, <1>2, <2>10, <2>11, <3>1, WireStays
  <2>13. WireInv("client")'
    <3>1. ASSUME NEW x \in RpcPackets, WireAt("server", x) PROVE WireAt("server", x)'
      BY <1>1, <1>2, <2>10, <2>11, <3>1, PacketsStay DEF RpcInv
    <3>2. \A i \in DOMAIN q : q[i] \in RpcPackets /\ WireAt("server", q[i])
      BY <1>2, <2>8, <2>9 DEF RpcInv, WireInv, Peer
    <3>3. WireAt("server", r)'
      BY <1>1, <2>3, <2>4, <2>7, SettingsStay DEF WireAt, PacketAt, BodyAt
    <3>4. ASSUME NEW i \in DOMAIN Append(q, r)
          PROVE  WireAt("server", Append(q, r)[i])'
      <4>1. PICK x : x = Append(q, r)[i]
        OBVIOUS
      <4>2. CASE i \in DOMAIN q
        <5>1. x = q[i]
          BY <2>9, <4>1, <4>2
        <5>. QED  BY <3>1, <3>2, <4>1, <4>2, <5>1
      <4>3. CASE i \notin DOMAIN q
        <5>1. x = r
          BY <2>9, <4>1, <4>3
        <5>. QED  BY <3>3, <4>1, <5>1
      <4>. QED  BY <4>2, <4>3
    <3>5. Peer("client")' = "server"
      BY DEF Peer
    <3>. QED  BY <2>9, <3>4, <3>5 DEF WireInv
  <2>14. ASSUME NEW t \in Sides PROVE GotInv(t)'
    <3>1. \/ rend'[t].in = rend[t].in
          \/ rend'[t].in = rend[t].in + 1 /\ rend'[t].in <= 0
      BY <1>3, <2>2, <2>5, <2>6 DEF RpcInv, RpcShape
    <3>. QED  BY <1>1, <2>10, <2>11, <3>1, SidesTwo, GotStays
  <2>15. EndPlain("server", e)'
    <3>1. Chosen("server")' /\ e.key = KeyOf("server")' /\ Opened'
      BY <1>1, <2>3, <2>4, SettingsStay
    <3>2. rsent'["server"] = <<>> /\ "server" # "client"
      BY <1>1, <2>5
    <3>. QED  BY <2>5, <2>6, <3>1, <3>2 DEF EndPlain
  <2>16. EndQueues("server", e)'
    <3>1. EndQueues("server", d)'
      BY <1>1, <1>2, <1>4, <2>10, EndKeeps
    <3>. QED  BY <2>6, <3>1 DEF EndQueues
  <2>17. \A t \in Sides : WireInv(t)' /\ GotInv(t)'
    BY <2>12, <2>13, <2>14 DEF Sides
  <2>. QED  BY <1>1, <1>2, <1>3, <1>4, <2>2, <2>6, <2>10, <2>11, <2>15, <2>16, <2>17, EndMoves
<1>. QED  BY <1>5, <1>6

\* A move of one end that sends nothing to the application of the other.
LEMMA QuietMove ==
    ASSUME RpcInv, rcfg' = rcfg, rsent' = rsent, rgot' = rgot, NEW s \in Sides, NEW e,
           rend' = [rend EXCEPT ![s] = e], rend[s].up, e.up, e \in Ends,
           e.in = rend[s].in \/ (e.in = rend[s].in + 1 /\ e.in <= 0),
           rwire' \in [Sides -> Seq(RpcPackets)], \A t \in Sides : WireFrom(t),
           e.error = 0 => EndPlain(s, e)' /\ EndQueues(s, e)'
    PROVE  RpcInv'
<1>1. RpcShape'
  BY DEF RpcInv, RpcShape
<1>2. \A t \in Sides : Grows(t)
  <2>1. RpcShape
    BY DEF RpcInv
  <2>2. \A t \in Sides : Len(rsent[t]) \in Nat
    BY <2>1 DEF RpcShape
  <2>. QED  BY <2>2 DEF Grows
<1>3. \A t \in Sides : \/ rend'[t].in = rend[t].in
                       \/ rend'[t].in = rend[t].in + 1 /\ rend'[t].in <= 0
  BY DEF RpcInv, RpcShape
<1>4. \A t \in Sides : WireInv(t)' /\ GotInv(t)'
  BY <1>1, <1>2, <1>3, SidesTwo, WireStays, GotStays
<1>. QED  BY <1>1, <1>2, <1>4, EndMoves

LEMMA KeepsParseClientNonce ==
    ASSUME RpcInv, ParseClientNonce
    PROVE  RpcInv'
<1>1. PICK p \in Good("client"), rest \in {FALSE, Len(rwire["client"]) > 1} :
        /\ p.num = -2
        /\ LET d == rend["client"]
               code == ClientNonceError(d, p, rest)
           IN  rend' = [rend EXCEPT !["client"] =
                   IF code # 0 THEN FailEnd([d EXCEPT !.in = @ + 1], code)
                   ELSE ClientAnswer(d, p)]
        /\ rwire' = [rwire EXCEPT !["client"] = Tail(@)]
        /\ UNCHANGED <<rcfg, rsent, rgot, rfaults>>
  BY DEF ParseClientNonce
<1>2. "server" \in Sides /\ "client" \in Sides /\ Peer("client") = "server"
  BY DEF Sides, Peer
<1>3. PICK d : d = rend["client"]
  OBVIOUS
<1>4. /\ d.up /\ d.error = 0 /\ rwire["client"] # <<>>
      /\ p = Head(rwire["client"]) /\ p \in RpcPackets /\ p.num = d.in
      /\ BodyAt("server", p.num, p.body)
      /\ EndPlain("client", d) /\ EndQueues("client", d) /\ d \in Ends
  BY <1>2, <1>3, GoodPacket DEF RpcInv, RpcShape
<1>5. rwire' \in [Sides -> Seq(RpcPackets)] /\ \A t \in Sides : WireFrom(t)
  BY <1>1, <1>2, <1>4, TailFrom
<1>6. PICK m \in Int : m = -1
  OBVIOUS
<1>7. PICK a : a = [d EXCEPT !.in = m]
  OBVIOUS
<1>8. /\ a \in Ends /\ a.in = -1 /\ a.up /\ a.error = 0 /\ a = [d EXCEPT !.in = @ + 1]
      /\ a.num = d.num /\ a.out = d.out /\ a.outq = d.outq /\ a.crc = d.crc
  <2>1. d.in = -2 /\ a \in Ends
    BY <1>1, <1>4, <1>7, EndUpdates
  <2>2. d.in + 1 = m
    BY <1>6, <2>1
  <2>3. a = [d EXCEPT !.in = @ + 1]
    BY <1>7, <2>2
  <2>4. /\ a.in = m /\ a.up = d.up /\ a.error = d.error
        /\ a.num = d.num /\ a.out = d.out /\ a.outq = d.outq /\ a.crc = d.crc
    BY <1>4, <1>7 DEF Ends
  <2>. QED  BY <1>4, <1>6, <2>1, <2>3, <2>4
<1>9. CASE ClientNonceError(d, p, rest) # 0
  <2>1. PICK c, e : c = ClientNonceError(d, p, rest) /\ e = FailEnd(a, c)
    OBVIOUS
  <2>2. c \in Int \ {0}
    BY <1>9, <2>1 DEF ClientNonceError
  <2>3. e = [a EXCEPT !.error = c]
    BY <2>1 DEF FailEnd
  <2>4. e \in Ends /\ e.in = -1 /\ e.up /\ e.error # 0
    BY <1>8, <2>2, <2>3, EndUpdates DEF Ends
  <2>5. rend' = [rend EXCEPT !["client"] = e]
    <3>1. rend' = [rend EXCEPT !["client"] =
                     FailEnd([rend["client"] EXCEPT !.in = @ + 1],
                             ClientNonceError(rend["client"], p, rest))]
      BY <1>1, <1>3, <1>9
    <3>2. [rend["client"] EXCEPT !.in = @ + 1] = a
      BY <1>3, <1>8
    <3>. QED  BY <1>3, <2>1, <3>1, <3>2
  <2>6. e.in = d.in + 1 /\ e.in <= 0
    BY <1>1, <1>4, <2>4
  <2>7. rcfg' = rcfg /\ rsent' = rsent /\ rgot' = rgot
    BY <1>1
  <2>. QED  BY <1>2, <1>3, <1>4, <1>5, <2>4, <2>5, <2>6, <2>7, QuietMove
<1>10. CASE ClientNonceError(d, p, rest) = 0
  <2>1. PICK e : e = ClientAnswer(d, p)
    OBVIOUS
  <2>2. rend' = [rend EXCEPT !["client"] = e]
    BY <1>1, <1>3, <1>10, <2>1
  <2>3. d.flags = FirstFlags("client") /\ p.body = NonceOf("server")
        /\ d.num + Len(d.outq) = -1
        /\ rsent["client"] = <<>> /\ d.crc = "crc32" /\ Opened /\ d.num >= -2
    BY <1>1, <1>4 DEF EndPlain, BodyAt
  <2>4. Chosen("client") /\ e.key = KeyOf("client")
    BY <1>4, <1>10, <2>1, <2>3, ClientChooses DEF RpcInv
  <2>5. PICK h : h = HandshakeOf("client")
    OBVIOUS
  <2>6. h \in Bodies /\ h = [type |-> "handshake", crc32c |-> "client" \in rcfg.crc]
    <3>1. h \in Bodies
      BY <1>2, <2>5, NonceTypes
    <3>2. ("client" \in rcfg.crc /\ ("client" = "server" => "server" \in rcfg.crc))
            = ("client" \in rcfg.crc)
      OBVIOUS
    <3>. QED  BY <2>5, <3>1, <3>2 DEF HandshakeOf
  <2>7. PICK T, F, K :
          /\ T = (d.temp /\ p.body.schema = "NONE")
          /\ F = IF p.body.schema = "NONE" THEN {"UNENC"} ELSE d.flags
          /\ K = IF p.body.schema = "NONE" THEN Plain
                 ELSE CreateKey(p.body.nonce, OwnNonce("client"), OwnSecret("client"),
                                p.body.schema = "AES_DH")
    OBVIOUS
  <2>8. PICK b, c, n : b = [a EXCEPT !.temp = T] /\ c = [b EXCEPT !.flags = F]
                       /\ n = [c EXCEPT !.key = K]
    OBVIOUS
  <2>9. T \in BOOLEAN /\ F \in SUBSET RpcFlags
    <3>1. d.flags \in SUBSET RpcFlags
      BY <1>4 DEF Ends
    <3>2. {"UNENC"} \in SUBSET RpcFlags
      BY DEF RpcFlags, PermFlags
    <3>. QED  BY <2>7, <3>1, <3>2
  <2>10. b \in Ends /\ c \in Ends
    BY <1>8, <2>8, <2>9, EndUpdates
  <2>11. e = Queue(n, h)
    BY <1>8, <2>1, <2>6, <2>7, <2>8 DEF ClientAnswer
  <2>12. e = [n EXCEPT !.outq = Append(n.outq, h)] /\ n.key = K
    BY <2>8, <2>10, <2>11 DEF Queue, Ends
  <2>13. e.key = K
    BY <2>8, <2>10, <2>12 DEF Ends
  <2>14. K \in RpcKeys
    BY <1>2, <2>4, <2>13, KeyTypes
  <2>15. n \in Ends
    BY <2>8, <2>10, <2>14, EndUpdates
  <2>16. /\ n.in = -1 /\ n.up /\ n.error = 0 /\ n.num = d.num /\ n.out = d.out
         /\ n.outq = d.outq /\ n.crc = d.crc /\ n.key = K
    BY <1>8, <2>8, <2>10, <2>12 DEF Ends
  <2>17. /\ e \in Ends /\ Len(e.outq) = Len(d.outq) + 1
         /\ \A i \in DOMAIN e.outq :
              \/ i \in DOMAIN d.outq /\ e.outq[i] = d.outq[i]
              \/ i = Len(d.outq) + 1 /\ e.outq[i] = h
    BY <2>6, <2>11, <2>15, <2>16, QueuedAt
  <2>18. /\ e.in = -1 /\ e.up /\ e.error = 0 /\ e.num = d.num /\ e.out = d.out
         /\ e.crc = d.crc /\ e.key = K
    BY <2>12, <2>15, <2>16 DEF Ends
  <2>19. rcfg' = rcfg /\ rsent' = rsent /\ rgot' = rgot
    BY <1>1
  <2>20. EndPlain("client", e)'
    <3>1. Chosen("client")' /\ e.key = KeyOf("client")' /\ Opened'
      BY <2>3, <2>4, <2>19, SettingsStay
    <3>2. rsent'["client"] = <<>> /\ "server" # "client"
      BY <2>3, <2>19
    <3>3. Len(d.outq) \in Nat /\ d.num \in Int
      BY <1>4 DEF Ends
    <3>. QED  BY <2>3, <2>17, <2>18, <3>1, <3>2, <3>3 DEF EndPlain
  <2>21. EndQueues("client", e)'
    <3>0. RpcShape'
      BY <1>2, <1>5, <2>2, <2>17, <2>19 DEF RpcInv, RpcShape
    <3>1. EndQueues("client", d)'
      BY <1>2, <1>4, <2>19, <3>0, EndKeeps
    <3>2. Len(d.outq) \in Nat /\ d.num \in Int
      BY <1>4 DEF Ends
    <3>3. BodyAt("client", -1, h)'
      BY <2>5, <2>19, SettingsStay DEF BodyAt
    <3>4. ASSUME NEW i \in DOMAIN e.outq PROVE BodyAt("client", e.num + i - 1, e.outq[i])'
      <4>1. CASE i \in DOMAIN d.outq /\ e.outq[i] = d.outq[i]
        BY <2>18, <3>1, <4>1 DEF EndQueues
      <4>2. CASE i = Len(d.outq) + 1 /\ e.outq[i] = h
        <5>1. e.num + i - 1 = -1
          BY <2>3, <2>18, <3>2, <4>2
        <5>. QED  BY <3>3, <4>2, <5>1
      <4>. QED  BY <2>17, <4>1, <4>2
    <3>. QED  BY <2>18, <3>1, <3>4 DEF EndQueues
  <2>22. e.in = d.in + 1 /\ e.in <= 0
    BY <1>1, <1>4, <2>18
  <2>. QED  BY <1>2, <1>3, <1>4, <1>5, <2>2, <2>17, <2>18, <2>19, <2>20, <2>21, <2>22,
               QuietMove
<1>. QED  BY <1>9, <1>10

LEMMA RefusedShape ==
    ASSUME NEW d \in Ends, NEW c \in Int
    PROVE  /\ RefuseHandshake(d, c) \in Ends /\ RefuseHandshake(d, c).in = d.in
           /\ RefuseHandshake(d, c).up = d.up /\ RefuseHandshake(d, c).error = c
<1>1. PICK b, q : b = [type |-> "error"] /\ q = Queue(d, b)
  OBVIOUS
<1>2. b \in Bodies
  BY <1>1 DEF Bodies
<1>3. q \in Ends /\ q = [d EXCEPT !.outq = Append(d.outq, b)]
  BY <1>1, <1>2, QueuedAt
<1>4. q.in = d.in /\ q.up = d.up
  BY <1>3 DEF Ends
<1>5. RefuseHandshake(d, c) = [q EXCEPT !.error = c]
  BY <1>1 DEF RefuseHandshake, FailEnd
<1>6. RefuseHandshake(d, c) \in Ends
  BY <1>3, <1>5, EndUpdates
<1>. QED  BY <1>3, <1>4, <1>5, <1>6 DEF Ends

\* Who gets a handshake under its own key knows that both have chosen the same.
LEMMA HandshakeMeans ==
    ASSUME RpcInv, NEW s \in Sides, NEW p \in Good(s), p.num = -1
    PROVE  /\ p.body = HandshakeOf(Peer(s))
           /\ rend[s].in = -1 /\ rend[s].key = KeyOf(s)
           /\ \A t \in Sides : Chosen(t) /\ KeyOf(t) = KeyOf(s)
<1>1. /\ p.num = rend[s].in /\ p.key = rend[s].key /\ p.type # "pad"
      /\ WireAt(Peer(s), p) /\ BodyAt(Peer(s), p.num, p.body) /\ EndPlain(s, rend[s])
  BY GoodPacket
<1>2. rend[s].in = -1 /\ Chosen(s) /\ rend[s].key = KeyOf(s)
  BY <1>1 DEF EndPlain
<1>3. Chosen(Peer(s)) /\ p.key = KeyOf(Peer(s))
  BY <1>1 DEF WireAt
<1>4. p.body = HandshakeOf(Peer(s))
  BY <1>1 DEF BodyAt
<1>. QED  BY <1>1, <1>2, <1>3, <1>4, SidesTwo

LEMMA KeepsParseHandshake ==
    ASSUME RpcInv, NEW s \in Sides, ParseHandshake(s)
    PROVE  RpcInv'
<1>1. PICK p \in Good(s) :
        /\ p.num = -1
        /\ rend' = [rend EXCEPT ![s] = IF s = "server" THEN ServerHandshake(@, p)
                                       ELSE ClientHandshake(@, p)]
        /\ rwire' = [rwire EXCEPT ![s] = Tail(@)]
        /\ UNCHANGED <<rcfg, rsent, rgot, rfaults>>
  BY DEF ParseHandshake
<1>2. PICK d, e : /\ d = rend[s]
                  /\ e = IF s = "server" THEN ServerHandshake(d, p)
                         ELSE ClientHandshake(d, p)
  OBVIOUS
<1>3. rend' = [rend EXCEPT ![s] = e]
  BY <1>1, <1>2
<1>4. /\ d.up /\ d.error = 0 /\ rwire[s] # <<>>
      /\ EndPlain(s, d) /\ EndQueues(s, d) /\ d \in Ends
  BY <1>2, GoodPacket DEF RpcInv, RpcShape
<1>5. rwire' \in [Sides -> Seq(RpcPackets)] /\ \A t \in Sides : WireFrom(t)
  BY <1>1, <1>4, TailFrom
<1>6. rcfg' = rcfg /\ rsent' = rsent /\ rgot' = rgot
  BY <1>1
<1>7. /\ p.body = HandshakeOf(Peer(s)) /\ d.in = -1 /\ d.key = KeyOf(s)
      /\ \A t \in Sides : Chosen(t) /\ KeyOf(t) = KeyOf(s)
  BY <1>1, <1>2, HandshakeMeans
<1>8. /\ rsent[s] = <<>> /\ d.crc = "crc32" /\ d.num >= -2
      /\ s = "server" => d.outq = <<>>
      /\ d.num + Len(d.outq) = IF s = "client" THEN 0 ELSE -1
      /\ Opened
  BY <1>4, <1>7 DEF EndPlain
<1>9. rcfg.crc \in SUBSET Sides
  BY Configured DEF RpcInv
<1>10. RpcShape' \/ e \notin Ends
  BY <1>3, <1>5, <1>6 DEF RpcInv, RpcShape
\* A refused handshake.
<1>11. ASSUME NEW c \in Int \ {0}, NEW a \in Ends, e = RefuseHandshake(a, c), a.up,
              a.in = d.in \/ (a.in = d.in + 1 /\ a.in <= 0)
       PROVE  RpcInv'
  <2>1. e \in Ends /\ e.in = a.in /\ e.up /\ e.error # 0
    BY <1>11, RefusedShape
  <2>. QED  BY <1>2, <1>3, <1>4, <1>5, <1>6, <1>11, <2>1, QuietMove
\* An accepted one.
<1>12. ASSUME e \in Ends, e.up, e.in = 0, ~ PidRefused(s), e.crc = CrcAgreed,
              e.key = d.key, e.outq = d.outq,
              e.num + Len(e.outq) = 0, e.num >= d.num, s = "client" => e.num = d.num,
              \A i \in DOMAIN e.out :
                \/ i \in DOMAIN d.out /\ e.out[i] = d.out[i]
                \/ /\ e.out[i].num = -1 /\ e.out[i].body = HandshakeOf(s)
       PROVE  RpcInv'
  <2>1. EndPlain(s, e)'
    <3>1. /\ \A t \in Sides : Chosen(t)' /\ KeyOf(t)' = KeyOf(s)'
          /\ e.key = KeyOf(s)' /\ e.crc = CrcAgreed' /\ ~ PidRefused(s)'
          /\ Opened'
      BY <1>6, <1>7, <1>8, <1>12, SettingsStay
    <3>2. Len(rsent'[s]) = 0
      BY <1>6, <1>8
    <3>3. e.num \in Int /\ d.num \in Int
      BY <1>4, <1>12 DEF Ends
    <3>. QED  BY <1>8, <1>12, <3>1, <3>2, <3>3 DEF EndPlain
  <2>2. EndQueues(s, e)'
    <3>1. EndQueues(s, d)'
      BY <1>4, <1>6, <1>10, <1>12, EndKeeps
    <3>2. \A i \in DOMAIN e.outq : BodyAt(s, e.num + i - 1, e.outq[i])'
      <4>1. CASE s = "client"
        BY <1>12, <3>1, <4>1 DEF EndQueues
      <4>2. CASE s # "client"
        <5>1. d.outq = <<>>
          BY <1>8, <4>2 DEF Sides
        <5>2. PICK q : q = e.outq
          OBVIOUS
        <5>3. q = <<>>
          BY <1>12, <5>1, <5>2
        <5>. QED  BY <5>2, <5>3
      <4>. QED  BY <4>1, <4>2
    <3>3. ASSUME NEW i \in DOMAIN e.out PROVE PacketAt(s, e.out[i])'
      <4>1. CASE i \in DOMAIN d.out /\ e.out[i] = d.out[i]
        BY <3>1, <4>1 DEF EndQueues
      <4>2. CASE e.out[i].num = -1 /\ e.out[i].body = HandshakeOf(s)
        BY <1>6, <4>2, SettingsStay DEF PacketAt, BodyAt
      <4>. QED  BY <1>12, <4>1, <4>2
    <3>. QED  BY <1>12, <3>2, <3>3 DEF EndQueues
  <2>3. e.in = d.in + 1 /\ e.in <= 0
    BY <1>7, <1>12
  <2>. QED  BY <1>2, <1>3, <1>4, <1>5, <1>6, <1>12, <2>1, <2>2, <2>3, QuietMove
<1>13. PICK z \in Int : z = 0
  OBVIOUS
<1>14. PICK a : a = [d EXCEPT !.in = z]
  OBVIOUS
<1>15. /\ a \in Ends /\ a.in = 0 /\ a.up /\ a.num = d.num /\ a.outq = d.outq
       /\ a.out = d.out /\ a.key = d.key /\ a.flags = d.flags
  BY <1>4, <1>13, <1>14, EndUpdates DEF Ends
<1>16. a = [d EXCEPT !.in = @ + 1]
  <2>1. d.in + 1 = z
    BY <1>7, <1>13
  <2>. QED  BY <1>14, <2>1
<1>17. d.flags \cup {"CRC32C"} \in SUBSET RpcFlags /\ d.flags \cup {} \in SUBSET RpcFlags
  BY <1>4 DEF Ends, RpcFlags
<1>18. CASE s = "client"
  <2>1. e = ClientHandshake(d, p)
    BY <1>2, <1>18
  <2>2. p.body.crc32c <=> "client" \in rcfg.crc /\ "server" \in rcfg.crc
    <3>1. p.body = HandshakeOf("server")
      BY <1>7, <1>18 DEF Peer
    <3>2. p.body.crc32c = ("client" \in rcfg.crc /\ ("server" = "server" => "server" \in rcfg.crc))
      BY <3>1 DEF HandshakeOf
    <3>. QED  BY <3>2
  <2>3. CASE PidRefused("client")
    <3>1. e = RefuseHandshake(a, -6)
      BY <1>16, <2>1, <2>3 DEF ClientHandshake
    <3>2. PICK c \in Int \ {0} : c = -6
      OBVIOUS
    <3>. QED  BY <1>7, <1>11, <1>15, <3>1, <3>2
  <2>4. CASE ~ PidRefused("client") /\ p.body.crc32c /\ "client" \notin rcfg.crc
    BY <2>2, <2>4
  <2>5. CASE ~ PidRefused("client") /\ ~ (p.body.crc32c /\ "client" \notin rcfg.crc)
    <3>1. PICK F, k : /\ F = d.flags \cup (IF p.body.crc32c THEN {"CRC32C"} ELSE {})
                      /\ k = IF p.body.crc32c THEN "crc32c" ELSE d.crc
      OBVIOUS
    <3>2. F \in SUBSET RpcFlags /\ k = CrcAgreed /\ k \in Crcs
      <4>1. F \in SUBSET RpcFlags
        BY <1>17, <3>1
      <4>2. k = CrcAgreed
        BY <1>8, <1>9, <2>2, <3>1 DEF CrcAgreed, Sides
      <4>. QED  BY <4>1, <4>2 DEF CrcAgreed, Crcs
    <3>3. e = [d EXCEPT !.in = @ + 1, !.flags = F, !.crc = k]
      BY <2>1, <2>5, <3>1 DEF ClientHandshake
    <3>4. PICK b : b = [a EXCEPT !.flags = F]
      OBVIOUS
    <3>5. e = [b EXCEPT !.crc = k]
      BY <1>16, <3>3, <3>4
    <3>6. b \in Ends
      BY <1>15, <3>2, <3>4, EndUpdates
    <3>7. /\ b.in = 0 /\ b.up /\ b.num = d.num /\ b.outq = d.outq
          /\ b.out = d.out /\ b.key = d.key
      BY <1>15, <3>4 DEF Ends
    <3>8. e \in Ends
      BY <3>2, <3>5, <3>6, EndUpdates
    <3>9. /\ e.in = 0 /\ e.up /\ e.num = d.num /\ e.outq = d.outq
          /\ e.out = d.out /\ e.key = d.key /\ e.crc = k
      BY <3>5, <3>6, <3>7 DEF Ends
    <3>10. d.num \in Int
      BY <1>4 DEF Ends
    <3>. QED  BY <1>8, <1>12, <1>18, <2>5, <3>2, <3>8, <3>9, <3>10
  <2>. QED  BY <2>3, <2>4, <2>5
<1>19. CASE s = "server"
  <2>1. e = ServerHandshake(d, p)
    BY <1>2, <1>19
  <2>2. p.body.crc32c <=> "client" \in rcfg.crc
    <3>1. p.body = HandshakeOf("client")
      BY <1>7, <1>19 DEF Peer
    <3>2. p.body.crc32c = ("client" \in rcfg.crc /\ ("client" = "server" => "server" \in rcfg.crc))
      BY <3>1 DEF HandshakeOf
    <3>. QED  BY <3>2
  <2>3. CASE PidRefused("server")
    <3>1. e = RefuseHandshake(d, -4)
      BY <2>1, <2>3 DEF ServerHandshake
    <3>2. PICK c \in Int \ {0} : c = -4
      OBVIOUS
    <3>. QED  BY <1>4, <1>11, <3>1, <3>2
  <2>4. CASE ~ PidRefused("server")
    <3>1. PICK x, r, F, k :
            /\ x = (p.body.crc32c /\ "server" \in rcfg.crc)
            /\ r = Packet([type |-> "handshake", crc32c |-> x], d.num, d.crc)
            /\ F = d.flags \cup (IF x THEN {"CRC32C"} ELSE {})
            /\ k = IF x THEN "crc32c" ELSE d.crc
      OBVIOUS
    <3>2. x = ("client" \in rcfg.crc /\ "server" \in rcfg.crc) /\ x \in BOOLEAN
      BY <2>2, <3>1
    <3>3. F \in SUBSET RpcFlags /\ k = CrcAgreed /\ k \in Crcs
      <4>1. F \in SUBSET RpcFlags
        BY <1>17, <3>1
      <4>2. k = CrcAgreed
        BY <1>8, <1>9, <3>1, <3>2 DEF CrcAgreed, Sides
      <4>. QED  BY <4>1, <4>2 DEF CrcAgreed, Crcs
    <3>4. d.num = -1 /\ d.outq = <<>>
      <4>1. d.outq = <<>> /\ d.num + Len(d.outq) = -1 /\ d.num \in Int
        BY <1>4, <1>8, <1>19 DEF Ends
      <4>2. Len(d.outq) = 0
        BY <4>1
      <4>. QED  BY <4>1, <4>2
    <3>5. r \in RpcPackets /\ r.num = -1 /\ r.body = HandshakeOf("server")
      <4>1. [type |-> "handshake", crc32c |-> x] = HandshakeOf("server")
        BY <3>2 DEF HandshakeOf
      <4>2. HandshakeOf("server") \in Bodies /\ HandshakeOf("server").type = "handshake"
        BY SidesTwo, NonceTypes DEF HandshakeOf
      <4>3. PICK h : h = HandshakeOf("server")
        OBVIOUS
      <4>4. r = Packet(h, -1, d.crc)
        BY <3>1, <3>4, <4>1, <4>3
      <4>. QED  BY <1>4, <4>2, <4>3, <4>4 DEF Packet, RpcPackets, PacketTypes, Ends, RpcKeys
    <3>6. PICK o : o = Append(d.out, r)
      OBVIOUS
    <3>7. /\ o \in Seq(RpcPackets)
          /\ \A i \in DOMAIN o : \/ i \in DOMAIN d.out /\ o[i] = d.out[i]
                                 \/ o[i] = r
      <4>1. PICK q : q = d.out
        OBVIOUS
      <4>2. q \in Seq(RpcPackets) /\ o = Append(q, r)
        BY <1>4, <3>6, <4>1 DEF Ends
      <4>3. /\ o \in Seq(RpcPackets)
            /\ \A i \in DOMAIN o : (i \in DOMAIN q /\ o[i] = q[i]) \/ o[i] = r
        BY <3>5, <4>2
      <4>. QED  BY <4>1, <4>3
    <3>8. e = [d EXCEPT !.in = @ + 1, !.num = @ + 1, !.out = o, !.flags = F, !.crc = k]
      BY <2>1, <2>4, <3>1, <3>6 DEF ServerHandshake
    <3>9. PICK b1, b2, b3 : /\ b1 = [a EXCEPT !.num = z] /\ b2 = [b1 EXCEPT !.out = o]
                            /\ b3 = [b2 EXCEPT !.flags = F]
      OBVIOUS
    <3>10. e = [b3 EXCEPT !.crc = k]
      <4>1. d.num + 1 = z
        BY <1>13, <3>4
      <4>. QED  BY <1>16, <3>8, <3>9, <4>1
    <3>11. b1 \in Ends
      BY <1>13, <1>15, <3>9, EndUpdates
    <3>12. b2 \in Ends
      BY <3>7, <3>9, <3>11, EndUpdates
    <3>13. b3 \in Ends
      BY <3>3, <3>9, <3>12, EndUpdates
    <3>14. e \in Ends
      BY <3>3, <3>10, <3>13, EndUpdates
    <3>15. b1.in = 0 /\ b1.up /\ b1.num = 0 /\ b1.outq = d.outq /\ b1.key = d.key
      BY <1>13, <1>15, <3>9 DEF Ends
    <3>16. /\ b2.in = 0 /\ b2.up /\ b2.num = 0 /\ b2.outq = d.outq /\ b2.key = d.key
           /\ b2.out = o
      BY <3>9, <3>11, <3>15 DEF Ends
    <3>17. /\ b3.in = 0 /\ b3.up /\ b3.num = 0 /\ b3.outq = d.outq /\ b3.key = d.key
           /\ b3.out = o
      BY <3>9, <3>12, <3>16 DEF Ends
    <3>18. /\ e.in = 0 /\ e.up /\ e.num = 0 /\ e.outq = d.outq /\ e.key = d.key
           /\ e.out = o /\ e.crc = k
      BY <3>10, <3>13, <3>17 DEF Ends
    <3>19. Len(e.outq) = 0
      BY <3>4, <3>18
    <3>20. e.num + Len(e.outq) = 0 /\ e.num >= d.num
      BY <3>4, <3>18, <3>19
    <3>21. \A i \in DOMAIN e.out :
             \/ i \in DOMAIN d.out /\ e.out[i] = d.out[i]
             \/ /\ e.out[i].num = -1 /\ e.out[i].body = HandshakeOf(s)
      BY <1>19, <3>5, <3>7, <3>18
    <3>. QED  BY <1>12, <1>19, <2>4, <3>3, <3>14, <3>18, <3>20, <3>21
  <2>. QED  BY <2>3, <2>4
<1>. QED  BY <1>18, <1>19 DEF Sides

\* A message an end sends is the next one of its numbers.
LEMMA Sending ==
    ASSUME RpcInv, RpcShape', rcfg' = rcfg, NEW s \in Sides, NEW d \in Ends,
           EndPlain(s, d), EndQueues(s, d), d.in >= 0,
           NEW b \in AppBodies, rsent' = [rsent EXCEPT ![s] = Append(@, b)]
    PROVE  /\ Grows(s) /\ rsent'[Peer(s)] = rsent[Peer(s)]
           /\ Queue(d, b) \in Ends /\ Queue(d, b).in = d.in
           /\ Queue(d, b).up = d.up /\ Queue(d, b).error = d.error
           /\ EndPlain(s, Queue(d, b))' /\ EndQueues(s, Queue(d, b))'
<1>1. PICK q, r, e : q = rsent[s] /\ r = Append(q, b) /\ e = Queue(d, b)
  OBVIOUS
<1>2. /\ q \in Seq(AppBodies) /\ r \in Seq(AppBodies) /\ Len(r) = Len(q) + 1
      /\ Len(q) \in Nat /\ r[Len(q) + 1] = b
      /\ \A i \in 1 .. Len(q) : r[i] = q[i]
  <2>1. q \in Seq(AppBodies)
    BY <1>1, ZenonT(40) DEF RpcInv, RpcShape
  <2>2. r = Append(q, b)
    BY <1>1, ZenonT(40)
  <2>. QED
    BY <2>1, <2>2, AppendOf
<1>3. rsent' = [rsent EXCEPT ![s] = r] /\ rsent \in [Sides -> Seq(AppBodies)]
  BY <1>1 DEF RpcInv, RpcShape
<1>4. rsent'[s] = r /\ rsent'[Peer(s)] = rsent[Peer(s)]
  BY <1>3, SidesTwo
<1>5. Grows(s)
  BY <1>1, <1>2, <1>4 DEF Grows
<1>6. b \in Bodies
  BY DEF Bodies
<1>7. /\ e \in Ends /\ e = [d EXCEPT !.outq = Append(d.outq, b)]
      /\ Len(e.outq) = Len(d.outq) + 1
      /\ \A i \in DOMAIN e.outq :
           \/ i \in DOMAIN d.outq /\ e.outq[i] = d.outq[i]
           \/ i = Len(d.outq) + 1 /\ e.outq[i] = b
  BY <1>1, <1>6, QueuedAt
<1>8. /\ e.in = d.in /\ e.up = d.up /\ e.error = d.error /\ e.num = d.num
      /\ e.out = d.out /\ e.crc = d.crc /\ e.key = d.key /\ e.flags = d.flags
  BY <1>7 DEF Ends
<1>9. d.num + Len(d.outq) = Len(q) /\ d.num \in Int /\ Len(d.outq) \in Nat
  BY <1>1 DEF EndPlain, Ends
<1>10. EndPlain(s, e)'
  <2>1. /\ \A t \in Sides : Chosen(t)' /\ KeyOf(t)' = KeyOf(s)'
        /\ Chosen(s)' /\ d.key = KeyOf(s)' /\ d.crc = CrcAgreed' /\ ~ PidRefused(s)'
        /\ Opened'
    <3>1. d.in \in Int
      BY DEF Ends
    <3>2. /\ \A t \in Sides : Chosen(t) /\ KeyOf(t) = KeyOf(s)
          /\ Chosen(s) /\ d.key = KeyOf(s) /\ d.crc = CrcAgreed /\ ~ PidRefused(s)
          /\ Opened
      BY <3>1 DEF EndPlain
    <3>. QED  BY <3>2, SettingsStay
  <2>2. e.num + Len(e.outq) = Len(rsent'[s])
    BY <1>2, <1>4, <1>7, <1>8, <1>9
  <2>3. e.in >= 0 /\ e.num >= -2
    BY <1>8 DEF EndPlain
  <2>4. e.in \in Int
    BY <1>7 DEF Ends
  <2>. QED  BY <1>8, <2>1, <2>2, <2>3, <2>4 DEF EndPlain
<1>11. \A n \in Int : \A x : BodyAt(s, n, x) => BodyAt(s, n, x)'
  BY <1>5, BodiesStay DEF RpcInv
<1>12. \A x \in RpcPackets : PacketAt(s, x) => PacketAt(s, x)'
  BY <1>5, PacketsStay DEF RpcInv
<1>13. ASSUME NEW i \in DOMAIN e.outq PROVE BodyAt(s, e.num + i - 1, e.outq[i])'
  <2>1. CASE i \in DOMAIN d.outq /\ e.outq[i] = d.outq[i]
    <3>1. PICK n, x : n = d.num + i - 1 /\ x = d.outq[i]
      OBVIOUS
    <3>2. n \in Int /\ BodyAt(s, n, x)
      <4>1. d.outq \in Seq(Bodies)
        BY DEF Ends
      <4>. QED  BY <1>9, <2>1, <3>1, <4>1 DEF EndQueues
    <3>. QED  BY <1>8, <1>11, <2>1, <3>1, <3>2
  <2>2. CASE i = Len(d.outq) + 1 /\ e.outq[i] = b
    <3>1. PICK n : n = Len(q)
      OBVIOUS
    <3>2. e.num + i - 1 = n
      BY <1>8, <1>9, <2>2, <3>1
    <3>3. n >= 0 /\ n < Len(r) /\ b = r[n + 1] /\ n \in Nat
      BY <1>2, <3>1
    <3>4. BodyAt(s, n, b)'
      BY <1>4, <3>3 DEF BodyAt
    <3>. QED  BY <2>2, <3>2, <3>4
  <2>. QED  BY <1>7, <2>1, <2>2
<1>14. ASSUME NEW i \in DOMAIN e.out PROVE PacketAt(s, e.out[i])'
  <2>1. PICK x : x = d.out[i]
    OBVIOUS
  <2>2. d.out \in Seq(RpcPackets) /\ i \in DOMAIN d.out
    BY <1>8 DEF Ends
  <2>3. x \in RpcPackets /\ PacketAt(s, x)
    BY <2>1, <2>2 DEF EndQueues
  <2>. QED  BY <1>8, <1>12, <2>1, <2>3
<1>15. EndQueues(s, e)'
  <2>1. \A i \in DOMAIN e.out : e.out[i].type # "pad" /\ e.out[i].num >= -1 => e.in >= -1
    BY <1>8 DEF EndQueues
  <2>. QED  BY <1>13, <1>14, <2>1 DEF EndQueues
<1>. QED  BY <1>1, <1>4, <1>5, <1>7, <1>8, <1>10, <1>15

LEMMA KeepsRpcSend ==
    ASSUME RpcInv, NEW s \in Sides, RpcSend(s)
    PROVE  RpcInv'
<1>1. PICK b : /\ b \in AppBodies
               /\ rend' = [rend EXCEPT ![s] = Queue(@, b)]
               /\ rsent' = [rsent EXCEPT ![s] = Append(@, b)]
  <2>1. PICK y \in {"msg", "ping"} :
          LET body == [type |-> y, id |-> Len(rsent[s]) + 1]
          IN  /\ rend' = [rend EXCEPT ![s] = Queue(@, body)]
              /\ rsent' = [rsent EXCEPT ![s] = Append(@, body)]
    BY DEF RpcSend
  <2>2. [type |-> y, id |-> Len(rsent[s]) + 1] \in AppBodies
    <3>1. Len(rsent[s]) + 1 \in Nat
      BY DEF RpcInv, RpcShape
    <3>. QED  BY <3>1 DEF AppBodies
  <2>. QED  BY <2>1, <2>2
<1>2. rcfg' = rcfg /\ rwire' = rwire /\ rgot' = rgot
  BY DEF RpcSend
<1>3. PICK d, e : d = rend[s] /\ e = Queue(d, b)
  OBVIOUS
<1>4. d \in Ends /\ d.up /\ d.error = 0 /\ d.in >= 0 /\ EndPlain(s, d) /\ EndQueues(s, d)
  BY <1>3 DEF RpcSend, Ready, RpcInv, RpcShape, EndInv
<1>5. b \in Bodies
  BY <1>1 DEF Bodies
<1>6. e \in Ends /\ rend' = [rend EXCEPT ![s] = e]
  BY <1>1, <1>3, <1>4, <1>5, QueuedAt
<1>7. RpcShape'
  <2>1. RpcShape
    BY DEF RpcInv
  <2>2. PICK r : r = Append(rsent[s], b)
    OBVIOUS
  <2>3. r \in Seq(AppBodies) /\ rsent' = [rsent EXCEPT ![s] = r]
    BY <1>1, <2>1, <2>2 DEF RpcShape
  <2>. QED  BY <1>2, <1>6, <2>1, <2>3 DEF RpcShape
<1>8. /\ Grows(s) /\ rsent'[Peer(s)] = rsent[Peer(s)]
      /\ e.in = d.in /\ e.up /\ e.error = 0 /\ EndPlain(s, e)' /\ EndQueues(s, e)'
  BY <1>1, <1>2, <1>3, <1>4, <1>7, Sending
<1>9. \A t \in Sides : Grows(t)
  <2>1. Grows(Peer(s))
    <3>1. Len(rsent[Peer(s)]) \in Nat
      BY SidesTwo DEF RpcInv, RpcShape
    <3>. QED  BY <1>8, <3>1 DEF Grows
  <2>. QED  BY <1>8, <2>1, SidesTwo
<1>10. \A t \in Sides : rend'[t].in = rend[t].in
  BY <1>3, <1>6, <1>8 DEF RpcInv, RpcShape
<1>11. \A t \in Sides : WireInv(t)' /\ GotInv(t)'
  <2>1. \A t \in Sides : WireFrom(t)
    BY <1>2 DEF WireFrom
  <2>. QED  BY <1>2, <1>7, <1>9, <1>10, <2>1, SidesTwo, WireStays, GotStays
<1>. QED  BY <1>2, <1>3, <1>4, <1>6, <1>7, <1>8, <1>11, EndMoves

\* The next message an end executes is the next one of its peer's.
LEMMA KeepsParseMessage ==
    ASSUME RpcInv, NEW s \in Sides, ParseMessage(s)
    PROVE  RpcInv'
<1>1. PICK p \in Good(s) :
        /\ p.num >= 0
        /\ rgot' = [rgot EXCEPT ![s] = Append(@, p.body)]
        /\ LET d == [rend[s] EXCEPT !.in = @ + 1]
               pong == [type |-> "pong", id |-> p.body.id]
           IN  IF p.type = "ping"
               THEN /\ rend' = [rend EXCEPT ![s] = Queue(d, pong)]
                    /\ rsent' = [rsent EXCEPT ![s] = Append(@, pong)]
               ELSE /\ rend' = [rend EXCEPT ![s] = d]
                    /\ UNCHANGED rsent
        /\ rwire' = [rwire EXCEPT ![s] = Tail(@)]
        /\ UNCHANGED <<rcfg, rfaults>>
  BY DEF ParseMessage
<1>2. PICK c, u : c = rend[s] /\ u = Peer(s)
  OBVIOUS
<1>3. u \in Sides /\ u # s /\ Peer(u) = s /\ \A t \in Sides : t = s \/ t = u
  BY <1>2, SidesTwo
<1>4. /\ c \in Ends /\ c.up /\ c.error = 0 /\ rwire[s] # <<>>
      /\ p \in RpcPackets /\ p.num = c.in /\ BodyAt(u, p.num, p.body)
      /\ EndPlain(s, c) /\ EndQueues(s, c) /\ c.in \in Int
  BY <1>2, GoodPacket DEF RpcInv, RpcShape, Ends
<1>5. /\ rsent \in [Sides -> Seq(AppBodies)] /\ rgot \in [Sides -> Seq(AppBodies)]
      /\ rend \in [Sides -> Ends]
  BY DEF RpcInv, RpcShape
\* The message.
<1>6. PICK n, b, g : n = c.in /\ b = p.body /\ g = rgot[s]
  OBVIOUS
<1>7. /\ n \in Nat /\ n < Len(rsent[u]) /\ b = rsent[u][n + 1] /\ b \in AppBodies
  <2>1. n \in Nat /\ n < Len(rsent[u]) /\ b = rsent[u][n + 1]
    BY <1>1, <1>4, <1>6 DEF BodyAt
  <2>2. PICK q : q = rsent[u]
    OBVIOUS
  <2>3. q \in Seq(AppBodies)
    BY <1>3, <1>5, <2>2
  <2>4. n + 1 \in 1 .. Len(q)
    BY <2>1, <2>2, <2>3
  <2>. QED  BY <2>1, <2>2, <2>3, <2>4
<1>8. /\ g \in Seq(AppBodies) /\ Len(g) = n
      /\ \A i \in DOMAIN g : i <= Len(rsent[u]) /\ g[i] = rsent[u][i]
  BY <1>2, <1>4, <1>5, <1>6, <1>7 DEF RpcInv, GotInv
<1>9. PICK h : h = Append(g, b)
  OBVIOUS
<1>10. /\ h \in Seq(AppBodies) /\ Len(h) = n + 1
       /\ \A i \in DOMAIN h : i <= Len(rsent[u]) /\ h[i] = rsent[u][i]
  <2>1. h \in Seq(AppBodies) /\ Len(h) = n + 1
    BY <1>7, <1>8, <1>9
  <2>2. ASSUME NEW i \in DOMAIN h PROVE i <= Len(rsent[u]) /\ h[i] = rsent[u][i]
    <3>1. CASE i \in DOMAIN g
      BY <1>7, <1>8, <1>9, <3>1
    <3>2. CASE i \notin DOMAIN g
      <4>1. i = n + 1 /\ h[i] = b
        BY <1>7, <1>8, <1>9, <3>2
      <4>2. Len(rsent[u]) \in Nat
        BY <1>3, <1>5
      <4>. QED  BY <1>7, <4>1, <4>2
    <3>. QED  BY <3>1, <3>2
  <2>. QED  BY <2>1, <2>2
<1>11. rgot' = [rgot EXCEPT ![s] = h] /\ rgot' \in [Sides -> Seq(AppBodies)]
  BY <1>1, <1>5, <1>6, <1>9, <1>10
<1>12. /\ rwire' \in [Sides -> Seq(RpcPackets)] /\ \A t \in Sides : WireFrom(t)
       /\ rcfg' = rcfg
  BY <1>1, <1>4, TailFrom
\* The end, before it answers a ping.
<1>13. PICK m \in Int : m = n + 1
  BY <1>7
<1>14. PICK d : d = [c EXCEPT !.in = m]
  OBVIOUS
<1>15. /\ d \in Ends /\ d.in = n + 1 /\ d.up /\ d.error = 0 /\ d.num = c.num
       /\ d.outq = c.outq /\ d.out = c.out /\ d.crc = c.crc /\ d.key = c.key
  BY ZenonT(40), <1>4, <1>13, <1>14, EndUpdates DEF Ends
<1>16. d = [rend[s] EXCEPT !.in = @ + 1]
  BY <1>2, <1>6, <1>13, <1>14
<1>17. EndPlain(s, d)
  BY <1>4, <1>6, <1>7, <1>15 DEF EndPlain
<1>18. EndQueues(s, d)
  BY <1>4, <1>6, <1>7, <1>15 DEF EndQueues
\* It moves to e, whatever it answers.
<1>19. ASSUME NEW e \in Ends, rend' = [rend EXCEPT ![s] = e], e.in = n + 1,
              e.up, e.error = 0, RpcShape', Grows(s), rsent'[u] = rsent[u],
              EndPlain(s, e)', EndQueues(s, e)'
       PROVE  RpcInv'
  <2>1. Len(rsent[u]) \in Nat
    BY <1>3, <1>5
  <2>2. Grows(u)
    BY <1>19, <2>1 DEF Grows
  <2>3. \A t \in Sides : WireInv(t)'
    BY <1>3, <1>12, <1>19, <2>2, SidesTwo, WireStays
  <2>4. rgot'[s] = h /\ rgot'[u] = rgot[u] /\ rend'[s] = e /\ rend'[u] = rend[u]
    BY <1>3, <1>5, <1>11, <1>19
  <2>5. GotInv(u)'
    BY <1>3, <1>19, <2>4, GotStays
  <2>6. GotInv(s)'
    <3>1. Peer(s)' = u
      BY <1>2 DEF Peer
    <3>2. n + 1 >= 0
      BY <1>7
    <3>3. Len(rgot'[s]) = IF rend'[s].in >= 0 THEN rend'[s].in ELSE 0
      BY <1>10, <1>19, <2>4, <3>2
    <3>4. \A i \in DOMAIN rgot'[s] : i <= Len(rsent'[u]) /\ rgot'[s][i] = rsent'[u][i]
      BY <1>10, <1>19, <2>4
    <3>. QED  BY <3>1, <3>3, <3>4 DEF GotInv
  <2>7. \A t \in Sides : WireInv(t)' /\ GotInv(t)'
    BY <1>3, <2>3, <2>5, <2>6
  <2>. QED  BY <1>2, <1>3, <1>4, <1>12, <1>19, <2>7, EndMoves
<1>20. CASE p.type = "ping"
  <2>1. PICK k : k = [type |-> "pong", id |-> p.body.id]
    OBVIOUS
  <2>2. k \in AppBodies /\ k \in Bodies
    BY <1>6, <1>7, <2>1 DEF AppBodies, Bodies
  <2>3. PICK e : e = Queue(d, k)
    OBVIOUS
  <2>4. /\ rend' = [rend EXCEPT ![s] = e]
        /\ rsent' = [rsent EXCEPT ![s] = Append(@, k)]
    BY <1>1, <1>16, <1>20, <2>1, <2>3
  <2>5. e \in Ends
    BY <1>15, <2>2, <2>3, QueuedAt
  <2>6. RpcShape'
    <3>1. rsent' \in [Sides -> Seq(AppBodies)]
      <4>1. PICK r : r = Append(rsent[s], k)
        OBVIOUS
      <4>2. r \in Seq(AppBodies) /\ rsent' = [rsent EXCEPT ![s] = r]
        BY <1>5, <2>2, <2>4, <4>1
      <4>. QED  BY <1>5, <4>2
    <3>2. rend' \in [Sides -> Ends]
      BY <1>5, <2>4, <2>5
    <3>. QED  BY <1>11, <1>12, <3>1, <3>2 DEF RpcInv, RpcShape
  <2>7. /\ Grows(s) /\ rsent'[Peer(s)] = rsent[Peer(s)]
        /\ e.in = d.in /\ e.up = d.up /\ e.error = d.error
        /\ EndPlain(s, e)' /\ EndQueues(s, e)'
    <3>1. d.in >= 0
      BY <1>7, <1>15
    <3>. QED  BY <1>12, <1>15, <1>17, <1>18, <2>2, <2>3, <2>4, <2>6, <3>1, Sending
  <2>. QED  BY <1>2, <1>15, <1>19, <2>4, <2>5, <2>6, <2>7
<1>21. CASE p.type # "ping"
  <2>1. rend' = [rend EXCEPT ![s] = d] /\ rsent' = rsent
    BY <1>1, <1>16, <1>21
  <2>2. RpcShape'
    <3>1. rend' \in [Sides -> Ends]
      BY <1>5, <1>15, <2>1
    <3>. QED  BY <1>11, <1>12, <2>1, <3>1 DEF RpcInv, RpcShape
  <2>3. Grows(s)
    <3>1. Len(rsent[s]) \in Nat
      BY <1>5
    <3>. QED  BY <2>1, <3>1 DEF Grows
  <2>4. EndPlain(s, d)' /\ EndQueues(s, d)'
    BY <1>12, <1>15, <1>17, <1>18, <2>1, <2>2, EndKeeps
  <2>. QED  BY <1>15, <1>19, <2>1, <2>2, <2>3, <2>4
<1>. QED  BY <1>20, <1>21

\* What the writer may have in its buffer: what follows from its own settings.
Written(s, x) ==
  /\ x \in RpcPackets /\ PacketAt(s, x)
  /\ x.type # "pad" /\ x.num >= -1 => rend[s].in >= -1

Numbering(d) ==
  d.out \o [i \in DOMAIN d.outq |-> Packet(d.outq[i], d.num + i - 1, d.crc)]
Fillings(d, out) == IF d.key = Plain THEN {out} ELSE FlushPad(out)
Leaving(d, full) == IF d.key = Plain THEN full ELSE WholeBlocks(full)
Keyed(p, k) == [p EXCEPT !.key = k]

LEMMA Numbered ==
    ASSUME RpcInv, NEW s \in Sides, rend[s].up, rend[s].error = 0,
           NEW d, d = rend[s],
           NEW out, out = Numbering(d)
    PROVE  /\ out \in Seq(RpcPackets)
           /\ d.out # <<>> \/ d.outq # <<>> => out # <<>>
           /\ \A i \in DOMAIN out : Written(s, out[i])
<1>1. d \in Ends /\ EndPlain(s, d) /\ EndQueues(s, d)
  BY DEF RpcInv, RpcShape, EndInv
<1>2. PICK q, o, n : q = d.outq /\ o = d.out /\ n = d.num
  OBVIOUS
<1>3. /\ q \in Seq(Bodies) /\ o \in Seq(RpcPackets) /\ n \in Int /\ d.in \in Int
      /\ d.crc \in Crcs
  BY <1>1, <1>2 DEF Ends
<1>4. PICK w : w = [i \in DOMAIN q |-> Packet(q[i], n + i - 1, d.crc)]
  OBVIOUS
<1>5. \A i \in DOMAIN q : Packet(q[i], n + i - 1, d.crc) \in RpcPackets
  <2>. SUFFICES ASSUME NEW i \in DOMAIN q
                PROVE  Packet(q[i], n + i - 1, d.crc) \in RpcPackets
    OBVIOUS
  <2>1. PICK b, k : b = q[i] /\ k = n + i - 1
    OBVIOUS
  <2>2. b \in Bodies /\ k \in Int
    BY <1>3, <2>1
  <2>3. b.type \in PacketTypes
    BY <2>2 DEF Bodies, AppBodies, PacketTypes
  <2>. QED  BY <1>3, <2>1, <2>2, <2>3 DEF Packet, RpcPackets, RpcKeys
<1>6. w \in Seq(RpcPackets) /\ DOMAIN w = DOMAIN q /\ Len(w) = Len(q)
  <2>1. PICK k : k = Len(q)
    OBVIOUS
  <2>2. DOMAIN q = 1 .. k /\ k \in Nat
    BY <1>3, <2>1
  <2>3. w \in [1 .. k -> RpcPackets]
    BY <1>4, <1>5, <2>2
  <2>. QED  BY <2>1, <2>2, <2>3
<1>7. out = o \o w
  BY <1>2, <1>4 DEF Numbering
<1>8. \A i \in DOMAIN w : Written(s, w[i])
  <2>. SUFFICES ASSUME NEW i \in DOMAIN w PROVE Written(s, w[i])
    OBVIOUS
  <2>1. PICK x, k : x = w[i] /\ k = n + i - 1
    OBVIOUS
  <2>2. x.num = k /\ x.body = q[i] /\ x \in RpcPackets /\ i \in 1 .. Len(q) /\ Len(q) \in Nat
    BY <1>3, <1>4, <1>5, <1>6, <2>1 DEF Packet
  <2>3. BodyAt(s, k, q[i])
    BY <1>1, <1>2, <1>6, <2>1 DEF EndQueues
  <2>4. k >= -1 => d.in >= -1
    <3>1. d.in >= -2 /\ (d.in = -2 => n + Len(q) <= -1)
      BY <1>1, <1>2 DEF EndPlain
    <3>. QED  BY <1>3, <2>1, <2>2, <3>1
  <2>. QED  BY <2>1, <2>2, <2>3, <2>4 DEF Written, PacketAt
<1>9. \A i \in DOMAIN o : Written(s, o[i])
  BY <1>1, <1>2, <1>3 DEF Written, EndQueues
<1>10. /\ out \in Seq(RpcPackets) /\ Len(out) = Len(o) + Len(w)
       /\ Len(o) \in Nat /\ Len(w) \in Nat
       /\ \A i \in DOMAIN out : (i \in DOMAIN o /\ out[i] = o[i])
                                  \/ (i - Len(o) \in DOMAIN w /\ out[i] = w[i - Len(o)])
  <2>1. PICK j, k : j = Len(o) /\ k = Len(w)
    OBVIOUS
  <2>2. j \in Nat /\ k \in Nat /\ DOMAIN o = 1 .. j /\ DOMAIN w = 1 .. k
    BY <1>3, <1>6, <2>1
  <2>3. /\ o \o w \in Seq(RpcPackets) /\ Len(o \o w) = Len(o) + Len(w)
        /\ \A i \in 1 .. Len(o) + Len(w) :
             (o \o w)[i] = IF i <= Len(o) THEN o[i] ELSE w[i - Len(o)]
    BY <1>3, <1>6, ConcatProperties
  <2>4. /\ out \in Seq(RpcPackets) /\ Len(out) = j + k
        /\ \A i \in 1 .. j + k : out[i] = IF i <= j THEN o[i] ELSE w[i - j]
    BY <1>7, <2>1, <2>3
  <2>5. DOMAIN out = 1 .. j + k
    BY <2>2, <2>4
  <2>6. ASSUME NEW i \in 1 .. j + k
        PROVE  (i \in 1 .. j /\ out[i] = o[i]) \/ (i - j \in 1 .. k /\ out[i] = w[i - j])
    BY <2>2, <2>4
  <2>. QED  BY <2>1, <2>2, <2>4, <2>5, <2>6
<1>11. \A i \in DOMAIN out : Written(s, out[i])
  BY <1>8, <1>9, <1>10
<1>12. o # <<>> \/ q # <<>> => out # <<>>
  <2>1. o # <<>> => Len(o) > 0
    BY <1>3
  <2>2. q # <<>> => Len(q) > 0
    BY <1>3
  <2>. QED  BY <1>6, <1>10, <2>1, <2>2
<1>. QED  BY <1>2, <1>10, <1>11, <1>12

\* Padding adds empty packets, and a prefix of the buffer goes out.
LEMMA Padded ==
    ASSUME RpcInv, NEW s \in Sides, NEW out \in Seq(RpcPackets), out # <<>>,
           \A i \in DOMAIN out : Written(s, out[i]),
           NEW d, NEW full \in Fillings(d, out)
    PROVE  /\ full \in Seq(RpcPackets) /\ full # <<>>
           /\ \A i \in DOMAIN full : Written(s, full[i])
<1>1. CASE d.key = Plain
  BY <1>1 DEF Fillings
<1>2. CASE d.key # Plain
  <2>1. PICK k \in 0 .. 3 : full = out \o [i \in 1 .. k |-> PadPacket]
    BY <1>2 DEF Fillings, FlushPad
  <2>2. PICK x : x = PadPacket
    OBVIOUS
  <2>3. x \in RpcPackets /\ x.type = "pad"
    <3>1. PICK b : b = [type |-> "pad"]
      OBVIOUS
    <3>2. b \in Bodies /\ b.type = "pad"
      BY <3>1 DEF Bodies
    <3>3. x = Packet(b, 0, "none")
      BY <2>2, <3>1 DEF PadPacket
    <3>. QED  BY <3>2, <3>3 DEF Packet, RpcPackets, RpcKeys, PacketTypes, Crcs
  <2>4. Written(s, x)
    BY <2>3 DEF Written, PacketAt
  <2>5. PICK w : w = [i \in 1 .. k |-> x]
    OBVIOUS
  <2>6. w \in Seq(RpcPackets) /\ Len(w) = k /\ \A i \in DOMAIN w : w[i] = x
    BY <2>1, <2>3, <2>5
  <2>7. full = out \o w
    BY <2>1, <2>2, <2>5
  <2>8. /\ full \in Seq(RpcPackets) /\ Len(full) = Len(out) + k /\ Len(out) > 0
        /\ \A i \in DOMAIN full : (i \in DOMAIN out /\ full[i] = out[i])
                                   \/ (i - Len(out) \in DOMAIN w /\ full[i] = w[i - Len(out)])
    BY <2>1, <2>6, <2>7
  <2>. QED  BY <2>1, <2>4, <2>6, <2>8
<1>. QED  BY <1>1, <1>2

LEMMA Readied ==
    ASSUME NEW full \in Seq(RpcPackets), full # <<>>,
           NEW d, NEW ready, ready = Leaving(d, full),
           NEW left, left = SubSeq(full, Len(ready) + 1, Len(full))
    PROVE  /\ ready \in Seq(RpcPackets)
           /\ \A i \in DOMAIN ready : i \in DOMAIN full /\ ready[i] = full[i]
           /\ left \in Seq(RpcPackets)
           /\ \A i \in DOMAIN left : \E j \in DOMAIN full : left[i] = full[j]
<1>1. Len(full) \in Nat /\ Len(full) > 0
  OBVIOUS
<1>2. ready = full \/ ready = SubSeq(full, 1, Len(full) - 1)
  BY DEF Leaving, WholeBlocks
<1>3. /\ ready \in Seq(RpcPackets) /\ Len(ready) <= Len(full)
      /\ \A i \in DOMAIN ready : i \in DOMAIN full /\ ready[i] = full[i]
  <2>1. CASE ready = full
    BY <1>1, <2>1
  <2>2. CASE ready = SubSeq(full, 1, Len(full) - 1)
    <3>1. PICK n : n = Len(full) - 1
      OBVIOUS
    <3>2. 1 \in 1 .. Len(full) + 1 /\ n \in 1 - 1 .. Len(full)
      BY <1>1, <3>1
    <3>3. /\ ready \in Seq(RpcPackets) /\ Len(ready) = n
          /\ \A i \in 1 .. n : ready[i] = full[i]
      BY <1>1, <2>2, <3>1, <3>2, SubSeqProperties
    <3>. QED  BY <1>1, <3>1, <3>3
  <2>. QED  BY <1>2, <2>1, <2>2
<1>4. /\ left \in Seq(RpcPackets)
      /\ \A i \in DOMAIN left : \E j \in DOMAIN full : left[i] = full[j]
  <2>1. PICK m : m = Len(ready) + 1
    OBVIOUS
  <2>2. Len(ready) \in Nat /\ m \in 1 .. Len(full) + 1 /\ Len(full) \in m - 1 .. Len(full)
    BY <1>1, <1>3, <2>1
  <2>3. /\ left \in Seq(RpcPackets) /\ Len(left) = Len(full) - m + 1
        /\ \A i \in 1 .. Len(full) - m + 1 : left[i] = full[m + i - 1]
    BY <2>1, <2>2, SubSeqProperties
  <2>. QED  BY <1>1, <2>2, <2>3
<1>. QED  BY <1>3, <1>4

\* What the writer does, with names for its intermediate values.
Writes(s, d, full, ready) ==
  /\ rend' = [rend EXCEPT ![s].outq = <<>>, ![s].num = @ + Len(d.outq),
         ![s].out = SubSeq(full, Len(ready) + 1, Len(full))]
  /\ rwire' = [rwire EXCEPT ![Peer(s)] = @ \o
         [i \in DOMAIN ready |-> [ready[i] EXCEPT !.key = d.key]]]

LEMMA WritesOut ==
    ASSUME RpcInv, NEW s \in Sides, RpcWrite(s),
           NEW d, NEW out, NEW full, NEW ready,
           d = rend[s],
           out = Numbering(d), full \in Fillings(d, out), ready = Leaving(d, full),
           Writes(s, d, full, ready)
    PROVE  RpcInv'
<1>1. /\ rend' = [rend EXCEPT ![s].outq = <<>>, ![s].num = @ + Len(d.outq),
             ![s].out = SubSeq(full, Len(ready) + 1, Len(full))]
      /\ rwire' = [rwire EXCEPT ![Peer(s)] = @ \o
             [i \in DOMAIN ready |-> [ready[i] EXCEPT !.key = d.key]]]
  BY Zenon DEF Writes
<1>2. /\ d \in Ends /\ d.up /\ d.error = 0 /\ EndPlain(s, d) /\ EndQueues(s, d)
      /\ d.out # <<>> \/ d.outq # <<>>
      /\ rcfg' = rcfg /\ rsent' = rsent /\ rgot' = rgot
  BY <1>1 DEF RpcWrite, RpcInv, RpcShape, EndInv
<1>3. PICK u : u = Peer(s)
  OBVIOUS
<1>4. u \in Sides /\ u # s /\ Peer(u) = s /\ \A t \in Sides : t = s \/ t = u
  BY <1>3, SidesTwo
<1>5. /\ out \in Seq(RpcPackets) /\ out # <<>>
      /\ \A i \in DOMAIN out : Written(s, out[i])
  BY <1>1, <1>2, Numbered
<1>6. /\ full \in Seq(RpcPackets) /\ full # <<>>
      /\ \A i \in DOMAIN full : Written(s, full[i])
  BY <1>1, <1>5, Padded
<1>7. PICK left : left = SubSeq(full, Len(ready) + 1, Len(full))
  OBVIOUS
<1>8. /\ ready \in Seq(RpcPackets) /\ left \in Seq(RpcPackets)
      /\ \A i \in DOMAIN ready : Written(s, ready[i])
      /\ \A i \in DOMAIN left : Written(s, left[i])
  <2>1. /\ ready \in Seq(RpcPackets)
        /\ \A i \in DOMAIN ready : i \in DOMAIN full /\ ready[i] = full[i]
        /\ left \in Seq(RpcPackets)
        /\ \A i \in DOMAIN left : \E j \in DOMAIN full : left[i] = full[j]
    BY <1>6, <1>7, Readied
  <2>. QED  BY <1>6, <2>1
\* The end.
<1>9. PICK q, n, N : q = d.outq /\ n = d.num /\ N = n + Len(q)
  OBVIOUS
<1>10. q \in Seq(Bodies) /\ n \in Int /\ Len(q) \in Nat /\ N \in Int /\ d.in \in Int
  BY <1>2, <1>9 DEF Ends
<1>11. PICK z \in Seq(Bodies) : z = <<>>
  BY EmptySeq
<1>12. PICK a, b, e : /\ a = [d EXCEPT !.outq = z] /\ b = [a EXCEPT !.num = N]
                      /\ e = [b EXCEPT !.out = left]
  OBVIOUS
<1>13. a \in Ends
  BY <1>2, <1>11, <1>12, EndUpdates
<1>14. b \in Ends
  BY <1>10, <1>12, <1>13, EndUpdates
<1>15. e \in Ends
  BY <1>8, <1>12, <1>14, EndUpdates
<1>16. e = [d EXCEPT !.outq = <<>>, !.num = N, !.out = left]
  BY <1>11, <1>12
<1>17. /\ e.outq = <<>> /\ e.num = N /\ e.out = left /\ e.in = d.in /\ e.up /\ e.error = 0
       /\ e.crc = d.crc /\ e.key = d.key /\ e.flags = d.flags
  BY <1>2, <1>16 DEF Ends
<1>18. rend' = [rend EXCEPT ![s] = e]
  <2>1. rend \in [Sides -> Ends]
    BY DEF RpcInv, RpcShape
  <2>2. rend' = [rend EXCEPT ![s] = [rend[s] EXCEPT !.outq = <<>>,
                    !.num = rend[s].num + Len(d.outq), !.out = left]]
    BY <1>1, <1>7, <2>1
  <2>. QED  BY <1>1, <1>9, <1>16, <2>2
\* The wire.
<1>19. PICK w, r : /\ w = [i \in DOMAIN ready |-> Keyed(ready[i], d.key)]
                   /\ r = rwire[u]
  OBVIOUS
<1>20. ASSUME NEW i \in DOMAIN ready
       PROVE  /\ Keyed(ready[i], d.key) \in RpcPackets
              /\ WireAt(s, Keyed(ready[i], d.key))
  <2>1. PICK x, y : x = ready[i] /\ y = Keyed(x, d.key)
    OBVIOUS
  <2>2. Written(s, x) /\ d.key \in RpcKeys
    BY <1>2, <1>8, <2>1 DEF Ends
  <2>3. /\ y \in RpcPackets /\ y.key = d.key /\ y.type = x.type /\ y.num = x.num
        /\ y.body = x.body
    BY <2>1, <2>2 DEF RpcPackets, Written, Keyed
  <2>4. d.in >= -1 => Chosen(s) /\ d.key = KeyOf(s)
    BY <1>2 DEF EndPlain
  <2>5. WireAt(s, y)
    BY <1>1, <2>2, <2>3, <2>4 DEF WireAt, Written, PacketAt
  <2>. QED  BY <2>1, <2>3, <2>5
<1>21. w \in Seq(RpcPackets) /\ \A i \in DOMAIN w : WireAt(s, w[i])
  BY <1>8, <1>19, <1>20
<1>22. r \in Seq(RpcPackets) /\ \A i \in DOMAIN r : WireAt(s, r[i])
  BY <1>4, <1>19 DEF RpcInv, RpcShape, WireInv
<1>23. PICK v : v = r \o w
  OBVIOUS
<1>24. v \in Seq(RpcPackets) /\ \A i \in DOMAIN v : WireAt(s, v[i])
  <2>1. /\ v \in Seq(RpcPackets) /\ Len(r) \in Nat
        /\ \A i \in DOMAIN v : (i \in DOMAIN r /\ v[i] = r[i])
                                 \/ (i - Len(r) \in DOMAIN w /\ v[i] = w[i - Len(r)])
    BY <1>21, <1>22, <1>23
  <2>. QED  BY <1>21, <1>22, <2>1
<1>25. rwire' = [rwire EXCEPT ![u] = v] /\ rwire \in [Sides -> Seq(RpcPackets)]
  BY <1>1, <1>3, <1>19, <1>23 DEF RpcInv, RpcShape, Keyed
<1>26. RpcShape'
  <2>1. rwire' \in [Sides -> Seq(RpcPackets)]
    BY <1>24, <1>25
  <2>. QED  BY <1>2, <1>15, <1>18, <2>1 DEF RpcInv, RpcShape
<1>27. \A t \in Sides : Grows(t)
  <2>1. \A t \in Sides : Len(rsent[t]) \in Nat
    BY DEF RpcInv, RpcShape
  <2>. QED  BY <1>2, <2>1 DEF Grows
<1>28. EndPlain(s, e) /\ EndQueues(s, e)
  <2>1. Len(e.outq) = 0 /\ d.num + Len(d.outq) = N
    BY <1>9, <1>17
  <2>2. e.num + Len(e.outq) = d.num + Len(d.outq) /\ e.num >= -2
    <3>1. d.num >= -2
      BY <1>2 DEF EndPlain
    <3>. QED  BY <1>9, <1>10, <1>17, <2>1, <3>1
  <2>3. EndPlain(s, e)
    BY <1>2, <1>17, <2>2 DEF EndPlain
  <2>4. PICK o : o = e.outq
    OBVIOUS
  <2>5. DOMAIN o = {}
    BY <1>17, <2>4
  <2>. QED  BY <1>1, <1>8, <1>17, <2>3, <2>4, <2>5 DEF EndQueues, Written
<1>29. EndPlain(s, e)' /\ EndQueues(s, e)'
  BY <1>2, <1>15, <1>26, <1>28, EndKeeps
<1>30. WireInv(s)'
  <2>1. rwire'[s] = rwire[s]
    BY <1>4, <1>25
  <2>2. WireFrom(s)
    BY <2>1 DEF WireFrom
  <2>. QED  BY <1>2, <1>4, <1>26, <1>27, <2>2, SidesTwo, WireStays
<1>31. WireInv(u)'
  <2>1. Peer(u)' = s /\ rwire'[u] = v
    BY <1>4, <1>24, <1>25 DEF Peer
  <2>2. ASSUME NEW i \in DOMAIN v PROVE WireAt(s, v[i])'
    <3>1. PICK x : x = v[i]
      OBVIOUS
    <3>2. x \in RpcPackets /\ WireAt(s, x)
      BY <1>24, <3>1
    <3>. QED  BY <1>2, <1>26, <1>27, <3>1, <3>2, PacketsStay DEF RpcInv
  <2>. QED  BY <2>1, <2>2 DEF WireInv
<1>32. \A t \in Sides : GotInv(t)'
  <2>1. \A t \in Sides : rend'[t].in = rend[t].in
    BY <1>1, <1>17, <1>18 DEF RpcInv, RpcShape
  <2>. QED  BY <1>2, <1>26, <1>27, <2>1, SidesTwo, GotStays
<1>33. \A t \in Sides : WireInv(t)' /\ GotInv(t)'
  BY <1>4, <1>30, <1>31, <1>32
<1>. QED  BY <1>1, <1>2, <1>17, <1>18, <1>26, <1>27, <1>29, <1>33, EndMoves

LEMMA KeepsRpcWrite ==
    ASSUME RpcInv, NEW s \in Sides, RpcWrite(s)
    PROVE  RpcInv'
<1>1. PICK d \in {rend[s]} :
      \E out \in {Numbering(d)} : \E full \in Fillings(d, out) :
      \E ready \in {Leaving(d, full)} : Writes(s, d, full, ready)
  BY Zenon DEF RpcWrite, Writes, Numbering, Fillings, Leaving
<1>2. PICK out \in {Numbering(d)} :
      \E full \in Fillings(d, out) :
      \E ready \in {Leaving(d, full)} : Writes(s, d, full, ready)
  BY <1>1, Zenon
<1>3. PICK full \in Fillings(d, out) :
      \E ready \in {Leaving(d, full)} : Writes(s, d, full, ready)
  BY <1>2, Zenon
<1>4. PICK ready \in {Leaving(d, full)} : Writes(s, d, full, ready)
  BY <1>3, Zenon
<1>5. d = rend[s] /\ out = Numbering(d) /\ ready = Leaving(d, full)
  OBVIOUS
<1>. QED  BY <1>3, <1>4, <1>5, WritesOut, Zenon

LEMMA RpcStarts ==
    ASSUME RpcInit
    PROVE  RpcInv
<1>1. NewEnd \in Ends
  BY DEF NewEnd, Ends, Crcs, RpcKeys, RpcFlags
<1>2. RpcShape
  BY <1>1 DEF RpcInit, RpcShape
<1>3. Untouched
  BY DEF RpcInit, Untouched
<1>4. ASSUME NEW s \in Sides PROVE EndInv(s) /\ WireInv(s) /\ GotInv(s)
  <2>1. ~ rend[s].up /\ rend[s].in = -2
    BY DEF RpcInit, NewEnd
  <2>2. PICK w, g : w = rwire[s] /\ g = rgot[s]
    OBVIOUS
  <2>3. w = <<>> /\ g = <<>>
    BY <2>2 DEF RpcInit
  <2>4. DOMAIN w = {} /\ DOMAIN g = {} /\ Len(g) = 0
    BY <2>3
  <2>. QED  BY <2>1, <2>2, <2>4 DEF EndInv, WireInv, GotInv
<1>. QED  BY <1>2, <1>3, <1>4, SidesTwo DEF RpcInv, Untouched

LEMMA RpcStutters ==
    ASSUME RpcInv, UNCHANGED rpcVars
    PROVE  RpcInv'
<1>1. /\ rcfg' = rcfg /\ rend' = rend /\ rwire' = rwire /\ rsent' = rsent /\ rgot' = rgot
  BY DEF rpcVars
<1>2. CASE rend["client"].up
  <2>1. \A t \in Sides : WireFrom(t)
    BY <1>1 DEF WireFrom
  <2>2. rwire' \in [Sides -> Seq(RpcPackets)]
    BY <1>1 DEF RpcInv, RpcShape
  <2>. QED  BY <1>1, <1>2, <2>1, <2>2, WireOnly
<1>3. CASE ~ rend["client"].up
  <2>1. RpcShape' /\ Untouched'
    <3>1. RpcShape /\ Untouched
      BY <1>3 DEF RpcInv
    <3>. QED  BY <1>1, <3>1 DEF RpcShape, Untouched
  <2>2. /\ ~ rend'["client"].up /\ ~ rend'["server"].up
        /\ rend'["server"].up = rend'["client"].up
    BY <1>1, <1>3 DEF RpcInv
  <2>3. ASSUME NEW s \in Sides PROVE EndInv(s)' /\ WireInv(s)' /\ GotInv(s)'
    <3>1. ~ rend'[s].up
      BY <2>2 DEF Sides
    <3>2. PICK w, g : w = rwire'[s] /\ g = rgot'[s]
      OBVIOUS
    <3>3. w = <<>> /\ g = <<>> /\ rend'[s].in = -2
      BY <2>1, <3>2 DEF Untouched, NewEnd
    <3>4. DOMAIN w = {} /\ DOMAIN g = {} /\ Len(g) = 0
      BY <3>3
    <3>. QED  BY <3>1, <3>2, <3>3, <3>4 DEF EndInv, WireInv, GotInv
  <2>. QED  BY <2>1, <2>2, <2>3 DEF RpcInv
<1>. QED  BY <1>2, <1>3

\* What the invariant holds of every reachable state of a pair of ends.
THEOREM EndsHonest == RpcSpec => []RpcInv
<1>1. RpcInv /\ [RpcNext]_rpcVars => RpcInv'
  <2>. SUFFICES ASSUME RpcInv, [RpcNext]_rpcVars PROVE RpcInv'
    OBVIOUS
  <2>1. CASE RpcConnect
    BY <2>1, KeepsRpcConnect
  <2>2. ASSUME NEW s \in Sides, RpcStep(s) PROVE RpcInv'
    BY <2>2, KeepsRpcWrite, KeepsParseFrame, KeepsParseHandshake, KeepsParseMessage,
       KeepsPeerClosed DEF RpcStep
  <2>3. ASSUME NEW s \in Sides, RpcSend(s) \/ NetFault(s) PROVE RpcInv'
    BY <2>3, KeepsRpcSend, KeepsNetFault
  <2>4. CASE ParseServerNonce
    BY <2>4, KeepsParseServerNonce
  <2>5. CASE ParseClientNonce
    BY <2>5, KeepsParseClientNonce
  <2>6. CASE RpcTimeout
    BY <2>6, KeepsRpcTimeout
  <2>7. CASE UNCHANGED rpcVars
    BY <2>7, RpcStutters
  <2>. QED  BY <2>1, <2>2, <2>3, <2>4, <2>5, <2>6, <2>7 DEF RpcNext
<1>. QED  BY RpcStarts, <1>1, PTL DEF RpcSpec

\* Two ends that use the same key have the same secret and can agree.
LEMMA SameKeyAgrees ==
    ASSUME RpcShape, Opened, \A t \in Sides : Chosen(t),
           KeyOf("client") = KeyOf("server")
    PROVE  Agreeable
<1>1. CASE CanEncrypt
  <2>1. rcfg.secret = "same"
    <3>1. PICK x, y : /\ x = (IF rcfg.secret = "same" THEN "secret" ELSE OwnNonce("client"))
                      /\ y = (IF rcfg.secret = "same" THEN "secret" ELSE OwnNonce("server"))
      OBVIOUS
    <3>2. /\ KeyOf("client") = <<"nonce_s", "nonce_c", x, BothDh>>
          /\ KeyOf("server") = <<"nonce_s", "nonce_c", y, BothDh>>
      BY <1>1, <3>1 DEF KeyOf, CreateKey
    <3>3. x = y
      BY <3>2
    <3>. QED  BY <3>1, <3>3 DEF OwnNonce
  <2>2. /\ ~ rcfg.skew /\ (BothDh => "server" \notin rcfg.busy)
        /\ \A t \in Sides : "REQ_DH" \in rcfg.perm[t] => BothDh \/ "SKIP_DH" \in rcfg.perm[t]
    BY <1>1, SidesTwo DEF Chosen
  <2>. QED  BY <1>1, <2>1, <2>2 DEF Agreeable, Opened
<1>2. CASE ~ CanEncrypt
  BY <1>2 DEF Agreeable, Opened, Chosen
<1>. QED  BY <1>1, <1>2

LEMMA InvGivesNegotiated ==
    ASSUME RpcInv
    PROVE  RpcNegotiated
<1>1. RpcShape
  BY DEF RpcInv
<1>2. ASSUME NEW s \in Sides, Ready(s)
      PROVE  /\ \A t \in Sides : Chosen(t) /\ KeyOf(t) = KeyOf(s)
             /\ Opened /\ ~ PidRefused(s)
             /\ rend[s].key = KeyOf(s) /\ rend[s].crc = CrcAgreed
  <2>1. EndPlain(s, rend[s]) /\ rend[s].in >= 0
    BY <1>2 DEF Ready, RpcInv, EndInv
  <2>2. rend[s].in \in Int
    BY <1>1 DEF RpcShape, Ends
  <2>. QED  BY <2>1, <2>2 DEF EndPlain
<1>3. ASSUME NEW s \in Sides, Ready(s)
      PROVE  /\ Agreeable /\ (rcfg.pid \/ s \in rcfg.ignore)
             /\ Agreed = [key |-> rend[s].key # Plain,
                          dh  |-> rend[s].key # Plain /\ rend[s].key[4],
                          crc |-> rend[s].crc]
             /\ Ready(Peer(s)) => rend[s].key = rend[Peer(s)].key
  <2>1. Agreeable
    BY <1>1, <1>2, <1>3, SidesTwo, SameKeyAgrees
  <2>2. rcfg.pid \/ s \in rcfg.ignore
    BY <1>2, <1>3 DEF PidRefused
  <2>3. PICK k : k = rend[s].key
    OBVIOUS
  <2>4. PICK x, y : x = (k # Plain) /\ y = (k # Plain /\ k[4])
    OBVIOUS
  <2>5. x = CanEncrypt /\ y = (CanEncrypt /\ BothDh)
    <3>1. k = KeyOf(s)
      BY <1>2, <1>3, <2>3
    <3>2. CASE CanEncrypt
      <4>1. PICK m : k = <<"nonce_s", "nonce_c", m, BothDh>>
        BY <3>1, <3>2 DEF KeyOf, CreateKey
      <4>2. k # Plain
        BY <4>1 DEF Plain
      <4>3. k[4] = BothDh
        BY <4>1
      <4>. QED  BY <2>4, <3>2, <4>2, <4>3 DEF CanEncrypt, BothDh
    <3>3. CASE ~ CanEncrypt
      <4>1. k = Plain
        BY <3>1, <3>3 DEF KeyOf
      <4>. QED  BY <2>4, <3>3, <4>1 DEF CanEncrypt
    <3>. QED  BY <3>2, <3>3
  <2>6. Agreed = [key |-> x, dh |-> y, crc |-> rend[s].crc]
    BY <1>2, <1>3, <2>5 DEF Agreed, CrcAgreed
  <2>7. Ready(Peer(s)) => rend[s].key = rend[Peer(s)].key
    BY <1>2, <1>3, SidesTwo
  <2>. QED  BY <2>1, <2>2, <2>3, <2>4, <2>6, <2>7
<1>. QED  BY <1>3 DEF RpcNegotiated

LEMMA InvGivesOrder ==
    ASSUME RpcInv
    PROVE  RpcInOrder
<1>. SUFFICES ASSUME NEW s \in Sides
              PROVE  rgot[s] = SubSeq(rsent[Peer(s)], 1, Len(rgot[s]))
  BY DEF RpcInOrder
<1>1. PICK g, q, k : g = rgot[s] /\ q = rsent[Peer(s)] /\ k = Len(g)
  OBVIOUS
<1>2. g \in Seq(AppBodies) /\ q \in Seq(AppBodies) /\ k \in Nat
  BY <1>1, SidesTwo DEF RpcInv, RpcShape
<1>3. \A i \in 1 .. k : g[i] = q[i] /\ q[i] \in AppBodies
  BY <1>1, <1>2 DEF RpcInv, GotInv
<1>4. PICK r : r = SubSeq(q, 1, k)
  OBVIOUS
<1>5. 1 \in Int /\ k \in Int /\ \A i \in 1 .. k : q[i] \in AppBodies
  BY <1>2, <1>3
<1>6. /\ SubSeq(q, 1, k) \in Seq(AppBodies)
      /\ Len(SubSeq(q, 1, k)) = IF 1 <= k THEN k - 1 + 1 ELSE 0
      /\ \A i \in 1 .. k - 1 + 1 : SubSeq(q, 1, k)[i] = q[1 + i - 1]
  BY <1>5, SubSeqProperties
<1>7. r \in Seq(AppBodies) /\ Len(r) = k /\ \A i \in 1 .. k : r[i] = q[i]
  BY <1>2, <1>4, <1>6
<1>8. g = r
  BY <1>1, <1>2, <1>3, <1>7
<1>. QED  BY <1>1, <1>4, <1>8

\* Two ends that offer a connection agree on what the settings of both imply, and
\* each executes a prefix of what its peer sent: the two parse_execute functions,
\* the nonce and handshake handlers, and the writer that pads and numbers.
THEOREM TwoEndsAgree == RpcSpec => []RpcAgreed
<1>1. RpcInv => RpcAgreed
  BY InvGivesNegotiated, InvGivesOrder DEF RpcAgreed
<1>. QED  BY EndsHonest, <1>1, PTL

=============================================================================
