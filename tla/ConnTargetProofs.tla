-------------------------- MODULE ConnTargetProofs --------------------------
(***************************************************************************)
(* Proofs about ConnTarget, for any targets, connections and bounds that   *)
(* satisfy TargetAssumption.  A connection that has not failed is in the   *)
(* tree of its target (AliveHeld), so a target with a live connection is   *)
(* not removed; a target that is freed has no user and no connection when  *)
(* its job takes it out of the table, and gets none later (DeadIsEmpty).   *)
(* active_outbound_connections is raised once for each connection that was *)
(* counted: TreeCounted bounds it from both sides with any threads,        *)
(* OneThread says that it is exact when all jobs share a thread.           *)
(***************************************************************************)
EXTENDS MCNetwork, ConnSocketProofs, FiniteSetTheorems, TLAPS

\* The connections of a target record that count as active.
ActiveOf(T) == {c \in T.tree : IsActive(c)}

\* The connections made for t that its job has not counted as active yet.
Waiting(t) == {c \in Conns : cn[c].target = t /\ cn[c].state \in {"connecting", "pending"}}

\* The table holds at most one target, which is live; a live target is in the
\* table, and its job will run again.
TableHolds ==
    /\ table # NoTarget => tgt[table].state = "live"
    /\ \A t \in Targets : tgt[t].state = "live" =>
         table = t /\ (tgt[t].run \/ tgt[t].timer)

\* A target that is not live has no user and no connection.
DeadIsEmpty ==
    \A t \in Targets : tgt[t].state # "live" => tgt[t].uses = 0 /\ tgt[t].tree = {}

\* A connection belongs to a target, is being counted only between its states
\* pending and active, and has failed before its job is aborted.
ConnShape ==
    \A c \in Conns :
      /\ cn[c].state = "none" => cn[c] = NoConn
      /\ cn[c].state # "none" => cn[c].target \in Targets
      /\ cn[c].counting => cn[c].state = "pending"
      /\ cn[c].aborted => cn[c].error /\ ~cn[c].counting

\* The tree of a target holds its own connections.
TreeOwned ==
    \A t \in Targets : \A c \in tgt[t].tree :
      cn[c].state # "none" /\ cn[c].target = t

\* A connection that has not failed is in the tree of its target.
AliveHeld ==
    \A c \in Conns : cn[c].state # "none" /\ ~cn[c].error => c \in tgt[cn[c].target].tree

\* The counters against the tree: active is never below the number of active
\* connections, and never above what was ever created.
TreeCounted ==
    \A t \in Targets :
      /\ tgt[t].outbound = Cardinality(tgt[t].tree)
      /\ tgt[t].outbound <= MaxConnections
      /\ tgt[t].active >= Cardinality(ActiveOf(tgt[t]))
      /\ tgt[t].active + Cardinality(Waiting(t)) <= created

\* When all jobs share a thread, nothing fails while it is being counted.
OneThread ==
    ~Threaded =>
      /\ \A c \in Conns : cn[c].counting => ~cn[c].error
      /\ \A t \in Targets : tgt[t].active = Cardinality(ActiveOf(tgt[t]))

TargetInv == /\ TargetTypeOK /\ TableHolds /\ DeadIsEmpty /\ ConnShape
             /\ TreeOwned /\ AliveHeld /\ TreeCounted /\ OneThread

-----------------------------------------------------------------------------
(* Sets of connections.                                                    *)

LEMMA ConnSet ==
    ASSUME NEW A, A \subseteq Conns
    PROVE  /\ IsFiniteSet(A)
           /\ Cardinality(A) \in Nat
           /\ Cardinality(A) <= Cardinality(Conns)
  BY TargetAssumption, FS_Subset, FS_CardinalityType

LEMMA ConnSubset ==
    ASSUME NEW B, NEW A, B \subseteq Conns, A \subseteq B
    PROVE  Cardinality(A) <= Cardinality(B)
  BY ConnSet, FS_Subset

\* A set of connections splits in two.
LEMMA ConnSplit ==
    ASSUME NEW A, NEW B, A \subseteq Conns, B \subseteq Conns, A \cap B = {}
    PROVE  Cardinality(A \cup B) = Cardinality(A) + Cardinality(B)
<1>1. IsFiniteSet(A) /\ IsFiniteSet(B) /\ Cardinality(A) \in Nat /\ Cardinality(B) \in Nat
  BY ConnSet
<1>2. Cardinality(A \cap B) = 0
  BY FS_EmptySet
<1>3. Cardinality(A \cup B) = Cardinality(A) + Cardinality(B) - Cardinality(A \cap B)
  BY <1>1, FS_Union
<1>. QED
  BY <1>1, <1>2, <1>3

-----------------------------------------------------------------------------
(* The two records, named.                                                 *)

TargetRecords ==
    [state : {"none", "live", "completed"}, uses : 0 .. MaxUses,
     tree : SUBSET Conns, outbound : 0 .. Cardinality(Conns),
     active : 0 .. MaxNew, ready : 0 .. Cardinality(Conns),
     due : BOOLEAN, timer : BOOLEAN, run : BOOLEAN]

PooledRecords ==
    [state : {"none", "connecting", "pending", "active"},
     ready : {"notyet", "ok", "stopped", "failed"}, error : BOOLEAN,
     aborted : BOOLEAN, counting : BOOLEAN,
     target : Targets \cup {NoTarget}]

LEMMA Types ==
    TargetTypeOK <=> /\ tgt \in [Targets -> TargetRecords]
                     /\ cn \in [Conns -> PooledRecords]
                     /\ table \in Targets \cup {NoTarget}
                     /\ created \in 0 .. MaxNew
  BY DEF TargetTypeOK, TargetRecords, PooledRecords

LEMMA TypesPrime ==
    TargetTypeOK' <=> /\ tgt' \in [Targets -> TargetRecords]
                      /\ cn' \in [Conns -> PooledRecords]
                      /\ table' \in Targets \cup {NoTarget}
                      /\ created' \in 0 .. MaxNew
  BY DEF TargetTypeOK, TargetRecords, PooledRecords

\* What destroy_dead_target_connections leaves of a target's counters.
LEMMA DeadGone ==
    ASSUME TargetInv, NEW t \in Targets
    PROVE  LET T == DestroyDead(tgt[t])
           IN  /\ T \in TargetRecords
               /\ T.tree = {c \in tgt[t].tree : ~cn[c].error}
               /\ T.state = tgt[t].state /\ T.uses = tgt[t].uses
               /\ T.run = tgt[t].run /\ T.timer = tgt[t].timer /\ T.due = tgt[t].due
               /\ T.outbound = Cardinality(T.tree)
               /\ T.outbound <= MaxConnections
               /\ T.active <= tgt[t].active
               /\ T.active >= Cardinality(ActiveOf(T))
               /\ ~Threaded => T.active = Cardinality(ActiveOf(T))
<1>. DEFINE old  == tgt[t]
            dead == {c \in old.tree : cn[c].error}
            tree == old.tree \ dead
            gone == {c \in dead : IsActive(c)}
            stay == {c \in tree : IsActive(c)}
            T    == DestroyDead(old)
<1>1. old \in TargetRecords
  BY Types DEF TargetInv
<1>2. /\ old.tree \subseteq Conns /\ dead \subseteq Conns /\ tree \subseteq Conns
      /\ gone \subseteq Conns /\ stay \subseteq Conns
      /\ dead \cap tree = {} /\ dead \cup tree = old.tree
      /\ gone \cap stay = {} /\ gone \cup stay = ActiveOf(old)
  BY <1>1 DEF TargetRecords, ActiveOf
<1>3. /\ old.outbound = Cardinality(old.tree) /\ old.outbound <= MaxConnections
      /\ old.active >= Cardinality(ActiveOf(old))
      /\ ~Threaded => old.active = Cardinality(ActiveOf(old))
  BY DEF TargetInv, TreeCounted, OneThread
<1>4. Cardinality(old.tree) = Cardinality(dead) + Cardinality(tree)
  <2>. HIDE DEF dead, tree
  <2>. QED  BY <1>2, ConnSplit
<1>5. Cardinality(ActiveOf(old)) = Cardinality(gone) + Cardinality(stay)
  <2>. HIDE DEF gone, stay
  <2>. QED  BY <1>2, ConnSplit
<1>6. /\ Cardinality(dead) \in Nat /\ Cardinality(tree) \in Nat
      /\ Cardinality(gone) \in Nat /\ Cardinality(stay) \in Nat
      /\ Cardinality(tree) <= Cardinality(Conns)
      /\ Cardinality(Conns) \in Nat
  <2>. HIDE DEF dead, tree, gone, stay
  <2>. QED  BY <1>2, ConnSet
<1>7. CountReady(tree, "ok") \in 0 .. Cardinality(Conns)
  <2>. DEFINE R == {c \in tree : Ready(c, "ok")}
  <2>1. R \subseteq Conns
    BY <1>2
  <2>2. Cardinality(R) \in Nat /\ Cardinality(R) <= Cardinality(Conns)
    <3>. HIDE DEF R
    <3>. QED  BY <2>1, ConnSet
  <2>. QED
    BY <1>6, <2>2 DEF CountReady
<1>8. T = [old EXCEPT !.tree = tree, !.outbound = old.outbound - Cardinality(dead),
                      !.active = old.active - Cardinality(gone),
                      !.ready = CountReady(tree, "ok")]
  BY <1>1 DEF DestroyDead, TargetRecords
<1>9. /\ old.outbound - Cardinality(dead) = Cardinality(tree)
      /\ old.active \in 0 .. MaxNew
      /\ MaxNew \in Nat /\ MaxConnections \in Nat
  BY <1>1, <1>3, <1>4, <1>6, TargetAssumption DEF TargetRecords
<1>10. /\ T.tree = tree /\ T.outbound = Cardinality(tree)
       /\ T.active = old.active - Cardinality(gone)
       /\ T.ready = CountReady(tree, "ok")
       /\ T.state = old.state /\ T.uses = old.uses
       /\ T.run = old.run /\ T.timer = old.timer /\ T.due = old.due
       /\ T = [state |-> T.state, uses |-> T.uses, tree |-> T.tree,
               outbound |-> T.outbound, active |-> T.active, ready |-> T.ready,
               due |-> T.due, timer |-> T.timer, run |-> T.run]
  <2>. HIDE DEF dead, tree, gone
  <2>. QED  BY <1>1, <1>8, <1>9 DEF TargetRecords
<1>11. ActiveOf(T) = stay
  BY <1>10 DEF ActiveOf
<1>12. T.active \in 0 .. MaxNew /\ T.active <= old.active
       /\ T.active >= Cardinality(stay)
       /\ (~Threaded => T.active = Cardinality(stay))
  <2>. HIDE DEF gone, stay, T
  <2>. QED  BY <1>3, <1>5, <1>6, <1>9, <1>10
<1>13. T \in TargetRecords
  <2>. HIDE DEF T
  <2>1. T.tree \subseteq Conns /\ T.outbound \in 0 .. Cardinality(Conns)
    BY <1>2, <1>6, <1>10
  <2>. QED
    BY <1>1, <1>7, <1>10, <1>12, <2>1 DEF TargetRecords
<1>14. tree = {c \in old.tree : ~cn[c].error}
  OBVIOUS
<1>15. T.outbound <= MaxConnections
  <2>. HIDE DEF T, tree, dead
  <2>. QED  BY <1>3, <1>4, <1>6, <1>9, <1>10
<1>. QED
  BY <1>10, <1>11, <1>12, <1>13, <1>14, <1>15

-----------------------------------------------------------------------------
(* Steps that move no connection in or out of a tree or of the counters.   *)

\* The counters and the trees are as they were, and so is, for every
\* connection, its target, whether it waits and whether it is active.
LEMMA CountsKept ==
    ASSUME TargetTypeOK, TreeCounted, created' = created,
           \A t \in Targets : /\ tgt'[t].tree = tgt[t].tree
                              /\ tgt'[t].outbound = tgt[t].outbound
                              /\ tgt'[t].active = tgt[t].active,
           \A c \in Conns :
             /\ cn'[c].target = cn[c].target
             /\ cn'[c].state = "active" <=> cn[c].state = "active"
             /\ cn'[c].state \in {"connecting", "pending"} <=>
                  cn[c].state \in {"connecting", "pending"}
    PROVE  /\ TreeCounted'
           /\ \A t \in Targets : ActiveOf(tgt[t])' = ActiveOf(tgt[t])
<1>1. ASSUME NEW t \in Targets
      PROVE  ActiveOf(tgt[t])' = ActiveOf(tgt[t]) /\ Waiting(t)' = Waiting(t)
  <2>1. tgt[t].tree \subseteq Conns
    BY Types DEF TargetRecords
  <2>2. ActiveOf(tgt[t])' = ActiveOf(tgt[t])
    BY <2>1 DEF ActiveOf, IsActive
  <2>3. Waiting(t)' = Waiting(t)
    BY DEF Waiting
  <2>. QED
    BY <2>2, <2>3
<1>. QED
  BY <1>1 DEF TreeCounted

LEMMA CreateTargetStep ==
    ASSUME TargetInv, CreateTarget
    PROVE  TargetInv'
<1>. USE DEF TargetInv
<1>0. /\ tgt \in [Targets -> TargetRecords] /\ table \in Targets \cup {NoTarget}
      /\ NoTarget \notin Targets /\ MaxUses \in Nat \ {0} /\ Cardinality(Conns) \in Nat
      /\ MaxConnections \in Nat
  BY Types, TargetAssumption, ConnSet
<1>1. CASE /\ table # NoTarget /\ tgt[table].uses < MaxUses
           /\ tgt' = [tgt EXCEPT ![table].uses = @ + 1]
           /\ UNCHANGED <<cn, table, created>>
  <2>1. table \in Targets
    BY <1>0, <1>1
  <2>2. \A t \in Targets :
          /\ tgt'[t] = IF t = table THEN [tgt[t] EXCEPT !.uses = @ + 1] ELSE tgt[t]
          /\ tgt'[t] \in TargetRecords
    BY <1>0, <1>1, <2>1 DEF TargetRecords
  <2>3. \A t \in Targets :
          /\ tgt'[t].state = tgt[t].state /\ tgt'[t].tree = tgt[t].tree
          /\ tgt'[t].outbound = tgt[t].outbound /\ tgt'[t].active = tgt[t].active
          /\ tgt'[t].run = tgt[t].run /\ tgt'[t].timer = tgt[t].timer
          /\ t # table => tgt'[t].uses = tgt[t].uses
    BY ZenonT(40), <1>0, <2>2 DEF TargetRecords
  <2>4. TargetTypeOK'
    BY <1>0, <1>1, <2>2, Types, TypesPrime
  <2>5. TableHolds' /\ DeadIsEmpty'
    BY <1>1, <2>1, <2>3 DEF TableHolds, DeadIsEmpty
  <2>6. ConnShape' /\ TreeOwned' /\ AliveHeld'
    BY <1>1, <2>3 DEF ConnShape, TreeOwned, AliveHeld
  <2>7. TreeCounted' /\ \A t \in Targets : ActiveOf(tgt[t])' = ActiveOf(tgt[t])
    BY <1>1, <2>3, CountsKept
  <2>8. OneThread'
    BY <1>1, <2>3, <2>7 DEF OneThread
  <2>. QED
    BY <2>4, <2>5, <2>6, <2>7, <2>8
<1>2. ASSUME table = NoTarget, NEW t \in Targets, tgt[t].state = "none",
             tgt' = [tgt EXCEPT ![t] = [NewTarget EXCEPT !.state = "live",
                                          !.uses = 1, !.run = TRUE]],
             table' = t, UNCHANGED <<cn, created>>
      PROVE  TargetInv'
  <2>1. /\ tgt'[t] \in TargetRecords
        /\ tgt'[t].state = "live" /\ tgt'[t].run /\ tgt'[t].tree = {}
        /\ tgt'[t].outbound = 0 /\ tgt'[t].active = 0
    <3>1. tgt'[t] = [state |-> "live", uses |-> 1, tree |-> {}, outbound |-> 0,
                     active |-> 0, ready |-> 0, due |-> TRUE, timer |-> FALSE,
                     run |-> TRUE]
      BY <1>0, <1>2 DEF NewTarget
    <3>2. 0 \in 0 .. MaxNew /\ 1 \in 0 .. MaxUses
      BY <1>0, TargetAssumption
    <3>. QED
      BY <1>0, <3>1, <3>2 DEF TargetRecords
  <2>2. \A u \in Targets : u # t => tgt'[u] = tgt[u]
    BY <1>0, <1>2
  <2>3. tgt[t].tree = {}
    BY <1>2 DEF DeadIsEmpty
  <2>4. TargetTypeOK'
    BY <1>0, <1>2, <2>1, <2>2, Types, TypesPrime
  <2>5. TableHolds' /\ DeadIsEmpty'
    <3>1. \A u \in Targets : tgt[u].state # "live"
      BY <1>0, <1>2 DEF TableHolds
    <3>. QED
      BY <1>2, <2>1, <2>2, <3>1 DEF TableHolds, DeadIsEmpty
  <2>6. \A u \in Targets : tgt'[u].tree = tgt[u].tree
    BY <2>1, <2>2, <2>3
  <2>7. ConnShape' /\ TreeOwned' /\ AliveHeld'
    BY <1>2, <2>6 DEF ConnShape, TreeOwned, AliveHeld
  <2>8. \A u \in Targets :
          Waiting(u)' = Waiting(u) /\ ActiveOf(tgt[u])' = ActiveOf(tgt[u])
    <3>1. \A u \in Targets : tgt[u].tree \subseteq Conns
      BY <1>0 DEF TargetRecords
    <3>. QED
      BY <1>2, <2>6, <3>1 DEF Waiting, ActiveOf, IsActive
  <2>9. ActiveOf(tgt[t]) = {} /\ Cardinality({}) = 0
    BY <2>3, FS_EmptySet DEF ActiveOf
  <2>10. TreeCounted'
    <3>1. \A u \in Targets : u # t =>
            /\ tgt'[u].outbound = Cardinality(tgt'[u].tree)
            /\ tgt'[u].outbound <= MaxConnections
            /\ tgt'[u].active >= Cardinality(ActiveOf(tgt[u])')
            /\ tgt'[u].active + Cardinality(Waiting(u)') <= created
      BY <2>2, <2>8 DEF TreeCounted
    <3>2. tgt[t].active + Cardinality(Waiting(t)) <= created /\ tgt[t].active \in Nat
          /\ Cardinality(Waiting(t)) \in Nat /\ created \in Nat
      <4>1. Waiting(t) \subseteq Conns
        BY DEF Waiting
      <4>. QED
        BY <1>0, <4>1, ConnSet, Types, TargetAssumption DEF TreeCounted, TargetRecords
    <3>3. /\ tgt'[t].outbound = Cardinality(tgt'[t].tree)
          /\ tgt'[t].outbound <= MaxConnections
          /\ tgt'[t].active >= Cardinality(ActiveOf(tgt[t])')
          /\ tgt'[t].active + Cardinality(Waiting(t)') <= created
      BY <1>0, <2>1, <2>8, <2>9, <3>2
    <3>. QED
      BY <1>2, <3>1, <3>3 DEF TreeCounted
  <2>11. OneThread'
    <3>1. ASSUME ~Threaded, NEW u \in Targets
          PROVE  tgt'[u].active = Cardinality(ActiveOf(tgt[u])')
      BY <2>1, <2>2, <2>8, <2>9, <3>1 DEF OneThread
    <3>. QED
      BY <1>2, <3>1 DEF OneThread
  <2>. QED
    BY <2>4, <2>5, <2>7, <2>10, <2>11
<1>. QED
  BY <1>1, <1>2 DEF CreateTarget, FindTarget

\* destroy_target and the passing of next_reconnect.
LEMMA MarkStep ==
    ASSUME TargetInv, NEW t \in Targets,
           DestroyTarget(t) \/ ReconnectDue(t)
    PROVE  TargetInv'
<1>. USE DEF TargetInv
<1>1. /\ tgt \in [Targets -> TargetRecords] /\ MaxUses \in Nat
  BY Types, TargetAssumption
<1>2. /\ tgt'[t] \in TargetRecords
      /\ \A u \in Targets : u # t => tgt'[u] = tgt[u]
      /\ tgt' \in [Targets -> TargetRecords]
      /\ tgt'[t].state = tgt[t].state /\ tgt'[t].tree = tgt[t].tree
      /\ tgt'[t].outbound = tgt[t].outbound /\ tgt'[t].active = tgt[t].active
      /\ tgt'[t].timer = tgt[t].timer /\ (tgt[t].run => tgt'[t].run)
      /\ tgt[t].uses = 0 => tgt'[t].uses = 0
  <2>1. CASE DestroyTarget(t)
    <3>1. tgt' = [tgt EXCEPT ![t] = [tgt[t] EXCEPT !.uses = tgt[t].uses - 1,
                                        !.run = tgt[t].run \/ tgt[t].uses = 1]]
      BY <1>1, <2>1 DEF DestroyTarget
    <3>2. tgt[t] \in TargetRecords /\ tgt[t].uses > 0
      BY <1>1, <2>1 DEF DestroyTarget
    <3>3. tgt[t].uses - 1 \in 0 .. MaxUses /\ tgt[t].run \in BOOLEAN
      BY <1>1, <3>2 DEF TargetRecords
    <3>4. PICK n \in 0 .. MaxUses, r \in BOOLEAN :
            /\ tgt' = [tgt EXCEPT ![t] = [tgt[t] EXCEPT !.uses = n, !.run = r]]
            /\ tgt[t].run => r
      BY <3>1, <3>3
    <3>5. tgt[t].uses # 0
      BY <3>2
    <3>. QED
      BY <1>1, <3>2, <3>4, <3>5 DEF TargetRecords
  <2>2. CASE ReconnectDue(t)
    <3>1. tgt' = [tgt EXCEPT ![t] = [tgt[t] EXCEPT !.due = TRUE]]
      BY <1>1, <2>2 DEF ReconnectDue
    <3>2. tgt[t] \in TargetRecords
      BY <1>1
    <3>. QED
      BY <1>1, <3>1, <3>2 DEF TargetRecords
  <2>. QED
    BY <2>1, <2>2
<1>3. UNCHANGED <<cn, table, created>>
  BY DEF DestroyTarget, ReconnectDue
<1>4. TargetTypeOK'
  BY <1>2, <1>3, Types, TypesPrime
<1>5. TableHolds' /\ DeadIsEmpty'
  <2>1. table \in Targets \cup {NoTarget} /\ table' = table
    BY <1>3, Types
  <2>2. tgt[t].state # "live" => tgt[t].uses = 0 /\ tgt[t].tree = {}
    BY DEF DeadIsEmpty
  <2>3. \A u \in Targets :
          /\ tgt'[u].state = tgt[u].state
          /\ tgt[u].run \/ tgt[u].timer => tgt'[u].run \/ tgt'[u].timer
          /\ tgt[u].uses = 0 => tgt'[u].uses = 0
          /\ tgt'[u].tree = tgt[u].tree
    BY <1>2
  <2>. QED
    BY <2>1, <2>2, <2>3 DEF TableHolds, DeadIsEmpty
<1>6. \A u \in Targets : /\ tgt'[u].tree = tgt[u].tree
                         /\ tgt'[u].outbound = tgt[u].outbound
                         /\ tgt'[u].active = tgt[u].active
  BY <1>2
<1>7. ConnShape' /\ TreeOwned' /\ AliveHeld'
  BY <1>3, <1>6 DEF ConnShape, TreeOwned, AliveHeld
<1>8. TreeCounted' /\ \A u \in Targets : ActiveOf(tgt[u])' = ActiveOf(tgt[u])
  BY <1>3, <1>6, CountsKept
<1>9. OneThread'
  BY <1>3, <1>6, <1>8 DEF OneThread
<1>. QED
  BY <1>4, <1>5, <1>7, <1>8, <1>9

-----------------------------------------------------------------------------
(* Steps of one connection.                                                *)

\* The steps that neither count a connection nor free one.
LEMMA ConnMarkStep ==
    ASSUME TargetInv, NEW c \in Conns,
           \/ MainFree /\ Connected(c)
           \/ ConnBegin(c)
           \/ MainFree /\ ConnReadiness(c)
           \/ MainFree /\ ConnFails(c)
           \/ ConnCloses(c)
    PROVE  TargetInv'
<1>. USE DEF TargetInv
<1>1. /\ tgt \in [Targets -> TargetRecords] /\ cn \in [Conns -> PooledRecords]
      /\ cn[c] \in PooledRecords
  BY Types
<1>2. /\ cn[c].state # "none"
      /\ \A d \in Conns : d # c => cn'[d] = cn[d]
      /\ cn' \in [Conns -> PooledRecords]
      /\ cn'[c].target = cn[c].target
      /\ cn'[c].state # "none"
      /\ cn'[c].state = "active" <=> cn[c].state = "active"
      /\ cn'[c].state \in {"connecting", "pending"} <=>
           cn[c].state \in {"connecting", "pending"}
      /\ cn[c].error => cn'[c].error
      /\ cn'[c].counting => cn'[c].state = "pending"
      /\ cn'[c].aborted => cn'[c].error /\ ~cn'[c].counting
      /\ ~Threaded /\ cn'[c].counting => ~cn'[c].error
  <2>1. CASE MainFree /\ Connected(c)
    <3>1. cn' = [cn EXCEPT ![c] = [cn[c] EXCEPT !.state = "pending"]]
          /\ cn[c].state = "connecting" /\ ~cn[c].aborted
      BY <1>1, <2>1 DEF Connected
    <3>2. cn[c].counting => cn[c].state = "pending"
      BY DEF ConnShape
    <3>. QED
      BY <1>1, <3>1, <3>2 DEF PooledRecords
  <2>2. CASE ConnBegin(c)
    <3>1. cn' = [cn EXCEPT ![c] = [cn[c] EXCEPT !.counting = TRUE]]
          /\ cn[c].state = "pending" /\ ~cn[c].error
      BY <1>1, <2>2 DEF ConnBegin
    <3>2. ~cn[c].aborted
      BY <3>1 DEF ConnShape
    <3>. QED
      BY <1>1, <3>1, <3>2 DEF PooledRecords
  <2>3. CASE MainFree /\ ConnReadiness(c)
    <3>1. PICK r \in {"ok", "stopped", "failed"} :
            cn' = [cn EXCEPT ![c] = [cn[c] EXCEPT !.ready = r]]
      BY <1>1, <2>3 DEF ConnReadiness
    <3>2. cn[c].state = "active" /\ ~cn[c].error
      BY <2>3 DEF ConnReadiness, IsActive
    <3>3. (cn[c].counting => cn[c].state = "pending") /\ (cn[c].aborted => cn[c].error)
      BY DEF ConnShape
    <3>. QED
      BY <1>1, <3>1, <3>2, <3>3 DEF PooledRecords
  <2>4. CASE MainFree /\ ConnFails(c)
    <3>1. cn' = [cn EXCEPT ![c] = [cn[c] EXCEPT !.error = TRUE]]
          /\ cn[c].state # "none" /\ ~cn[c].error
      BY <1>1, <2>4 DEF ConnFails
    <3>2. /\ cn[c].counting => cn[c].state = "pending"
          /\ cn[c].aborted => cn[c].error /\ ~cn[c].counting
      BY DEF ConnShape
    <3>3. ~Threaded => ~cn[c].counting
      BY <2>4 DEF MainFree
    <3>. QED
      BY <1>1, <3>1, <3>2, <3>3 DEF PooledRecords
  <2>5. CASE ConnCloses(c)
    <3>1. cn' = [cn EXCEPT ![c] = [cn[c] EXCEPT !.aborted = TRUE]]
          /\ cn[c].error /\ ~cn[c].counting
      BY <1>1, <2>5 DEF ConnCloses
    <3>2. cn[c].state # "none"
      BY <3>1 DEF ConnShape, NoConn
    <3>. QED
      BY <1>1, <3>1, <3>2 DEF PooledRecords
  <2>. QED
    BY <2>1, <2>2, <2>3, <2>4, <2>5
<1>3. UNCHANGED <<table, created>>
  BY DEF Connected, ConnBegin, ConnReadiness, ConnFails, ConnCloses
<1>4. /\ tgt' \in [Targets -> TargetRecords]
      /\ \A t \in Targets :
           /\ tgt'[t].state = tgt[t].state /\ tgt'[t].uses = tgt[t].uses
           /\ tgt'[t].tree = tgt[t].tree /\ tgt'[t].outbound = tgt[t].outbound
           /\ tgt'[t].active = tgt[t].active /\ tgt'[t].timer = tgt[t].timer
           /\ tgt[t].run => tgt'[t].run
  <2>1. CASE tgt' = tgt
    BY <1>1, <2>1
  <2>2. CASE tgt' = [tgt EXCEPT ![cn[c].target].run = TRUE]
    <3>1. cn[c].target \in Targets
      BY <1>2 DEF ConnShape
    <3>2. tgt' = [tgt EXCEPT ![cn[c].target] =
                    [tgt[cn[c].target] EXCEPT !.run = TRUE]]
      BY <1>1, <2>2, <3>1
    <3>3. tgt[cn[c].target] \in TargetRecords
      BY <1>1, <3>1
    <3>. QED
      BY <1>1, <3>1, <3>2, <3>3 DEF TargetRecords
  <2>. QED
    BY <2>1, <2>2 DEF Connected, ConnBegin, ConnReadiness, ConnFails, ConnCloses
<1>5. TargetTypeOK'
  BY <1>2, <1>3, <1>4, Types, TypesPrime
<1>6. TableHolds' /\ DeadIsEmpty'
  <2>1. NoTarget \notin Targets /\ table \in Targets \cup {NoTarget}
    BY TargetAssumption, Types
  <2>. QED
    BY <1>3, <1>4, <2>1 DEF TableHolds, DeadIsEmpty
<1>7. ConnShape'
  BY <1>2 DEF ConnShape
<1>8. TreeOwned'
  <2>1. \A t \in Targets : tgt[t].tree \subseteq Conns
    BY <1>1 DEF TargetRecords
  <2>. QED
    BY <1>2, <1>4, <2>1 DEF TreeOwned
<1>9. AliveHeld'
  <2>. SUFFICES ASSUME NEW d \in Conns, cn'[d].state # "none", ~cn'[d].error
                PROVE  d \in tgt'[cn'[d].target].tree
    BY DEF AliveHeld
  <2>1. cn'[d].target = cn[d].target /\ cn[d].state # "none" /\ ~cn[d].error
    BY <1>1, <1>2 DEF PooledRecords
  <2>2. cn[d].target \in Targets /\ d \in tgt[cn[d].target].tree
    BY <2>1 DEF AliveHeld, ConnShape
  <2>. QED
    BY <1>4, <2>1, <2>2
<1>10. TreeCounted' /\ \A t \in Targets : ActiveOf(tgt[t])' = ActiveOf(tgt[t])
  BY <1>2, <1>3, <1>4, CountsKept
<1>11. OneThread'
  BY <1>2, <1>4, <1>10 DEF OneThread
<1>. QED
  BY <1>5, <1>6, <1>7, <1>8, <1>9, <1>10, <1>11

\* The target counts a connection: it stops waiting, and if a tree still has it
\* it is one more active member.
LEMMA ConnCountStep ==
    ASSUME TargetInv, NEW c \in Conns, ConnCount(c)
    PROVE  TargetInv'
<1>. USE DEF TargetInv
<1>0. PICK t \in Targets : t = cn[c].target
  BY DEF ConnCount, ConnShape
<1>1. /\ tgt \in [Targets -> TargetRecords] /\ cn \in [Conns -> PooledRecords]
      /\ created \in 0 .. MaxNew /\ MaxNew \in Nat
      /\ cn[c] \in PooledRecords
      /\ \A u \in Targets : tgt[u].tree \subseteq Conns
  BY Types, TargetAssumption DEF TargetRecords
<1>2. /\ cn[c].counting /\ cn[c].state = "pending" /\ ~cn[c].aborted
      /\ t \in Targets /\ cn[c].target = t
  BY <1>0 DEF ConnCount, ConnShape
<1>3. /\ cn' = [cn EXCEPT ![c] = [cn[c] EXCEPT !.state = "active", !.counting = FALSE]]
      /\ tgt' = [tgt EXCEPT ![t] = [tgt[t] EXCEPT !.active = tgt[t].active + 1]]
      /\ UNCHANGED <<table, created>>
  BY <1>1, <1>2 DEF ConnCount
<1>4. /\ cn' \in [Conns -> PooledRecords]
      /\ \A d \in Conns : d # c => cn'[d] = cn[d]
      /\ cn'[c].state = "active" /\ ~cn'[c].counting /\ ~cn'[c].aborted
      /\ cn'[c].target = t /\ cn'[c].error = cn[c].error
  BY <1>1, <1>2, <1>3 DEF PooledRecords
<1>5. c \in Waiting(t) /\ Waiting(t) \subseteq Conns
  BY <1>2 DEF Waiting
<1>6. /\ Waiting(t)' = Waiting(t) \ {c}
      /\ \A u \in Targets : u # t => Waiting(u)' = Waiting(u)
  BY <1>2, <1>4 DEF Waiting
<1>7. Cardinality(Waiting(t)') = Cardinality(Waiting(t)) - 1
      /\ Cardinality(Waiting(t)) \in Nat /\ Cardinality(Waiting(t)') \in Nat
  <2>1. IsFiniteSet(Waiting(t)) /\ Cardinality(Waiting(t)) \in Nat
    BY <1>5, ConnSet
  <2>2. Cardinality(Waiting(t) \ {c}) = Cardinality(Waiting(t)) - 1
    BY <1>5, <2>1, FS_RemoveElement
  <2>3. Waiting(t) \ {c} \subseteq Conns
    BY <1>5
  <2>4. Cardinality(Waiting(t) \ {c}) \in Nat
    BY <2>3, ConnSet
  <2>. QED
    BY <1>6, <2>1, <2>2, <2>4
<1>8. tgt[t].active \in Nat /\ tgt[t].active + 1 \in 0 .. MaxNew
  <2>1. tgt[t].active \in 0 .. MaxNew
    BY <1>1, <1>2 DEF TargetRecords
  <2>2. tgt[t].active + Cardinality(Waiting(t)) <= created
    BY <1>2 DEF TreeCounted
  <2>. QED
    BY <1>1, <1>7, <2>1, <2>2
<1>9. /\ tgt' \in [Targets -> TargetRecords]
      /\ \A u \in Targets : u # t => tgt'[u] = tgt[u]
      /\ \A u \in Targets :
           /\ tgt'[u].state = tgt[u].state /\ tgt'[u].uses = tgt[u].uses
           /\ tgt'[u].tree = tgt[u].tree /\ tgt'[u].outbound = tgt[u].outbound
           /\ tgt'[u].run = tgt[u].run /\ tgt'[u].timer = tgt[u].timer
      /\ tgt'[t].active = tgt[t].active + 1
  <2>1. PICK n \in 0 .. MaxNew :
          n = tgt[t].active + 1 /\ tgt' = [tgt EXCEPT ![t] = [tgt[t] EXCEPT !.active = n]]
    BY <1>3, <1>8
  <2>. QED
    BY <1>1, <1>2, <2>1 DEF TargetRecords
<1>10. \A u \in Targets : u # t => ActiveOf(tgt[u])' = ActiveOf(tgt[u])
  <2>1. \A u \in Targets : u # t => c \notin tgt[u].tree
    BY <1>2 DEF TreeOwned
  <2>. QED
    BY <1>1, <1>4, <1>9, <2>1 DEF ActiveOf, IsActive
<1>11. ActiveOf(tgt[t])' = ActiveOf(tgt[t]) \cup ({c} \cap tgt[t].tree)
  BY <1>1, <1>2, <1>4, <1>9 DEF ActiveOf, IsActive
<1>12. /\ ActiveOf(tgt[t]) \subseteq Conns /\ c \notin ActiveOf(tgt[t])
       /\ IsFiniteSet(ActiveOf(tgt[t])) /\ Cardinality(ActiveOf(tgt[t])) \in Nat
  <2>1. ActiveOf(tgt[t]) \subseteq Conns /\ c \notin ActiveOf(tgt[t])
    BY <1>1, <1>2 DEF ActiveOf, IsActive
  <2>. QED
    BY <2>1, ConnSet
<1>13. /\ Cardinality(ActiveOf(tgt[t])') <= Cardinality(ActiveOf(tgt[t])) + 1
       /\ c \in tgt[t].tree =>
            Cardinality(ActiveOf(tgt[t])') = Cardinality(ActiveOf(tgt[t])) + 1
  <2>1. CASE c \in tgt[t].tree
    <3>1. ActiveOf(tgt[t])' = ActiveOf(tgt[t]) \cup {c}
      BY <1>11, <2>1
    <3>2. Cardinality(ActiveOf(tgt[t]) \cup {c}) = Cardinality(ActiveOf(tgt[t])) + 1
      BY <1>12, FS_AddElement
    <3>. QED
      BY <1>12, <3>1, <3>2
  <2>2. CASE c \notin tgt[t].tree
    <3>1. ActiveOf(tgt[t])' = ActiveOf(tgt[t])
      BY <1>11, <2>2
    <3>. QED
      BY <1>12, <2>2, <3>1
  <2>. QED
    BY <2>1, <2>2
<1>14. TargetTypeOK'
  BY <1>3, <1>4, <1>9, Types, TypesPrime
<1>15. TableHolds' /\ DeadIsEmpty'
  <2>1. NoTarget \notin Targets /\ table \in Targets \cup {NoTarget}
    BY TargetAssumption, Types
  <2>. QED
    BY <1>3, <1>9, <2>1 DEF TableHolds, DeadIsEmpty
<1>16. ConnShape'
  BY <1>2, <1>4 DEF ConnShape
<1>17. TreeOwned'
  BY <1>1, <1>2, <1>4, <1>9 DEF TreeOwned
<1>18. AliveHeld'
  <2>. SUFFICES ASSUME NEW d \in Conns, cn'[d].state # "none", ~cn'[d].error
                PROVE  d \in tgt'[cn'[d].target].tree
    BY DEF AliveHeld
  <2>1. cn'[d].target = cn[d].target /\ cn[d].state # "none" /\ ~cn[d].error
    BY <1>2, <1>4
  <2>2. cn[d].target \in Targets /\ d \in tgt[cn[d].target].tree
    BY <2>1 DEF AliveHeld, ConnShape
  <2>. QED
    BY <1>9, <2>1, <2>2
<1>19. TreeCounted'
  <2>. SUFFICES ASSUME NEW u \in Targets
                PROVE  /\ tgt'[u].outbound = Cardinality(tgt'[u].tree)
                       /\ tgt'[u].outbound <= MaxConnections
                       /\ tgt'[u].active >= Cardinality(ActiveOf(tgt[u])')
                       /\ tgt'[u].active + Cardinality(Waiting(u)') <= created
    BY <1>3 DEF TreeCounted
  <2>0. /\ tgt[u].outbound = Cardinality(tgt[u].tree)
        /\ tgt[u].outbound <= MaxConnections
        /\ tgt[u].active >= Cardinality(ActiveOf(tgt[u]))
        /\ tgt[u].active + Cardinality(Waiting(u)) <= created
    BY DEF TreeCounted
  <2>1. CASE u # t
    BY <1>6, <1>9, <1>10, <2>0, <2>1
  <2>2. CASE u = t
    <3>1. /\ tgt[t].active >= Cardinality(ActiveOf(tgt[t]))
          /\ tgt[t].active + Cardinality(Waiting(t)) <= created
      BY <1>2 DEF TreeCounted
    <3>2. Cardinality(ActiveOf(tgt[t])') \in Nat
      <4>1. ActiveOf(tgt[t]) \cup ({c} \cap tgt[t].tree) \subseteq Conns
        BY <1>12
      <4>. QED
        BY <1>11, <4>1, ConnSet
    <3>3. /\ tgt'[t].active >= Cardinality(ActiveOf(tgt[t])')
          /\ tgt'[t].active + Cardinality(Waiting(t)') <= created
      BY <1>1, <1>7, <1>8, <1>9, <1>12, <1>13, <3>1, <3>2
    <3>. QED
      BY <1>9, <2>0, <2>2, <3>3
  <2>. QED
    BY <2>1, <2>2
<1>20. OneThread'
  <2>. SUFFICES ASSUME ~Threaded
                PROVE  /\ \A d \in Conns : cn'[d].counting => ~cn'[d].error
                       /\ \A u \in Targets :
                            tgt'[u].active = Cardinality(ActiveOf(tgt[u])')
    BY DEF OneThread
  <2>1. \A d \in Conns : cn'[d].counting => ~cn'[d].error
    BY <1>4 DEF OneThread
  <2>2. c \in tgt[t].tree
    BY <1>2 DEF OneThread, AliveHeld
  <2>3. \A u \in Targets : tgt[u].active = Cardinality(ActiveOf(tgt[u]))
    BY DEF OneThread
  <2>4. tgt'[t].active = Cardinality(ActiveOf(tgt[t])')
    BY <1>2, <1>9, <1>13, <2>2, <2>3
  <2>. QED
    BY <1>9, <1>10, <2>1, <2>3, <2>4
<1>. QED
  BY <1>14, <1>15, <1>16, <1>17, <1>18, <1>19, <1>20

\* A connection is freed when no tree has it.
LEMMA ConnFreedStep ==
    ASSUME TargetInv, NEW c \in Conns, ConnFreed(c)
    PROVE  TargetInv'
<1>. USE DEF TargetInv
<1>1. /\ tgt \in [Targets -> TargetRecords] /\ cn \in [Conns -> PooledRecords]
      /\ created \in Nat
      /\ \A u \in Targets : tgt[u].tree \subseteq Conns
  BY Types, TargetAssumption DEF TargetRecords
<1>2. /\ cn' = [cn EXCEPT ![c] = NoConn] /\ UNCHANGED <<tgt, table, created>>
      /\ \A u \in Targets : c \notin tgt[u].tree
  BY DEF ConnFreed
<1>3. /\ cn' \in [Conns -> PooledRecords] /\ cn'[c] = NoConn
      /\ \A d \in Conns : d # c => cn'[d] = cn[d]
  BY <1>1, <1>2 DEF PooledRecords, NoConn
<1>4. /\ NoConn.state = "none" /\ NoConn.target = NoTarget /\ ~NoConn.error
      /\ ~NoConn.aborted /\ ~NoConn.counting /\ NoTarget \notin Targets
  BY TargetAssumption DEF NoConn
<1>5. TargetTypeOK'
  BY <1>2, <1>3, Types, TypesPrime
<1>6. TableHolds' /\ DeadIsEmpty'
  BY <1>2 DEF TableHolds, DeadIsEmpty
<1>7. ConnShape' /\ TreeOwned' /\ AliveHeld'
  BY <1>1, <1>2, <1>3, <1>4 DEF ConnShape, TreeOwned, AliveHeld
<1>8. \A u \in Targets : ActiveOf(tgt[u])' = ActiveOf(tgt[u])
  BY <1>1, <1>2, <1>3 DEF ActiveOf, IsActive
<1>9. ASSUME NEW u \in Targets
      PROVE  /\ Cardinality(Waiting(u)') <= Cardinality(Waiting(u))
             /\ Cardinality(Waiting(u)') \in Nat /\ Cardinality(Waiting(u)) \in Nat
  <2>1. Waiting(u)' \subseteq Waiting(u) /\ Waiting(u) \subseteq Conns
    BY <1>3, <1>4 DEF Waiting
  <2>2. Waiting(u)' \subseteq Conns
    BY <2>1
  <2>. QED
    BY <2>1, <2>2, ConnSet, ConnSubset
<1>10. TreeCounted'
  <2>1. \A u \in Targets : tgt[u].active \in Nat
    BY <1>1, TargetAssumption DEF TargetRecords
  <2>. QED
    BY <1>1, <1>2, <1>8, <1>9, <2>1 DEF TreeCounted
<1>11. OneThread'
  BY <1>2, <1>3, <1>4, <1>8 DEF OneThread
<1>. QED
  BY <1>5, <1>6, <1>7, <1>10, <1>11

-----------------------------------------------------------------------------
(* The target's job.                                                       *)

\* The number of connections that create_new_connections may make.
LEMMA Room ==
    ASSUME NEW T, NEW n \in Nat, T.outbound \in Nat, T.outbound <= MaxConnections,
           T.tree \subseteq Conns,
           n <= Max({0, NeedConnections(T) - T.outbound})
    PROVE  T.outbound + n <= MaxConnections
<1>. DEFINE F == {c \in T.tree : Ready(c, "failed")}
            S == {c \in T.tree : Ready(c, "stopped")}
            b == MinConnections + CountReady(T.tree, "failed")
                   + (CountReady(T.tree, "stopped") + 1) \div 2
            need == NeedConnections(T)
            m == Max({0, need - T.outbound})
<1>1. F \subseteq Conns /\ S \subseteq Conns
  OBVIOUS
<1>2. Cardinality(F) \in Nat /\ Cardinality(S) \in Nat
  <2>. HIDE DEF F, S
  <2>. QED  BY <1>1, ConnSet
<1>3. b \in Int /\ MaxConnections \in Int
  <2>1. (Cardinality(S) + 1) \div 2 \in Int
    <3>. HIDE DEF S
    <3>. QED  BY <1>2
  <2>. QED
    BY <1>2, <2>1, TargetAssumption DEF CountReady
<1>4. \A x, y \in Int : Min({x, y}) \in {x, y} /\ Min({x, y}) <= x
  <2>. SUFFICES ASSUME NEW x \in Int, NEW y \in Int
                PROVE  Min({x, y}) \in {x, y} /\ Min({x, y}) <= x
    OBVIOUS
  <2>1. \E k \in {x, y} : \A l \in {x, y} : k <= l
    <3>1. CASE x <= y  BY <3>1
    <3>2. CASE y <= x  BY <3>2
    <3>. QED  BY <3>1, <3>2
  <2>. QED
    BY <2>1 DEF Min
<1>5. need \in Int /\ need <= MaxConnections
  <2>1. need = Min({MaxConnections, b})
    BY DEF NeedConnections
  <2>. HIDE DEF need, b
  <2>. QED
    BY <1>3, <1>4, <2>1
<1>6. \A x \in Int : Max({0, x}) = 0 \/ Max({0, x}) = x
  <2>. SUFFICES ASSUME NEW x \in Int
                PROVE  Max({0, x}) = 0 \/ Max({0, x}) = x
    OBVIOUS
  <2>1. \E k \in {0, x} : \A l \in {0, x} : k >= l
    <3>1. CASE x <= 0  BY <3>1
    <3>2. CASE 0 <= x  BY <3>2
    <3>. QED  BY <3>1, <3>2
  <2>. QED
    BY <2>1 DEF Max
<1>7. need - T.outbound \in Int
  <2>. HIDE DEF need
  <2>. QED  BY <1>5
<1>8. m = 0 \/ m = need - T.outbound
  <2>. HIDE DEF need
  <2>. QED  BY <1>6, <1>7
<1>. HIDE DEF m, need
<1>9. n <= m
  BY DEF m, need
<1>. QED
  BY <1>3, <1>5, <1>8, <1>9

\* One target's job has left the target, the connections and the counters so.
\* What is common to its three endings: the tree it leaves is counted right.
LEMMA WorkKeepsCounts ==
    ASSUME TargetInv, NEW t \in Targets, NEW new, new \subseteq Conns,
           \A c \in new : cn[c].state = "none",
           \A u \in Targets : u # t => tgt'[u] = tgt[u],
           \A c \in Conns \ new : /\ cn'[c].state = cn[c].state
                                  /\ cn'[c].target = cn[c].target
                                  /\ cn'[c].counting = cn[c].counting,
           \A c \in new : cn'[c].state = "connecting" /\ cn'[c].target = t
                          /\ ~cn'[c].counting,
           tgt'[t].tree = DestroyDead(tgt[t]).tree \cup new,
           tgt'[t].outbound = DestroyDead(tgt[t]).outbound + Cardinality(new),
           tgt'[t].outbound <= MaxConnections,
           tgt'[t].active = DestroyDead(tgt[t]).active,
           created' = created + Cardinality(new)
    PROVE  /\ TreeCounted'
           /\ ~Threaded => \A u \in Targets :
                tgt'[u].active = Cardinality(ActiveOf(tgt[u])')
           /\ DestroyDead(tgt[t]).outbound + Cardinality(new) <= Cardinality(Conns)
<1>. USE DEF TargetInv
<1>. DEFINE T == DestroyDead(tgt[t])
<1>1. /\ tgt \in [Targets -> TargetRecords] /\ cn \in [Conns -> PooledRecords]
      /\ created \in Nat
      /\ \A u \in Targets : tgt[u].tree \subseteq Conns
      /\ \A u \in Targets : tgt[u].active \in Nat
  BY Types, TargetAssumption DEF TargetRecords
<1>2. /\ T.tree = {c \in tgt[t].tree : ~cn[c].error}
      /\ T.outbound = Cardinality(T.tree)
      /\ T.active <= tgt[t].active
      /\ T.active >= Cardinality(ActiveOf(T))
      /\ ~Threaded => T.active = Cardinality(ActiveOf(T))
      /\ T.active \in Nat
  BY DeadGone, TargetAssumption DEF TargetRecords
<1>. HIDE DEF T
<1>3. T.tree \subseteq Conns /\ T.tree \cap new = {}
  BY <1>1, <1>2 DEF TreeOwned
<1>4. /\ Cardinality(T.tree \cup new) = T.outbound + Cardinality(new)
      /\ Cardinality(T.tree \cup new) <= Cardinality(Conns)
      /\ Cardinality(new) \in Nat
  <2>1. T.tree \cup new \subseteq Conns
    BY <1>3
  <2>. QED
    BY <1>2, <1>3, <2>1, ConnSplit, ConnSet
<1>5. tgt'[t].tree = T.tree \cup new /\ tgt'[t].active = T.active
      /\ tgt'[t].outbound = T.outbound + Cardinality(new)
  BY DEF T
<1>6. ActiveOf(tgt[t])' = ActiveOf(T)
  <2>1. ActiveOf(tgt[t])' = {c \in T.tree \cup new : cn'[c].state = "active"}
    BY <1>5 DEF ActiveOf, IsActive
  <2>2. ActiveOf(T) = {c \in T.tree : cn[c].state = "active"}
    BY DEF ActiveOf, IsActive
  <2>3. \A c \in T.tree : c \in Conns \ new
    BY <1>3
  <2>4. \A c \in T.tree : cn'[c].state = cn[c].state
    BY <2>3
  <2>. QED
    BY <2>1, <2>2, <2>4
<1>7. ASSUME NEW u \in Targets, u # t
      PROVE  ActiveOf(tgt[u])' = ActiveOf(tgt[u]) /\ Waiting(u)' = Waiting(u)
  <2>1. \A c \in tgt[u].tree : c \in Conns \ new
    BY <1>1 DEF TreeOwned
  <2>2. ActiveOf(tgt[u])' = ActiveOf(tgt[u])
    BY <1>7, <2>1 DEF ActiveOf, IsActive
  <2>3. \A c \in new : cn[c].target # u
    BY <1>1, TargetAssumption DEF ConnShape, NoConn
  <2>4. Waiting(u)' = Waiting(u)
    BY <1>7, <2>3 DEF Waiting
  <2>. QED
    BY <2>2, <2>4
<1>8. Waiting(t)' = Waiting(t) \cup new /\ Waiting(t) \cap new = {}
      /\ Waiting(t) \subseteq Conns
  BY DEF Waiting
<1>9. Cardinality(Waiting(t)') = Cardinality(Waiting(t)) + Cardinality(new)
      /\ Cardinality(Waiting(t)) \in Nat
  BY <1>8, ConnSplit, ConnSet
<1>10. TreeCounted'
  <2>1. ASSUME NEW u \in Targets, u # t
        PROVE  /\ tgt'[u].outbound = Cardinality(tgt'[u].tree)
               /\ tgt'[u].outbound <= MaxConnections
               /\ tgt'[u].active >= Cardinality(ActiveOf(tgt[u])')
               /\ tgt'[u].active + Cardinality(Waiting(u)') <= created'
    <3>1. Waiting(u) \subseteq Conns
      BY DEF Waiting
    <3>2. Cardinality(Waiting(u)) \in Nat
      BY <3>1, ConnSet
    <3>3. /\ tgt[u].outbound = Cardinality(tgt[u].tree)
          /\ tgt[u].outbound <= MaxConnections
          /\ tgt[u].active >= Cardinality(ActiveOf(tgt[u]))
          /\ tgt[u].active + Cardinality(Waiting(u)) <= created
      BY DEF TreeCounted
    <3>4. tgt[u].active + Cardinality(Waiting(u)) <= created + Cardinality(new)
      BY <1>1, <1>4, <3>2, <3>3
    <3>. QED
      BY <1>7, <2>1, <3>3, <3>4
  <2>2. /\ tgt'[t].outbound = Cardinality(tgt'[t].tree)
        /\ tgt'[t].active >= Cardinality(ActiveOf(tgt[t])')
    BY <1>2, <1>4, <1>5, <1>6
  <2>3. tgt'[t].active + Cardinality(Waiting(t)') <= created'
    <3>1. tgt[t].active + Cardinality(Waiting(t)) <= created
      BY DEF TreeCounted
    <3>. QED
      BY <1>1, <1>2, <1>4, <1>5, <1>9, <3>1
  <2>. QED
    BY <2>1, <2>2, <2>3 DEF TreeCounted
<1>11. ASSUME ~Threaded, NEW u \in Targets
       PROVE  tgt'[u].active = Cardinality(ActiveOf(tgt[u])')
  BY <1>2, <1>5, <1>6, <1>7, <1>11 DEF OneThread
<1>. QED
  BY <1>4, <1>2, <1>10, <1>11 DEF T

LEMMA ReconnectStep ==
    ASSUME TargetInv, NEW t \in Targets, MainFree, tgt[t].state = "live",
           Reconnect(t)
    PROVE  TargetInv'
<1>. USE DEF TargetInv
<1>. DEFINE T == DestroyDead(tgt[t])
            free == {c \in Conns : cn[c].state = "none"}
            go == T.due \/ T.active > 0
<1>1. /\ tgt \in [Targets -> TargetRecords] /\ cn \in [Conns -> PooledRecords]
      /\ table \in Targets \cup {NoTarget} /\ created \in Nat
      /\ NoTarget \notin Targets /\ MaxNew \in Nat /\ MaxConnections \in Nat
  BY Types, TargetAssumption
<1>2. /\ T \in TargetRecords
      /\ T.tree = {c \in tgt[t].tree : ~cn[c].error}
      /\ T.state = "live" /\ T.uses = tgt[t].uses
      /\ T.outbound <= MaxConnections
  BY DeadGone
<1>3. PICK new \in SUBSET free :
        /\ Cardinality(new) + created <= MaxNew
        /\ Cardinality(new) <= IF go THEN Max({0, NeedConnections(T) - T.outbound})
                               ELSE 0
        /\ cn' = [c \in Conns |-> IF c \in new
                    THEN [NoConn EXCEPT !.state = "connecting", !.target = t]
                    ELSE cn[c]]
        /\ tgt' = [tgt EXCEPT ![t] = [T EXCEPT !.run = FALSE, !.timer = TRUE,
                     !.tree = @ \cup new, !.outbound = @ + Cardinality(new),
                     !.due = @ /\ ~go]]
        /\ created' = created + Cardinality(new)
        /\ UNCHANGED table
  BY DEF Reconnect
<1>4. /\ new \subseteq Conns /\ Cardinality(new) \in Nat
      /\ \A c \in new : cn[c].state = "none"
  BY <1>3, ConnSet
<1>5. T.outbound + Cardinality(new) <= MaxConnections
  <2>1. T.outbound \in Nat /\ T.tree \subseteq Conns
    BY <1>2, ConnSet DEF TargetRecords
  <2>2. CASE go
    <3>1. Cardinality(new) <= Max({0, NeedConnections(T) - T.outbound})
      BY <1>3, <2>2
    <3>. HIDE DEF T, go
    <3>. QED
      BY <1>2, <1>4, <2>1, <3>1, Room
  <2>3. CASE ~go
    <3>1. Cardinality(new) <= 0
      BY <1>3, <2>3
    <3>. HIDE DEF T, go
    <3>. QED
      BY <1>1, <1>2, <1>4, <2>1, <3>1
  <2>. QED
    BY <2>2, <2>3
<1>6. PICK due \in BOOLEAN :
        tgt' = [tgt EXCEPT ![t] = [T EXCEPT !.run = FALSE, !.timer = TRUE,
                  !.tree = T.tree \cup new, !.outbound = T.outbound + Cardinality(new),
                  !.due = due]]
  <2>1. (T.due /\ ~go) \in BOOLEAN
    OBVIOUS
  <2>2. tgt' = [tgt EXCEPT ![t] = [T EXCEPT !.run = FALSE, !.timer = TRUE,
                  !.tree = T.tree \cup new, !.outbound = T.outbound + Cardinality(new),
                  !.due = T.due /\ ~go]]
    <3>. HIDE DEF T, go
    <3>. QED  BY <1>2, <1>3 DEF TargetRecords
  <2>. HIDE DEF T, go
  <2>. QED
    BY <2>1, <2>2
<1>. HIDE DEF T
<1>7. /\ \A u \in Targets : u # t => tgt'[u] = tgt[u]
      /\ tgt'[t] = [T EXCEPT !.run = FALSE, !.timer = TRUE,
                      !.tree = T.tree \cup new,
                      !.outbound = T.outbound + Cardinality(new), !.due = due]
      /\ tgt'[t].state = "live" /\ tgt'[t].uses = tgt[t].uses /\ tgt'[t].timer
      /\ tgt'[t].tree = T.tree \cup new
      /\ tgt'[t].outbound = T.outbound + Cardinality(new)
      /\ tgt'[t].active = T.active
  BY <1>1, <1>2, <1>6 DEF TargetRecords
<1>8. /\ \A c \in Conns \ new : cn'[c] = cn[c]
      /\ \A c \in new :
           /\ cn'[c] \in PooledRecords
           /\ cn'[c].state = "connecting" /\ cn'[c].target = t
           /\ ~cn'[c].counting /\ ~cn'[c].aborted /\ ~cn'[c].error
  <2>1. \A c \in new : cn'[c] = [state |-> "connecting", ready |-> "notyet",
                                 error |-> FALSE, aborted |-> FALSE,
                                 counting |-> FALSE, target |-> t]
    BY <1>3, <1>4 DEF NoConn
  <2>. QED
    BY <1>3, <2>1 DEF PooledRecords
<1>9. /\ TreeCounted'
      /\ ~Threaded => \A u \in Targets :
           tgt'[u].active = Cardinality(ActiveOf(tgt[u])')
      /\ T.outbound + Cardinality(new) <= Cardinality(Conns)
  <2>. USE DEF T
  <2>1. DestroyDead(tgt[t]).outbound + Cardinality(new) <= MaxConnections
    BY <1>5
  <2>2. \A c \in Conns \ new : /\ cn'[c].state = cn[c].state
                               /\ cn'[c].target = cn[c].target
                               /\ cn'[c].counting = cn[c].counting
    BY <1>8
  <2>3. \A c \in new : /\ cn'[c].state = "connecting"
                       /\ cn'[c].target = t
                       /\ ~cn'[c].counting
    BY <1>8
  <2>. QED
    BY <1>3, <1>4, <1>7, <2>1, <2>2, <2>3, WorkKeepsCounts
<1>10. TargetTypeOK'
  <2>1. cn' \in [Conns -> PooledRecords]
    BY <1>1, <1>3, <1>8
  <2>2. T.outbound + Cardinality(new) \in 0 .. Cardinality(Conns)
    BY <1>2, <1>4, <1>9, ConnSet DEF TargetRecords
  <2>3. T.tree \cup new \subseteq Conns
    BY <1>2, <1>4 DEF TargetRecords
  <2>4. tgt'[t] \in TargetRecords
    BY <1>2, <1>7, <2>2, <2>3 DEF TargetRecords
  <2>5. tgt' \in [Targets -> TargetRecords]
    BY <1>1, <1>6, <1>7, <2>4
  <2>6. created' \in 0 .. MaxNew
    BY <1>1, <1>3, <1>4
  <2>. QED
    BY <1>1, <1>3, <2>1, <2>5, <2>6, TypesPrime
<1>11. table = t
  BY DEF TableHolds
<1>12. TableHolds' /\ DeadIsEmpty'
  BY <1>1, <1>3, <1>7, <1>11 DEF TableHolds, DeadIsEmpty
<1>13. ConnShape'
  BY <1>8 DEF ConnShape
<1>14. TreeOwned'
  <2>1. \A u \in Targets : \A c \in tgt[u].tree : c \in Conns \ new
    BY <1>1, <1>4 DEF TreeOwned, TargetRecords
  <2>2. \A u \in Targets : u # t => \A c \in tgt'[u].tree :
          cn'[c].state # "none" /\ cn'[c].target = u
    BY <1>7, <1>8, <2>1 DEF TreeOwned
  <2>3. \A c \in tgt'[t].tree : cn'[c].state # "none" /\ cn'[c].target = t
    <3>1. \A c \in T.tree : c \in tgt[t].tree
      BY <1>2
    <3>. QED
      BY <1>7, <1>8, <2>1, <3>1 DEF TreeOwned
  <2>. QED
    BY <2>2, <2>3 DEF TreeOwned
<1>15. AliveHeld'
  <2>. SUFFICES ASSUME NEW d \in Conns, cn'[d].state # "none", ~cn'[d].error
                PROVE  d \in tgt'[cn'[d].target].tree
    BY DEF AliveHeld
  <2>1. CASE d \in new
    BY <1>7, <1>8, <2>1
  <2>2. CASE d \notin new
    <3>1. cn'[d] = cn[d] /\ d \in tgt[cn[d].target].tree /\ cn[d].target \in Targets
      BY <1>8, <2>2 DEF AliveHeld, ConnShape
    <3>2. CASE cn[d].target = t
      <4>1. d \in T.tree
        BY <1>2, <3>1, <3>2
      <4>. QED
        BY <1>7, <3>1, <3>2, <4>1
    <3>3. CASE cn[d].target # t
      BY <1>7, <3>1, <3>3
    <3>. QED
      BY <3>2, <3>3
  <2>. QED
    BY <2>1, <2>2
<1>16. OneThread'
  <2>1. ~Threaded => \A c \in Conns : ~cn'[c].counting
    BY <1>8 DEF MainFree
  <2>. QED
    BY <1>9, <2>1 DEF OneThread
<1>. QED
  BY <1>9, <1>10, <1>12, <1>13, <1>14, <1>15, <1>16

LEMMA CleanUnusedStep ==
    ASSUME TargetInv, NEW t \in Targets, MainFree, tgt[t].state = "live",
           tgt[t].uses = 0, CleanUnused(t)
    PROVE  TargetInv'
<1>. USE DEF TargetInv
<1>. DEFINE T == DestroyDead(tgt[t])
            failed == [c \in Conns |-> IF c \in T.tree
                         THEN [cn[c] EXCEPT !.error = TRUE] ELSE cn[c]]
<1>1. /\ tgt \in [Targets -> TargetRecords] /\ cn \in [Conns -> PooledRecords]
      /\ table \in Targets \cup {NoTarget} /\ created \in Nat
      /\ NoTarget \notin Targets
  BY Types, TargetAssumption
<1>2. /\ T \in TargetRecords
      /\ T.tree = {c \in tgt[t].tree : ~cn[c].error}
      /\ T.state = "live" /\ T.uses = 0
      /\ T.outbound <= MaxConnections
  BY DeadGone
<1>3. PICK timer \in BOOLEAN, state \in {"live", "completed"} :
        /\ tgt' = [tgt EXCEPT ![t] = [T EXCEPT !.run = FALSE, !.timer = timer,
                                        !.due = FALSE, !.state = state]]
        /\ state = "live" => timer /\ cn' = failed /\ table' = table
        /\ state = "completed" => T.tree = {} /\ cn' = cn /\ table' = NoTarget
        /\ created' = created
  <2>1. CASE T.tree # {}
    <3>1. [T EXCEPT !.run = FALSE, !.timer = TRUE, !.due = FALSE] =
            [T EXCEPT !.run = FALSE, !.timer = TRUE, !.due = FALSE, !.state = "live"]
      <4>. HIDE DEF T
      <4>. QED  BY <1>2 DEF TargetRecords
    <3>. QED
      BY <2>1, <3>1 DEF CleanUnused
  <2>2. CASE T.tree = {}
    BY <2>2 DEF CleanUnused
  <2>. QED
    BY <2>1, <2>2
<1>. HIDE DEF T
<1>4. /\ \A u \in Targets : u # t => tgt'[u] = tgt[u]
      /\ tgt' \in [Targets -> TargetRecords]
      /\ tgt'[t].state = state /\ tgt'[t].uses = 0 /\ tgt'[t].timer = timer
      /\ tgt'[t].tree = T.tree /\ tgt'[t].outbound = T.outbound
      /\ tgt'[t].active = T.active
  BY <1>1, <1>2, <1>3 DEF TargetRecords
<1>5. \A c \in Conns :
        /\ cn'[c] \in PooledRecords
        /\ cn'[c].state = cn[c].state /\ cn'[c].target = cn[c].target
        /\ cn'[c].counting = cn[c].counting /\ cn'[c].aborted = cn[c].aborted
        /\ cn[c].error => cn'[c].error
        /\ cn'[c] # cn[c] => c \in T.tree
  <2>1. CASE state = "live"
    <3>1. \A c \in Conns : cn'[c] = IF c \in T.tree
                                    THEN [cn[c] EXCEPT !.error = TRUE] ELSE cn[c]
      BY <1>3, <2>1
    <3>2. \A c \in Conns : /\ c \in T.tree => cn'[c] = [cn[c] EXCEPT !.error = TRUE]
                           /\ c \notin T.tree => cn'[c] = cn[c]
      BY <3>1
    <3>3. \A c \in Conns : cn[c] \in PooledRecords
      BY <1>1
    <3>4. ASSUME NEW r \in PooledRecords, NEW s, s = [r EXCEPT !.error = TRUE]
          PROVE  /\ s \in PooledRecords /\ s.state = r.state /\ s.target = r.target
                 /\ s.counting = r.counting /\ s.aborted = r.aborted /\ s.error
      BY <3>4 DEF PooledRecords
    <3>. QED
      BY ZenonT(40), <3>2, <3>3, <3>4
  <2>2. CASE state = "completed"
    BY <1>1, <1>3, <2>2
  <2>. QED
    BY <2>1, <2>2
<1>6. /\ TreeCounted'
      /\ ~Threaded => \A u \in Targets :
           tgt'[u].active = Cardinality(ActiveOf(tgt[u])')
  <2>. USE DEF T
  <2>1. Cardinality({}) = 0
    BY FS_EmptySet
  <2>2. /\ tgt'[t].tree = DestroyDead(tgt[t]).tree \cup {}
        /\ tgt'[t].outbound = DestroyDead(tgt[t]).outbound + Cardinality({})
        /\ tgt'[t].active = DestroyDead(tgt[t]).active
        /\ tgt'[t].outbound <= MaxConnections
        /\ created' = created + Cardinality({})
    BY <1>1, <1>2, <1>3, <1>4, <2>1, ConnSet DEF TargetRecords
  <2>3. \A c \in Conns \ {} : /\ cn'[c].state = cn[c].state
                              /\ cn'[c].target = cn[c].target
                              /\ cn'[c].counting = cn[c].counting
    BY <1>5
  <2>. QED
    BY <1>4, <2>2, <2>3, WorkKeepsCounts
<1>7. TargetTypeOK'
  <2>1. cn' \in [Conns -> PooledRecords]
    BY <1>1, <1>3, <1>5
  <2>2. created' \in 0 .. MaxNew /\ table' \in Targets \cup {NoTarget}
    BY <1>1, <1>3, Types
  <2>. QED
    BY <1>4, <2>1, <2>2, TypesPrime
<1>8. table = t
  BY DEF TableHolds
<1>9. TableHolds' /\ DeadIsEmpty'
  <2>1. \A u \in Targets : u # t => tgt[u].state # "live"
    BY <1>8 DEF TableHolds
  <2>2. state = "completed" => T.tree = {}
    BY <1>3
  <2>. QED
    BY <1>1, <1>3, <1>4, <1>8, <2>1, <2>2 DEF TableHolds, DeadIsEmpty
<1>10. ConnShape'
  <2>. SUFFICES ASSUME NEW c \in Conns
                PROVE  /\ cn'[c].state = "none" => cn'[c] = NoConn
                       /\ cn'[c].state # "none" => cn'[c].target \in Targets
                       /\ cn'[c].counting => cn'[c].state = "pending"
                       /\ cn'[c].aborted => cn'[c].error /\ ~cn'[c].counting
    BY DEF ConnShape
  <2>1. cn'[c].state = "none" => cn'[c] = NoConn
    <3>1. c \in T.tree => cn[c].state # "none"
      BY <1>2 DEF TreeOwned
    <3>. QED
      BY <1>5, <3>1 DEF ConnShape
  <2>. QED
    BY <1>5, <2>1 DEF ConnShape
<1>11. TreeOwned'
  <2>1. \A u \in Targets : tgt'[u].tree \subseteq tgt[u].tree
        /\ tgt[u].tree \subseteq Conns
    BY <1>1, <1>2, <1>4 DEF TargetRecords
  <2>. QED
    BY <1>5, <2>1 DEF TreeOwned
<1>12. AliveHeld'
  <2>. SUFFICES ASSUME NEW d \in Conns, cn'[d].state # "none", ~cn'[d].error
                PROVE  d \in tgt'[cn'[d].target].tree
    BY DEF AliveHeld
  <2>1. /\ cn'[d].target = cn[d].target /\ cn[d].state # "none" /\ ~cn[d].error
    BY <1>5
  <2>2. cn[d].target \in Targets /\ d \in tgt[cn[d].target].tree
    BY <2>1 DEF AliveHeld, ConnShape
  <2>3. cn[d].target = t => d \in T.tree
    BY <1>2, <2>1, <2>2
  <2>. QED
    BY <1>4, <2>1, <2>2, <2>3
<1>13. OneThread'
  <2>1. ~Threaded => \A c \in Conns : ~cn'[c].counting
    BY <1>5 DEF MainFree
  <2>. QED
    BY <1>6, <2>1 DEF OneThread
<1>. QED
  BY <1>6, <1>7, <1>9, <1>10, <1>11, <1>12, <1>13

-----------------------------------------------------------------------------

LEMMA TargetInvInit ==
    ASSUME TargetInit
    PROVE  TargetInv
<1>1. /\ tgt = [t \in Targets |-> NewTarget] /\ cn = [c \in Conns |-> NoConn]
      /\ table = NoTarget /\ created = 0
  BY DEF TargetInit
<1>2. Cardinality(Conns) \in Nat /\ Cardinality({}) = 0
  BY ConnSet, FS_EmptySet
<1>3. NewTarget \in TargetRecords /\ NoConn \in PooledRecords
  <2>1. 0 \in 0 .. MaxUses /\ 0 \in 0 .. MaxNew /\ 0 \in 0 .. Cardinality(Conns)
    BY <1>2, TargetAssumption
  <2>. QED
    BY <2>1 DEF NewTarget, NoConn, TargetRecords, PooledRecords
<1>4. TargetTypeOK
  BY <1>1, <1>3, Types, TargetAssumption
<1>5. TableHolds /\ DeadIsEmpty /\ ConnShape /\ TreeOwned /\ AliveHeld
  BY <1>1 DEF TableHolds, DeadIsEmpty, ConnShape, TreeOwned, AliveHeld, NewTarget, NoConn
<1>6. \A t \in Targets : ActiveOf(tgt[t]) = {} /\ Waiting(t) = {}
  BY <1>1 DEF ActiveOf, Waiting, NewTarget, NoConn
<1>7. \A t \in Targets : tgt[t].outbound = 0 /\ tgt[t].active = 0 /\ tgt[t].tree = {}
  BY <1>1 DEF NewTarget
<1>8. \A c \in Conns : ~cn[c].counting
  BY <1>1 DEF NoConn
<1>9. TreeCounted
  <2>1. MaxConnections \in Nat
    BY TargetAssumption
  <2>2. \A t \in Targets : /\ Cardinality(tgt[t].tree) = 0
                           /\ Cardinality(ActiveOf(tgt[t])) = 0
                           /\ Cardinality(Waiting(t)) = 0
    BY <1>2, <1>6, <1>7
  <2>. QED
    BY <1>1, <1>7, <2>1, <2>2 DEF TreeCounted
<1>10. OneThread
  BY <1>2, <1>6, <1>7, <1>8 DEF OneThread
<1>. QED
  BY <1>4, <1>5, <1>9, <1>10 DEF TargetInv

LEMMA TargetInvNext ==
    ASSUME TargetInv, [TargetNext]_targetVars
    PROVE  TargetInv'
<1>1. CASE MainFree /\ CreateTarget
  BY <1>1, CreateTargetStep
<1>2. ASSUME NEW t \in Targets, (MainFree /\ DestroyTarget(t)) \/ ReconnectDue(t)
      PROVE  TargetInv'
  BY <1>2, MarkStep
<1>3. ASSUME NEW t \in Targets, MainFree /\ TargetWork(t)
      PROVE  TargetInv'
  <2>1. CASE tgt[t].uses > 0
    BY <1>3, <2>1, ReconnectStep DEF TargetWork
  <2>2. CASE ~(tgt[t].uses > 0)
    <3>1. tgt[t].uses = 0
      BY <2>2, Types DEF TargetInv, TargetRecords
    <3>. QED
      BY <1>3, <2>2, <3>1, CleanUnusedStep DEF TargetWork
  <2>. QED
    BY <2>1, <2>2
<1>4. ASSUME NEW c \in Conns,
             \/ MainFree /\ Connected(c)
             \/ Uninterrupted(c) /\ ConnBegin(c)
             \/ MainFree /\ ConnReadiness(c)
             \/ MainFree /\ ConnFails(c)
             \/ MainFree /\ ConnCloses(c)
      PROVE  TargetInv'
  BY <1>4, ConnMarkStep
<1>5. ASSUME NEW c \in Conns, ConnCount(c)
      PROVE  TargetInv'
  BY <1>5, ConnCountStep
<1>6. ASSUME NEW c \in Conns, MainFree /\ ConnFreed(c)
      PROVE  TargetInv'
  BY <1>6, ConnFreedStep
<1>7. CASE UNCHANGED targetVars
  <2>1. tgt' = tgt /\ cn' = cn /\ table' = table /\ created' = created
    BY <1>7 DEF targetVars
  <2>2. TargetTypeOK'
    BY <2>1, Types, TypesPrime DEF TargetInv
  <2>3. (TableHolds /\ DeadIsEmpty /\ ConnShape /\ TreeOwned /\ AliveHeld)'
    BY <2>1 DEF TargetInv, TableHolds, DeadIsEmpty, ConnShape, TreeOwned, AliveHeld
  <2>4. TreeCounted' /\ \A t \in Targets : ActiveOf(tgt[t])' = ActiveOf(tgt[t])
    BY <2>1, CountsKept DEF TargetInv
  <2>5. OneThread'
    BY <2>1, <2>4 DEF TargetInv, OneThread
  <2>. QED
    BY <2>2, <2>3, <2>4, <2>5 DEF TargetInv
<1>. QED
  BY <1>1, <1>2, <1>3, <1>4, <1>5, <1>6, <1>7 DEF TargetNext

\* The inductive invariant holds of every behaviour, whatever the numbers of
\* targets, connections and users, and with or without --multithread.
THEOREM TargetInvariant == TargetSpec => []TargetInv
<1>. QED
  BY TargetInvInit, TargetInvNext, PTL DEF TargetSpec

\* create_target and destroy_target beside the target's job: a user is never
\* left with a target that is out of the table, that was freed, or that nothing
\* will run.
THEOREM UserNeverStranded == TargetSpec => []UsedTargetLives
<1>1. TargetInv => UsedTargetLives
  <2>. SUFFICES ASSUME TargetInv, NEW t \in Targets, tgt[t].uses > 0
                PROVE  table = t /\ tgt[t].state = "live" /\ (tgt[t].run \/ tgt[t].timer)
    BY DEF UsedTargetLives
  <2>1. tgt[t].state = "live"
    BY DEF TargetInv, DeadIsEmpty
  <2>. QED
    BY <2>1 DEF TargetInv, TableHolds
<1>. QED
  BY <1>1, TargetInvariant, PTL

\* Without --multithread the counters of a target are those of its tree, it is
\* never over max_connections, and no connection outlives its target unfailed.
THEOREM CountersOfTheTree ==
    ASSUME ~Threaded
    PROVE  TargetSpec => []PoolCounted
<1>1. TargetInv => PoolCounted
  <2>. SUFFICES ASSUME TargetInv PROVE PoolCounted
    OBVIOUS
  <2>1. \A c \in Conns : cn[c].state # "none" /\ ~cn[c].error =>
          c \in tgt[cn[c].target].tree /\ tgt[cn[c].target].state = "live"
    BY DEF TargetInv, AliveHeld, ConnShape, DeadIsEmpty
  <2>. QED
    BY <2>1 DEF TargetInv, PoolCounted, TreeCounted, OneThread, ActiveOf
<1>. QED
  BY <1>1, TargetInvariant, PTL

\* With --multithread a connection that fails while the target counts it stays in
\* the count: the count of active connections is never too small, and never more
\* than what was created.
THEOREM CountNeverShort ==
    TargetSpec => [](\A t \in Targets : /\ tgt[t].active >= Cardinality(ActiveOf(tgt[t]))
                                        /\ tgt[t].active <= created)
<1>1. TargetInv => \A t \in Targets : /\ tgt[t].active >= Cardinality(ActiveOf(tgt[t]))
                                      /\ tgt[t].active <= created
  <2>. SUFFICES ASSUME TargetInv, NEW t \in Targets
                PROVE  /\ tgt[t].active >= Cardinality(ActiveOf(tgt[t]))
                       /\ tgt[t].active <= created
    OBVIOUS
  <2>1. Waiting(t) \subseteq Conns
    BY DEF Waiting
  <2>2. Cardinality(Waiting(t)) \in Nat
    BY <2>1, ConnSet
  <2>3. tgt[t].active \in Int /\ created \in Int
    BY Types DEF TargetInv, TargetRecords
  <2>. QED
    BY <2>2, <2>3 DEF TargetInv, TreeCounted
<1>. QED
  BY <1>1, TargetInvariant, PTL

-----------------------------------------------------------------------------
(* The connection layer as a whole.                                        *)

(* Connections, sockets and targets keep their types, and what is freed    *)
(* was closed and let go of before, as the free functions assert.          *)
THEOREM NetworkCorrect == NetworkSpec => []NetworkInv
<1>1. NetworkInit => SocketInit /\ TargetInit
  BY DEF NetworkInit
<1>2. [NetworkNext]_networkVars => [SocketNext]_socketVars
  BY DEF NetworkNext, networkVars
<1>3. [NetworkNext]_networkVars => [TargetNext]_targetVars
  BY DEF NetworkNext, networkVars
<1>4. SocketInv /\ TargetInv => NetworkInv
  BY RecordsTyped, EndsClean DEF NetworkInv, TargetInv
<1>. QED
  BY <1>1, <1>2, <1>3, <1>4, SocketInvInit, SocketInvNext, TargetInvInit, TargetInvNext,
     PTL DEF NetworkSpec
=============================================================================
