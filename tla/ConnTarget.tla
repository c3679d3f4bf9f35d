----------------------------- MODULE ConnTarget -----------------------------
(***************************************************************************)
(* The outbound targets of net/net-connections.c: create_target and        *)
(* destroy_target under TargetsLock, the target's job that keeps between   *)
(* min_connections and max_connections connections and frees the target    *)
(* when it is no longer used, and the life of those connections as the     *)
(* target sees it (ConnSocket has the rest of it).                         *)
(*                                                                         *)
(* One address: targets of different addresses share only the table.  A    *)
(* target that was freed and one created later for the address are         *)
(* different jobs.  precise_now >= next_reconnect is a flag that time sets. *)
(***************************************************************************)
EXTENDS Integers, FiniteSets, FiniteSetsExt

CONSTANTS
    Targets,         \* bound: target jobs created for the address
    Conns,           \* bound: connections that exist at a time
    NoTarget,
    MinConnections, MaxConnections,
    MaxUses,         \* bound: users at a time
    MaxNew,          \* bound: connections created
    Threaded         \* --multithread: connection jobs do not run on the main thread

ASSUME TargetAssumption ==
    /\ IsFiniteSet(Targets) /\ IsFiniteSet(Conns) /\ NoTarget \notin Targets
    /\ MinConnections \in Nat /\ MaxConnections \in Nat
    /\ MaxUses \in Nat \ {0} /\ MaxNew \in Nat
    /\ Threaded \in BOOLEAN

VARIABLES
    tgt,     \* struct conn_target_info, and the job: see TargetTypeOK
    cn,      \* per connection: flags, check_ready, target, and the job
    table,   \* the entry of HTarget for the address
    created  \* connections created so far

targetVars == <<tgt, cn, table, created>>

NewTarget == [state |-> "none", uses |-> 0, tree |-> {}, outbound |-> 0,
              active |-> 0, ready |-> 0, due |-> TRUE, timer |-> FALSE,
              run |-> FALSE]

NoConn == [state |-> "none", ready |-> "notyet", error |-> FALSE,
           aborted |-> FALSE, counting |-> FALSE, target |-> NoTarget]

\* The type invariant of the model.
TargetTypeOK ==
    /\ tgt \in [Targets ->
         [state : {"none", "live", "completed"}, uses : 0 .. MaxUses,
          tree : SUBSET Conns, outbound : 0 .. Cardinality(Conns),
          active : 0 .. MaxNew, ready : 0 .. Cardinality(Conns),
          due : BOOLEAN, timer : BOOLEAN, run : BOOLEAN]]
    /\ cn \in [Conns ->
         [state : {"none", "connecting", "pending", "active"},
          ready : {"notyet", "ok", "stopped", "failed"}, error : BOOLEAN,
          aborted : BOOLEAN, counting : BOOLEAN,
          target : Targets \cup {NoTarget}]]
    /\ table \in Targets \cup {NoTarget}
    /\ created \in 0 .. MaxNew

TargetInit ==
    /\ tgt = [t \in Targets |-> NewTarget]
    /\ cn = [c \in Conns |-> NoConn]
    /\ table = NoTarget
    /\ created = 0

-----------------------------------------------------------------------------
(* Users.                                                                  *)

\* find_target and find_target_ipv6: what the table has for the address.
FindTarget == table

\* create_target, under TargetsLock: the target of the table is used once more,
\* or one is made and scheduled.
CreateTarget ==
    \/ /\ FindTarget # NoTarget
       /\ tgt[FindTarget].uses < MaxUses
       /\ tgt' = [tgt EXCEPT ![FindTarget].uses = @ + 1]
       /\ UNCHANGED <<cn, table, created>>
    \/ /\ FindTarget = NoTarget
       /\ \E t \in Targets :
            /\ tgt[t].state = "none"
            /\ tgt' = [tgt EXCEPT ![t] = [NewTarget EXCEPT !.state = "live",
                                            !.uses = 1, !.run = TRUE]]
            /\ table' = t
       /\ UNCHANGED <<cn, created>>

\* destroy_target: the last user wakes the job.
DestroyTarget(t) ==
    /\ tgt[t].uses > 0
    /\ tgt' = [tgt EXCEPT ![t].uses = @ - 1,
                          ![t].run = @ \/ tgt[t].uses = 1]
    /\ UNCHANGED <<cn, table, created>>

-----------------------------------------------------------------------------
(* The target's job, on the main thread.                                   *)

\* connection_is_active.
IsActive(c) == cn[c].state = "active"

Ready(c, r) == ~cn[c].error /\ cn[c].ready = r

CountReady(C, r) == Cardinality({c \in C : Ready(c, r)})

\* Mutant of DestroyDead: the active ones are not counted off.
DeadStayActive(T) ==
    LET dead == {c \in T.tree : cn[c].error}
        tree == T.tree \ dead
    IN  [T EXCEPT !.tree = tree,
           !.outbound = @ - Cardinality(dead),
           !.ready = CountReady(tree, "ok")]

\* destroy_dead_target_connections: failed connections leave the tree and the
\* counters.
DestroyDead(T) ==
    LET dead == {c \in T.tree : cn[c].error}
        tree == T.tree \ dead
    IN  [T EXCEPT !.tree = tree,
           !.active = @ - Cardinality({c \in dead : IsActive(c)}),
           !.outbound = @ - Cardinality(dead),
           !.ready = CountReady(tree, "ok")]

\* create_new_connections: how many there should be.
NeedConnections(T) ==
    Min({MaxConnections,
         MinConnections + CountReady(T.tree, "failed")
           + (CountReady(T.tree, "stopped") + 1) \div 2})

\* Mutant of Reconnect: the timer is not set again.
ReconnectOnce(t) ==
    LET T    == DestroyDead(tgt[t])
        free == {c \in Conns : cn[c].state = "none"}
        go   == T.due \/ T.active > 0
    IN  \E new \in SUBSET free :
          /\ Cardinality(new) + created <= MaxNew
          /\ Cardinality(new) <= IF go THEN Max({0, NeedConnections(T) - T.outbound})
                                 ELSE 0
          /\ cn' = [c \in Conns |-> IF c \in new
                      THEN [NoConn EXCEPT !.state = "connecting", !.target = t]
                      ELSE cn[c]]
          /\ tgt' = [tgt EXCEPT ![t] = [T EXCEPT !.run = FALSE,
                       !.tree = @ \cup new, !.outbound = @ + Cardinality(new),
                       !.due = @ /\ ~go]]
          /\ created' = created + Cardinality(new)
          /\ UNCHANGED table

\* The whole handler of a target in use.  The socket or the allocation may fail
\* at any connection, which ends the loop.
Reconnect(t) ==
    LET T    == DestroyDead(tgt[t])
        free == {c \in Conns : cn[c].state = "none"}
        go   == T.due \/ T.active > 0
    IN  \E new \in SUBSET free :
          /\ Cardinality(new) + created <= MaxNew
          /\ Cardinality(new) <= IF go THEN Max({0, NeedConnections(T) - T.outbound})
                                 ELSE 0
          /\ cn' = [c \in Conns |-> IF c \in new
                      THEN [NoConn EXCEPT !.state = "connecting", !.target = t]
                      ELSE cn[c]]
          /\ tgt' = [tgt EXCEPT ![t] = [T EXCEPT !.run = FALSE, !.timer = TRUE,
                       !.tree = @ \cup new, !.outbound = @ + Cardinality(new),
                       !.due = @ /\ ~go]]
          /\ created' = created + Cardinality(new)
          /\ UNCHANGED table

\* Mutant of CleanUnused: the connections are not failed.
CleanUnusedWaits(t) ==
    LET T == DestroyDead(tgt[t])
    IN  /\ IF T.tree # {}
           THEN /\ UNCHANGED cn
                /\ tgt' = [tgt EXCEPT ![t] = [T EXCEPT !.run = FALSE,
                             !.timer = TRUE, !.due = FALSE]]
                /\ UNCHANGED table
           ELSE /\ tgt' = [tgt EXCEPT ![t] = [T EXCEPT !.run = FALSE,
                             !.timer = FALSE, !.due = FALSE,
                             !.state = "completed"]]
                /\ table' = NoTarget
                /\ UNCHANGED cn
        /\ UNCHANGED created

\* The whole handler of an unused target: clean_unused_target fails what is left,
\* free_target takes an empty target out of the table, under TargetsLock.
CleanUnused(t) ==
    LET T == DestroyDead(tgt[t])
    IN  /\ IF T.tree # {}
           THEN /\ cn' = [c \in Conns |-> IF c \in T.tree
                            THEN [cn[c] EXCEPT !.error = TRUE] ELSE cn[c]]
                /\ tgt' = [tgt EXCEPT ![t] = [T EXCEPT !.run = FALSE,
                             !.timer = TRUE, !.due = FALSE]]
                /\ UNCHANGED table
           ELSE /\ tgt' = [tgt EXCEPT ![t] = [T EXCEPT !.run = FALSE,
                             !.timer = FALSE, !.due = FALSE,
                             !.state = "completed"]]
                /\ table' = NoTarget
                /\ UNCHANGED cn
        /\ UNCHANGED created

\* do_conn_target_job, JS_RUN or JS_ALARM.
TargetWork(t) ==
    /\ tgt[t].state = "live"
    /\ tgt[t].run \/ tgt[t].timer
    /\ IF tgt[t].uses > 0 THEN Reconnect(t) ELSE CleanUnused(t)

\* next_reconnect passes.
ReconnectDue(t) ==
    /\ tgt[t].state = "live" /\ ~tgt[t].due
    /\ tgt' = [tgt EXCEPT ![t].due = TRUE]
    /\ UNCHANGED <<cn, table, created>>

-----------------------------------------------------------------------------
(* Connections of the target.                                              *)

\* The socket job finds the socket connected.
Connected(c) ==
    /\ cn[c].state = "connecting" /\ ~cn[c].aborted
    /\ cn' = [cn EXCEPT ![c].state = "pending"]
    /\ UNCHANGED <<tgt, table, created>>

\* do_connection_job, JS_RUN: C_ERROR is tested first ...
ConnBegin(c) ==
    /\ cn[c].state = "pending" /\ ~cn[c].error /\ ~cn[c].counting
    /\ cn' = [cn EXCEPT ![c].counting = TRUE]
    /\ UNCHANGED <<tgt, table, created>>

\* ... then C_READY_PENDING is cleared and the target counts the connection.
ConnCount(c) ==
    /\ cn[c].counting
    /\ cn' = [cn EXCEPT ![c].state = "active", ![c].counting = FALSE]
    /\ tgt' = [tgt EXCEPT ![cn[c].target].active = @ + 1]
    /\ UNCHANGED <<table, created>>

\* The protocol of the connection decides what check_ready says next.
ConnReadiness(c) ==
    /\ IsActive(c) /\ ~cn[c].error
    /\ \E r \in {"ok", "stopped", "failed"} :
         r # cn[c].ready /\ cn' = [cn EXCEPT ![c].ready = r]
    /\ UNCHANGED <<tgt, table, created>>

\* fail_connection, by the peer, a timeout or the protocol.
ConnFails(c) ==
    /\ cn[c].state # "none" /\ ~cn[c].error
    /\ cn' = [cn EXCEPT ![c].error = TRUE]
    /\ UNCHANGED <<tgt, table, created>>

\* cpu_server_close_connection: the reference to the target goes with JS_RUN.
ConnCloses(c) ==
    /\ cn[c].error /\ ~cn[c].aborted /\ ~cn[c].counting
    /\ cn' = [cn EXCEPT ![c].aborted = TRUE]
    /\ tgt' = [tgt EXCEPT ![cn[c].target].run = TRUE]
    /\ UNCHANGED <<table, created>>

\* The last reference is the tree's.
ConnFreed(c) ==
    /\ cn[c].aborted
    /\ \A t \in Targets : c \notin tgt[t].tree
    /\ cn' = [cn EXCEPT ![c] = NoConn]
    /\ UNCHANGED <<tgt, table, created>>

\* Without --multithread a handler is one step of the main thread.
Uninterrupted(c) == Threaded \/ \A d \in Conns \ {c} : ~cn[d].counting
MainFree == Threaded \/ \A d \in Conns : ~cn[d].counting

TargetNext ==
    \/ MainFree /\ CreateTarget
    \/ \E t \in Targets : MainFree /\ DestroyTarget(t)
    \/ \E t \in Targets : MainFree /\ TargetWork(t)
    \/ \E t \in Targets : ReconnectDue(t)
    \/ \E c \in Conns : MainFree /\ Connected(c)
    \/ \E c \in Conns : Uninterrupted(c) /\ ConnBegin(c)
    \/ \E c \in Conns : ConnCount(c)
    \/ \E c \in Conns : MainFree /\ ConnReadiness(c)
    \/ \E c \in Conns : MainFree /\ ConnFails(c)
    \/ \E c \in Conns : MainFree /\ ConnCloses(c)
    \/ \E c \in Conns : MainFree /\ ConnFreed(c)

\* The main thread runs the job of a target whose timer is set or that was
\* signalled, and a failed connection's job closes it.
TargetFair ==
    /\ \A t \in Targets : WF_targetVars(MainFree /\ TargetWork(t))
    /\ \A c \in Conns : WF_targetVars(ConnCount(c))
    /\ \A c \in Conns : WF_targetVars(MainFree /\ ConnCloses(c))

TargetSpec == TargetInit /\ [][TargetNext]_targetVars /\ TargetFair

-----------------------------------------------------------------------------
(* Properties.                                                             *)

\* A target that somebody uses is the one of the table, its job has not
\* completed, and something will run it: the timer or a signal.  A user that
\* comes between the last destroy_target and the job's last look at
\* global_refcnt must not be left with a target that is freed or asleep.
UsedTargetLives ==
    \A t \in Targets : tgt[t].uses > 0 =>
      table = t /\ tgt[t].state = "live" /\ (tgt[t].run \/ tgt[t].timer)

\* The counters, which decide how many connections are made and whether the
\* back-off of reconnects applies, are those of the tree; a connection of a
\* target that is gone has failed.
PoolCounted ==
    /\ \A t \in Targets :
         /\ tgt[t].outbound = Cardinality(tgt[t].tree)
         /\ tgt[t].active = Cardinality({c \in tgt[t].tree : IsActive(c)})
         /\ tgt[t].outbound <= MaxConnections
    /\ \A c \in Conns : cn[c].state # "none" /\ ~cn[c].error =>
         c \in tgt[cn[c].target].tree /\ tgt[cn[c].target].state = "live"

\* A target that nobody uses any more fails its connections and is freed.
UnusedTargetFreed ==
    \A t \in Targets :
      (tgt[t].state = "live" /\ tgt[t].uses = 0) ~>
        (tgt[t].state = "completed" \/ tgt[t].uses > 0)
=============================================================================
