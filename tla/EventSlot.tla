---------------------------- MODULE EventSlot ----------------------------
(***************************************************************************)
(* The entry of a descriptor in the table Events: other threads find the   *)
(* connection of a descriptor in it (connection_get_by_fd), while the main *)
(* thread takes the entry for a new socket and gives it up when the socket *)
(* fails.  The two agree through one 64-bit word, refcnt, and no lock: its *)
(* low half counts the holders of the entry, its high half the threads     *)
(* that have announced themselves and have not yet learnt whether there is *)
(* anything to hold.  Each atomic operation on the word, and each access   *)
(* to the pointer data beside it, is a step.                               *)
(***************************************************************************)
EXTENDS Naturals, FiniteSets

CONSTANTS Getters,  \* the threads that call connection_get_by_fd
          MaxGen    \* bound: sockets that have the descriptor, one after the other

\* A thread, a connection and the entry are different users of a job.
ASSUME SlotAssumption ==
  /\ IsFiniteSet(Getters) /\ Getters \cap {"main", "io", "slot"} = {}
  /\ MaxGen \in Nat

Gens == 1 .. MaxGen

NoJob == 0

VARIABLES ev,     \* the entry: the two halves of refcnt, and data
          smain,  \* the main thread: where it is, and the socket it works on
          sjob,   \* of each socket: the references to its job, flag C_ERROR
          getter, \* of each getter: where it is, and the job it has taken
          died    \* how the process died: an assertion of alloc_new_socket_connection
                  \* failed, or a null pointer was used

slotVars == <<ev, smain, sjob, getter, died>>

Users == Getters \cup {"main", "io"}

SlotTypeOK ==
  /\ ev \in [lo: Nat, hi: Nat, data: Gens \cup {NoJob}]
  /\ smain \in [pc: {"closed", "handler", "open", "failing", "clear", "close"},
                gen: Gens \cup {NoJob}]
  /\ sjob \in [Gens -> [refs: SUBSET (Users \cup {"slot"}), failed: BOOLEAN]]
  /\ getter \in [Getters -> [pc: {"idle", "data", "add", "undo", "convert", "take",
                                  "incref", "drop", "clear", "flag"},
                             job: Gens \cup {NoJob}]]
  /\ died \in {"no", "assertion", "null"}

SlotInit ==
  /\ ev = [lo |-> 0, hi |-> 0, data |-> NoJob]
  /\ smain = [pc |-> "closed", gen |-> NoJob]
  /\ sjob = [g \in Gens |-> [refs |-> {}, failed |-> FALSE]]
  /\ getter = [u \in Getters |-> [pc |-> "idle", job |-> NoJob]]
  /\ died = "no"

Release(j, g, u) == [j EXCEPT ![g].refs = @ \ {u}]

----------------------------------------------------------------------------
(* The main thread.                                                        *)

\* The descriptor is given out again: alloc_new_socket_connection asserts
\* that the entry is clear.  The job has a reference for the entry and one
\* for the connection.
SlotOpen ==
  /\ smain.pc = "closed" /\ smain.gen < MaxGen
  /\ \/ /\ ev.data # NoJob \/ ev.lo + ev.hi # 0
        /\ died' = "assertion"
        /\ UNCHANGED <<ev, smain, sjob>>
     \/ /\ ev.data = NoJob /\ ev.lo + ev.hi = 0
        /\ smain' = [pc |-> "handler", gen |-> smain.gen + 1]
        /\ sjob' = [sjob EXCEPT ![smain.gen + 1].refs = {"slot", "io"}]
        /\ ev' = [ev EXCEPT !.lo = 1]
        /\ UNCHANGED died
  /\ UNCHANGED getter

\* epoll_sethandler counts the entry as held before it stores data.
SlotHandler ==
  /\ smain.pc = "handler"
  /\ ev' = [ev EXCEPT !.data = smain.gen]
  /\ smain' = [smain EXCEPT !.pc = "open"]
  /\ UNCHANGED <<sjob, getter, died>>

\* fail_socket_connection sets C_ERROR first ...
SlotFail ==
  /\ smain.pc = "open"
  /\ sjob' = [sjob EXCEPT ![smain.gen].failed = TRUE]
  /\ smain' = [smain EXCEPT !.pc = "failing"]
  /\ UNCHANGED <<ev, getter, died>>

\* ... and gives up its hold of the entry.  The holder that brings the word
\* to zero clears the entry, in a step of its own.
LastHold == ev.lo = 1 /\ ev.hi = 0

SlotUnhold ==
  /\ smain.pc = "failing"
  /\ ev' = [ev EXCEPT !.lo = @ - 1]
  /\ smain' = [smain EXCEPT !.pc = IF LastHold /\ ev.data # NoJob THEN "clear" ELSE "close"]
  /\ UNCHANGED <<sjob, getter, died>>

\* data is loaded, set to NULL, and the job it pointed to released.
SlotClear ==
  /\ smain.pc = "clear"
  /\ sjob' = IF ev.data = NoJob THEN sjob ELSE Release(sjob, ev.data, "slot")
  /\ died' = IF ev.data = NoJob THEN "null" ELSE died
  /\ ev' = [ev EXCEPT !.data = NoJob]
  /\ smain' = [smain EXCEPT !.pc = "close"]
  /\ UNCHANGED getter

\* The descriptor is closed with the connection, which the job of the socket
\* refers to until it is freed: the system may then give it out again.
SlotClose ==
  /\ smain.pc = "close" /\ sjob[smain.gen].refs = {}
  /\ smain' = [smain EXCEPT !.pc = "closed"]
  /\ UNCHANGED <<ev, sjob, getter, died>>

\* The connection of a failed socket drops its reference to the socket's job.
IoDrops(g) ==
  /\ sjob[g].failed /\ "io" \in sjob[g].refs
  /\ sjob' = Release(sjob, g, "io")
  /\ UNCHANGED <<ev, smain, getter, died>>

----------------------------------------------------------------------------
(* connection_get_by_fd in thread u.                                       *)

GetAt(u, pc) == getter[u].pc = pc

GetGo(u, pc) == getter' = [getter EXCEPT ![u].pc = pc]

GetLook(u) ==
  /\ GetAt(u, "idle") /\ ev.lo # 0
  /\ GetGo(u, "data")
  /\ UNCHANGED <<ev, smain, sjob, died>>

GetData(u) ==
  /\ GetAt(u, "data")
  /\ GetGo(u, IF ev.data = NoJob THEN "idle" ELSE "add")
  /\ UNCHANGED <<ev, smain, sjob, died>>

\* Mutant of GetAdd: the thread does not look whether the entry was held.
AddUnseen(u) ==
  /\ GetAt(u, "add")
  /\ ev' = [ev EXCEPT !.hi = @ + 1]
  /\ GetGo(u, "convert")
  /\ UNCHANGED <<smain, sjob, died>>

\* The thread announces itself, and is in if the entry was held.
GetAdd(u) ==
  /\ GetAt(u, "add")
  /\ ev' = [ev EXCEPT !.hi = @ + 1]
  /\ GetGo(u, IF ev.lo # 0 THEN "convert" ELSE "undo")
  /\ UNCHANGED <<smain, sjob, died>>

\* It was not: the announcement is taken back, and the thread starts over
\* if somebody has taken hold of the entry meanwhile.
GetUndo(u) ==
  /\ GetAt(u, "undo")
  /\ ev' = [ev EXCEPT !.hi = @ - 1]
  /\ GetGo(u, IF ev.lo # 0 THEN "add" ELSE "idle")
  /\ UNCHANGED <<smain, sjob, died>>

\* The announcement becomes a hold.
GetConvert(u) ==
  /\ GetAt(u, "convert")
  /\ ev' = [ev EXCEPT !.hi = @ - 1, !.lo = @ + 1]
  /\ GetGo(u, "take")
  /\ UNCHANGED <<smain, sjob, died>>

\* The hold keeps data as it is: the thread loads the pointer ...
GetTake(u) ==
  /\ GetAt(u, "take")
  /\ died' = IF ev.data = NoJob THEN "null" ELSE died
  /\ getter' = [getter EXCEPT ![u] = [pc |-> "incref", job |-> ev.data]]
  /\ UNCHANGED <<ev, smain, sjob>>

\* ... and counts itself as a user of the job it points to.
GetIncref(u) ==
  /\ GetAt(u, "incref")
  /\ sjob' = [sjob EXCEPT ![getter[u].job].refs = @ \cup {u}]
  /\ GetGo(u, "drop")
  /\ UNCHANGED <<ev, smain, died>>

GetDrop(u) ==
  /\ GetAt(u, "drop")
  /\ ev' = [ev EXCEPT !.lo = @ - 1]
  /\ GetGo(u, IF LastHold /\ ev.data # NoJob THEN "clear" ELSE "flag")
  /\ UNCHANGED <<smain, sjob, died>>

GetClear(u) ==
  /\ GetAt(u, "clear")
  /\ sjob' = IF ev.data = NoJob THEN sjob ELSE Release(sjob, ev.data, "slot")
  /\ died' = IF ev.data = NoJob THEN "null" ELSE died
  /\ ev' = [ev EXCEPT !.data = NoJob]
  /\ GetGo(u, "flag")
  /\ UNCHANGED smain

\* A failed socket is nobody's connection.  Either way the reference to the
\* socket's job goes.
GetFlag(u) ==
  /\ GetAt(u, "flag")
  /\ sjob' = Release(sjob, getter[u].job, u)
  /\ getter' = [getter EXCEPT ![u] = [pc |-> "idle", job |-> NoJob]]
  /\ UNCHANGED <<ev, smain, died>>

Get(u) ==
  \/ GetLook(u) \/ GetData(u) \/ GetAdd(u) \/ GetUndo(u) \/ GetConvert(u)
  \/ GetTake(u) \/ GetIncref(u) \/ GetDrop(u) \/ GetClear(u) \/ GetFlag(u)

SlotNext ==
  /\ died = "no"
  /\ \/ SlotOpen \/ SlotHandler \/ SlotFail \/ SlotUnhold \/ SlotClear \/ SlotClose
     \/ \E g \in Gens : IoDrops(g)
     \/ \E u \in Getters : Get(u)

SlotSpec == SlotInit /\ [][SlotNext]_slotVars

----------------------------------------------------------------------------
(* Properties.                                                             *)

\* A thread that has loaded the pointer in the entry counts itself in on a
\* living job: while the socket fails, its last other users let go of it and
\* the descriptor goes to a new one, the announcement and the hold keep the
\* entry's own reference (job_incref on a freed job is a use after free).
TakenJobLives ==
  \A u \in Getters : GetAt(u, "incref") /\ died = "no" => sjob[getter[u].job].refs # {}

\* The assertions of alloc_new_socket_connection and epoll_sethandler: the
\* entry of a descriptor the system has just given out is clear, so a new
\* socket never finds the leftovers of the last one.
SlotClearOnOpen == died # "assertion"

=============================================================================
