---------------------------- MODULE SecretStore ----------------------------
(***************************************************************************)
(* The runtime store of client secrets of the proxy, from                  *)
(* net/net-tcp-rpc-ext-server.c: the array ext_secrets, the per-id traffic *)
(* counters, the totals, the state file, the administrative commands that  *)
(* change them and the restart that rebuilds them (-S options first, state *)
(* file second, as mtproto-proxy.c orders them).                           *)
(*                                                                         *)
(* Every command runs from wrlock to unlock under ext_secret_lock, with the*)
(* write of the state file inside, and nothing else can look at the store  *)
(* meanwhile: one command is one action.  Start-up is single threaded, and *)
(* is modelled one loop iteration per action.                              *)
(*                                                                         *)
(* Abstracted: labels, addresses and the created/updated/last-seen stamps, *)
(* which no decision reads; bytes_in and bytes_out are handled alike and   *)
(* are one counter.                                                        *)
(***************************************************************************)
EXTENDS Integers, Sequences

CONSTANTS
    Secrets,      \* the 16-byte secrets
    Bootstrap,    \* the sequence of -S options
    Legacy,       \* secret lists a pre-v2 state file may hold at first start
    Caps,         \* sizes the counter array grows through (64, 128, ...)
    MaxId,        \* bound: the largest secret id (an int in the code)
    MaxTime,      \* bound: the last value of the clock
    MaxCount,     \* bound: bytes and connections counted per process
    MaxCrashes,   \* bound: number of crashes
    MayOOM,       \* TRUE: realloc, calloc and malloc may fail
    ShortWrites,  \* TRUE: a write to the temporary file may be cut short
    StateFile     \* TRUE: a state file is configured

Ids   == 1 .. MaxId
Times == 0 .. MaxTime

\* ext_metrics_reserve_locked takes the first size above the wanted id.
IsLeastCap(c, want) == c > want /\ \A d \in Caps : d > want => c <= d

ASSUME ConstantsAssumption ==
    /\ Secrets # {}
    /\ MaxId \in Nat \ {0}
    /\ MaxTime \in Nat
    /\ MaxCount \in Nat
    /\ MaxCrashes \in Nat
    /\ MayOOM \in BOOLEAN
    /\ ShortWrites \in BOOLEAN
    /\ StateFile \in BOOLEAN

ASSUME BootstrapAssumption == Bootstrap \in Seq(Secrets)

ASSUME LegacyAssumption ==
    \A q \in Legacy : /\ q \in Seq(Secrets)
                      /\ \A i, j \in DOMAIN q : q[i] = q[j] => i = j

ASSUME CapsAssumption ==
    /\ Caps \subseteq Nat
    /\ \A n \in 0 .. MaxId : \E c \in Caps : IsLeastCap(c, n)

VARIABLES
    phase,       \* "boot" (-S options), "load", "sum" (state file), "run"
    cursor,      \* loop index of the start-up phase
    store,       \* ext_secrets[0 .. ext_secret_cnt - 1]
    nextId,      \* ext_secret_next_id
    metrics,     \* ext_secret_metrics
    metricsCap,  \* ext_secret_metrics_cap
    totalBytes,  \* ext_total_bytes_in + ext_total_bytes_out
    totalConns,  \* ext_total_connections
    inflight,    \* attachments past the unlock, before the total's increment
    file,        \* the state file on disk
    clock,       \* wall-clock seconds
    crashes,     \* number of crashes so far
    promised,    \* history: what the last acknowledged command on a secret set
    spoilt       \* history: an image was cut short, or a load broken off

memory    == <<store, nextId, metrics, metricsCap, totalBytes, totalConns>>
storeVars == <<phase, cursor, store, nextId, metrics, metricsCap, totalBytes,
               totalConns, inflight, file, clock, crashes, promised, spoilt>>

-----------------------------------------------------------------------------
(* Types.                                                                  *)

Metric == [bytes : Nat, conns : Nat]
Entry  == [secret : Secrets, id : Ids, enabled : BOOLEAN, expires : Times]

\* A line of the state file; id 0 stands for a line of the old format.
Line   == [secret : Secrets, id : 0 .. MaxId, enabled : BOOLEAN,
           expires : Times, bytes : Nat, conns : Nat]
Image  == [present : BOOLEAN, next : 0 .. MaxId + 1, lines : Seq(Line)]
Promise == [known : BOOLEAN, present : BOOLEAN, enabled : BOOLEAN,
            expires : Times]

NoMetric == [bytes |-> 0, conns |-> 0]
NoFile   == [present |-> FALSE, next |-> 0, lines |-> <<>>]
Unknown  == [known |-> FALSE, present |-> FALSE, enabled |-> FALSE,
             expires |-> 0]
Gone     == [known |-> TRUE, present |-> FALSE, enabled |-> FALSE,
             expires |-> 0]

\* The type invariant of the store, its state file and its history.
StoreTypeOK ==
    /\ phase \in {"boot", "load", "sum", "run"}
    /\ cursor \in Nat \ {0}
    /\ store \in Seq(Entry)
    /\ nextId \in 1 .. MaxId + 1
    /\ metrics \in [Ids -> Metric]
    /\ metricsCap \in Nat
    /\ totalBytes \in Nat
    /\ totalConns \in Nat
    /\ inflight \in Nat
    /\ file \in Image
    /\ clock \in Times
    /\ crashes \in Nat
    /\ promised \in [Secrets -> Promise]
    /\ spoilt \in BOOLEAN

-----------------------------------------------------------------------------
(* Helpers.                                                                *)

\* ext_is_active_locked: a secret is usable strictly before its expiry.
IsActive(E, now) == E.enabled /\ ~(E.expires > 0 /\ now >= E.expires)

\* ext_find_idx_locked
Holds(s) == \E i \in DOMAIN store : store[i].secret = s

LargerOf(a, b) == IF a >= b THEN a ELSE b

\* ext_metrics_reserve_locked, when the allocation succeeds.
ReservedCap(want) ==
    IF want < metricsCap THEN metricsCap
                         ELSE CHOOSE c \in Caps : IsLeastCap(c, want)

\* The command fails for lack of memory and leaves the store alone.
OutOfMemory == MayOOM /\ UNCHANGED memory

\* The counters of an id, if the array reaches it.
MetricOf(id) == IF id < metricsCap THEN metrics[id] ELSE NoMetric

LineOf(E) ==
    [secret |-> E.secret, id |-> E.id, enabled |-> E.enabled,
     expires |-> E.expires, bytes |-> MetricOf(E.id).bytes,
     conns |-> MetricOf(E.id).conns]

\* What ext_persist_locked prints for entries q and next id n.
ImageOf(q, n) ==
    [present |-> TRUE, next |-> n, lines |-> [i \in DOMAIN q |-> LineOf(q[i])]]

(* ext_persist_locked of entries q and next id n: r tells whether it       *)
(* returned 0.  The temporary file replaces the state file by rename, so   *)
(* the old or the new image is there, never a mixture; but the results of  *)
(* fprintf, fflush and fsync are ignored, so that an image cut short is    *)
(* renamed all the same.                                                   *)
Persist(r, q, n) ==
    \/ /\ r
       /\ file' = IF StateFile THEN ImageOf(q, n) ELSE file
       /\ UNCHANGED spoilt
    \/ ~r /\ StateFile /\ UNCHANGED <<file, spoilt>>
    \/ /\ r /\ StateFile /\ ShortWrites
       /\ spoilt' = TRUE
       /\ \E k \in 0 .. Len(q) - 1, h \in {0, n} :
            /\ h = 0 => k = 0
            /\ file' = [ImageOf(q, n) EXCEPT !.next = h,
                                             !.lines = SubSeq(@, 1, k)]

\* The promise an acknowledged command leaves for the secret of entry E.
PromiseOf(E) == [known |-> TRUE, present |-> TRUE, enabled |-> E.enabled,
                 expires |-> E.expires]

\* History: the command on s was acknowledged (r) or answered with an error.
Answer(s, r, p) ==
    promised' = IF StateFile
                THEN [promised EXCEPT ![s] = IF r THEN p ELSE Unknown]
                ELSE promised

-----------------------------------------------------------------------------
(* Start-up.                                                               *)

LegacyImage(q) ==
    [present |-> TRUE, next |-> 0,
     lines |-> [i \in DOMAIN q |->
                 [secret |-> q[i], id |-> 0, enabled |-> TRUE, expires |-> 0,
                  bytes |-> 0, conns |-> 0]]]

StoreInit ==
    /\ phase = "boot"
    /\ cursor = 1
    /\ store = <<>>
    /\ nextId = 1
    /\ metrics = [id \in Ids |-> NoMetric]
    /\ metricsCap = 0
    /\ totalBytes = 0
    /\ totalConns = 0
    /\ inflight = 0
    /\ file \in {NoFile} \cup {LegacyImage(q) : q \in Legacy}
    /\ clock = 0
    /\ crashes = 0
    /\ promised = [s \in Secrets |-> Unknown]
    /\ spoilt = FALSE

\* Mutant of AppendEntry: the id is the new length of the array.
AppendByLength(s, expires, enabled) ==
    /\ nextId <= MaxId
    /\ store' = Append(store, [secret |-> s, id |-> Len(store) + 1,
                               enabled |-> enabled, expires |-> expires])
    /\ nextId' = nextId + 1
    /\ metricsCap' = ReservedCap(nextId)
    /\ UNCHANGED <<metrics, totalBytes, totalConns>>

\* ext_add_locked on a secret the store does not hold.
AppendEntry(s, expires, enabled) ==
    /\ nextId <= MaxId
    /\ store' = Append(store, [secret |-> s, id |-> nextId,
                               enabled |-> enabled, expires |-> expires])
    /\ nextId' = nextId + 1
    /\ metricsCap' = ReservedCap(nextId)
    /\ UNCHANGED <<metrics, totalBytes, totalConns>>

(* tcp_rpcs_set_ext_secret: one -S option.  A secret given twice is set    *)
(* again; a failure is ignored; nothing is written to disk.                *)
BootstrapAdd ==
    /\ phase = "boot"
    /\ cursor <= Len(Bootstrap)
    /\ cursor' = cursor + 1
    /\ LET s == Bootstrap[cursor] IN
         \/ \E i \in DOMAIN store :
              /\ store[i].secret = s
              /\ store' = [store EXCEPT ![i].enabled = TRUE, ![i].expires = 0]
              /\ UNCHANGED <<nextId, metrics, metricsCap, totalBytes, totalConns>>
         \/ ~Holds(s) /\ AppendEntry(s, 0, TRUE)
         \/ ~Holds(s) /\ OutOfMemory
    /\ UNCHANGED <<phase, inflight, file, clock, crashes, promised, spoilt>>

\* tcp_rpcs_load_secrets_state up to and including the header line.
LoadOpen ==
    /\ phase = "boot"
    /\ cursor = Len(Bootstrap) + 1
    /\ IF StateFile /\ file.present
         THEN phase' = "load" /\ nextId' = LargerOf(nextId, file.next)
         ELSE phase' = "run" /\ UNCHANGED nextId
    /\ cursor' = 1
    /\ UNCHANGED <<store, metrics, metricsCap, totalBytes, totalConns,
                   inflight, file, clock, crashes, promised, spoilt>>

\* The id a line asks for, unless another secret has it already.
ParsedId(L) ==
    IF \E i \in DOMAIN store : store[i].secret # L.secret /\ store[i].id = L.id
    THEN 0 ELSE L.id

Loaded(L, id) == [secret |-> L.secret, id |-> id, enabled |-> L.enabled,
                  expires |-> L.expires]

\* Mutant of TakeOver: the next id may be the one just loaded.
TakeOverSameNext(L, id) ==
    /\ metrics' = [metrics EXCEPT ![id] = [bytes |-> L.bytes, conns |-> L.conns]]
    /\ metricsCap' = ReservedCap(id)
    /\ nextId' = LargerOf(nextId, id)

\* The tail of a line's iteration: counters taken over, next id moved past id.
TakeOver(L, id) ==
    /\ metrics' = [metrics EXCEPT ![id] = [bytes |-> L.bytes, conns |-> L.conns]]
    /\ metricsCap' = ReservedCap(id)
    /\ nextId' = LargerOf(nextId, id + 1)

\* Mutant of LoadOver: what the option set up wins over the file.
LoadUnder(L, i) ==
    LET id == IF ParsedId(L) > 0 THEN ParsedId(L) ELSE store[i].id IN
    /\ store[i].secret = L.secret
    /\ store' = [store EXCEPT ![i].id = id]
    /\ cursor' = cursor + 1
    /\ TakeOver(L, id)

\* A line for a secret an -S option has already put into the store.
LoadOver(L, i) ==
    LET id == IF ParsedId(L) > 0 THEN ParsedId(L) ELSE store[i].id IN
    /\ store[i].secret = L.secret
    /\ store' = [store EXCEPT ![i] = Loaded(L, id)]
    /\ cursor' = cursor + 1
    /\ \/ TakeOver(L, id)
       \/ MayOOM /\ id >= metricsCap /\ UNCHANGED <<nextId, metrics, metricsCap>>

\* A line for a secret not in the store yet; without memory the loop breaks.
LoadNew(L) ==
    LET id == IF ParsedId(L) > 0 THEN ParsedId(L) ELSE nextId IN
    /\ ~Holds(L.secret)
    /\ id <= MaxId
    /\ \/ /\ store' = Append(store, Loaded(L, id))
          /\ cursor' = cursor + 1
          /\ TakeOver(L, id)
          /\ UNCHANGED spoilt
       \/ /\ MayOOM
          /\ spoilt' = TRUE
          /\ nextId' \in {nextId, IF id = nextId THEN nextId + 1 ELSE nextId}
          /\ cursor' = Len(file.lines) + 1
          /\ UNCHANGED <<store, metrics, metricsCap>>

LoadLine ==
    /\ phase = "load"
    /\ cursor <= Len(file.lines)
    /\ LET L == file.lines[cursor] IN
         \/ LoadNew(L)
         \/ \E i \in DOMAIN store : LoadOver(L, i) /\ UNCHANGED spoilt
    /\ UNCHANGED <<phase, totalBytes, totalConns, inflight, file, clock,
                   crashes, promised>>

\* End of file: the totals are summed afresh over the entries.
LoadEnd ==
    /\ phase = "load"
    /\ cursor > Len(file.lines)
    /\ phase' = "sum"
    /\ cursor' = 1
    /\ totalBytes' = 0
    /\ totalConns' = 0
    /\ UNCHANGED <<store, nextId, metrics, metricsCap, inflight, file, clock,
                   crashes, promised, spoilt>>

\* Mutant of LoadSum: the last entry is left out.
LoadSumShort ==
    /\ phase = "sum"
    /\ IF cursor < Len(store)
         THEN LET M == MetricOf(store[cursor].id) IN
              /\ totalBytes' = totalBytes + M.bytes
              /\ totalConns' = totalConns + M.conns
              /\ cursor' = cursor + 1
              /\ UNCHANGED phase
         ELSE /\ phase' = "run"
              /\ cursor' = 1
              /\ UNCHANGED <<totalBytes, totalConns>>
    /\ UNCHANGED <<store, nextId, metrics, metricsCap, inflight, file, clock,
                   crashes, promised, spoilt>>

\* The sum over the entries, one per step.
LoadSum ==
    /\ phase = "sum"
    /\ IF cursor <= Len(store)
         THEN LET M == MetricOf(store[cursor].id) IN
              /\ totalBytes' = totalBytes + M.bytes
              /\ totalConns' = totalConns + M.conns
              /\ cursor' = cursor + 1
              /\ UNCHANGED phase
         ELSE /\ phase' = "run"
              /\ cursor' = 1
              /\ UNCHANGED <<totalBytes, totalConns>>
    /\ UNCHANGED <<store, nextId, metrics, metricsCap, inflight, file, clock,
                   crashes, promised, spoilt>>

StartUp == BootstrapAdd \/ LoadOpen \/ LoadLine \/ LoadEnd \/ LoadSum

-----------------------------------------------------------------------------
(* Administrative commands.  A command refused before it takes effect      *)
(* (bad format, secret not found, secret exists) changes nothing.          *)

\* What a command leaves alone besides the store.
AdminUnchanged == UNCHANGED <<phase, cursor, inflight, clock, crashes>>

CounterUnchanged ==
    UNCHANGED <<nextId, metrics, metricsCap, totalBytes, totalConns>>

\* ext_cmd_add: an existing secret is refused.
CmdAdd(s, expires, enabled) ==
    /\ phase = "run"
    /\ ~Holds(s)
    /\ \/ /\ AppendEntry(s, expires, enabled)
          /\ \E r \in BOOLEAN :
               /\ Persist(r, store', nextId')
               /\ Answer(s, r, PromiseOf([enabled |-> enabled,
                                          expires |-> expires]))
       \/ OutOfMemory /\ UNCHANGED <<file, promised, spoilt>>
    /\ AdminUnchanged

\* The array with its last entry moved into place i.
SwapOut(q, i) ==
    [j \in 1 .. Len(q) - 1 |-> IF j = i THEN q[Len(q)] ELSE q[j]]

\* ext_cmd_remove: the entry goes, its id and its counters are not reused.
CmdRemove(s) ==
    /\ phase = "run"
    /\ \E i \in DOMAIN store :
         /\ store[i].secret = s
         /\ store' = SwapOut(store, i)
    /\ CounterUnchanged
    /\ \E r \in BOOLEAN : Persist(r, store', nextId') /\ Answer(s, r, Gone)
    /\ AdminUnchanged

\* ext_cmd_update and ext_cmd_set_enabled: any subset of the fields.
CmdUpdate(s, expires, enabled) ==
    /\ phase = "run"
    /\ \E i \in DOMAIN store, setExpires, setEnabled \in BOOLEAN :
         LET E == [store[i] EXCEPT
                     !.expires = IF setExpires THEN expires ELSE @,
                     !.enabled = IF setEnabled THEN enabled ELSE @]
         IN  /\ store[i].secret = s
             /\ store' = [store EXCEPT ![i] = E]
             /\ CounterUnchanged
             /\ \E r \in BOOLEAN : Persist(r, store', nextId') /\ Answer(s, r, PromiseOf(E))
    /\ AdminUnchanged

\* ext_cmd_disable_expired: the caller may send a time of its own.
ExpiredAt(E, now) == E.enabled /\ E.expires > 0 /\ now >= E.expires

CmdDisableExpired(now) ==
    LET asked == IF now <= 0 THEN clock ELSE now IN
    /\ phase = "run"
    /\ store' = [i \in DOMAIN store |->
                   IF ExpiredAt(store[i], asked)
                   THEN [store[i] EXCEPT !.enabled = FALSE] ELSE store[i]]
    /\ CounterUnchanged
    /\ \E r \in BOOLEAN :
         /\ Persist(r, store', nextId')
         /\ promised' = [s \in Secrets |->
              IF StateFile /\ \E i \in DOMAIN store :
                   store[i].secret = s /\ ExpiredAt(store[i], asked)
              THEN IF r THEN [promised[s] EXCEPT !.enabled = FALSE] ELSE Unknown
              ELSE promised[s]]
    /\ AdminUnchanged

Admin ==
    \/ \E s \in Secrets : CmdRemove(s)
    \/ \E s \in Secrets, x \in Times, e \in BOOLEAN :
         CmdAdd(s, x, e) \/ CmdUpdate(s, x, e)
    \/ \E now \in Times : CmdDisableExpired(now)

-----------------------------------------------------------------------------
(* Counters, written by the threads that serve connections.                *)

\* The locked part of ext_metrics_attach_secret_to_connection.
CountAttach(id) ==
    /\ totalConns + inflight < MaxCount
    /\ metrics' = IF id < metricsCap
                  THEN [metrics EXCEPT ![id].conns = @ + 1] ELSE metrics
    /\ inflight' = inflight + 1
    /\ UNCHANGED <<phase, cursor, store, nextId, metricsCap, totalBytes,
                   totalConns, file, clock, crashes, promised, spoilt>>

\* Its last line, after the unlock: the total is incremented on its own.
CountTotal ==
    /\ inflight > 0
    /\ inflight' = inflight - 1
    /\ totalConns' = totalConns + 1
    /\ UNCHANGED <<phase, cursor, store, nextId, metrics, metricsCap,
                   totalBytes, file, clock, crashes, promised, spoilt>>

\* tcp_rpcs_note_connection_traffic for one byte.
CountTraffic(id) ==
    /\ id < metricsCap
    /\ totalBytes < MaxCount
    /\ metrics' = [metrics EXCEPT ![id].bytes = @ + 1]
    /\ totalBytes' = totalBytes + 1
    /\ UNCHANGED <<phase, cursor, store, nextId, metricsCap, totalConns,
                   inflight, file, clock, crashes, promised, spoilt>>

-----------------------------------------------------------------------------
(* Environment: time, and the end of the process.                          *)

Tick ==
    /\ clock < MaxTime
    /\ clock' = clock + 1
    /\ UNCHANGED <<phase, cursor, store, nextId, metrics, metricsCap,
                   totalBytes, totalConns, inflight, file, crashes, promised,
                   spoilt>>

(* The process ends and starts again.  Only an orderly exit saves the      *)
(* counters: mtfront_on_exit calls tcp_rpcs_flush_secrets_state.           *)
Restart(orderly) ==
    /\ crashes < MaxCrashes
    /\ crashes' = crashes + 1
    /\ IF orderly
         THEN phase = "run" /\ \E r \in BOOLEAN : Persist(r, store, nextId)
         ELSE UNCHANGED <<file, spoilt>>
    /\ phase' = "boot"
    /\ cursor' = 1
    /\ store' = <<>>
    /\ nextId' = 1
    /\ metrics' = [id \in Ids |-> NoMetric]
    /\ metricsCap' = 0
    /\ totalBytes' = 0
    /\ totalConns' = 0
    /\ inflight' = 0
    /\ UNCHANGED <<clock, promised>>

-----------------------------------------------------------------------------
(* The store on its own.  The connections, and with them CountAttach,      *)
(* CountTotal and CountTraffic, join it in ExtHandshake.                   *)

StoreNext ==
    \/ StartUp
    \/ Admin
    \/ Tick
    \/ \E orderly \in BOOLEAN : Restart(orderly)

StoreSpec == StoreInit /\ [][StoreNext]_storeVars

-----------------------------------------------------------------------------
(* Properties.                                                             *)

(* Ids identify secrets.  The -S options number their secrets from 1 at    *)
(* every start, the state file brings ids of an earlier process, and lines *)
(* of the old format have none: whatever ext_add_locked and                *)
(* tcp_rpcs_load_secrets_state meet, no two entries share a secret or an   *)
(* id, and the next id is above every id in use, in the array and (for its *)
(* own header) in the file.                                                *)
IdsUnique ==
    /\ \A i, j \in DOMAIN store :
         \/ i = j
         \/ store[i].secret # store[j].secret /\ store[i].id # store[j].id
    /\ \A i \in DOMAIN store : store[i].id < nextId
    /\ \A i \in DOMAIN file.lines : file.lines[i].id # 0 => file.lines[i].id < file.next

\* A removed -S secret is the one promise a restart does not keep.
ReaddedByOption(s) ==
    ~promised[s].present /\ \E i \in DOMAIN Bootstrap : Bootstrap[i] = s

\* Lines or entries q agree with the promise for s.
Keeps(q, s) ==
    IF promised[s].present
    THEN \E i \in DOMAIN q : /\ q[i].secret = s
                             /\ q[i].enabled = promised[s].enabled
                             /\ q[i].expires = promised[s].expires
    ELSE \A i \in DOMAIN q : q[i].secret # s

(* An acknowledged change survives.  Once the last command on a secret has *)
(* been answered OK, the state file says what it set, and so does every    *)
(* later running process, whatever crashes, failed writes and commands on  *)
(* other secrets come between: ext_persist_locked writes the whole store,  *)
(* and the load overrides what the -S options set up.                      *)
AckedSurvive ==
    StateFile =>
      \A s \in Secrets :
        promised[s].known /\ ~ReaddedByOption(s) =>
          /\ Keeps(file.lines, s)
          /\ phase = "run" => Keeps(store, s)

(* Only two faults break it: an image that is cut short, and an allocation *)
(* that fails while the file is read, after which the next command writes  *)
(* what is left.                                                           *)
AckedKept == ~spoilt => AckedSurvive
=============================================================================
