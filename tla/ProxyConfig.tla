---------------------------- MODULE ProxyConfig ----------------------------
(***************************************************************************)
(* The configuration of the proxy: the file that lists the middle-end      *)
(* servers (targets), grouped by data centre into clusters.  It is parsed  *)
(* twice: a pass that only checks it, and one that also takes a reference  *)
(* to the target of each line.  The new configuration then takes the place *)
(* of the current one, whose references are dropped.  The proxy checks the *)
(* file when it starts and applies it once it has dropped its privileges;  *)
(* the functions allow it to be read again at any time.                    *)
(*                                                                         *)
(* A file is a sequence of directives.  A directive is a record: its word, *)
(* its number (Missing if there is none), its host and port, and whether   *)
(* it is well formed otherwise (a known word, a blank after the number of  *)
(* proxy_for, a colon, the closing semicolon).                             *)
(***************************************************************************)
EXTENDS Integers, Sequences, FiniteSets, SequencesExt

CONSTANTS CfgFiles,       \* what the file may hold
          CfgHosts,       \* the host names that occur in the files
          Missing,        \* no number
          MaxTargets,     \* MAX_CFG_TARGETS
          MaxClusters,    \* MAX_CFG_CLUSTERS
          DefaultMin,     \* default_cfg_min_connections
          DefaultMax,     \* default_cfg_max_connections
          MaxReloads      \* bound: times the file is read

VARIABLES cfgFile,   \* the text in config_buff, as its directives
          curConf,   \* CurConf
          targetRef, \* of each target: the references the configuration holds
          resolved,  \* the host names the resolver knows at the moment
          exited,    \* the process has ended with a fatal error
          reloads

cfgVars == <<cfgFile, curConf, targetRef, resolved, exited, reloads>>

Ports == 1 .. 65535

TargetsOf(f) == {<<f[i].host, f[i].port>> : i \in {j \in DOMAIN f : f[j].word \in {"proxy", "proxy_for"}}}

CfgTargets == UNION {TargetsOf(f) : f \in CfgFiles}

\* preinit_config
EmptyConf == [targets |-> <<>>, clusters |-> <<>>, min |-> DefaultMin, max |-> DefaultMax,
              timeout |-> 300, defaultId |-> 0, default |-> 0, proxy |-> FALSE]

ConfigTypeOK ==
  /\ cfgFile \in CfgFiles \cup {<<>>} /\ reloads \in 0 .. MaxReloads
  /\ \A i \in DOMAIN curConf.targets : curConf.targets[i] \in CfgTargets
  /\ targetRef \in [CfgTargets -> Nat] /\ resolved \subseteq CfgHosts /\ exited \in BOOLEAN

ConfigInit ==
  /\ cfgFile = <<>> /\ curConf = EmptyConf
  /\ targetRef = [t \in CfgTargets |-> 0]
  /\ resolved \in SUBSET CfgHosts /\ exited = FALSE /\ reloads = 0

----------------------------------------------------------------------------
(* parse_config: m is the configuration so far, with flag bad once a line  *)
(* has been refused.                                                       *)

Refuse(m) == [m EXCEPT !.bad = TRUE]

\* cfg_getint: a missing number is read as 0.
Number(d) == IF d.num = Missing THEN 0 ELSE d.num

SetTimeout(m, d) ==
  IF Number(d) < 10 \/ Number(d) > 30000 THEN Refuse(m) ELSE [m EXCEPT !.timeout = Number(d)]

\* cfg_getint_signed_zero
CentreGiven(d) == d.num # Missing /\ d.num >= -32768 /\ d.num < 32768

SetDefault(m, d) == IF CentreGiven(d) THEN [m EXCEPT !.defaultId = d.num] ELSE Refuse(m)

SetMax(m, d) ==
  IF Number(d) < m.min \/ Number(d) > 1000 THEN Refuse(m) ELSE [m EXCEPT !.max = Number(d)]

SetMin(m, d) ==
  IF Number(d) < 1 \/ Number(d) > m.max THEN Refuse(m) ELSE [m EXCEPT !.min = Number(d)]

\* cfg_parse_server_port
ServerGiven(m, d, known) ==
  /\ Len(m.targets) < MaxTargets
  /\ d.host \in known /\ d.port \in Ports

\* mf_cluster_lookup: the place of the cluster of a data centre, 0 for none.
ClusterLookup(m, dc) ==
  IF \E i \in DOMAIN m.clusters : m.clusters[i].id = dc
  THEN CHOOSE i \in DOMAIN m.clusters :
         m.clusters[i].id = dc /\ \A j \in 1 .. i - 1 : m.clusters[j].id # dc
  ELSE 0

\* Mutant of AddServer: a target is added to its cluster wherever that is.
AddAnywhere(m, dc, d, known) ==
  LET n == Len(m.clusters)
      at == ClusterLookup(m, dc)
      e == [m EXCEPT !.proxy = TRUE, !.targets = Append(@, <<d.host, d.port>>)]
  IN  IF n >= MaxClusters \/ ~ServerGiven(m, d, known) THEN Refuse(m)
      ELSE IF at = 0
           THEN [e EXCEPT !.clusters = Append(@, [id |-> dc, first |-> Len(e.targets), num |-> 1])]
           ELSE [e EXCEPT !.clusters[at].num = @ + 1]

\* A cluster is the targets first .. first + num - 1: one can only be added
\* to the cluster the last line was for.
AddServer(m, dc, d, known) ==
  LET n == Len(m.clusters)
      at == ClusterLookup(m, dc)
      e == [m EXCEPT !.proxy = TRUE, !.targets = Append(@, <<d.host, d.port>>)]
  IN  CASE n >= MaxClusters \/ ~ServerGiven(m, d, known) -> Refuse(m)
        [] n < MaxClusters /\ ServerGiven(m, d, known) /\ at = 0 ->
             [e EXCEPT !.clusters = Append(@, [id |-> dc, first |-> Len(e.targets), num |-> 1])]
        [] n < MaxClusters /\ ServerGiven(m, d, known) /\ at # 0 ->
             IF at = n THEN [e EXCEPT !.clusters[n].num = @ + 1] ELSE Refuse(m)

ParseLine(m, d, known) ==
  CASE m.bad \/ ~d.wellFormed -> Refuse(m)
    [] ~m.bad /\ d.wellFormed /\ d.word = "timeout" -> SetTimeout(m, d)
    [] ~m.bad /\ d.wellFormed /\ d.word = "default" -> SetDefault(m, d)
    [] ~m.bad /\ d.wellFormed /\ d.word = "max_connections" -> SetMax(m, d)
    [] ~m.bad /\ d.wellFormed /\ d.word = "min_connections" -> SetMin(m, d)
    [] ~m.bad /\ d.wellFormed /\ d.word = "proxy" -> AddServer(m, 0, d, known)
    [] ~m.bad /\ d.wellFormed /\ d.word = "proxy_for" ->
         IF CentreGiven(d) THEN AddServer(m, d.num, d, known) ELSE Refuse(m)

ParseConfig(file, known) ==
  LET m == FoldLeft(LAMBDA c, d : ParseLine(c, d, known), EmptyConf @@ [bad |-> FALSE], file)
  IN  IF ~m.proxy THEN Refuse(m)
      ELSE [m EXCEPT !.default = ClusterLookup(m, m.defaultId)]

----------------------------------------------------------------------------
(* do_reload_config.                                                       *)

UsesIn(t, s) == Len(SelectSeq(s, LAMBDA u : u = t))

\* Hosts come and go from the resolver's point of view.
ResolverChanges ==
  /\ ~exited
  /\ resolved' \in SUBSET CfgHosts \ {resolved}
  /\ UNCHANGED <<cfgFile, curConf, targetRef, exited, reloads>>

\* The file is loaded and checked, and nothing applied (flag +32); the proxy
\* does not start with a bad one.
ConfigCheck(f) ==
  /\ ~exited /\ reloads < MaxReloads
  /\ reloads' = reloads + 1
  /\ cfgFile' = f
  /\ exited' = (reloads = 0 /\ ParseConfig(f, resolved).bad)
  /\ UNCHANGED <<curConf, targetRef, resolved>>

\* The text in memory is applied: the first pass may refuse it (the proxy
\* does not start without a configuration); a refusal by the second (when the resolver knows other names than during the first) is fatal.
\* create_target for each line comes before the old targets are destroyed.
ConfigApply ==
  /\ ~exited /\ cfgFile # <<>>
  /\ \E second \in SUBSET CfgHosts :
       \E m1 \in {ParseConfig(cfgFile, resolved)}, m2 \in {ParseConfig(cfgFile, second)} :
         \/ m1.bad /\ exited' = (curConf = EmptyConf) /\ UNCHANGED <<curConf, targetRef>>
         \/ ~m1.bad /\ m2.bad /\ exited' = TRUE /\ UNCHANGED <<curConf, targetRef>>
         \/ /\ ~m1.bad /\ ~m2.bad
            /\ curConf' = [k \in DOMAIN EmptyConf |-> m2[k]]
            /\ targetRef' = [t \in CfgTargets |->
                               targetRef[t] + UsesIn(t, m2.targets) - UsesIn(t, curConf.targets)]
            /\ UNCHANGED exited
  /\ cfgFile' = <<>>
  /\ UNCHANGED <<resolved, reloads>>

ConfigNext == ResolverChanges \/ ConfigApply \/ \E f \in CfgFiles : ConfigCheck(f)

ConfigSpec == ConfigInit /\ [][ConfigNext]_cfgVars

----------------------------------------------------------------------------
(* Properties.                                                             *)

\* The targets of cluster c.
Members(c) == SubSeq(curConf.targets, c.first, c.first + c.num - 1)

\* The configuration in force is coherent, whatever files were refused or
\* half read on the way: every target belongs to exactly one cluster, no
\* data centre has two clusters (a query would only ever see the first), the
\* default is the cluster of the default data centre, the limits are in
\* order; and a reference is held for each line, so that a target both files
\* name survives the change and one only the old file named does not.
ConfigCoherent ==
  /\ FlattenSeq([i \in DOMAIN curConf.clusters |-> Members(curConf.clusters[i])]) = curConf.targets
  /\ \A i, j \in DOMAIN curConf.clusters :
       curConf.clusters[i].id = curConf.clusters[j].id => i = j
  /\ curConf.default # 0 => curConf.clusters[curConf.default].id = curConf.defaultId
  /\ curConf.min <= curConf.max
  /\ \A t \in CfgTargets : targetRef[t] = UsesIn(t, curConf.targets)

=============================================================================
