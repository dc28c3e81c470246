---------------------------- MODULE MCComponents ----------------------------
(***************************************************************************)
(* The model-checking instance of the components that share no state with  *)
(* the vault store.  One of them runs in each behaviour, the others keep   *)
(* one of their initial states: the state spaces add up.                   *)
(***************************************************************************)
EXTENDS ScopedState, EventChain, PagedReads, DatasetPush, WorkQueue,
        Annotations, TokenCache, ClientCaches, Telemetry

CONSTANTS e1, e2, s1, s2, k1, k2

VARIABLE component

\* Two sessions of one user; both events merge into the user's record.
SessionOf == [e \in ScopedEvent |-> IF e = e1 THEN s1 ELSE s2]
TouchedKeys ==
  [e \in ScopedEvent |-> IF e = e1 THEN [app |-> {k1}, user |-> {k2}]
                                   ELSE [app |-> {}, user |-> {k1, k2}]]

\* The initial states that nondeterministic components keep while idle.
ChainIdle == chainHead.last = NoKey /\ chainHead.count = 0 /\ listed = {}
             /\ chainLimit = NoLimit /\ ~chainAfter
             /\ \A k \in EventKey : link[k] = Missing
PagedIdle == rows = <<>> /\ listing = "sessions"
DatasetIdle == script = "free" /\ dsFiles[1] = NoFiles
WqIdle == wqStep = 0
AnnIdle == workflows = "none" /\ \A p \in Publisher : pub[p].plan = <<"push">>

Init ==
  /\ component \in {"scoped", "chain", "paged", "dataset", "queue",
                    "annotations", "token", "caches", "telemetry"}
  /\ ScopedInit /\ TokenInit /\ CacheInit /\ TelemetryInit
  /\ ChainInit /\ (component # "chain" => ChainIdle)
  /\ PagedInit /\ (component # "paged" => PagedIdle)
  /\ DatasetInit /\ (component # "dataset" => DatasetIdle)
  /\ WqInit /\ (component # "queue" => WqIdle)
  /\ AnnInit /\ (component # "annotations" => AnnIdle)

\* Only the component called name moves.
Only(name) ==
  /\ component = name /\ UNCHANGED component
  /\ name # "scoped" => UNCHANGED scopedVars
  /\ name # "chain" => UNCHANGED chainVars
  /\ name # "paged" => UNCHANGED pagedVars
  /\ name # "dataset" => UNCHANGED dsVars
  /\ name # "queue" => UNCHANGED wqVars
  /\ name # "annotations" => UNCHANGED annVars
  /\ name # "token" => UNCHANGED tokenVars
  /\ name # "caches" => UNCHANGED cacheVars
  /\ name # "telemetry" => UNCHANGED telemetryVars

Next ==
  \/ Only("scoped") /\ ScopedNext
  \/ Only("chain") /\ ChainNext
  \/ Only("paged") /\ PagedNext
  \/ Only("dataset") /\ DatasetNext
  \/ Only("queue") /\ WqNext
  \/ Only("annotations") /\ AnnNext
  \/ Only("token") /\ TokenNext
  \/ Only("caches") /\ CacheNext
  \/ Only("telemetry") /\ TelemetryNext

vars == <<component, scopedVars, chainVars, pagedVars, dsVars, wqVars,
          annVars, tokenVars, cacheVars, telemetryVars>>

Spec == Init /\ [][Next]_vars
==============================================================================
