----------------------------- MODULE SessionLog -----------------------------
(***************************************************************************)
(* What the durable session service promises, with no vault, no network    *)
(* and no processes: one session is a log of events with optimistic        *)
(* concurrency.  An append is submitted against the events its caller has  *)
(* seen and takes effect at most once, at one instant, and only while the  *)
(* log is still exactly what the caller saw.  An append answered           *)
(* "committed" took effect before the answer; an append answered "failed"  *)
(* may have taken effect, or may still do so later (the vault call timed   *)
(* out, or its response was lost).                                         *)
(***************************************************************************)
EXTENDS Naturals, SequencesExt

CONSTANT EventId

VARIABLES
  status,   \* of the session: "absent", "live" or "deleted" (tombstoned)
  log,      \* the committed events, oldest first
  seen,     \* for each append submitted: the events its caller had seen
  answer    \* for each append: "new", "pending", "committed" or "failed"

vars == <<status, log, seen, answer>>

\* The session may exist already.
Init ==
  /\ status \in {"absent", "live"}
  /\ log = <<>>
  /\ seen = [e \in EventId |-> <<>>]
  /\ answer = [e \in EventId |-> "new"]

Create ==
  /\ status = "absent"
  /\ status' = "live"
  /\ UNCHANGED <<log, seen, answer>>

Delete ==
  /\ status = "live"
  /\ status' = "deleted"
  /\ UNCHANGED <<log, seen, answer>>

\* A caller submits e on top of some earlier state of the log, or submits a
\* failed append again.
Submit(e) ==
  /\ answer[e] # "pending"
  /\ status # "absent"
  /\ \E n \in 0..Len(log) :
       /\ answer[e] # "new" => SubSeq(log, 1, n) = seen[e]
       /\ seen' = [seen EXCEPT ![e] = SubSeq(log, 1, n)]
  /\ answer' = [answer EXCEPT ![e] = "pending"]
  /\ UNCHANGED <<status, log>>

\* The instant e takes effect.
Commit(e) ==
  /\ answer[e] # "new"
  /\ log = seen[e]
  /\ log' = Append(log, e)
  /\ UNCHANGED <<status, seen, answer>>

Acknowledge(e) ==
  /\ answer[e] = "pending"
  /\ e \in ToSet(log)
  /\ answer' = [answer EXCEPT ![e] = "committed"]
  /\ UNCHANGED <<status, log, seen>>

\* Appends fail together when the process they were made in dies.
Fail(es) ==
  /\ \A e \in es : answer[e] = "pending"
  /\ answer' = [e \in EventId |-> IF e \in es THEN "failed" ELSE answer[e]]
  /\ UNCHANGED <<status, log, seen>>

Next ==
  \/ Create
  \/ Delete
  \/ \E e \in EventId : Submit(e) \/ Commit(e) \/ Acknowledge(e)
  \/ \E es \in SUBSET EventId : Fail(es)

Spec == Init /\ [][Next]_vars
=============================================================================
