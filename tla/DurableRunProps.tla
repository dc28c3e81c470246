-------------------------- MODULE DurableRunProps --------------------------
(***************************************************************************)
(* What a durable run must guarantee.                                      *)
(***************************************************************************)
EXTENDS DurableRun

\* Every variable has its type.
TypeOK ==
  /\ status \in Status /\ labelled \in BOOLEAN
  /\ requests \in [Call -> RequestStatus]
  /\ head \in {"absent", "live", "deleted"}
  /\ log \in Seq(Event) /\ late \in SUBSET Event
  /\ failure \in BOOLEAN
  /\ pc \in [Worker -> PC]
  /\ told \in [Worker -> Status]
  /\ seen \in [Worker -> Seq(Event)]
  /\ known \in [Worker -> [Call -> RequestStatus] \cup {Unlisted}]
  /\ job \in [Worker -> Job]
  /\ outcome \in [Worker -> Outcome]
  /\ runs \in [Worker -> Nat] /\ faults \in Nat

\* A session that is FAILED says why: it has a failure record, or one of its
\* requests expired.  A worker that dies between the two writes of _fail
\* leaves a record without the status, never the reverse.
FailureIsExplained ==
  status = "failed" => failure \/ \E c \in Call : requests[c] = "expired"

\* The history holds an answer to a call only if its request was answered, and
\* never to one that is still pending or has expired, however many workers
\* decide on however old a listing.
AnswersAreHuman ==
  \A i \in DOMAIN log : log[i].kind = "answer" =>
    \A c \in log[i].calls : requests[c] = "answered"

\* A run that returns "awaiting_input" leaves no call without a request for
\* someone to answer, also if an earlier worker died between two requests.
AwaitedCallsAreRequested ==
  \A w \in Worker : outcome[w].result = "awaiting_input" =>
    \A c \in outcome[w].calls : requests[c] # "none"

Injections(c) ==
  {i \in DOMAIN log : log[i].kind = "answer" /\ c \in log[i].calls}

\* However often, and by however many workers, a run is resumed, each call is
\* answered once at most in its history (durable.py:20-21,
\* docs/adk_sessions.md:130).
AnsweredOnce == \A c \in Call : Cardinality(Injections(c)) <= 1

\* A run is COMPLETED only when its history has a final event
\* (durable.py:7, docs/adk_sessions.md:101).
CompletedIsFinished ==
  status = "completed" => \E i \in DOMAIN log : log[i].kind = "final"

\* A run that is dispatched again and again ends, whatever failed before: once
\* the session exists, its status becomes terminal, unless a request of its
\* expires (then every later run says so).
Recovers ==
  head = "live" ~>
    status \in Terminal \/ \E c \in Call : requests[c] = "expired"

-----------------------------------------------------------------------------
(* The inductive invariant behind the safety properties.                   *)

Human(calls) == \A c \in calls : requests[c] = "answered"
Requested(calls) == \A c \in calls : requests[c] # "none"

\* What the await a worker is at says of its job, and the job of the requests.
JobIsRight(w) ==
  /\ pc[w] \in {"update", "run"} =>
       job[w].kind \in {"message", "invocation", "answer"}
  /\ pc[w] = "inject" => job[w].kind \in {"message", "answer"}
  /\ job[w].kind = "answer" => Human(job[w].calls)
  /\ pc[w] = "request" => Requested(PendingCalls(seen[w]) \ job[w].calls)
  /\ pc[w] = "mark_failed" => failure

JobsAreRight == \A w \in Worker : JobIsRight(w)

\* However old a listing, an answer in it is recorded and a request in it
\* exists: comand withdraws neither.
ListingsAreTrue ==
  \A w \in Worker, c \in Call :
    /\ known[w][c] = "answered" => requests[c] = "answered"
    /\ known[w][c] \notin {"none", "unlisted"} => requests[c] # "none"

LateAnswersAreHuman == \A e \in late : e.kind = "answer" => Human(e.calls)

\* The inductive invariant.
IInv ==
  /\ TypeOK
  /\ JobsAreRight
  /\ ListingsAreTrue
  /\ LateAnswersAreHuman
  /\ FailureIsExplained
  /\ AnswersAreHuman
  /\ AwaitedCallsAreRequested
=============================================================================
