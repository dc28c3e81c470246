----------------------------- MODULE DurableRun -----------------------------
(***************************************************************************)
(* One durable run (adk/durable.py): the workers that run or resume one    *)
(* correlation id, the control plane ("comand") that keeps the status of   *)
(* its session and the human-input requests, and the people who answer.    *)
(*                                                                         *)
(* The session is what the checkpoint protocol promises (SessionLog): a    *)
(* log of events in which an append takes effect only on top of exactly    *)
(* what its writer has seen, and in which an append whose writer got an    *)
(* error may still take effect.  Every await of the code is a step; a      *)
(* worker may die, or get an infrastructure error, at each of them.        *)
(*                                                                         *)
(* The agent is ADK's: run_async is given only the session's id, so it     *)
(* loads the session anew, appends the message or the answers it is given, *)
(* and then the events of the agent until that pauses, finishes or fails.  *)
(***************************************************************************)
EXTENDS Naturals, FiniteSets, SequencesExt

CONSTANTS
  Worker,       \* processes that run the correlation id
  Call,         \* ids of the long-running calls the agent may make
  Adopts,       \* do workers adopt a dispatched session, or register one?
  MayDelete,    \* may the session be deleted?
  Untiring,     \* workers that are dispatched for ever
  MaxRuns,      \* bound: runs of each other worker
  MaxLog,       \* bound: the agent finishes when the log is that long
  MaxFaults     \* bound: infrastructure errors and deaths of workers

ASSUME DurableAssumption ==
  /\ Adopts \in BOOLEAN /\ MayDelete \in BOOLEAN
  /\ Untiring \subseteq Worker
  /\ MaxRuns \in Nat /\ MaxLog \in Nat /\ MaxFaults \in Nat

\* Events of the log: a user message, a step of the agent, a pause on
\* long-running calls, the answers to calls, the end of the agent.
Event ==
  [kind : {"message", "step", "pause", "answer", "final"}, calls : SUBSET Call]
EventOf(kind, calls) == [kind |-> kind, calls |-> calls]

Status == {"none", "in_progress", "awaiting_input", "completed", "failed"}
Terminal == {"completed", "failed"}

RequestStatus == {"none", "pending", "answered", "expired"}
Unlisted == [c \in Call |-> "unlisted"]

\* What a worker is to do: start with a message, resume the invocation,
\* inject answers, or create requests.  "none" is resume's lack of a message.
Job == [kind : {"none", "message", "invocation", "answer", "requests"},
        calls : SUBSET Call]
JobOf(kind, calls) == [kind |-> kind, calls |-> calls]

Result == {"none", "completed", "already_completed", "awaiting_input",
           "failed", "conflict", "expired", "not_found", "refused", "error"}
Outcome == [result : Result, calls : SUBSET Call]

PC == {"idle", "lookup", "register", "lookup_again", "adopt_read",
       "adopt_update", "create_head", "load_done", "list_first",
       "failure_first", "load", "read_failure", "list", "update", "run",
       "inject", "agent", "after", "request", "complete", "write_failure",
       "mark_failed"}

VARIABLES
  \* the control plane
  status,     \* of the session reference; "none" if there is no session
  labelled,   \* does the session have the correlation id as its label?
  requests,   \* the human-input request of each call
  \* the session in the vault
  head,       \* "absent", "live" or "deleted"
  log,        \* the committed events
  late,       \* appends whose writer gave up, and the log they were made on
  failure,    \* is there a failure record?
  \* the workers
  pc,         \* the await a worker is at
  told,       \* the status it was told
  seen,       \* the events it has loaded
  known,      \* the requests it has listed
  job,        \* what it is to do
  outcome,    \* what its last run ended with
  \* counters that only bound the model
  runs, faults

controlVars == <<status, labelled, requests>>
sessionVars == <<head, log, late>>
workerVars == <<pc, told, seen, known, job, outcome>>
memoryVars == <<told, seen, known, job>>
worldVars == <<controlVars, sessionVars, failure>>
boundVars == <<runs, faults>>
vars == <<worldVars, workerVars, boundVars>>

NoOutcome == [result |-> "none", calls |-> {}]

Init ==
  /\ status = IF Adopts THEN "in_progress" ELSE "none"
  /\ labelled = FALSE
  /\ requests = [c \in Call |-> "none"]
  /\ head = "absent" /\ log = <<>> /\ late = {} /\ failure = FALSE
  /\ pc = [w \in Worker |-> "idle"]
  /\ told = [w \in Worker |-> "none"]
  /\ seen = [w \in Worker |-> <<>>]
  /\ known = [w \in Worker |-> Unlisted]
  /\ job = [w \in Worker |-> JobOf("none", {})]
  /\ outcome = [w \in Worker |-> NoOutcome]
  /\ runs = [w \in Worker |-> 0]
  /\ faults = 0

-----------------------------------------------------------------------------
\* The long-running calls of a history that have no answer in it.
CallsOf(events, kind) ==
  UNION {events[i].calls : i \in {i \in DOMAIN events : events[i].kind = kind}}
Called(events) == CallsOf(events, "pause")
Answered(events) == CallsOf(events, "answer")

PendingCalls(events) == Called(events) \ Answered(events)

LastIs(events, kind) == events # <<>> /\ events[Len(events)].kind = kind

Goto(w, p) == pc' = [pc EXCEPT ![w] = p] /\ UNCHANGED outcome

\* The run of w returns or raises.
End(w, result, calls) ==
  /\ pc' = [pc EXCEPT ![w] = "idle"]
  /\ outcome' = [outcome EXCEPT ![w] = [result |-> result, calls |-> calls]]

\* comand's sessions.update: a terminal session ignores a non-terminal status.
Update(s) ==
  status' = IF status \in Terminal /\ s \notin Terminal THEN status ELSE s

-----------------------------------------------------------------------------
(* run and resume: find the session, or create it.                         *)

\* run with a message, or resume without one.
Begin(w, kind) ==
  /\ pc[w] = "idle"
  /\ w \notin Untiring => runs[w] < MaxRuns
  /\ job' = [job EXCEPT ![w] = JobOf(kind, {})]
  /\ runs' = IF w \in Untiring THEN runs ELSE [runs EXCEPT ![w] = @ + 1]
  /\ told' = [told EXCEPT ![w] = "none"]
  /\ seen' = [seen EXCEPT ![w] = <<>>]
  /\ known' = [known EXCEPT ![w] = Unlisted]
  /\ outcome' = [outcome EXCEPT ![w] = NoOutcome]
  /\ pc' = [pc EXCEPT ![w] = "lookup"]
  /\ UNCHANGED <<worldVars, faults>>

\* Where _continue starts for a session of status s.
FirstStep(s) ==
  CASE s = "completed" -> "load_done"
    [] s \in {"failed", "awaiting_input"} -> "list_first"
    [] OTHER -> "load"

Continue(w, s) ==
  /\ told' = [told EXCEPT ![w] = s]
  /\ Goto(w, FirstStep(s))

\* find_by_correlation_id; only run creates a session, with the caller's
\* message or without.
Lookup(w) ==
  /\ pc[w] = "lookup"
  /\ \/ labelled /\ Continue(w, status)
     \/ /\ ~labelled
        /\ job[w].kind = "none"
        /\ End(w, "refused", {})
        /\ UNCHANGED told
     \/ /\ ~labelled
        /\ job[w].kind = "message"
        /\ Goto(w, IF Adopts THEN "adopt_read" ELSE "register")
        /\ UNCHANGED told
  /\ UNCHANGED <<worldVars, seen, known, job, boundVars>>

\* Registration labels the session; comand keeps the correlation id unique.
Register(w) ==
  /\ pc[w] = "register"
  /\ IF labelled
       THEN Goto(w, "lookup_again") /\ UNCHANGED <<status, labelled>>
       ELSE /\ Goto(w, "create_head")
            /\ status' = "in_progress" /\ labelled' = TRUE
  /\ UNCHANGED <<requests, sessionVars, failure, memoryVars, boundVars>>

LookupAgain(w) ==
  /\ pc[w] = "lookup_again"
  /\ Continue(w, status)
  /\ UNCHANGED <<worldVars, seen, known, job, boundVars>>

\* Adopting a dispatched session: AlreadyExistsError if it has a head.
AdoptRead(w) ==
  /\ pc[w] = "adopt_read"
  /\ IF head # "absent" THEN End(w, "error", {})
                        ELSE Goto(w, "adopt_update")
  /\ UNCHANGED <<worldVars, memoryVars, boundVars>>

AdoptUpdate(w) ==
  /\ pc[w] = "adopt_update"
  /\ Update("in_progress") /\ labelled' = TRUE
  /\ Goto(w, "create_head")
  /\ UNCHANGED <<requests, sessionVars, failure, memoryVars, boundVars>>

CreateHead(w) ==
  /\ pc[w] = "create_head"
  /\ IF head = "absent"
       THEN head' = "live" /\ Continue(w, "in_progress")
       ELSE End(w, "error", {}) /\ UNCHANGED <<head, told>>
  /\ UNCHANGED <<controlVars, log, late, failure, seen, known, job, boundVars>>

-----------------------------------------------------------------------------
(* _continue: decide from the status, the history and the requests.        *)

LoadDone(w) ==
  /\ pc[w] = "load_done"
  /\ End(w, IF head = "live" THEN "already_completed" ELSE "not_found", {})
  /\ UNCHANGED <<worldVars, memoryVars, boundVars>>

\* The requests of a failed or awaiting session come first.
ListFirst(w) ==
  /\ pc[w] = "list_first"
  /\ known' = [known EXCEPT ![w] = requests]
  /\ IF \E c \in Call : requests[c] = "expired"
       THEN End(w, "expired", {})
       ELSE Goto(w, IF told[w] = "failed" THEN "failure_first" ELSE "load")
  /\ UNCHANGED <<worldVars, told, seen, job, boundVars>>

FailureFirst(w) ==
  /\ pc[w] = "failure_first"
  /\ End(w, "failed", {})
  /\ UNCHANGED <<worldVars, memoryVars, boundVars>>

Load(w) ==
  /\ pc[w] = "load"
  /\ IF head = "live"
       THEN /\ seen' = [seen EXCEPT ![w] = log]
            /\ Goto(w, "read_failure")
       ELSE End(w, "not_found", {}) /\ UNCHANGED seen
  /\ UNCHANGED <<worldVars, told, known, job, boundVars>>

\* Create the requests of the calls, of all of them.
CreateRequests(w, calls) ==
  /\ job' = [job EXCEPT ![w] = JobOf("requests", calls)]
  /\ Goto(w, "request")

\* Mutant: requests are created only if none exists.
MissingAll(calls, reqs) == \A c \in calls : reqs[c] = "none"

Missing(calls, reqs) == \E c \in calls : reqs[c] = "none"

\* Mutant: one answer is enough.
AnyAnswered(calls, reqs) == \E c \in calls : reqs[c] = "answered"

AllAnswered(calls, reqs) == \A c \in calls : reqs[c] = "answered"

\* A paused history: create the requests a crash left out, wait for the
\* answers, or inject them.
Decide(w, reqs) ==
  LET calls == PendingCalls(seen[w])
  IN  IF Missing(calls, reqs) THEN CreateRequests(w, calls)
      ELSE IF \E c \in calls : reqs[c] = "expired"
        THEN End(w, "expired", {}) /\ UNCHANGED job
      ELSE IF ~AllAnswered(calls, reqs)
        THEN End(w, "awaiting_input", calls) /\ UNCHANGED job
      ELSE /\ job' = [job EXCEPT ![w] = JobOf("answer", calls)]
           /\ Goto(w, "update")

\* A history that is not paused (choose_resume_input): complete it, resume
\* its invocation, or start it.
Choose(w) ==
  \/ /\ LastIs(seen[w], "final")
     /\ Goto(w, "complete") /\ UNCHANGED job
  \/ /\ seen[w] # <<>> /\ ~LastIs(seen[w], "final")
     /\ job' = [job EXCEPT ![w] = JobOf("invocation", {})]
     /\ Goto(w, "update")
  \/ /\ seen[w] = <<>> /\ job[w].kind = "message"
     /\ Goto(w, "update") /\ UNCHANGED job
  \/ /\ seen[w] = <<>> /\ job[w].kind = "none"
     /\ End(w, "refused", {}) /\ UNCHANGED job

\* A failure record without the status FAILED: the status is posted now.
ReadFailure(w) ==
  LET paused == PendingCalls(seen[w]) # {}
  IN  /\ pc[w] = "read_failure"
      /\ \/ failure /\ Goto(w, "mark_failed") /\ UNCHANGED job
         \/ ~failure /\ paused /\ known[w] # Unlisted /\ Decide(w, known[w])
         \/ /\ ~failure /\ paused /\ known[w] = Unlisted
            /\ Goto(w, "list") /\ UNCHANGED job
         \/ /\ ~failure /\ ~paused /\ told[w] = "awaiting_input"
            /\ End(w, "awaiting_input", {}) /\ UNCHANGED job
         \/ ~failure /\ ~paused /\ told[w] # "awaiting_input" /\ Choose(w)
      /\ UNCHANGED <<worldVars, told, seen, known, boundVars>>

List(w) ==
  /\ pc[w] = "list"
  /\ known' = [known EXCEPT ![w] = requests]
  /\ Decide(w, requests)
  /\ UNCHANGED <<worldVars, told, seen, boundVars>>

-----------------------------------------------------------------------------
(* _drive: the agent runs.                                                 *)

PostInProgress(w) ==
  /\ pc[w] = "update"
  /\ Update("in_progress")
  /\ Goto(w, "run")
  /\ UNCHANGED <<labelled, requests, sessionVars, failure, memoryVars,
                 boundVars>>

\* Mutant: a message or answer is passed even if there is none.
RunAsyncInjects(w) ==
  /\ pc[w] = "run"
  /\ seen' = [seen EXCEPT ![w] = log]
  /\ Goto(w, "inject")
  /\ UNCHANGED <<worldVars, told, known, job, boundVars>>

\* run_async loads the session again.  A session that is gone is, to _drive,
\* an error of the agent.
RunAsync(w) ==
  /\ pc[w] = "run"
  /\ IF head = "live"
       THEN /\ seen' = [seen EXCEPT ![w] = log]
            /\ Goto(w, IF job[w].kind = "invocation" THEN "agent"
                                                    ELSE "inject")
       ELSE Goto(w, "write_failure") /\ UNCHANGED seen
  /\ UNCHANGED <<worldVars, told, known, job, boundVars>>

\* An append takes effect only on top of what the writer has seen; otherwise
\* it is stale and the run ends with "conflict".  A session found to be gone,
\* by a fresh read, is an error of the agent.
AppendEvent(w, event) ==
  \/ /\ head = "live" /\ log = seen[w]
     /\ log' = Append(log, event) /\ late' = {}
     /\ seen' = [seen EXCEPT ![w] = log']
     /\ Goto(w, "agent")
  \/ /\ head # "live" \/ log # seen[w]
     /\ End(w, "conflict", {}) /\ UNCHANGED <<log, late, seen>>
  \/ /\ head # "live"
     /\ Goto(w, "write_failure") /\ UNCHANGED <<log, late, seen>>

Inject(w) ==
  /\ pc[w] = "inject"
  /\ AppendEvent(w, EventOf(job[w].kind, job[w].calls))
  /\ UNCHANGED <<controlVars, head, failure, told, known, job, boundVars>>

\* What the agent may append next: it goes on unless it is paused or done,
\* and finishes at the latest when the log is full.
MayEmit(w) ==
  IF LastIs(seen[w], "pause") \/ LastIs(seen[w], "final") THEN {}
  ELSE {EventOf("final", {})} \cup
       (IF Len(seen[w]) + 1 < MaxLog
          THEN {EventOf("step", {})} \cup
               {EventOf("pause", calls) :
                  calls \in (SUBSET (Call \ Called(seen[w]))) \ {{}}}
          ELSE {})

AgentEmits(w) ==
  /\ pc[w] = "agent"
  /\ \E event \in MayEmit(w) : AppendEvent(w, event)
  /\ UNCHANGED <<controlVars, head, failure, told, known, job, boundVars>>

\* run_async returns: the agent is paused or done.
AgentReturns(w) ==
  /\ pc[w] = "agent"
  /\ MayEmit(w) = {}
  /\ Goto(w, "after")
  /\ UNCHANGED <<worldVars, memoryVars, boundVars>>

AgentFails(w) ==
  /\ pc[w] = "agent"
  /\ MayEmit(w) # {}
  /\ Goto(w, "write_failure")
  /\ UNCHANGED <<worldVars, memoryVars, boundVars>>

\* Mutant: the run is completed without a look at its history.
AfterCompletes(w) ==
  /\ pc[w] = "after"
  /\ Goto(w, "complete")
  /\ UNCHANGED <<worldVars, memoryVars, boundVars>>

\* The history is loaded once more: paused or completed?
After(w) ==
  /\ pc[w] = "after"
  /\ IF head # "live"
       THEN End(w, "not_found", {}) /\ UNCHANGED <<seen, job>>
       ELSE /\ seen' = [seen EXCEPT ![w] = log]
            /\ IF PendingCalls(log) # {}
                 THEN CreateRequests(w, PendingCalls(log))
                 ELSE Goto(w, "complete") /\ UNCHANGED job
  /\ UNCHANGED <<worldVars, told, known, boundVars>>

\* One request after the other; comand keeps an existing one, and sets the
\* session's status either way.
CreateRequest(w) ==
  /\ pc[w] = "request"
  /\ \E c \in job[w].calls :
       /\ requests' = [requests EXCEPT ![c] = IF @ = "none" THEN "pending"
                                                           ELSE @]
       /\ job' = [job EXCEPT ![w] = JobOf("requests", @.calls \ {c})]
       /\ IF job[w].calls = {c}
            THEN End(w, "awaiting_input", PendingCalls(seen[w]))
            ELSE UNCHANGED <<pc, outcome>>
  /\ status' = "awaiting_input"
  /\ UNCHANGED <<labelled, sessionVars, failure, told, seen, known, boundVars>>

Complete(w) ==
  /\ pc[w] = "complete"
  /\ Update("completed")
  /\ End(w, "completed", {})
  /\ UNCHANGED <<labelled, requests, sessionVars, failure, memoryVars,
                 boundVars>>

\* Mutant: the status is posted before there is a failure record.
WriteFailureLast(w) ==
  /\ pc[w] = "write_failure"
  /\ Update("failed")
  /\ Goto(w, "mark_failed")
  /\ UNCHANGED <<labelled, requests, sessionVars, failure, memoryVars,
                 boundVars>>

\* _fail: the failure record first (written once), then the status.
WriteFailure(w) ==
  /\ pc[w] = "write_failure"
  /\ failure' = TRUE
  /\ Goto(w, "mark_failed")
  /\ UNCHANGED <<controlVars, sessionVars, memoryVars, boundVars>>

MarkFailed(w) ==
  /\ pc[w] = "mark_failed"
  /\ Update("failed")
  /\ End(w, "failed", {})
  /\ UNCHANGED <<labelled, requests, sessionVars, failure, memoryVars,
                 boundVars>>

-----------------------------------------------------------------------------
(* Failures, people and the background job of comand.                      *)

\* An infrastructure error ends the run, or the worker dies.
Fault(w) ==
  /\ pc[w] # "idle"
  /\ faults < MaxFaults
  /\ faults' = faults + 1
  /\ End(w, "error", {})
  /\ UNCHANGED <<worldVars, memoryVars, runs>>

\* The same while an append is on its way: it may take effect later.
AppendFault(w) ==
  /\ pc[w] \in {"inject", "agent"}
  /\ faults < MaxFaults
  /\ faults' = faults + 1
  /\ head = "live" /\ log = seen[w]
  /\ \E event \in IF pc[w] = "inject"
                    THEN {EventOf(job[w].kind, job[w].calls)}
                    ELSE MayEmit(w) :
       late' = late \cup {event}
  /\ End(w, "error", {})
  /\ UNCHANGED <<controlVars, head, log, failure, memoryVars, runs>>

LateAppend ==
  /\ head = "live"
  /\ \E event \in late : log' = Append(log, event)
  /\ late' = {}
  /\ UNCHANGED <<controlVars, head, failure, workerVars, boundVars>>

\* comand keeps the first answer.
Respond(c) ==
  /\ requests[c] = "pending"
  /\ requests' = [requests EXCEPT ![c] = "answered"]
  /\ UNCHANGED <<status, labelled, sessionVars, failure, workerVars,
                 boundVars>>

Expire(c) ==
  /\ requests[c] = "pending"
  /\ requests' = [requests EXCEPT ![c] = "expired"]
  /\ status' = "failed"
  /\ UNCHANGED <<labelled, sessionVars, failure, workerVars, boundVars>>

\* delete_session.
Delete ==
  /\ MayDelete
  /\ head = "live"
  /\ head' = "deleted"
  /\ late' = {}
  /\ UNCHANGED <<controlVars, log, failure, workerVars, boundVars>>

-----------------------------------------------------------------------------
Step(w) ==
  \/ Lookup(w) \/ Register(w) \/ LookupAgain(w)
  \/ AdoptRead(w) \/ AdoptUpdate(w) \/ CreateHead(w)
  \/ LoadDone(w) \/ ListFirst(w) \/ FailureFirst(w) \/ Load(w)
  \/ ReadFailure(w) \/ List(w)
  \/ PostInProgress(w) \/ RunAsync(w) \/ Inject(w)
  \/ AgentEmits(w) \/ AgentReturns(w) \/ AgentFails(w) \/ After(w)
  \/ CreateRequest(w) \/ Complete(w) \/ WriteFailure(w) \/ MarkFailed(w)

Next ==
  \/ \E w \in Worker : Begin(w, "message") \/ Begin(w, "none")
  \/ \E w \in Worker : Step(w) \/ Fault(w) \/ AppendFault(w)
  \/ \E c \in Call : Respond(c) \/ Expire(c)
  \/ LateAppend
  \/ Delete

Spec == Init /\ [][Next]_vars

\* A coroutine that can run runs; an untiring worker is dispatched with the
\* message again and again; a request is answered, or expires.
Fairness ==
  /\ \A w \in Worker : WF_vars(Step(w))
  /\ \A w \in Untiring : SF_vars(Begin(w, "message"))
  /\ \A c \in Call : WF_vars(Respond(c) \/ Expire(c))

FairSpec == Spec /\ Fairness
=============================================================================
