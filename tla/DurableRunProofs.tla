-------------------------- MODULE DurableRunProofs --------------------------
(***************************************************************************)
(* DurableRun keeps its inductive invariant, for any number of workers and *)
(* calls and any bounds: a failed run says why, only recorded answers are  *)
(* injected, and a run that waits has asked.  One worker at a time also    *)
(* completes a run only when it is finished.                               *)
(***************************************************************************)
EXTENDS DurableRunProps, TLAPS

USE DurableAssumption
USE DEF worldVars, controlVars, sessionVars, workerVars, memoryVars, boundVars

\* The pending calls of a history are calls.
LEMMA PendingType ==
  ASSUME NEW events \in Seq(Event)
  PROVE  PendingCalls(events) \in SUBSET Call
<1>1. \A i \in DOMAIN events : events[i] \in Event
  OBVIOUS
<1>2. \A e \in Event : e.calls \in SUBSET Call
  BY DEF Event
<1> QED
  BY <1>1, <1>2, Zenon DEF PendingCalls, Called, Answered, CallsOf

\* What an agent appends is an event, and never an answer.
LEMMA MayEmitType ==
  ASSUME NEW w \in Worker, NEW event \in MayEmit(w)
  PROVE  event \in Event /\ event.kind # "answer"
BY DEF MayEmit, EventOf, Event

\* A job, event or outcome made of its parts.
LEMMA Parts ==
  /\ \A kind, calls : EventOf(kind, calls).kind = kind
                      /\ EventOf(kind, calls).calls = calls
  /\ \A kind, calls : JobOf(kind, calls).kind = kind
                      /\ JobOf(kind, calls).calls = calls
  /\ \A calls \in SUBSET Call :
       /\ \A kind \in {"message", "step", "pause", "answer", "final"} :
            EventOf(kind, calls) \in Event
       /\ \A kind \in {"none", "message", "invocation", "answer", "requests"} :
            JobOf(kind, calls) \in Job
       /\ \A result \in Result :
            [result |-> result, calls |-> calls] \in Outcome
BY DEF EventOf, JobOf, Event, Job, Outcome

\* Where Goto and End leave a worker.
MovesTo(w, p) ==
  /\ pc' \in [Worker -> PC] /\ pc'[w] = p
  /\ \A v \in Worker \ {w} : pc'[v] = pc[v]
  /\ outcome' = outcome

EndsWith(w, result, calls) ==
  /\ pc' \in [Worker -> PC] /\ pc'[w] = "idle"
  /\ \A v \in Worker \ {w} : pc'[v] = pc[v]
  /\ outcome' \in [Worker -> Outcome]
  /\ outcome'[w].result = result /\ outcome'[w].calls = calls
  /\ \A v \in Worker \ {w} : outcome'[v] = outcome[v]

\* What a step of w may do to the rest if it changes neither the requests nor
\* the session's log.
OnlyMoves(w) ==
  /\ UNCHANGED <<requests, log, late, failure>>
  /\ status' \in Status /\ labelled' \in BOOLEAN
  /\ head' \in {"absent", "live", "deleted"}
  /\ status' = "failed" => status = "failed" \/ failure
  /\ told' \in [Worker -> Status]
  /\ seen' \in [Worker -> Seq(Event)]
  /\ \A v \in Worker \ {w} : seen'[v] = seen[v]
  /\ job' \in [Worker -> Job]
  /\ \A v \in Worker \ {w} : job'[v] = job[v]
  /\ known' \in {known, [known EXCEPT ![w] = requests]}
  /\ runs' \in [Worker -> Nat] /\ faults' \in Nat

\* Goto moves.
LEMMA GotoMoves ==
  ASSUME TypeOK, NEW w \in Worker, NEW p \in PC, Goto(w, p)
  PROVE  MovesTo(w, p)
BY DEF TypeOK, Goto, MovesTo

\* End ends.
LEMMA EndEnds ==
  ASSUME TypeOK, NEW w \in Worker, NEW result \in Result,
         NEW calls \in SUBSET Call, End(w, result, calls)
  PROVE  EndsWith(w, result, calls)
<1> DEFINE o == [result |-> result, calls |-> calls]
<1>1. o \in Outcome /\ o.result = result /\ o.calls = calls
  BY DEF Outcome
<1>2. /\ outcome \in [Worker -> Outcome] /\ pc \in [Worker -> PC]
      /\ outcome' = [outcome EXCEPT ![w] = o]
      /\ pc' = [pc EXCEPT ![w] = "idle"] /\ "idle" \in PC
  BY DEF TypeOK, End, PC
<1> HIDE DEF o
<1> QED
  BY <1>1, <1>2 DEF EndsWith

\* What both keep, as long as the job fits the await the worker is at and the
\* outcome, if it is to wait, waits for requests there are.
LEMMA MoveKeeps ==
  ASSUME IInv, NEW w \in Worker, OnlyMoves(w),
         pc' \in [Worker -> PC],
         \A v \in Worker \ {w} : pc'[v] = pc[v],
         outcome' \in [Worker -> Outcome],
         \A v \in Worker \ {w} : outcome'[v] = outcome[v],
         outcome'[w].result = "awaiting_input" => Requested(outcome'[w].calls),
         JobIsRight(w)'
  PROVE  IInv'
<1>1. TypeOK'
  <2>1. known' \in [Worker -> [Call -> RequestStatus] \cup {Unlisted}]
    BY DEF IInv, TypeOK, OnlyMoves
  <2> QED
    BY <2>1 DEF IInv, TypeOK, OnlyMoves
<1>2. JobsAreRight'
  <2> SUFFICES ASSUME NEW v \in Worker, v # w PROVE JobIsRight(v)'
    BY DEF JobsAreRight
  <2>1. JobIsRight(v) /\ v \in Worker \ {w}
    BY DEF IInv, JobsAreRight
  <2>2. /\ pc'[v] = pc[v] /\ job'[v] = job[v] /\ seen'[v] = seen[v]
        /\ requests' = requests /\ failure' = failure
    BY <2>1 DEF OnlyMoves
  <2> QED
    BY <2>1, <2>2 DEF JobIsRight, Human, Requested
<1>3. ListingsAreTrue'
  <2> SUFFICES ASSUME NEW v \in Worker, NEW c \in Call
               PROVE  /\ known'[v][c] = "answered" => requests[c] = "answered"
                      /\ known'[v][c] \notin {"none", "unlisted"}
                           => requests[c] # "none"
    BY DEF ListingsAreTrue, OnlyMoves
  <2>1. known'[v] = known[v] \/ known'[v] = requests
    BY DEF IInv, TypeOK, OnlyMoves
  <2> QED
    BY <2>1 DEF IInv, ListingsAreTrue
<1>4. LateAnswersAreHuman' /\ FailureIsExplained' /\ AnswersAreHuman'
  BY DEF IInv, LateAnswersAreHuman, FailureIsExplained, AnswersAreHuman,
    OnlyMoves, Human
<1>5. AwaitedCallsAreRequested'
  BY DEF IInv, AwaitedCallsAreRequested, OnlyMoves, Requested
<1> QED
  BY <1>1, <1>2, <1>3, <1>4, <1>5 DEF IInv

\* The awaits that say something of the job.
Working == {"update", "run", "inject", "request", "mark_failed"}

\* To go where the job fits keeps the invariant.
LEMMA WorkKeeps ==
  ASSUME IInv, NEW w \in Worker, OnlyMoves(w), NEW p \in PC, Goto(w, p),
         JobIsRight(w)'
  PROVE  IInv'
<1>1. MovesTo(w, p)
  BY GotoMoves DEF IInv
<1>2. /\ outcome'[w].result = "awaiting_input" => Requested(outcome'[w].calls)
      /\ outcome' \in [Worker -> Outcome]
  BY <1>1 DEF IInv, TypeOK, AwaitedCallsAreRequested, Requested, MovesTo
<1> QED
  BY <1>1, <1>2, MoveKeeps DEF MovesTo

\* To go where nothing is said of the job keeps it, and so does to end.
LEMMA GotoKeeps ==
  ASSUME IInv, NEW w \in Worker, OnlyMoves(w), job' = job,
         NEW p \in PC \ Working, Goto(w, p)
  PROVE  IInv'
<1>1. MovesTo(w, p)
  BY GotoMoves DEF IInv
<1>2. JobIsRight(w)'
  BY <1>1 DEF IInv, JobsAreRight, JobIsRight, MovesTo, OnlyMoves, Human,
    Working
<1> QED
  BY <1>2, WorkKeeps

\* To end keeps the invariant.
LEMMA EndKeeps ==
  ASSUME IInv, NEW w \in Worker, OnlyMoves(w), job' = job,
         NEW result \in Result, NEW calls \in SUBSET Call,
         End(w, result, calls), result = "awaiting_input" => Requested(calls)
  PROVE  IInv'
<1>1. EndsWith(w, result, calls)
  BY EndEnds DEF IInv
<1>2. JobIsRight(w)'
  BY <1>1 DEF IInv, JobsAreRight, JobIsRight, EndsWith, OnlyMoves, Human
<1> QED
  BY <1>1, <1>2, MoveKeeps DEF EndsWith

\* The initial states satisfy the invariant.
LEMMA InitInv == Init => IInv
<1> SUFFICES ASSUME Init PROVE IInv
  OBVIOUS
<1>1. TypeOK
  <2>1. JobOf("none", {}) \in Job /\ NoOutcome \in Outcome
    BY DEF JobOf, Job, NoOutcome, Outcome, Result
  <2>2. <<>> \in Seq(Event)
    OBVIOUS
  <2>3. /\ job \in [Worker -> Job] /\ outcome \in [Worker -> Outcome]
        /\ seen \in [Worker -> Seq(Event)]
        /\ known \in [Worker -> [Call -> RequestStatus] \cup {Unlisted}]
    BY <2>1, <2>2 DEF Init
  <2> QED
    BY <2>2, <2>3 DEF Init, TypeOK, Status, RequestStatus, PC
<1>2. JobsAreRight
  BY DEF Init, JobsAreRight, JobIsRight, JobOf
<1>3. ListingsAreTrue
  BY DEF Init, ListingsAreTrue, Unlisted
<1> QED
  BY <1>1, <1>2, <1>3 DEF Init, IInv, LateAnswersAreHuman, FailureIsExplained,
    AnswersAreHuman, AwaitedCallsAreRequested, NoOutcome

-----------------------------------------------------------------------------
(* Finding the session.                                                    *)

\* A run begins with nothing known.
LEMMA BeginKeeps ==
  ASSUME IInv, NEW w \in Worker, NEW kind \in {"message", "none"},
         Begin(w, kind)
  PROVE  IInv'
<1>1. JobOf(kind, {}) \in Job /\ JobOf(kind, {}).kind = kind
      /\ NoOutcome \in Outcome /\ NoOutcome.result = "none"
  BY DEF JobOf, Job, NoOutcome, Outcome, Result
<1> DEFINE j == JobOf(kind, {})
<1>2. /\ job' = [job EXCEPT ![w] = j] /\ j \in Job /\ j.kind = kind
      /\ seen' = [seen EXCEPT ![w] = <<>>] /\ <<>> \in Seq(Event)
      /\ told' = [told EXCEPT ![w] = "none"] /\ "none" \in Status
      /\ known' = [known EXCEPT ![w] = Unlisted]
      /\ pc' = [pc EXCEPT ![w] = "lookup"] /\ "lookup" \in PC
      /\ runs' \in [Worker -> Nat]
  BY <1>1 DEF Begin, Status, PC, IInv, TypeOK
<1> HIDE DEF j
<1>3. TypeOK'
  BY <1>1, <1>2 DEF IInv, TypeOK, Begin
<1>4. JobsAreRight'
  <2> SUFFICES ASSUME NEW v \in Worker PROVE JobIsRight(v)'
    BY DEF JobsAreRight
  <2>1. CASE v = w
    BY <1>2, <2>1 DEF IInv, TypeOK, JobIsRight
  <2>2. CASE v # w
    <3>1. /\ pc'[v] = pc[v] /\ job'[v] = job[v] /\ seen'[v] = seen[v]
          /\ requests' = requests /\ failure' = failure
      BY <1>2, <2>2 DEF IInv, TypeOK, Begin
    <3>2. JobIsRight(v)
      BY DEF IInv, JobsAreRight
    <3> QED
      BY <3>1, <3>2 DEF JobIsRight, Human, Requested
  <2> QED
    BY <2>1, <2>2
<1>5. ListingsAreTrue'
  BY <1>2 DEF IInv, TypeOK, ListingsAreTrue, Unlisted, Begin
<1>6. AwaitedCallsAreRequested'
  BY <1>1 DEF IInv, TypeOK, AwaitedCallsAreRequested, Begin
<1> QED
  BY <1>3, <1>4, <1>5, <1>6 DEF IInv, Begin, LateAnswersAreHuman, Human,
    FailureIsExplained, AnswersAreHuman

\* The awaits before the history is loaded move or end the run.
LEMMA LookupKeeps ==
  ASSUME IInv, NEW w \in Worker, Lookup(w)
  PROVE  IInv'
<1>1. OnlyMoves(w) /\ job' = job
  BY DEF IInv, TypeOK, Lookup, Continue, OnlyMoves
<1>2. FirstStep(status) \in PC \ Working
  BY DEF FirstStep, PC, Working
<1>3. CASE Goto(w, FirstStep(status))
  BY <1>1, <1>2, <1>3, GotoKeeps
<1>4. CASE End(w, "refused", {})
  BY <1>1, <1>4, EndKeeps DEF Result
<1>5. CASE Goto(w, IF Adopts THEN "adopt_read" ELSE "register")
  BY <1>1, <1>5, GotoKeeps DEF PC, Working
<1> QED
  BY <1>3, <1>4, <1>5 DEF Lookup, Continue

LEMMA RegisterKeeps ==
  ASSUME IInv, NEW w \in Worker,
         Register(w) \/ LookupAgain(w) \/ AdoptUpdate(w)
  PROVE  IInv'
<1>1. OnlyMoves(w) /\ job' = job
  BY DEF IInv, TypeOK, Register, LookupAgain, AdoptUpdate, Continue, Update,
    OnlyMoves, Status
<1>2. \E p \in PC \ Working : Goto(w, p)
  BY DEF Register, LookupAgain, AdoptUpdate, Continue, FirstStep, PC, Working
<1> QED
  BY <1>1, <1>2, GotoKeeps

LEMMA AdoptReadKeeps ==
  ASSUME IInv, NEW w \in Worker, AdoptRead(w)
  PROVE  IInv'
<1>1. OnlyMoves(w) /\ job' = job
  BY DEF IInv, TypeOK, AdoptRead, OnlyMoves
<1>2. CASE End(w, "error", {})
  BY <1>1, <1>2, EndKeeps DEF Result
<1>3. CASE Goto(w, "adopt_update")
  BY <1>1, <1>3, GotoKeeps DEF PC, Working
<1> QED
  BY <1>2, <1>3 DEF AdoptRead

LEMMA CreateHeadKeeps ==
  ASSUME IInv, NEW w \in Worker, CreateHead(w)
  PROVE  IInv'
<1>1. OnlyMoves(w) /\ job' = job
  BY DEF IInv, TypeOK, CreateHead, Continue, OnlyMoves, Status
<1>2. CASE End(w, "error", {})
  BY <1>1, <1>2, EndKeeps DEF Result
<1>3. CASE Goto(w, FirstStep("in_progress"))
  BY <1>1, <1>3, GotoKeeps DEF FirstStep, PC, Working
<1> QED
  BY <1>2, <1>3 DEF CreateHead, Continue

LEMMA EarlyEndKeeps ==
  ASSUME IInv, NEW w \in Worker, LoadDone(w) \/ FailureFirst(w)
  PROVE  IInv'
<1>1. OnlyMoves(w) /\ job' = job
  BY DEF IInv, TypeOK, LoadDone, FailureFirst, OnlyMoves
<1>2. \E result \in Result \ {"awaiting_input"} : End(w, result, {})
  BY DEF LoadDone, FailureFirst, Result
<1> QED
  BY <1>1, <1>2, EndKeeps

LEMMA ListFirstKeeps ==
  ASSUME IInv, NEW w \in Worker, ListFirst(w)
  PROVE  IInv'
<1>1. OnlyMoves(w) /\ job' = job
  BY DEF IInv, TypeOK, ListFirst, OnlyMoves
<1>2. CASE End(w, "expired", {})
  BY <1>1, <1>2, EndKeeps DEF Result
<1>3. CASE Goto(w, IF told[w] = "failed" THEN "failure_first" ELSE "load")
  BY <1>1, <1>3, GotoKeeps DEF PC, Working
<1> QED
  BY <1>2, <1>3 DEF ListFirst

LEMMA LoadKeeps ==
  ASSUME IInv, NEW w \in Worker, Load(w)
  PROVE  IInv'
<1>1. OnlyMoves(w) /\ job' = job
  BY DEF IInv, TypeOK, Load, OnlyMoves
<1>2. CASE End(w, "not_found", {})
  BY <1>1, <1>2, EndKeeps DEF Result
<1>3. CASE Goto(w, "read_failure")
  BY <1>1, <1>3, GotoKeeps DEF PC, Working
<1> QED
  BY <1>2, <1>3 DEF Load

-----------------------------------------------------------------------------
(* Deciding from the history and the requests.                             *)

\* A listing is truthful if it shows no more than there is.
Truthful(reqs) ==
  \A c \in Call : /\ reqs[c] = "answered" => requests[c] = "answered"
                  /\ reqs[c] # "none" => requests[c] # "none"

\* A worker whose pause is decided on a truthful listing injects answers that
\* were given, creates all requests there may be missing, or waits for
\* requests there are.
LEMMA DecideKeeps ==
  ASSUME IInv, NEW w \in Worker, NEW reqs, Truthful(reqs), Decide(w, reqs),
         UNCHANGED <<worldVars, told, seen, boundVars>>,
         known' \in {known, [known EXCEPT ![w] = requests]}
  PROVE  IInv'
<1> DEFINE calls == PendingCalls(seen[w])
<1>1. calls \in SUBSET Call /\ seen[w] \in Seq(Event)
  BY PendingType DEF IInv, TypeOK
<1>2. CASE Missing(calls, reqs)
  <2> DEFINE j == JobOf("requests", calls)
  <2>1. /\ job' = [job EXCEPT ![w] = j] /\ Goto(w, "request")
        /\ j \in Job /\ j.kind = "requests" /\ j.calls = calls
    BY <1>1, <1>2, Parts DEF Decide, CreateRequests
  <2> HIDE DEF j
  <2>2. OnlyMoves(w) /\ job'[w] = j
    BY <2>1 DEF IInv, TypeOK, OnlyMoves
  <2>3. MovesTo(w, "request")
    BY <2>1, GotoMoves DEF IInv, PC
  <2>4. JobIsRight(w)'
    BY <2>1, <2>2, <2>3 DEF JobIsRight, MovesTo, Requested
  <2> QED
    BY <2>1, <2>2, <2>4, WorkKeeps DEF PC
<1>3. CASE ~Missing(calls, reqs) /\ \E c \in calls : reqs[c] = "expired"
  <2>1. End(w, "expired", {}) /\ job' = job
    BY <1>3 DEF Decide
  <2>2. OnlyMoves(w)
    BY <2>1 DEF IInv, TypeOK, OnlyMoves
  <2> QED
    BY <2>1, <2>2, EndKeeps DEF Result
<1>4. CASE /\ ~Missing(calls, reqs) /\ ~\E c \in calls : reqs[c] = "expired"
           /\ ~AllAnswered(calls, reqs)
  <2>1. End(w, "awaiting_input", calls) /\ job' = job
    BY <1>4 DEF Decide
  <2>2. OnlyMoves(w)
    BY <2>1 DEF IInv, TypeOK, OnlyMoves
  <2>3. Requested(calls)
    BY <1>1, <1>4 DEF Missing, Truthful, Requested
  <2> QED
    BY <1>1, <2>1, <2>2, <2>3, EndKeeps DEF Result
<1>5. CASE /\ ~Missing(calls, reqs) /\ ~\E c \in calls : reqs[c] = "expired"
           /\ AllAnswered(calls, reqs)
  <2> DEFINE j == JobOf("answer", calls)
  <2>1. /\ job' = [job EXCEPT ![w] = j] /\ Goto(w, "update")
        /\ j \in Job /\ j.kind = "answer" /\ j.calls = calls
    BY <1>1, <1>5, Parts DEF Decide
  <2> HIDE DEF j
  <2>2. OnlyMoves(w) /\ job'[w] = j
    BY <2>1 DEF IInv, TypeOK, OnlyMoves
  <2>3. MovesTo(w, "update")
    BY <2>1, GotoMoves DEF IInv, PC
  <2>4. Human(calls) /\ requests' = requests
    BY <1>1, <1>5 DEF AllAnswered, Truthful, Human
  <2>5. JobIsRight(w)'
    BY <2>1, <2>2, <2>3, <2>4 DEF JobIsRight, MovesTo, Human
  <2> QED
    BY <2>1, <2>2, <2>5, WorkKeeps DEF PC
<1> QED
  BY <1>2, <1>3, <1>4, <1>5

\* A history that is not paused is completed, resumed or started.
LEMMA ChooseKeeps ==
  ASSUME IInv, NEW w \in Worker, Choose(w),
         UNCHANGED <<worldVars, told, seen, known, boundVars>>
  PROVE  IInv'
<1>1. CASE Goto(w, "complete") /\ job' = job
  <2>1. OnlyMoves(w)
    BY <1>1 DEF IInv, TypeOK, OnlyMoves
  <2> QED
    BY <1>1, <2>1, GotoKeeps DEF PC, Working
<1>2. CASE End(w, "refused", {}) /\ job' = job
  <2>1. OnlyMoves(w)
    BY <1>2 DEF IInv, TypeOK, OnlyMoves
  <2> QED
    BY <1>2, <2>1, EndKeeps DEF Result
<1>3. CASE /\ job' = [job EXCEPT ![w] = JobOf("invocation", {})]
           /\ Goto(w, "update")
  <2> DEFINE j == JobOf("invocation", {})
  <2>1. job' = [job EXCEPT ![w] = j] /\ j \in Job /\ j.kind = "invocation"
    BY <1>3, Parts
  <2> HIDE DEF j
  <2>2. OnlyMoves(w) /\ job'[w] = j
    BY <2>1 DEF IInv, TypeOK, OnlyMoves
  <2>3. MovesTo(w, "update")
    BY <1>3, GotoMoves DEF IInv, PC
  <2>4. JobIsRight(w)'
    BY <2>1, <2>2, <2>3 DEF JobIsRight, MovesTo
  <2> QED
    BY <1>3, <2>2, <2>4, WorkKeeps DEF PC
<1>4. CASE job[w].kind = "message" /\ Goto(w, "update") /\ job' = job
  <2>1. OnlyMoves(w)
    BY <1>4 DEF IInv, TypeOK, OnlyMoves
  <2>2. MovesTo(w, "update")
    BY <1>4, GotoMoves DEF IInv, PC
  <2>3. JobIsRight(w)'
    BY <1>4, <2>2 DEF JobIsRight, MovesTo
  <2> QED
    BY <1>4, <2>1, <2>3, WorkKeeps DEF PC
<1> QED
  BY <1>1, <1>2, <1>3, <1>4 DEF Choose

LEMMA ReadFailureKeeps ==
  ASSUME IInv, NEW w \in Worker, ReadFailure(w)
  PROVE  IInv'
<1>1. UNCHANGED <<worldVars, told, seen, known, boundVars>>
  BY DEF ReadFailure
<1>2. CASE failure /\ Goto(w, "mark_failed") /\ job' = job
  <2>1. OnlyMoves(w)
    BY <1>1, <1>2 DEF IInv, TypeOK, OnlyMoves
  <2>2. MovesTo(w, "mark_failed")
    BY <1>2, GotoMoves DEF IInv, PC
  <2>3. JobIsRight(w)'
    BY <1>1, <1>2, <2>2 DEF IInv, JobsAreRight, JobIsRight, MovesTo, Human
  <2> QED
    BY <1>2, <2>1, <2>3, WorkKeeps DEF PC
<1>3. CASE known[w] # Unlisted /\ Decide(w, known[w])
  <2>1. known[w] \in [Call -> RequestStatus]
    BY <1>3 DEF IInv, TypeOK
  <2>2. Truthful(known[w])
    BY <2>1 DEF IInv, ListingsAreTrue, Truthful, RequestStatus
  <2> QED
    BY <1>1, <1>3, <2>2, DecideKeeps
<1>4. CASE Goto(w, "list") /\ job' = job
  <2>1. OnlyMoves(w)
    BY <1>1, <1>4 DEF IInv, TypeOK, OnlyMoves
  <2> QED
    BY <1>4, <2>1, GotoKeeps DEF PC, Working
<1>5. CASE End(w, "awaiting_input", {}) /\ job' = job
  <2>1. OnlyMoves(w)
    BY <1>1, <1>5 DEF IInv, TypeOK, OnlyMoves
  <2> QED
    BY <1>5, <2>1, EndKeeps DEF Result, Requested
<1>6. CASE Choose(w)
  BY <1>1, <1>6, ChooseKeeps
<1> QED
  BY <1>2, <1>3, <1>4, <1>5, <1>6 DEF ReadFailure

LEMMA ListKeeps ==
  ASSUME IInv, NEW w \in Worker, List(w)
  PROVE  IInv'
<1>1. Truthful(requests)
  BY DEF Truthful
<1> QED
  BY <1>1, DecideKeeps DEF List

-----------------------------------------------------------------------------
(* The agent runs.                                                         *)

LEMMA PostInProgressKeeps ==
  ASSUME IInv, NEW w \in Worker, PostInProgress(w)
  PROVE  IInv'
<1>1. OnlyMoves(w) /\ Goto(w, "run") /\ pc[w] = "update" /\ job' = job
  BY DEF IInv, TypeOK, PostInProgress, Update, OnlyMoves, Status
<1>2. MovesTo(w, "run")
  BY <1>1, GotoMoves DEF IInv, PC
<1>3. JobIsRight(w)'
  BY <1>1, <1>2 DEF IInv, JobsAreRight, JobIsRight, MovesTo, OnlyMoves, Human
<1> QED
  BY <1>1, <1>3, WorkKeeps DEF PC

\* Only a message or an answer is injected.
LEMMA RunAsyncKeeps ==
  ASSUME IInv, NEW w \in Worker, RunAsync(w)
  PROVE  IInv'
<1>1. OnlyMoves(w) /\ pc[w] = "run" /\ job' = job
  BY DEF IInv, TypeOK, RunAsync, OnlyMoves
<1>2. CASE job[w].kind # "invocation" /\ Goto(w, "inject")
  <2>1. MovesTo(w, "inject")
    BY <1>2, GotoMoves DEF IInv, PC
  <2>2. JobIsRight(w)'
    BY <1>1, <1>2, <2>1 DEF IInv, JobsAreRight, JobIsRight, MovesTo,
      OnlyMoves, Human
  <2> QED
    BY <1>1, <1>2, <2>2, WorkKeeps DEF PC
<1>3. CASE Goto(w, "agent") \/ Goto(w, "write_failure")
  BY <1>1, <1>3, GotoKeeps DEF PC, Working
<1> QED
  BY <1>2, <1>3 DEF RunAsync

\* An append of an event that is no answer, or an answer that was given.
LEMMA AppendKeeps ==
  ASSUME IInv, NEW w \in Worker, NEW event \in Event,
         event.kind = "answer" => Human(event.calls),
         AppendEvent(w, event),
         UNCHANGED <<controlVars, head, failure, told, known, job, boundVars>>
  PROVE  IInv'
<1>1. CASE End(w, "conflict", {}) /\ UNCHANGED <<log, late, seen>>
  <2>1. OnlyMoves(w)
    BY <1>1 DEF IInv, TypeOK, OnlyMoves
  <2> QED
    BY <1>1, <2>1, EndKeeps DEF Result
<1>2. CASE /\ log' = Append(log, event) /\ late' = {}
           /\ seen' = [seen EXCEPT ![w] = log'] /\ Goto(w, "agent")
  <2>1. log' \in Seq(Event) /\ seen' \in [Worker -> Seq(Event)]
    BY <1>2 DEF IInv, TypeOK
  <2>2. MovesTo(w, "agent")
    BY <1>2, GotoMoves DEF IInv, PC
  <2>3. TypeOK'
    BY <1>2, <2>1, <2>2 DEF IInv, TypeOK, MovesTo
  <2>4. JobsAreRight'
    <3> SUFFICES ASSUME NEW v \in Worker PROVE JobIsRight(v)'
      BY DEF JobsAreRight
    <3>1. JobIsRight(v)
      BY DEF IInv, JobsAreRight
    <3>2. CASE v = w
      BY <2>2, <3>1, <3>2 DEF JobIsRight, MovesTo, Human
    <3>3. CASE v # w
      <4>1. pc'[v] = pc[v] /\ seen'[v] = seen[v]
        BY <1>2, <2>2, <3>3 DEF IInv, TypeOK, MovesTo
      <4> QED
        BY <3>1, <4>1 DEF JobIsRight, Human, Requested
    <3> QED
      BY <3>2, <3>3
  <2>5. AnswersAreHuman'
    <3> SUFFICES ASSUME NEW i \in DOMAIN log', log'[i].kind = "answer"
                 PROVE  \A c \in log'[i].calls : requests[c] = "answered"
      BY DEF AnswersAreHuman
    <3>1. /\ log \in Seq(Event) /\ i \in 1..Len(log) + 1
          /\ i # Len(log) + 1 => i \in DOMAIN log /\ log'[i] = log[i]
          /\ i = Len(log) + 1 => log'[i] = event
      BY <1>2 DEF IInv, TypeOK
    <3> QED
      BY <3>1 DEF IInv, AnswersAreHuman, Human
  <2>6. AwaitedCallsAreRequested' /\ ListingsAreTrue'
    BY <2>2 DEF IInv, AwaitedCallsAreRequested, ListingsAreTrue, MovesTo
  <2> QED
    BY <1>2, <2>3, <2>4, <2>5, <2>6 DEF IInv, LateAnswersAreHuman,
      FailureIsExplained
<1>3. CASE Goto(w, "write_failure") /\ UNCHANGED <<log, late, seen>>
  <2>1. OnlyMoves(w)
    BY <1>3 DEF IInv, TypeOK, OnlyMoves
  <2> QED
    BY <1>3, <2>1, GotoKeeps DEF PC, Working
<1> QED
  BY <1>1, <1>2, <1>3 DEF AppendEvent

\* What an injecting worker appends.
LEMMA InjectedEvent ==
  ASSUME IInv, NEW w \in Worker, pc[w] = "inject"
  PROVE  LET event == EventOf(job[w].kind, job[w].calls)
         IN  event \in Event /\ (event.kind = "answer" => Human(event.calls))
<1>1. /\ job[w].kind \in {"message", "answer"} /\ job[w].calls \in SUBSET Call
      /\ job[w].kind = "answer" => Human(job[w].calls)
  BY DEF IInv, TypeOK, JobsAreRight, JobIsRight, Job
<1> QED
  BY <1>1, Parts

LEMMA InjectKeeps ==
  ASSUME IInv, NEW w \in Worker, Inject(w)
  PROVE  IInv'
BY InjectedEvent, AppendKeeps DEF Inject

LEMMA AgentEmitsKeeps ==
  ASSUME IInv, NEW w \in Worker, AgentEmits(w)
  PROVE  IInv'
<1>1. PICK event \in MayEmit(w) : AppendEvent(w, event)
  BY DEF AgentEmits
<1> QED
  BY <1>1, MayEmitType, AppendKeeps DEF AgentEmits

LEMMA AgentStopsKeeps ==
  ASSUME IInv, NEW w \in Worker, AgentReturns(w) \/ AgentFails(w)
  PROVE  IInv'
<1>1. OnlyMoves(w) /\ job' = job
  BY DEF IInv, TypeOK, AgentReturns, AgentFails, OnlyMoves
<1>2. \E p \in PC \ Working : Goto(w, p)
  BY DEF AgentReturns, AgentFails, PC, Working
<1> QED
  BY <1>1, <1>2, GotoKeeps

\* After the agent, every call without an answer gets a request.
LEMMA AfterKeeps ==
  ASSUME IInv, NEW w \in Worker, After(w)
  PROVE  IInv'
<1>1. UNCHANGED <<worldVars, told, known, boundVars>>
  BY DEF After
<1>2. CASE End(w, "not_found", {}) /\ UNCHANGED <<seen, job>>
  <2>1. OnlyMoves(w)
    BY <1>1, <1>2 DEF IInv, TypeOK, OnlyMoves
  <2> QED
    BY <1>2, <2>1, EndKeeps DEF Result
<1>3. CASE /\ seen' = [seen EXCEPT ![w] = log]
           /\ Goto(w, "complete") /\ job' = job
  <2>1. OnlyMoves(w)
    BY <1>1, <1>3 DEF IInv, TypeOK, OnlyMoves
  <2> QED
    BY <1>3, <2>1, GotoKeeps DEF PC, Working
<1>4. CASE /\ seen' = [seen EXCEPT ![w] = log]
           /\ CreateRequests(w, PendingCalls(log))
  <2> DEFINE j == JobOf("requests", PendingCalls(log))
  <2>1. PendingCalls(log) \in SUBSET Call
    BY PendingType DEF IInv, TypeOK
  <2>2. /\ job' = [job EXCEPT ![w] = j] /\ Goto(w, "request")
        /\ j \in Job /\ j.kind = "requests" /\ j.calls = PendingCalls(log)
    BY <1>4, <2>1, Parts DEF CreateRequests
  <2> HIDE DEF j
  <2>3. OnlyMoves(w) /\ job'[w] = j /\ seen'[w] = log
    BY <1>1, <1>4, <2>2 DEF IInv, TypeOK, OnlyMoves
  <2>4. MovesTo(w, "request")
    BY <2>2, GotoMoves DEF IInv, PC
  <2>5. JobIsRight(w)'
    BY <2>2, <2>3, <2>4 DEF JobIsRight, MovesTo, Requested
  <2> QED
    BY <2>2, <2>3, <2>5, WorkKeeps DEF PC
<1> QED
  BY <1>2, <1>3, <1>4 DEF After

\* comand withdraws neither an answer nor a request.
Grows ==
  /\ requests' \in [Call -> RequestStatus]
  /\ \A c \in Call : /\ requests[c] = "answered" => requests'[c] = "answered"
                     /\ requests[c] # "none" => requests'[c] # "none"

\* The calls have their answers, their requests, after the step.
NowHuman(calls) == \A c \in calls : requests'[c] = "answered"
NowRequested(calls) == \A c \in calls : requests'[c] # "none"

LEMMA GrowsKeeps ==
  ASSUME Grows, NEW calls \in SUBSET Call
  PROVE  /\ Human(calls) => NowHuman(calls)
         /\ Requested(calls) => NowRequested(calls)
BY DEF Grows, Human, Requested, NowHuman, NowRequested

\* What was true of the requests of events, jobs and listings stays true.
LEMMA GrowthKeeps ==
  ASSUME IInv, Grows, UNCHANGED <<sessionVars, known>>
  PROVE  /\ ListingsAreTrue' /\ LateAnswersAreHuman' /\ AnswersAreHuman'
<1>1. ListingsAreTrue'
  BY DEF IInv, Grows, ListingsAreTrue
<1>2. LateAnswersAreHuman'
  <2>1. \A e \in late : e.calls \in SUBSET Call
    BY DEF IInv, TypeOK, Event
  <2> QED
    BY <2>1, GrowsKeeps DEF IInv, LateAnswersAreHuman, Human, NowHuman
<1>3. AnswersAreHuman'
  <2>1. \A i \in DOMAIN log : log[i] \in Event
    BY DEF IInv, TypeOK
  <2>2. \A i \in DOMAIN log : log[i].calls \in SUBSET Call
    BY <2>1 DEF Event
  <2> QED
    BY <2>2 DEF IInv, Grows, AnswersAreHuman
<1> QED
  BY <1>1, <1>2, <1>3

LEMMA GrowthKeepsJob ==
  ASSUME IInv, Grows, NEW v \in Worker,
         pc'[v] = pc[v], job'[v] = job[v], seen'[v] = seen[v],
         failure' = failure
  PROVE  JobIsRight(v)'
<1>1. /\ JobIsRight(v) /\ job[v].calls \in SUBSET Call
      /\ PendingCalls(seen[v]) \in SUBSET Call
  BY PendingType DEF IInv, TypeOK, JobsAreRight, Job
<1>2. /\ Human(job[v].calls) => NowHuman(job[v].calls)
      /\ Requested(PendingCalls(seen[v]) \ job[v].calls)
           => NowRequested(PendingCalls(seen[v]) \ job[v].calls)
  BY <1>1, GrowsKeeps
<1> QED
  BY <1>1, <1>2 DEF JobIsRight, Human, Requested, NowHuman, NowRequested

\* The request of one more call; after the last, all have one.
LEMMA CreateRequestKeeps ==
  ASSUME IInv, NEW w \in Worker, CreateRequest(w)
  PROVE  IInv'
<1>1. PICK c \in job[w].calls :
        /\ requests' = [requests EXCEPT ![c] = IF @ = "none" THEN "pending"
                                                             ELSE @]
        /\ job' = [job EXCEPT ![w] = JobOf("requests", @.calls \ {c})]
        /\ IF job[w].calls = {c}
             THEN End(w, "awaiting_input", PendingCalls(seen[w]))
             ELSE UNCHANGED <<pc, outcome>>
  BY DEF CreateRequest
<1>2. /\ job[w].calls \in SUBSET Call /\ pc[w] = "request"
      /\ PendingCalls(seen[w]) \in SUBSET Call
      /\ Requested(PendingCalls(seen[w]) \ job[w].calls)
  BY PendingType DEF IInv, TypeOK, JobsAreRight, JobIsRight, Job, CreateRequest
<1>3. Grows /\ requests'[c] # "none"
  BY <1>1, <1>2 DEF IInv, TypeOK, Grows, RequestStatus
<1> DEFINE j == JobOf("requests", job[w].calls \ {c})
<1>4. /\ j \in Job /\ j.kind = "requests" /\ j.calls = job[w].calls \ {c}
      /\ job' = [job EXCEPT ![w] = j]
  BY <1>1, <1>2, Parts
<1> HIDE DEF j
<1>5. /\ job' \in [Worker -> Job] /\ job'[w] = j
      /\ \A v \in Worker \ {w} : job'[v] = job[v]
  BY <1>4 DEF IInv, TypeOK
<1>6. \/ /\ EndsWith(w, "awaiting_input", PendingCalls(seen[w]))
         /\ job[w].calls = {c}
      \/ UNCHANGED <<pc, outcome>>
  BY <1>1, <1>2, EndEnds DEF IInv, Result
<1>7. /\ pc' \in [Worker -> PC] /\ outcome' \in [Worker -> Outcome]
      /\ \A v \in Worker \ {w} : pc'[v] = pc[v] /\ outcome'[v] = outcome[v]
  BY <1>6 DEF IInv, TypeOK, EndsWith
<1>8. NowRequested(PendingCalls(seen[w]) \ j.calls)
  <2>1. NowRequested(PendingCalls(seen[w]) \ job[w].calls)
    BY <1>2, <1>3, GrowsKeeps
  <2> QED
    BY <1>3, <1>4, <2>1 DEF NowRequested
<1>9. TypeOK'
  BY <1>3, <1>5, <1>7 DEF IInv, TypeOK, CreateRequest, Status, Grows
<1>10. JobsAreRight'
  <2> SUFFICES ASSUME NEW v \in Worker PROVE JobIsRight(v)'
    BY DEF JobsAreRight
  <2>1. CASE v # w
    BY <1>3, <1>5, <1>7, <2>1, GrowthKeepsJob DEF CreateRequest
  <2>2. CASE v = w
    <3>1. pc'[w] \in {"idle", "request"} /\ job'[w] = j /\ seen' = seen
      BY <1>2, <1>5, <1>6 DEF EndsWith, CreateRequest
    <3> QED
      BY <1>4, <1>8, <2>2, <3>1 DEF JobIsRight, NowRequested, Requested
  <2> QED
    BY <2>1, <2>2
<1>11. AwaitedCallsAreRequested'
  <2> SUFFICES ASSUME NEW v \in Worker, outcome'[v].result = "awaiting_input"
               PROVE  NowRequested(outcome'[v].calls)
    BY DEF AwaitedCallsAreRequested, NowRequested
  <2>1. CASE outcome'[v] = outcome[v]
    <3>1. /\ Requested(outcome[v].calls) /\ outcome[v] \in Outcome
      BY <2>1 DEF IInv, TypeOK, AwaitedCallsAreRequested, Requested
    <3>2. outcome[v].calls \in SUBSET Call
      BY <3>1 DEF Outcome
    <3> QED
      BY <1>3, <2>1, <3>1, <3>2, GrowsKeeps
  <2>2. CASE outcome'[v] # outcome[v]
    <3>1. /\ v = w /\ outcome'[w].calls = PendingCalls(seen[w])
          /\ job[w].calls = {c}
      BY <1>6, <1>7, <2>2 DEF EndsWith
    <3> QED
      BY <1>4, <1>8, <3>1 DEF NowRequested
  <2> QED
    BY <2>1, <2>2
<1>12. ListingsAreTrue' /\ LateAnswersAreHuman' /\ AnswersAreHuman'
  BY <1>3, GrowthKeeps DEF CreateRequest
<1> QED
  BY <1>9, <1>10, <1>11, <1>12 DEF IInv, FailureIsExplained, CreateRequest

LEMMA CompleteKeeps ==
  ASSUME IInv, NEW w \in Worker, Complete(w) \/ MarkFailed(w)
  PROVE  IInv'
<1>1. OnlyMoves(w) /\ job' = job
  BY DEF IInv, TypeOK, JobsAreRight, JobIsRight, Complete, MarkFailed, Update,
    OnlyMoves, Status, Terminal
<1>2. End(w, "completed", {}) \/ End(w, "failed", {})
  BY DEF Complete, MarkFailed
<1> QED
  BY <1>1, <1>2, EndKeeps DEF Result

\* The failure record comes before the status it explains.
LEMMA WriteFailureKeeps ==
  ASSUME IInv, NEW w \in Worker, WriteFailure(w)
  PROVE  IInv'
<1>1. MovesTo(w, "mark_failed")
  BY GotoMoves DEF WriteFailure, IInv, PC
<1>2. TypeOK'
  BY <1>1 DEF IInv, TypeOK, WriteFailure, MovesTo
<1>3. JobsAreRight'
  <2> SUFFICES ASSUME NEW v \in Worker PROVE JobIsRight(v)'
    BY DEF JobsAreRight
  <2>1. JobIsRight(v) /\ (v # w => pc'[v] = pc[v])
    BY <1>1 DEF IInv, JobsAreRight, MovesTo
  <2> QED
    BY <1>1, <2>1 DEF JobIsRight, WriteFailure, Human, Requested, MovesTo
<1> QED
  BY <1>1, <1>2, <1>3 DEF IInv, WriteFailure, ListingsAreTrue, Human,
    LateAnswersAreHuman, FailureIsExplained, AnswersAreHuman,
    AwaitedCallsAreRequested, MovesTo

-----------------------------------------------------------------------------
(* Failures, people and comand.                                            *)

LEMMA FaultKeeps ==
  ASSUME IInv, NEW w \in Worker, Fault(w)
  PROVE  IInv'
<1>1. OnlyMoves(w) /\ job' = job
  BY DEF IInv, TypeOK, Fault, OnlyMoves
<1> QED
  BY <1>1, EndKeeps DEF Fault, Result

\* An append that may take effect later holds no answer that is not recorded.
LEMMA AppendFaultKeeps ==
  ASSUME IInv, NEW w \in Worker, AppendFault(w)
  PROVE  IInv'
<1>1. PICK event : /\ event \in Event
                   /\ event.kind = "answer" => Human(event.calls)
                   /\ late' = late \cup {event}
  BY InjectedEvent, MayEmitType DEF AppendFault
<1>2. EndsWith(w, "error", {})
  BY EndEnds DEF AppendFault, IInv, Result
<1>3. TypeOK'
  BY <1>1, <1>2 DEF IInv, TypeOK, AppendFault, EndsWith
<1>4. JobsAreRight'
  <2> SUFFICES ASSUME NEW v \in Worker PROVE JobIsRight(v)'
    BY DEF JobsAreRight
  <2>1. JobIsRight(v) /\ (v # w => pc'[v] = pc[v])
    BY <1>2 DEF IInv, JobsAreRight, EndsWith
  <2> QED
    BY <1>2, <2>1 DEF JobIsRight, AppendFault, Human, Requested, EndsWith
<1>5. LateAnswersAreHuman'
  BY <1>1 DEF IInv, LateAnswersAreHuman, Human, AppendFault
<1>6. AwaitedCallsAreRequested'
  BY <1>2 DEF IInv, AwaitedCallsAreRequested, EndsWith, AppendFault
<1> QED
  BY <1>3, <1>4, <1>5, <1>6 DEF IInv, AppendFault, ListingsAreTrue,
    FailureIsExplained, AnswersAreHuman

LEMMA LateAppendKeeps == IInv /\ LateAppend => IInv'
<1> SUFFICES ASSUME IInv, LateAppend PROVE IInv'
  OBVIOUS
<1>1. PICK event \in late : log' = Append(log, event)
  BY DEF LateAppend
<1>2. event \in Event /\ (event.kind = "answer" => Human(event.calls))
  BY <1>1 DEF IInv, TypeOK, LateAnswersAreHuman
<1>3. TypeOK'
  BY <1>1, <1>2 DEF IInv, TypeOK, LateAppend
<1>4. JobsAreRight'
  BY DEF IInv, JobsAreRight, JobIsRight, LateAppend, Human, Requested
<1>5. AnswersAreHuman'
  <2> SUFFICES ASSUME NEW i \in DOMAIN log', log'[i].kind = "answer"
               PROVE  \A c \in log'[i].calls : requests[c] = "answered"
    BY DEF AnswersAreHuman, LateAppend
  <2>1. /\ log \in Seq(Event) /\ i \in 1..Len(log) + 1
        /\ i # Len(log) + 1 => i \in DOMAIN log /\ log'[i] = log[i]
        /\ i = Len(log) + 1 => log'[i] = event
    BY <1>1, <1>2 DEF IInv, TypeOK
  <2> QED
    BY <1>2, <2>1 DEF IInv, AnswersAreHuman, Human
<1> QED
  BY <1>3, <1>4, <1>5 DEF IInv, LateAppend, ListingsAreTrue,
    LateAnswersAreHuman, FailureIsExplained, AwaitedCallsAreRequested

\* Somebody answers, or nobody does: FAILED then says so.
LEMMA PeopleKeep ==
  ASSUME IInv, NEW c \in Call, Respond(c) \/ Expire(c)
  PROVE  IInv'
<1>1. /\ Grows
      /\ \A d \in Call : requests[d] = "expired" => requests'[d] = "expired"
  BY DEF IInv, TypeOK, Respond, Expire, Grows, RequestStatus
<1>2. UNCHANGED <<labelled, sessionVars, failure, workerVars, boundVars>>
  BY DEF Respond, Expire
<1>3. TypeOK'
  BY <1>1, <1>2 DEF IInv, TypeOK, Respond, Expire, Status, Grows
<1>4. JobsAreRight'
  BY <1>1, <1>2, GrowthKeepsJob DEF JobsAreRight
<1>5. ListingsAreTrue' /\ LateAnswersAreHuman' /\ AnswersAreHuman'
  BY <1>1, <1>2, GrowthKeeps
<1>6. FailureIsExplained'
  <2>1. CASE Respond(c)
    BY <1>1, <2>1 DEF IInv, FailureIsExplained, Respond
  <2>2. CASE Expire(c)
    <3>1. requests'[c] = "expired"
      BY <2>2 DEF IInv, TypeOK, Expire
    <3> QED
      BY <3>1 DEF FailureIsExplained
  <2> QED
    BY <2>1, <2>2
<1>7. AwaitedCallsAreRequested'
  <2>1. \A w \in Worker : outcome[w].calls \in SUBSET Call
    BY DEF IInv, TypeOK, Outcome
  <2> QED
    BY <1>1, <1>2, <2>1, GrowsKeeps DEF IInv, AwaitedCallsAreRequested,
      Requested, NowRequested
<1> QED
  BY <1>3, <1>4, <1>5, <1>6, <1>7 DEF IInv

\* Steps that touch neither the log nor the requests, the workers or failure.
LEMMA RestKeeps ==
  ASSUME IInv, Delete \/ UNCHANGED vars
  PROVE  IInv'
<1>1. TypeOK'
  BY DEF IInv, TypeOK, Delete, vars
<1>2. JobsAreRight'
  BY DEF IInv, JobsAreRight, JobIsRight, Delete, vars, Human, Requested
<1>3. ListingsAreTrue' /\ LateAnswersAreHuman'
  BY DEF IInv, ListingsAreTrue, LateAnswersAreHuman, Human, Delete, vars
<1> QED
  BY <1>1, <1>2, <1>3 DEF IInv, Delete, vars, FailureIsExplained,
    AnswersAreHuman, AwaitedCallsAreRequested

-----------------------------------------------------------------------------
\* Every await of a worker keeps the invariant.
LEMMA WorkerStep ==
  ASSUME IInv, NEW w \in Worker, Step(w)
  PROVE  IInv'
BY LookupKeeps, RegisterKeeps, AdoptReadKeeps, CreateHeadKeeps, EarlyEndKeeps,
  ListFirstKeeps, LoadKeeps, ReadFailureKeeps, ListKeeps, PostInProgressKeeps,
  RunAsyncKeeps, InjectKeeps, AgentEmitsKeeps, AgentStopsKeeps, AfterKeeps,
  CreateRequestKeeps, CompleteKeeps, WriteFailureKeeps, Zenon DEF Step

LEMMA NextInv == IInv /\ [Next]_vars => IInv'
<1> SUFFICES ASSUME IInv, [Next]_vars PROVE IInv'
  OBVIOUS
<1>1. CASE \E w \in Worker : Begin(w, "message") \/ Begin(w, "none")
  BY <1>1, BeginKeeps
<1>2. CASE \E w \in Worker : Step(w) \/ Fault(w) \/ AppendFault(w)
  BY <1>2, WorkerStep, FaultKeeps, AppendFaultKeeps
<1>3. CASE \E c \in Call : Respond(c) \/ Expire(c)
  BY <1>3, PeopleKeep
<1>4. CASE LateAppend
  BY <1>4, LateAppendKeeps
<1>5. CASE Delete \/ UNCHANGED vars
  BY <1>5, RestKeeps
<1> QED
  BY <1>1, <1>2, <1>3, <1>4, <1>5 DEF Next

\* The invariant holds of every durable run.
THEOREM DurableInvariant == Spec => []IInv
BY InitInv, NextInv, PTL DEF Spec

\* A session is FAILED only with a failure record or an expired request: _fail
\* writes the record first, whoever dies in between (durable.py:399-417).
THEOREM FailuresAreExplained == Spec => []FailureIsExplained
<1>1. IInv => FailureIsExplained
  BY DEF IInv
<1> QED
  BY <1>1, DurableInvariant, PTL

\* No history holds an answer that was not recorded, however many workers
\* resume from however old a listing, and however late an append takes effect.
THEOREM OnlyHumanAnswers == Spec => []AnswersAreHuman
<1>1. IInv => AnswersAreHuman
  BY DEF IInv
<1> QED
  BY <1>1, DurableInvariant, PTL

\* Every call a run reports to be awaited has a request: a resume creates the
\* ones an earlier worker died before (durable.py:271-288).
THEOREM AwaitedAreRequested == Spec => []AwaitedCallsAreRequested
<1>1. IInv => AwaitedCallsAreRequested
  BY DEF IInv
<1> QED
  BY <1>1, DurableInvariant, PTL

\* Every variable of the durable run keeps its type: in particular no listing,
\* however old, and no worker's memory holds anything but requests, events and
\* jobs (durable.py:144-417).
THEOREM DurableTypes == Spec => []TypeOK
<1>1. IInv => TypeOK
  BY DEF IInv
<1> QED
  BY <1>1, DurableInvariant, PTL

-----------------------------------------------------------------------------
(***************************************************************************)
(* One worker at a time.  The log it goes on with is the one it loaded, or *)
(* nothing is late any more; so a log that ends in a pause, and that its   *)
(* agent returned on, still waits for answers when it looks again.         *)
(***************************************************************************)

\* The history has a final event.
Ends(events) == \E i \in DOMAIN events : events[i].kind = "final"

\* A pause waits: its calls are new, so nothing has answered them.
LogIsRight ==
  /\ Answered(log) \subseteq Called(log)
  /\ LastIs(log, "pause") => PendingCalls(log) # {}
  /\ \A e \in late :
       /\ e.kind = "answer" => e.calls \subseteq Called(log)
       /\ e.kind = "pause" => e.calls # {} /\ e.calls \cap Called(log) = {}

\* Once a lone worker has loaded the log, only a late append of an earlier run
\* of its own can change it, and that is the last one.
Loaded == {"read_failure", "list", "update", "run", "inject", "agent", "after"}
SeenIsRight(w) ==
  /\ Called(seen[w]) \subseteq Called(log)
  /\ Ends(seen[w]) => Ends(log)
  /\ job[w].kind = "answer" => job[w].calls \subseteq Called(log)
  /\ pc[w] \in Loaded => seen[w] = log \/ late = {}
  /\ pc[w] \in {"update", "run"} /\ job[w].kind = "invocation" =>
       ~LastIs(log, "pause") \/ late = {}
  /\ pc[w] \in {"agent", "after"} /\ LastIs(seen[w], "pause") =>
       seen[w] = log /\ late = {}
  /\ pc[w] = "after" => LastIs(seen[w], "pause") \/ LastIs(seen[w], "final")
  /\ pc[w] = "complete" => Ends(log)

LoneRight ==
  /\ LogIsRight /\ CompletedIsFinished
  /\ \A w \in Worker : SeenIsRight(w)
LoneInv == IInv /\ LoneRight

\* What one more event adds to a history.
LEMMA AppendAdds ==
  ASSUME NEW s \in Seq(Event), NEW e \in Event
  PROVE  /\ Append(s, e) \in Seq(Event)
         /\ Called(Append(s, e)) =
              Called(s) \cup (IF e.kind = "pause" THEN e.calls ELSE {})
         /\ Answered(Append(s, e)) =
              Answered(s) \cup (IF e.kind = "answer" THEN e.calls ELSE {})
         /\ \A kind : LastIs(Append(s, e), kind) <=> e.kind = kind
         /\ Ends(Append(s, e)) <=> Ends(s) \/ e.kind = "final"
<1> DEFINE t == Append(s, e)
           n == Len(s) + 1
<1>1. /\ t \in Seq(Event) /\ Len(t) = n /\ t # <<>> /\ t[n] = e
      /\ DOMAIN s = 1 .. Len(s) /\ DOMAIN t = 1 .. n /\ Len(s) \in Nat
      /\ \A i \in 1 .. Len(s) : t[i] = s[i]
  OBVIOUS
<1>2. DOMAIN t = DOMAIN s \cup {n} /\ n \notin DOMAIN s
  BY <1>1
<1> HIDE DEF t
<1>3. ASSUME NEW kind
      PROVE  CallsOf(t, kind) =
               CallsOf(s, kind) \cup (IF e.kind = kind THEN e.calls ELSE {})
  <2>1. \A c : c \in CallsOf(s, kind) <=>
               \E i \in DOMAIN s : s[i].kind = kind /\ c \in s[i].calls
    BY DEF CallsOf
  <2>2. \A c : c \in CallsOf(t, kind) <=>
               \E i \in DOMAIN t : t[i].kind = kind /\ c \in t[i].calls
    BY DEF CallsOf
  <2>3. \A c : c \in CallsOf(t, kind) <=>
               c \in CallsOf(s, kind) \/ (e.kind = kind /\ c \in e.calls)
    BY <1>1, <1>2, <2>1, <2>2
  <2> QED BY <2>3
<1>4. \A kind : LastIs(t, kind) <=> e.kind = kind
  BY <1>1 DEF LastIs
<1>5. Ends(t) <=> Ends(s) \/ e.kind = "final"
  BY <1>1, <1>2 DEF Ends
<1> QED BY <1>1, <1>3, <1>4, <1>5 DEF Called, Answered, t

\* An event that may follow the log: an answer to calls there are, a pause on
\* calls that are new.
Follows(e) ==
  /\ e \in Event
  /\ e.kind = "answer" => e.calls \subseteq Called(log)
  /\ e.kind = "pause" => e.calls # {} /\ e.calls \cap Called(log) = {}

LEMMA LogGrows ==
  ASSUME IInv, LoneRight, NEW e, Follows(e), log' = Append(log, e), late' = {}
  PROVE  /\ LogIsRight' /\ Called(log) \subseteq Called(log)'
         /\ Ends(log) => Ends(log)'
         /\ \A kind : LastIs(log, kind)' <=> e.kind = kind
         /\ e.kind = "final" => Ends(log)'
<1>1. log \in Seq(Event) /\ e \in Event
  BY DEF IInv, TypeOK, Follows
<1>2. /\ Called(log)' =
           Called(log) \cup (IF e.kind = "pause" THEN e.calls ELSE {})
      /\ Answered(log)' =
           Answered(log) \cup (IF e.kind = "answer" THEN e.calls ELSE {})
      /\ \A kind : LastIs(log, kind)' <=> e.kind = kind
      /\ Ends(log)' <=> Ends(log) \/ e.kind = "final"
  BY <1>1, AppendAdds
<1>3. Answered(log) \subseteq Called(log)
  BY DEF LoneRight, LogIsRight
<1>4. Answered(log)' \subseteq Called(log)'
  BY <1>2, <1>3 DEF Follows
<1>5. LastIs(log, "pause")' => PendingCalls(log)' # {}
  <2> SUFFICES ASSUME e.kind = "pause" PROVE PendingCalls(log)' # {}
    BY <1>2
  <2>1. PICK c \in e.calls : c \notin Called(log)
    BY DEF Follows
  <2>2. c \in Called(log)' /\ c \notin Answered(log)'
    BY <1>2, <1>3, <2>1
  <2> QED BY <2>2 DEF PendingCalls
<1> QED BY <1>2, <1>4, <1>5 DEF LogIsRight

\* A finished log stays finished, and nothing else completes the session.
LEMMA StillFinished ==
  CompletedIsFinished <=> (status = "completed" => Ends(log))
BY DEF CompletedIsFinished, Ends

\* The lone worker ends, or goes where it knows nothing of the log.
LEMMA LoneMoves ==
  ASSUME LoneInv, NEW w, Worker = {w}, UNCHANGED <<log, late>>,
         status' = "completed" => status = "completed",
         job'[w] = job[w] \/ job'[w].kind # "answer",
         seen'[w] \in {seen[w], <<>>, log},
         pc'[w] \notin Loaded \cup {"complete"}
  PROVE  LoneRight'
<1>1. LogIsRight'
  BY DEF LoneInv, LoneRight, LogIsRight
<1>2. CompletedIsFinished'
  BY DEF LoneInv, LoneRight, CompletedIsFinished
<1>3. SeenIsRight(w) /\ w \in Worker
  BY DEF LoneInv, LoneRight
<1>4. Called(<<>>) = {} /\ ~Ends(<<>>)
  BY DEF Called, CallsOf, Ends
<1>5. /\ Called(seen'[w]) \subseteq Called(log)
      /\ Ends(seen'[w]) => Ends(log)
  BY <1>3, <1>4 DEF SeenIsRight
<1>6. SeenIsRight(w)'
  BY <1>3, <1>5 DEF SeenIsRight, Loaded
<1> QED BY <1>1, <1>2, <1>6 DEF LoneRight

\* The types a lone step needs.
LEMMA LoneTypes ==
  ASSUME LoneInv, NEW w, Worker = {w}
  PROVE  /\ w \in Worker /\ IInv /\ TypeOK /\ SeenIsRight(w) /\ LogIsRight
         /\ pc \in [Worker -> PC] /\ job \in [Worker -> Job]
         /\ seen \in [Worker -> Seq(Event)] /\ log \in Seq(Event)
         /\ status = "completed" => Ends(log)
BY StillFinished DEF LoneInv, LoneRight, IInv, TypeOK

LEMMA LoneBegins ==
  ASSUME LoneInv, NEW w, Worker = {w},
         \/ Begin(w, "message") \/ Begin(w, "none")
         \/ Lookup(w) \/ Register(w) \/ LookupAgain(w)
         \/ AdoptRead(w) \/ AdoptUpdate(w) \/ CreateHead(w)
         \/ LoadDone(w) \/ ListFirst(w) \/ FailureFirst(w)
  PROVE  LoneRight'
<1>1. /\ UNCHANGED <<log, late>>
      /\ status' = "completed" => status = "completed"
  BY DEF Begin, Lookup, Register, LookupAgain, AdoptRead, AdoptUpdate,
         CreateHead, LoadDone, ListFirst, FailureFirst, Update
<1>2. job'[w] = job[w] \/ job'[w].kind # "answer"
  BY LoneTypes
  DEF Begin, Lookup, Register, LookupAgain, AdoptRead, AdoptUpdate,
      CreateHead, LoadDone, ListFirst, FailureFirst, JobOf
<1>3. seen'[w] \in {seen[w], <<>>}
  BY LoneTypes
  DEF Begin, Lookup, Register, LookupAgain, AdoptRead, AdoptUpdate,
      CreateHead, LoadDone, ListFirst, FailureFirst
<1>4. pc'[w] \notin Loaded \cup {"complete"}
  BY LoneTypes
  DEF Begin, Lookup, Register, LookupAgain, AdoptRead, AdoptUpdate,
      CreateHead, LoadDone, ListFirst, FailureFirst, Continue, FirstStep,
      Goto, End, Loaded
<1> QED BY <1>1, <1>2, <1>3, <1>4, LoneMoves

LEMMA LoneEnds ==
  ASSUME LoneInv, NEW w, Worker = {w},
         \/ CreateRequest(w) \/ WriteFailure(w) \/ MarkFailed(w)
         \/ AgentFails(w) \/ Fault(w)
  PROVE  LoneRight'
<1>1. /\ UNCHANGED <<log, late>>
      /\ status' = "completed" => status = "completed"
  BY DEF CreateRequest, WriteFailure, MarkFailed, AgentFails, Fault, Update
<1>2. job'[w] = job[w] \/ job'[w].kind # "answer"
  <2>1. CASE CreateRequest(w)
    <3>1. PICK c : job' = [job EXCEPT ![w] =
                             JobOf("requests", job[w].calls \ {c})]
      BY <2>1 DEF CreateRequest
    <3>2. JobOf("requests", job[w].calls \ {c}).kind # "answer"
      BY Parts
    <3> QED BY <3>1, <3>2, LoneTypes
  <2>2. CASE ~CreateRequest(w)
    BY <2>2 DEF WriteFailure, MarkFailed, AgentFails, Fault
  <2> QED BY <2>1, <2>2
<1>3. seen'[w] = seen[w]
  BY DEF CreateRequest, WriteFailure, MarkFailed, AgentFails, Fault
<1>4. pc'[w] \notin Loaded \cup {"complete"}
  BY LoneTypes
  DEF CreateRequest, WriteFailure, MarkFailed, AgentFails, Fault, Goto, End,
      Loaded
<1> QED BY <1>1, <1>2, <1>3, <1>4, LoneMoves

LEMMA LoneLoads ==
  ASSUME LoneInv, NEW w, Worker = {w}, Load(w)
  PROVE  LoneRight'
<1>1. UNCHANGED <<log, late, status, job>>
  BY DEF Load
<1>2. CASE pc'[w] \notin Loaded \cup {"complete"}
  <2>1. seen'[w] \in {seen[w], log}
    BY LoneTypes DEF Load
  <2> QED BY <1>1, <1>2, <2>1, LoneMoves
<1>3. CASE pc'[w] = "read_failure" /\ seen'[w] = log
  <2>1. SeenIsRight(w)'
    BY <1>1, <1>3, LoneTypes DEF SeenIsRight, Loaded
  <2>2. LogIsRight' /\ CompletedIsFinished'
    BY <1>1 DEF LoneInv, LoneRight, LogIsRight, CompletedIsFinished
  <2> QED BY <2>1, <2>2 DEF LoneRight
<1> QED
  BY <1>2, <1>3, LoneTypes DEF Load, Goto, End, Loaded

\* A paused history: the answers are to calls there are.
LEMMA LoneDecides ==
  ASSUME LoneInv, NEW w, Worker = {w}, pc[w] \in {"read_failure", "list"},
         UNCHANGED <<log, late, status, seen>>,
         NEW reqs, Decide(w, reqs)
  PROVE  LoneRight'
<1> DEFINE calls == PendingCalls(seen[w])
<1>1. calls \subseteq Called(log)
  BY LoneTypes DEF SeenIsRight, PendingCalls
<1>2. CASE CreateRequests(w, calls)
  <2>1. pc'[w] = "request" /\ job'[w].kind = "requests"
    BY <1>2, LoneTypes, Parts DEF CreateRequests, Goto
  <2> QED BY <2>1, LoneMoves DEF Loaded
<1>3. CASE \/ End(w, "expired", {}) /\ UNCHANGED job
           \/ End(w, "awaiting_input", calls) /\ UNCHANGED job
  <2>1. pc'[w] = "idle" /\ job' = job
    BY <1>3, LoneTypes DEF End
  <2> QED BY <2>1, LoneMoves DEF Loaded
<1>4. CASE /\ job' = [job EXCEPT ![w] = JobOf("answer", calls)]
           /\ Goto(w, "update")
  <2>1. pc'[w] = "update" /\ job'[w].kind = "answer" /\ job'[w].calls = calls
    BY <1>4, LoneTypes, Parts DEF Goto
  <2>2. SeenIsRight(w)'
    BY <1>1, <2>1, LoneTypes DEF SeenIsRight, Loaded
  <2>3. LogIsRight' /\ CompletedIsFinished'
    BY DEF LoneInv, LoneRight, LogIsRight, CompletedIsFinished
  <2> QED BY <2>2, <2>3 DEF LoneRight
<1> QED BY <1>2, <1>3, <1>4 DEF Decide

\* A history that is not paused: the log is finished, or its last event is no
\* pause, unless a late append has made it one since.
LEMMA LoneChooses ==
  ASSUME LoneInv, NEW w, Worker = {w}, pc[w] = "read_failure",
         UNCHANGED <<log, late, status, seen>>,
         PendingCalls(seen[w]) = {}, Choose(w)
  PROVE  LoneRight'
<1>1. LogIsRight' /\ CompletedIsFinished'
  BY DEF LoneInv, LoneRight, LogIsRight, CompletedIsFinished
<1>2. SeenIsRight(w)'
  <2>1. CASE LastIs(seen[w], "final") /\ Goto(w, "complete") /\ UNCHANGED job
    <3>1. Ends(seen[w])
      BY <2>1, LoneTypes DEF LastIs, Ends
    <3>2. pc'[w] = "complete"
      BY <2>1, LoneTypes DEF Goto
    <3> QED BY <2>1, <3>1, <3>2, LoneTypes DEF SeenIsRight, Loaded
  <2>2. CASE /\ job' = [job EXCEPT ![w] = JobOf("invocation", {})]
             /\ Goto(w, "update")
    <3>1. pc'[w] = "update" /\ job'[w].kind = "invocation"
      BY <2>2, LoneTypes, Parts DEF Goto
    <3>2. ~LastIs(log, "pause") \/ late = {}
      BY LoneTypes DEF SeenIsRight, LogIsRight, Loaded
    <3> QED BY <3>1, <3>2, LoneTypes DEF SeenIsRight, Loaded
  <2>3. CASE job[w].kind = "message" /\ Goto(w, "update") /\ UNCHANGED job
    <3>1. pc'[w] = "update"
      BY <2>3, LoneTypes DEF Goto
    <3> QED BY <2>3, <3>1, LoneTypes DEF SeenIsRight, Loaded
  <2>4. CASE End(w, "refused", {}) /\ UNCHANGED job
    <3>1. pc'[w] = "idle"
      BY <2>4, LoneTypes DEF End
    <3> QED BY <2>4, <3>1, LoneTypes DEF SeenIsRight, Loaded
  <2> QED BY <2>1, <2>2, <2>3, <2>4 DEF Choose
<1> QED BY <1>1, <1>2 DEF LoneRight

LEMMA LoneReads ==
  ASSUME LoneInv, NEW w, Worker = {w}, ReadFailure(w) \/ List(w)
  PROVE  LoneRight'
<1>1. UNCHANGED <<log, late, status, seen>>
      /\ pc[w] \in {"read_failure", "list"}
  BY DEF ReadFailure, List
<1>2. CASE \E reqs : Decide(w, reqs)
  BY <1>1, <1>2, LoneDecides
<1>3. CASE pc[w] = "read_failure" /\ PendingCalls(seen[w]) = {} /\ Choose(w)
  BY <1>1, <1>3, LoneChooses
<1>4. CASE Goto(w, "mark_failed") /\ UNCHANGED job
  <2>1. pc'[w] = "mark_failed"
    BY <1>4, LoneTypes DEF Goto
  <2> QED BY <1>1, <1>4, <2>1, LoneMoves DEF Loaded
<1>5. CASE pc[w] = "read_failure" /\ Goto(w, "list") /\ UNCHANGED job
  <2>1. pc'[w] = "list" /\ job' = job
    BY <1>5, LoneTypes DEF Goto
  <2>2. SeenIsRight(w)'
    BY <1>1, <1>5, <2>1, LoneTypes DEF SeenIsRight, Loaded
  <2>3. LogIsRight' /\ CompletedIsFinished'
    BY <1>1 DEF LoneInv, LoneRight, LogIsRight, CompletedIsFinished
  <2> QED BY <2>2, <2>3 DEF LoneRight
<1>6. CASE End(w, "awaiting_input", {}) /\ UNCHANGED job
  <2>1. pc'[w] = "idle"
    BY <1>6, LoneTypes DEF End
  <2> QED BY <1>1, <1>6, <2>1, LoneMoves DEF Loaded
<1> QED
  BY <1>2, <1>3, <1>4, <1>5, <1>6 DEF ReadFailure, List

LEMMA LonePosts ==
  ASSUME LoneInv, NEW w, Worker = {w}, PostInProgress(w) \/ Complete(w)
  PROVE  LoneRight'
<1>1. UNCHANGED <<log, late, seen, job>>
  BY DEF PostInProgress, Complete
<1>2. LogIsRight'
  BY <1>1 DEF LoneInv, LoneRight, LogIsRight
<1>3. CASE PostInProgress(w)
  <2>1. pc[w] = "update" /\ pc'[w] = "run"
        /\ (status' = "completed" => status = "completed")
    BY <1>3, LoneTypes DEF PostInProgress, Goto, Update
  <2>2. SeenIsRight(w)'
    BY <1>1, <2>1, LoneTypes DEF SeenIsRight, Loaded
  <2>3. CompletedIsFinished'
    BY <1>1, <2>1 DEF LoneInv, LoneRight, CompletedIsFinished
  <2> QED BY <1>2, <2>2, <2>3 DEF LoneRight
<1>4. CASE Complete(w)
  <2>1. pc[w] = "complete" /\ pc'[w] = "idle"
    BY <1>4, LoneTypes DEF Complete, End
  <2>2. Ends(log)
    BY <2>1, LoneTypes DEF SeenIsRight
  <2>3. SeenIsRight(w)'
    BY <1>1, <2>1, LoneTypes DEF SeenIsRight, Loaded
  <2>4. CompletedIsFinished'
    BY <1>1, <2>2 DEF CompletedIsFinished, Ends
  <2> QED BY <1>2, <2>3, <2>4 DEF LoneRight
<1> QED BY <1>3, <1>4

LEMMA LoneRuns ==
  ASSUME LoneInv, NEW w, Worker = {w}, RunAsync(w)
  PROVE  LoneRight'
<1>1. UNCHANGED <<log, late, status, job>> /\ pc[w] = "run"
  BY DEF RunAsync
<1>2. CASE Goto(w, "write_failure") /\ UNCHANGED seen
  <2>1. pc'[w] = "write_failure"
    BY <1>2, LoneTypes DEF Goto
  <2> QED BY <1>1, <1>2, <2>1, LoneMoves DEF Loaded
<1>3. CASE /\ seen' = [seen EXCEPT ![w] = log]
           /\ Goto(w, IF job[w].kind = "invocation" THEN "agent" ELSE "inject")
  <2>1. /\ seen'[w] = log
        /\ pc'[w] = IF job[w].kind = "invocation" THEN "agent" ELSE "inject"
    BY <1>3, LoneTypes DEF Goto
  <2>2. SeenIsRight(w)'
    BY <1>1, <2>1, LoneTypes DEF SeenIsRight, Loaded
  <2>3. LogIsRight' /\ CompletedIsFinished'
    BY <1>1 DEF LoneInv, LoneRight, LogIsRight, CompletedIsFinished
  <2> QED BY <2>2, <2>3 DEF LoneRight
<1> QED BY <1>2, <1>3 DEF RunAsync

\* What the worker would append may follow the log, if it has seen it all.
LEMMA LoneFollows ==
  ASSUME LoneInv, NEW w, Worker = {w}, log = seen[w]
  PROVE  /\ pc[w] = "inject" => Follows(EventOf(job[w].kind, job[w].calls))
                                /\ job[w].kind # "pause"
         /\ \A event \in MayEmit(w) : Follows(event)
<1>1. ASSUME pc[w] = "inject"
      PROVE  Follows(EventOf(job[w].kind, job[w].calls))
             /\ job[w].kind # "pause"
  <2>1. job[w].kind \in {"message", "answer"} /\ job[w].calls \in SUBSET Call
    BY <1>1, LoneTypes DEF IInv, JobsAreRight, JobIsRight, Job
  <2>2. job[w].kind = "answer" => job[w].calls \subseteq Called(log)
    BY LoneTypes DEF SeenIsRight
  <2> QED BY <2>1, <2>2, Parts DEF Follows
<1>2. ASSUME NEW event \in MayEmit(w) PROVE Follows(event)
  <2>1. event \in Event /\ event.kind # "answer"
    BY LoneTypes, MayEmitType
  <2>2. event.kind = "pause" => event.calls \in SUBSET (Call \ Called(seen[w]))
                                /\ event.calls # {}
    <3>1. \/ event = EventOf("final", {}) \/ event = EventOf("step", {})
          \/ \E calls \in (SUBSET (Call \ Called(seen[w]))) \ {{}} :
               event = EventOf("pause", calls)
      BY DEF MayEmit
    <3>2. CASE event = EventOf("final", {}) \/ event = EventOf("step", {})
      <4>1. event.kind # "pause"
        BY <3>2, Parts
      <4> QED BY <4>1
    <3>3. ASSUME NEW calls \in (SUBSET (Call \ Called(seen[w]))) \ {{}},
                 event = EventOf("pause", calls)
          PROVE  event.calls \in SUBSET (Call \ Called(seen[w]))
                 /\ event.calls # {}
      <4>1. event.calls = calls
        BY <3>3, Parts
      <4>2. calls \in SUBSET (Call \ Called(seen[w])) /\ calls # {}
        OBVIOUS
      <4> QED BY <4>1, <4>2, Zenon
    <3> QED BY <3>1, <3>2, <3>3
  <2> QED BY <2>1, <2>2 DEF Follows
<1> QED BY <1>1, <1>2

\* The append of the lone worker.
LEMMA LoneAppends ==
  ASSUME LoneInv, NEW w, Worker = {w}, UNCHANGED <<status, job>>,
         NEW event, AppendEvent(w, event),
         log = seen[w] => Follows(event)
  PROVE  LoneRight'
<1>1. CASE /\ log = seen[w] /\ log' = Append(log, event) /\ late' = {}
           /\ seen' = [seen EXCEPT ![w] = log'] /\ Goto(w, "agent")
  <2>1. /\ LogIsRight' /\ Called(log) \subseteq Called(log)'
        /\ Ends(log) => Ends(log)'
    BY <1>1, LogGrows, LoneTypes DEF LoneInv
  <2>2. seen'[w] = log' /\ pc'[w] = "agent"
    BY <1>1, LoneTypes DEF Goto
  <2>3. SeenIsRight(w)'
    BY <1>1, <2>1, <2>2, LoneTypes DEF SeenIsRight, Loaded
  <2>4. CompletedIsFinished'
    BY <2>1, LoneTypes DEF CompletedIsFinished, Ends
  <2> QED BY <2>1, <2>3, <2>4 DEF LoneRight
<1>2. CASE /\ Goto(w, "write_failure") \/ End(w, "conflict", {})
           /\ UNCHANGED <<log, late, seen>>
  <2>1. pc'[w] \in {"write_failure", "idle"}
    BY <1>2, LoneTypes DEF Goto, End
  <2> QED BY <1>2, <2>1, LoneMoves DEF Loaded
<1> QED BY <1>1, <1>2 DEF AppendEvent

LEMMA LoneInjects ==
  ASSUME LoneInv, NEW w, Worker = {w}, Inject(w) \/ AgentEmits(w)
  PROVE  LoneRight'
<1>1. CASE Inject(w)
  BY <1>1, LoneAppends, LoneFollows DEF Inject
<1>2. CASE AgentEmits(w)
  BY <1>2, LoneAppends, LoneFollows DEF AgentEmits
<1> QED BY <1>1, <1>2

\* When the agent returns it is paused, and then nothing is late, or done.
LEMMA LoneReturns ==
  ASSUME LoneInv, NEW w, Worker = {w}, AgentReturns(w)
  PROVE  LoneRight'
<1>1. /\ UNCHANGED <<log, late, status, seen, job>>
      /\ pc[w] = "agent" /\ pc'[w] = "after"
  BY LoneTypes DEF AgentReturns, Goto
<1>2. LastIs(seen[w], "pause") \/ LastIs(seen[w], "final")
  BY DEF AgentReturns, MayEmit
<1>3. SeenIsRight(w)'
  BY <1>1, <1>2, LoneTypes DEF SeenIsRight, Loaded
<1>4. LogIsRight' /\ CompletedIsFinished'
  BY <1>1 DEF LoneInv, LoneRight, LogIsRight, CompletedIsFinished
<1> QED BY <1>3, <1>4 DEF LoneRight

\* A log without pending calls, after the agent: it is not paused, so done.
LEMMA LoneLooks ==
  ASSUME LoneInv, NEW w, Worker = {w}, After(w)
  PROVE  LoneRight'
<1>1. UNCHANGED <<log, late, status>> /\ pc[w] = "after"
  BY DEF After
<1>2. LogIsRight' /\ CompletedIsFinished'
  BY <1>1 DEF LoneInv, LoneRight, LogIsRight, CompletedIsFinished
<1>3. CASE End(w, "not_found", {}) /\ UNCHANGED <<seen, job>>
  <2>1. pc'[w] = "idle"
    BY <1>3, LoneTypes DEF End
  <2> QED BY <1>1, <1>3, <2>1, LoneMoves DEF Loaded
<1>4. CASE /\ seen' = [seen EXCEPT ![w] = log]
           /\ CreateRequests(w, PendingCalls(log))
  <2>1. pc'[w] = "request" /\ job'[w].kind = "requests" /\ seen'[w] = log
    BY <1>4, LoneTypes, Parts DEF CreateRequests, Goto
  <2> QED BY <1>1, <2>1, LoneMoves DEF Loaded
<1>5. CASE /\ seen' = [seen EXCEPT ![w] = log] /\ PendingCalls(log) = {}
           /\ Goto(w, "complete") /\ UNCHANGED job
  <2>1. pc'[w] = "complete" /\ seen'[w] = log
    BY <1>5, LoneTypes DEF Goto
  <2>2. LastIs(seen[w], "final")
    BY <1>1, <1>5, LoneTypes DEF SeenIsRight, LogIsRight
  <2>3. Ends(seen[w])
    BY <2>2, LoneTypes DEF LastIs, Ends
  <2>4. SeenIsRight(w)'
    BY <1>1, <1>5, <2>1, <2>3, LoneTypes DEF SeenIsRight, Loaded
  <2> QED BY <1>2, <2>4 DEF LoneRight
<1> QED BY <1>3, <1>4, <1>5 DEF After

LEMMA LoneStep ==
  ASSUME LoneInv, NEW w, Worker = {w}, Step(w)
  PROVE  LoneRight'
BY LoneBegins, LoneEnds, LoneLoads, LoneReads, LonePosts, LoneRuns,
  LoneInjects, LoneReturns, LoneLooks, Zenon DEF Step

LEMMA LoneLateAppend ==
  ASSUME LoneInv, NEW w, Worker = {w}, LateAppend
  PROVE  LoneRight'
<1>1. PICK event \in late : log' = Append(log, event)
  BY DEF LateAppend
<1>2. UNCHANGED <<status, pc, seen, job>> /\ late' = {}
  BY DEF LateAppend
<1>3. Follows(event)
  BY <1>1, LoneTypes DEF Follows, LogIsRight, TypeOK
<1>4. /\ LogIsRight' /\ Called(log) \subseteq Called(log)'
      /\ Ends(log) => Ends(log)'
  BY <1>1, <1>2, <1>3, LogGrows DEF LoneInv
<1>5. SeenIsRight(w)'
  BY <1>1, <1>2, <1>4, LoneTypes DEF SeenIsRight, Loaded
<1>6. CompletedIsFinished'
  BY <1>2, <1>4, LoneTypes DEF CompletedIsFinished, Ends
<1> QED BY <1>4, <1>5, <1>6 DEF LoneRight

LEMMA LoneAppendFault ==
  ASSUME LoneInv, NEW w, Worker = {w}, AppendFault(w)
  PROVE  LoneRight'
<1>1. UNCHANGED <<log, status, seen, job>> /\ log = seen[w]
      /\ pc[w] \in {"inject", "agent"}
  BY DEF AppendFault
<1>2. PICK event : late' = late \cup {event} /\ Follows(event)
  BY LoneFollows DEF AppendFault
<1>3. pc'[w] = "idle"
  BY LoneTypes DEF AppendFault, End
<1>4. LogIsRight'
  BY <1>1, <1>2, LoneTypes DEF LogIsRight, Follows
<1>5. SeenIsRight(w)'
  BY <1>1, <1>3, LoneTypes DEF SeenIsRight, Loaded
<1>6. CompletedIsFinished'
  BY <1>1, LoneTypes DEF CompletedIsFinished, Ends
<1> QED BY <1>4, <1>5, <1>6 DEF LoneRight

LEMMA LoneRest ==
  ASSUME LoneInv, NEW w, Worker = {w},
         \/ \E c \in Call : Respond(c) \/ Expire(c)
         \/ Delete \/ UNCHANGED vars
  PROVE  LoneRight'
<1>1. /\ UNCHANGED <<log, pc, seen, job>> /\ late' \in {late, {}}
      /\ status' = "completed" => status = "completed"
  BY DEF Respond, Expire, Delete, vars
<1>2. LogIsRight' /\ CompletedIsFinished'
  BY <1>1 DEF LoneInv, LoneRight, LogIsRight, CompletedIsFinished
<1>3. SeenIsRight(w)'
  BY <1>1, LoneTypes DEF SeenIsRight, Loaded
<1> QED BY <1>2, <1>3 DEF LoneRight

LEMMA LoneInit == Init => LoneRight
<1> SUFFICES ASSUME Init PROVE LoneRight
  OBVIOUS
<1>1. Called(<<>>) = {} /\ Answered(<<>>) = {} /\ ~Ends(<<>>)
      /\ ~LastIs(<<>>, "pause")
  BY DEF Called, Answered, CallsOf, Ends, LastIs
<1>2. LogIsRight
  BY <1>1 DEF Init, LogIsRight
<1>3. ASSUME NEW w \in Worker PROVE SeenIsRight(w)
  BY <1>1 DEF Init, SeenIsRight, JobOf, Loaded
<1> QED BY <1>2, <1>3 DEF Init, LoneRight, CompletedIsFinished

\* A run that one worker at a time continues is COMPLETED only when its
\* history has a final event, whatever fails and however late an append of an
\* earlier attempt takes effect (durable.py:383-387).  Two workers can break
\* it.
THEOREM CompletedByOne ==
  ASSUME NEW w, Worker = {w} PROVE Spec => []CompletedIsFinished
<1>1. Init => LoneInv
  BY InitInv, LoneInit DEF LoneInv
<1>2. LoneInv /\ [Next]_vars => LoneInv'
  <2> SUFFICES ASSUME LoneInv, [Next]_vars PROVE LoneInv'
    OBVIOUS
  <2>1. IInv'
    BY NextInv DEF LoneInv
  <2>2. LoneRight'
    <3>1. CASE Begin(w, "message") \/ Begin(w, "none") \/ Fault(w)
      BY <3>1, LoneBegins, LoneEnds
    <3>2. CASE Step(w)
      BY <3>2, LoneStep
    <3>3. CASE AppendFault(w)
      BY <3>3, LoneAppendFault
    <3>4. CASE LateAppend
      BY <3>4, LoneLateAppend
    <3>5. CASE \/ \E c \in Call : Respond(c) \/ Expire(c)
               \/ Delete \/ UNCHANGED vars
      BY <3>5, LoneRest
    <3> QED BY <3>1, <3>2, <3>3, <3>4, <3>5 DEF Next
  <2> QED BY <2>1, <2>2 DEF LoneInv
<1>3. LoneInv => CompletedIsFinished
  BY DEF LoneInv, LoneRight
<1> QED BY <1>1, <1>2, <1>3, PTL DEF Spec
=============================================================================
