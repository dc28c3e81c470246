# Verification of the agency SDK

This directory models the agency Python SDK (`src/agency_sdk`) in TLA+, checks
the models with TLC on small instances and proves the theorems that matter most
with TLAPS.

The SDK is a client of the GTS control plane. Much of it builds one HTTP
request per call. The logic of its own, the part with state, concurrency and
failure to get wrong, is first of all the ADK integration
(`src/agency_sdk/adk/`): agent sessions kept durably in the *session vault*, a
versioned key-value store with conditional writes, and a runner that resumes an
agent run after a crash or a human answer. Around it are smaller pieces with
several steps or several threads: the state that sessions share, paged reads,
datasets, work queues, annotation batches, the token cache, the client's caches
and the life of its telemetry. All of these are modelled; what is left out only
sends one request per call (section 7).

## 1. The system

### Components

| component | source | state it keeps | operations |
|---|---|---|---|
| Checkpoint protocol, `VaultStore` | `adk/_store.py`, `adk/_records.py` | `_inflight`: the commit task of each session; in the vault: the session head, one record per event, app:/user: records, a failure record | `read_head`, `create_head`, `write_head`, `append_event`/`_commit`, `_settle`, `read_events` (full and filtered), `read_scoped`, `merge_scoped`, failure record |
| ADK session service, `GtsSessionService` | `adk/session_service.py` | `_heads`: the last head of each session | `create_session`, `get_session`, `list_sessions`, `delete_session`, `append_event`, `repair_scoped_state` |
| HTTP transport | `delegates/base_client.py` | none; a request in progress has an attempt number | send, resend after a connection error (PUTs), time out |
| Session vault delegate | `delegates/session_vault_client.py` | none | `get`, `set` (`if_absent`, `if_version`), `list`, `delete` |
| Durable runner | `adk/durable.py` | none in memory; status record, failure record and human-input requests in the control plane | `run`, `resume`, `_drive`, `_complete`, `_fail`, `_create_requests`, `_answers` |
| Control-plane session delegates | `delegates/session_client.py`, `session_hitl_client.py`, `session_templates_client.py` | none | register, get, set status; create, answer, expire a human-input request |
| Scoped app:/user: state | `adk/_store.py`, `adk/session_service.py` | one vault record per scope, shared by the sessions of a user | `read_scoped`, `merge_scoped`, `repair_scoped_state` |
| Credentials | `credentials.py`, `auth_hooks.py` | the cached token and its expiry, a lock | get a token, refresh when it expires |
| Dataset client | `delegates/datasets_client.py` | the cloned tree, its manifest, its status; versions and drafts at the server | clone, draft, push, publish |
| Work-queue client | `delegates/work_queue_client.py` | none | create with references, add a reference, look up, publish, delete |
| Annotations client | `delegates/annotations_client.py`, `annotations_dto.py` | none | create a batch, bind, upload, push a graph, read it back, page |
| Client facade | `client.py` | cached gateway clients and the observability instance, two locks | `gateway`, `observability` |
| Observability | `observability/` | providers, log handler, tracer, exit hooks | `init`, `shutdown` |
| Gateway, files, prompts, rules, ontology, datasources | `delegates/*` | none | one request per call |

### How they interact

ADK's runner calls `GtsSessionService` from coroutines of one event loop; each
coroutine holds its own `Session` copy with a *storage marker* (the head
version it was loaded at). The service calls `VaultStore`, which runs the
blocking vault delegate in threads (`asyncio.to_thread`, with the timeout of
`requests`). The delegate sends HTTP requests through the transport, which resends a conditional
PUT after a connection error up to three times. Several processes may serve
one session; they meet only in the vault, through the version of the head. The
durable runner adds three more places where processes meet: the status of the
session reference, the failure record and the human-input requests. After each
commit the service merges the event's app: and user: deltas into records that
other sessions, in any process, write too.

Every request takes its token from one `CredentialsSupplier` shared by all
threads: the delegates build a header per call, the gateway's openai client and
the telemetry exporters ask through hooks. The dataset, work-queue and
annotations clients share nothing but the transport, which sends their POST and
DELETE requests once.

### What is hard

- **A commit is two writes.** The event record is written first (`if_absent`),
  the head second (`if_version`). The head is the commit point. A crash, a lost
  race or a timeout between the two leaves an orphan record.
- **A PUT may happen more than once, or later.** After a connection error the
  same request is sent again though the first may have been applied; after a
  read timeout the request may still be applied while the caller retries,
  reads or deletes. A refused precondition is therefore ambiguous, and is
  resolved by reading back.
- **Commits outlive their callers.** The commit runs in a shielded task;
  cancelling the caller does not stop it, and the next operation on the session
  must wait for it (`_settle`). The table of such tasks is shared by the
  coroutines of a process.
- **Cached heads.** `append_event` decides on a remembered head if its version
  is the marker of the copy, and commits several awaits later.
- **Tombstones.** `delete_session` writes the head with `deleted` set, under
  the version it read, again when it loses the race.
- **Whole records are merged.** A scoped record is read, overlaid and put back
  whole; between the read and the PUT, or a late resend of it, other sessions
  write other keys.
- **Several calls make one operation.** A push of a dataset, a push of a graph
  and the steps of a claim stop half-way, are served after the call has raised,
  or meet what other clients do in between.
- **Double-checked caches.** The token and the client's instances are looked at
  without their lock first; time passes, builds raise, other threads store.
- **Runs span processes.** A run may be resumed by another worker while the
  first one is still there; statuses, answers and requests may be written late
  or twice.

PROJECT.json lists each hazard at its line with the properties that cover it,
or the reason why none does.

### What makes each component correct

- *Checkpoint protocol and session service*: an event is committed at most
  once, on top of exactly what its caller had seen; a success is a commit; no
  session state is lost; the chain of records behind the head is always whole;
  a read never sees half a commit; a tombstone is never lifted; every operation
  ends.
- *Scoped state*: a merge changes the keys of its own delta and no other; a
  call that returns has merged; a refused attempt has met a write of the record.
- *Durable runner*: only answers that were given are injected, and once;
  COMPLETED means that the history is finished, FAILED that the reason is on
  record; whoever waits for people has asked them; after a crash at any point
  a resume leads to a terminal status.
- *Reading back*: a full read returns the whole committed history or refuses; a
  read with a limit or a timestamp returns its newest part; a walk over pages
  that ends has seen every row that was there.
- *Credentials*: threads that find the token expired share one fetch; an expired
  token goes out only for a reason.
- *Datasets*: when a push returns, draft and tree differ only where an earlier
  failure or somebody else explains it.
- *Work queue*: a claim reported lost has left no card; the loser is told the
  owner or nothing.
- *Annotations*: a refused push holds no jobs; jobs have the checklist of the
  specification found before; a batch that the example leaves ACTIVE has a named
  reason.
- *Facade*: one instance per identity, to all who ask.
- *Observability*: a provider is closed again, or its tracer kept, only where its
  own `shutdown()` raised; nothing that is held is left open at exit.

## 2. The plan

In the order of importance. A module marked *done* is in this directory.

1. **Checkpoint** (*done*), with its abstract specification **SessionLog**
   (*done*), its properties **CheckpointProps**, the inductive invariant
   **CheckpointInv** and the proofs **CheckpointProofs** (types),
   **CheckpointSafety** (snapshots, records, commits) and **CheckpointContent**
   (what copies hold, and the refinement of SessionLog). **CheckpointLoop**
   (*done*) is the protocol under the schedule of one event loop.
2. **DurableRun** (*done*), with its properties and inductive invariant
   **DurableRunProps** and the proofs **DurableRunProofs**: workers that run and
   resume one correlation id; status, failure record, human-input requests, and
   the session as SessionLog promises it.
3. **ScopedState** (*done*): `merge_scoped` and its callers, with
   **ScopedStateProofs**.
4. **EventChain** and **PagedReads** (*done*): reading records and pages back,
   with **ReadProofs**.
5. **DatasetPush**, **WorkQueue**, **Annotations**, **TokenCache**,
   **ClientCaches** with its abstract specification **GetOrBuild**, and
   **Telemetry** (*done*): one module per client with state
   or several steps, checked together in one run; their theorems are in
   **DelegatesProofs** and **ClientProofs**.
6. *Left*: `repair_scoped_state` as a step of DurableRun's workers (alone it is
   an action of ScopedState), two threads in one `shutdown`, and pushes of other
   clients into a dataset's draft.
7. A tombstone's finality for any number of attempts (*done*): the code does not
   keep it without exception, so the exception was found, stated in
   `TombstoneIsFinal` and proved to be the only one.

## 3. The modules and the code

| module | what it is |
|---|---|
| `SessionLog` | abstract specification: one session as a log of events with optimistic concurrency |
| `Checkpoint` | the protocol: vault, transport, commit tasks, services, callers |
| `CheckpointProps` | its properties and the refinement mapping to SessionLog |
| `CheckpointInv` | its inductive invariant |
| `CheckpointProofs` | THEOREM `TypeCorrect` |
| `CheckpointSafety` | THEOREM `Invariant` and the safety theorems that follow |
| `CheckpointContent` | THEOREM `FullInvariant`, the theorems that follow, and the refinement |
| `CheckpointLoop` | Checkpoint with the callbacks of one event loop in their order |
| `DurableRun` | the durable runner: workers, control plane, people |
| `DurableRunProps` | its properties and its inductive invariant |
| `DurableRunProofs` | THEOREM `DurableInvariant` and what follows |
| `ScopedState`, `ScopedStateProofs` | merging app:/user: state; its three theorems |
| `EventChain` | the full and the filtered read of a chain of records |
| `PagedReads` | the walks over paged listings |
| `ReadProofs` | the theorems about both |
| `DatasetPush` | clone, draft, push, publish, and the example that does all four |
| `WorkQueue` | claims by reference, and the example with its clean-up |
| `Annotations` | publishing graphs, and the example with its teardown |
| `DelegatesProofs` | the theorems about the three modules above |
| `TokenCache` | the shared token and who carries it |
| `GetOrBuild` | abstract specification of the client's caches |
| `ClientCaches` | `gateway()` and `observability()` |
| `Telemetry` | the life of an `Observability` instance |
| `ClientProofs` | the theorems about the token, the caches and telemetry |
| `MCCheckpoint`, `MCDurableRun`, `MCComponents` | instances for TLC |

### Checkpoint

| variable | code |
|---|---|
| `head`, `records` | the vault entries written by `create_head`/`write_head`/`_commit` (`_store.py` 178-206, 276-290) |
| `eventPuts`, `headPuts` | HTTP requests sent and not yet applied; a request whose sender gave up stays there |
| `phase`, `args`, `attempt`, `result` | the `_commit` task of each event: where it is, what it was called with, its current PUT, its return value |
| `heads`, `inflight` | `GtsSessionService._heads`, `VaultStore._inflight` (one session) |
| `copy` | the `Session` objects of the callers: marker, events, session-scoped state |
| `op`, `put` | the operation each coroutine is suspended in; its own PUT when it creates or deletes |
| `log`, `versions` | history variables: committed events, heads there have been |

The actions are the segments of the code between two awaits.

| code | actions |
|---|---|
| `append_event` (both), `_snapshot_for` | `AppendBegin` (remembered head, or start a read), `AppendRead` (the read, refusals, registering the task), `Wake` (after `_settle`), `AppendReturn` (the shielded task ended) |
| `_commit` | `EventPutAnswered`, `EventReread`, `HeadPutAnswered`, `HeadReread`, `Resend`, `GiveUp` |
| `get_session`, `_read_all` | `GetBegin`, `GetRead`, `GetEvents` |
| `create_session` with an adopted id | `CreateBegin`, `CreateRead`, `PutSend`, `PutAnswered` |
| `delete_session` | `DeleteBegin`, `DeleteRead`, `PutSend`, `PutAnswered` |
| errors, cancellation, process death | `CallFails`, `Cancel`, `Crash` |
| the vault (external) | `VaultTakesEvent`, `VaultTakesHead` |

What is abstracted, and why that is enough:

- An event is its id; the session state is the set of events whose deltas it
  holds. So a lost update and a leaked one are both visible, and what the
  deltas say does not matter.
- A key is a number and an id (`event_key` pads the number so that keys sort by
  it); the listing order is therefore the order of the numbers.
- The records are written once, so reading them one after the other gives what
  one read at the end gives. Filtered reads and damaged chains are in
  EventChain.
- The thread behind a cancelled `asyncio.to_thread` may go on sending. That is
  a request applied late, which the model has: a conditional PUT takes effect
  at most once.
- app:/user: merges after the commit are in ScopedState, the failure record is
  in DurableRun. They write other vault keys, and nothing in a commit depends on
  them.
- create, get and delete settle before every vault call, as the code does, by
  `Enter`.
- Any waiting coroutine may be resumed, in any order: more schedules than an
  event loop has, so what holds here holds there. The one counterexample that
  is about the order, `two_in_flight`, is looked for in CheckpointLoop, where a
  task that ends resumes those who wait for it one after the other, the longest
  first, as asyncio calls the callbacks of a task in the order they were added.
- `list_sessions` matters as the source of copies without a marker; appending
  to one is allowed when `AppendListed` is TRUE.
- `MayAppend` describes the caller, not the code: an event is appended by one
  caller at a time, and again only after a cancellation or `VaultUnavailable`,
  from a copy not loaded again since. This is what the ADK runner and its
  retrying users do.

### DurableRun

| variable | code |
|---|---|
| `status`, `labelled`, `requests` | the session reference and the human-input requests that comand keeps |
| `head`, `log`, `late` | the session in the vault, as SessionLog promises it: the committed events, and appends that may still take effect |
| `failure` | the failure record |
| `pc` | the await a worker is suspended in |
| `told`, `seen`, `known`, `job` | the local variables of `_continue` and `_drive`: `status`, `session.events`, `requests_known`, and the chosen input or the calls still to request |
| `outcome` | the `RunOutcome` or the exception a worker's last run ended with |
| `runs`, `faults` | counters that only bound the model |

| code | actions |
|---|---|
| `run`, `resume` | `Begin`, `Lookup`, `LookupAgain` |
| `create_session` | `Register`, or `AdoptRead` and `AdoptUpdate`; `CreateHead` |
| `_continue` | `LoadDone`, `ListFirst`, `FailureFirst`, `Load`, `ReadFailure`, `List` (with `Decide` and `Choose`) |
| `_drive` | `PostInProgress`, `RunAsync`, `Inject`, `AgentEmits`, `AgentReturns`, `AgentFails`, `After` |
| `_create_requests`, `_complete`, `_fail` | `CreateRequest` (one call), `Complete`, `WriteFailure`, `MarkFailed` |
| infrastructure errors, death | `Fault`, `AppendFault` |
| `delete_session` | `Delete` |
| external: vault, people, comand's background job | `LateAppend`, `Respond`, `Expire` |

What is abstracted, and why that is enough:

- *The session is a SessionLog.* An append takes effect only if the log is what
  its writer has seen. That is what the runs and theorems of Checkpoint
  establish, so the protocol's requests are not repeated here. What remains of
  it is the part a runner can notice: a conflict, and an append whose writer
  got an error and which takes effect later (`late`, dropped as soon as the log
  has moved on).
- *The agent* is ADK's and external. `run_async` is given the session's id, so
  it loads the session again; it appends the message or the answers; then it
  appends steps and pauses as it likes, until it pauses, finishes or raises.
  An agent event that fails to be appended ends the run: a stale one with
  `conflict`, one that timed out with the error.
- *An event* is its kind and the long-running calls it makes or answers;
  `PendingCalls` is the code's own definition over that.
- *comand* is modelled from how the code uses it and from the contract of the
  tests' fake: `update` ignores a non-terminal status for a terminal session;
  creating a request that exists changes nothing but sets the session to
  AWAITING_INPUT; an expiring request fails the session; the first answer
  stays.
- Left out: `repair_scoped_state` (an action of ScopedState; it writes nothing
  that a run reads), answers that are refused for
  their size or their invocation (they raise before anything is written), a
  status post or `create_head` that takes effect after its sender gave up.

### ScopedState

| variable | code |
|---|---|
| `scopeVersion`, `scopeState` | the vault record of each scope: its version, and for each key the event whose value it holds |
| `lastEvent` | the last event of each session, which a repair looks at |
| `mergeAt`, `mergeEvent`, `mergeScope`, `mergeTry`, `mergePut` | the local variables of `_merge_scopes` and `merge_scoped` |
| `scopedPuts` | PUTs on their way, those of mergers that gave up included |
| `mergeFirst`, `mergedInto` | history: the version a merge began at, the scopes it has written |

| code | actions |
|---|---|
| `append_event` after its commit, `create_session`, `repair_scoped_state` | `AppendCommits`, `CreateMerges`, `Repair` |
| `merge_scoped` (`_store.py` 386-409) | `ReadAndPut`, then `PutApplied` or `PutRefused`; app before user by `EnterScope` |
| transport | `Resend`, `MergeStops` |

The read and the PUT that follows it are one action: what matters is the version
that the PUT names, and the PUT itself may be served at any time later. A value
is the event that wrote it.

### EventChain and PagedReads

EventChain starts from arbitrary stored records: any `prev_key` for each key, any
record missing, any head, any listing with records left out, and any arguments:
`num_recent_events` (`chainLimit`, or none), `after_timestamp` (`chainAfter`)
and the events older than it (`tooOld`, any of them: nothing makes timestamps
grow along the chain). With neither argument the read is full. `ReadRecord` is
one turn of the loop of `_walk` (and of the same loop over the listed records in
`_read_all`) with its refusals and with the break at the first event that is too
old; `ReadReturns` is the loop's other end. The properties compare the result
with `Chain`, a definition of the committed history that does not walk.

PagedReads has one walk for three ways of paging: `read_events` and the
tolerant annotation lists end at a short page, `list_sessions` and `resolve_id`
at the reported total. `RowAdded` inserts rows anywhere while the walk is under
way, `malformed` rows land in `rejected`, `several` people have two rows, and
`clamp` is a server that sends smaller pages than it was asked for.

### DatasetPush

| variable | code |
|---|---|
| `dsVersion`, `dsOpen`, `dsFiles` | the server: newest version, whether it is a draft, the files of every version |
| `tree`, `manifest`, `localStatus` | the clone: its files, `.agency/files.json`, the status in `.agency/dataset.json` |
| `op` | the local variables of the call under way |
| `dsLate` | uploads whose sender has given up |
| `script`, `scriptFile` | where the example script is, and the file it adds |
| `astray`, `pushGap` | history: paths at which draft and manifest may differ, and at which the draft is not what the last push hashed |

`CloneStart`, `CloneFile`, `CloneWrites` are `clone_dataset`; `Draft` and
`Publish` with `UpdateLocal` are those calls and their patch of the workspace;
`PushStart`, `RequireDraft`, `Upload`, `DeletePath`, `PushReturns` are `push`,
one action per request. `Fails` is an error or a death at any of them, `Others`
are other clients, `Edit` the user. The example is a sequence of steps over the
same actions whose assertions are in `Step` and `PushAsserted`. A file stands
for its content and a hash for the content hashed. Not in the model: a push of
another client into the same draft (the others open and publish drafts), and of
the example its step 4, an independent read of the draft, and the version
numbers it asserts.

### WorkQueue

A call is a request that the server may serve while its caller waits or after
the call has raised (`CallFails`). `CreateItem`, `AddRef`, `ItemCommand`,
`DeleteItem`, `GetItem` and `GetItemsByRef` are the server's side as `_parse_conflict` and
the DTOs expect it: one owner for a reference in a queue. `ParseConflict` is the
client's reading of a 409, in each shape the code distinguishes. The example is
a table, one row per call with the outcome it asserts, the two claims that it
repeats as raw requests included, then its clean-up. The queues themselves, which
the example makes and deletes by raw requests, are always there.

### Annotations

A publisher has a plan: `push` alone, or the example's seed, push, read, push,
read and probe. Each leg is one request: `ResolveWorkflow`, `CreateBatch`,
`BindWorkflow`, `UploadGraph`, `GetBatch` for `push_graph`, and `GetSpec`,
`CreateSpec`, `ConfirmSpec`, `ListWorkflows`, `ArchiveBatch` for the example;
`ReadAgain` stands for the reads of its steps 3, 5 and 6, which assert that the
batches pushed so far are there, ACTIVE, with jobs. What step 6 asserts inside a
job, its transitions, the graph and the members is left out. `Answered` lets
a call raise after its effect, `CallRaises` without. The example remembers a
batch when the call that returns its id has returned, and its teardown
(`ArchiveBatch`, `TeardownEnds`) takes those, oldest first: `_archive_batch` does
not look at the status, so a batch that the server refuses to archive is passed
over (`unarchived`), and an exception ends the teardown. The server's rules
(upload needs DRAFT and a binding, a binding needs a published workflow) are
those the client's docstrings and error branches rely on; `WorkflowChanges`
publishes and withdraws the workflow at any time.

### TokenCache

`LookAtToken`, `TakeToken`, `LookAgain`, `MintToken`, `StoreToken`, `FetchFails`
are the segments of `bearer_token` between which other threads run or time
passes: the unlocked look and the read of the token that is returned are two
steps, as they are in the code. `SendWithToken` sends a request with the header
it was built with (again after a connection error), and `BuildExporter` keeps a
seed header that is sent whenever the supplier answers None
(`auth_hooks.py:34`). `Tick` lets time pass anywhere.

### ClientCaches and GetOrBuild

`AskGateway`, `AskObservability`, `LookUnlocked`, `Lock`, `LookLocked`,
`BuildInstance`, `BuildRaises` are the double-checked caches of `client.py`. A
gateway's identity is its URL without a trailing slash or its environment, within an
organisation. The empty URL has an identity of its own but is built by discovery,
like no URL at all, and may raise there (`Discovered`); a URL of slashes only,
which is stripped to the empty one, is not among the `Urls`. GetOrBuild says what they promise: an ask is answered in one atomic
step by the one instance of its identity, by a new one, or by an error when
there is none.

### Telemetry

`InitFails` and `InitTelemetry` are `init` up to where it raises: an init that
fails leaves the providers that it has made by then, open and without a
reference; one that raises later leaves its references, its hook and, when it is
`get_tracer` that raises, its handler. `Shutdown`, `DetachHandler`,
`CloseProvider`, `DropTracer` are the steps of `shutdown` in the order of the
code; a provider's own `shutdown()` may raise before or after it took effect, and
either way the reference stays and the steps after it are not reached.
`ExitProcess` and `RunHook` are the interpreter's exit with one hook per `init`.
Providers and handlers are named by the `init` that made them.

## 4. The runs

`MCCheckpoint` has two events (three in `two_in_flight`, which runs
CheckpointLoop), two callers, and one or two services; `MCDurableRun` one or two
workers and one or two calls.

| run of Checkpoint | instance | shows |
|---|---|---|
| `two_processes` | 2 services, a PUT may be resent, 1 crash | `CommittedOnce`, `SuccessIsCommitted`, `ChainIntact`, `ReadsFindTheChain`, refinement `ImplementsSessionLog` |
| `one_process` | 1 service, one caller may create the session, 1 cancellation, fairness | `TypeOK`, `NoLostUpdate`, `CommittedOnWhatWasSeen`, `OperationsEnd` |
| `lifecycle` | 2 services: each event appended up to twice, a delete of up to 2 rounds | `FullInv` (which contains `TypeOK`, `ChainIntact` and implies `CommittedOnce`), `CurrentCopiesAreTrue`, `TombstoneIsFinal`, `HistoryKept` |
| `stale_visible` | violation | see Findings |
| `two_in_flight` | violation | see Findings |
| `append_listed` | violation | see Findings |

| run of DurableRun | instance | shows |
|---|---|---|
| `workers` | 2 workers, 2 runs each, 2 calls, 1 fault, deletion | `TypeOK`, `IInv`, `FailureIsExplained`, `AnswersAreHuman`, `AwaitedCallsAreRequested` |
| `recovery` | 1 worker dispatched for ever on an adopted session, 2 calls, 3 faults, fairness | `CompletedIsFinished`, `Recovers` |
| `answer_twice` | violation | see Findings |
| `completed_early` | violation | see Findings |

`Components` checks the nine other components in one run. The variable
`component` names the one that moves in a behaviour; the others keep an initial
state, so the state spaces add up instead of multiplying, and each component
still has all its interleavings and failures. They share no variable, so nothing
is lost by not letting two move.

| component | instance | shows |
|---|---|---|
| ScopedState | 3 mergers, 2 events of 2 sessions, 2 keys (one shared), 2 attempts, 3 sends, 1 resend or death | `MergesTouchOnlyTheirKeys`, `ReturnedMeansMerged`, `EveryRefusalIsAWrite` |
| EventChain | all links over 3 keys, counts and limits up to 3 or no limit, all listings, all choices of events too old | `EventsAreWholeOrRefused`, `FilteredReadIsTheTail` |
| PagedReads | pages of 2, 3 rows and 2 more during the walk, all choices of malformed rows | `WalkIsComplete` |
| DatasetPush | 2 paths, 2 contents, 2 versions, 2 edits, 1 failure; free or by the example | `PushGapIsExplained`, `ScriptNeverFails` |
| WorkQueue | 2 free callers with 2 calls and 2 references, or the example; 1 call raises | `NoCardBehindALoss`, `ExampleLeavesNothing` |
| Annotations | 2 publishers, each a push or the example; 1 call raises | `RefusedPushHoldsNoJobs`, `SeededJobsHaveChecklists`, `ResidueIsExplained` |
| TokenCache | 2 threads, buffer 1, lifetimes 1 and 2, time up to 4, 3 calls, 1 failed fetch | `FetchIsShared`, `ExpiredTokensAreExplained` |
| ClientCaches | 2 threads, all identities of an organisation, 3 asks | `ImplementsGetOrBuild` |
| Telemetry | 3 inits, 2 steps that raise | `ClosedAgainOnlyAfterARaise`, `ExitLeavesOnlyOrphans`, `TracerIsOpen` |

`DatasetPush_rerun` is a violation run of DatasetPush alone: see Findings.

### Bounds

`MaxEvents` is the code's own `max_events`, made small enough for the limit to
be reached. `MaxAttempts` is the number of attempts of one PUT (3 in the code,
2 in the runs: the second attempt meets the effect of the first, which is all a
third one can meet). `MaxCalls` bounds how often one event is appended,
`MaxPuts` the creates and deletes of a caller, `DeleteRounds` the rounds of
`delete_session` (3 in the code; 2 show both "lost and read again" and "lost
and gave up"), `MaxCancels` and `MaxCrashes` the failures. Two events and two
callers are enough for every race in the code: it always is one writer against
one other whose head PUT came first. The theorems have none of these limits.

In the components the failures are one or two: each property is about what one
failure, late request or rival leaves behind, and the steps after it repeat. Two
threads are enough for a double-checked cache, since a third one only waits as
the second does; three mergers let one lose both its attempts while a third
writes. A lifetime of 1 is a token that never outlives the buffer, one of 2 is
one that does. Two paths are one that a failed push has sent and one that it has
not. Three inits are one that is replaced, one that is shut down and one after
that. `MaxTime`, `MaxTokenCalls`, `MaxAsked`, `MaxQueueCalls`, `MaxEdits`
and `MaxAdded` only end the exploration; the theorems of section
5 are free of them.

In DurableRun, `MaxRuns` bounds the runs of a worker (two show a run and its
resume), `MaxFaults` the errors and deaths, and `MaxLog` the length of the
history: the agent finishes when the log is that long. Four events are message,
pause, answer, final; six leave room for two pauses, or for a step and a late
append. The workers in `Untiring` have no bound on their runs: they stand for
a dispatcher that runs the correlation id until it is done.

That nothing is ever committed to a deleted session is not true of this code.
An append that committed, lost its response and was overtaken by a delete finds
its own key in the tombstone, takes the tombstone for its commit and remembers
it; its caller's next append finds the version of its copy remembered and does
not look at `deleted`. `TombstoneIsFinal` says that this is the only way: whoever
commits to a deleted session is a caller one of whose own appends, made while
the session lived, was answered with the tombstone (`TookTombstone`). `lifecycle`
reaches the exception through an append that gave up and is called again, and
with resends there are more ways to it, which the theorem covers. No document
says that an append to a deleted session is always refused, so this is listed as
a hazard, not as a finding.

Creating is explored by `one_process`, deleting in two rounds by `lifecycle`. A
delete that waits for a commit which its own process left in flight, after a
cancellation, is in no run; the theorems cover it.

### Fairness

`FairSpec` assumes weak fairness of the steps of each commit task (`TaskStep`:
every request runs in a thread, `asyncio.to_thread`, and is bounded by the
timeouts and the attempts of `requests`, so `GiveUp` is always possible) and of
each suspended caller (`CallerStep`: the event loop runs a coroutine that can
run). It assumes nothing of the vault, which may never apply a request, nor of
anyone who starts an operation, cancels or crashes. `LoopSpec` (CheckpointLoop)
restricts the schedule instead: before anything else happens, the first of those
whose task ended goes on, then the next. It makes the counterexample of
`two_in_flight` one that asyncio produces.

In DurableRun, `FairSpec` assumes weak fairness of every worker's steps (each
await is bounded, and `Fault` is always possible but never assumed), strong
fairness of starting a run for the untiring workers (the dispatcher's part:
`docs/adk_sessions.md:106-107` counts on a later run), and weak
fairness of "answered or expired" for each request (comand's background job
expires what nobody answers). `Recovers` needs no more.

The components have no liveness property: their loops are bounded in the code
and every call of theirs is bounded by the transport's timeout, so that they end
is the shape of the code and not a matter of fairness.

Deadlock is not checked in the instances that end by design: events, calls and
creations are bounded and a finished system has nothing left to do.

## 5. The proofs

`CheckpointProofs` proves `TypeCorrect`: `Spec => []TypeOK`, for any callers,
services, events and bounds. The interesting part is that the numbers of events
stay within `1..MaxEvents`, which needs that an append is registered only below
the limit and that its snapshot does not change afterwards.

`CheckpointSafety` proves, for callers that append only to copies they loaded
(`AppendListed = FALSE`; the run `append_listed` shows what happens otherwise):

| theorem | property |
|---|---|
| `Invariant` | `IInv`, the first half of `FullInv` |
| `ChainIsIntact` | `ChainIntact` |
| `NoUpdateIsLost` | `NoLostUpdate` |
| `EventsAreCommittedOnce` | `CommittedOnce` |
| `SuccessMeansCommitted` | `SuccessIsCommitted` |
| `ChainIsFound` | `ReadsFindTheChain` |

None of these properties is inductive. Their common reason is that *a version
number determines a head*: the vault only replaces the head by a conditional
PUT, so `versions[v]` is the one head that ever had version v
(`VersionsAreHeads`). Every snapshot held anywhere, in a cache, a suspended
operation, a task or a request, is that head (`SnapshotsAreGenuine`,
`HeadPutsAreOnSnapshots`), so a head PUT whose precondition holds is built on
the current head, whoever sent it and whenever it arrives. A record in the
vault is what its append wrote (`RecordsAreOfAppends`) and a head is sent only
after its record is stored (`TasksAreWhereTheyAre`), hence the chain is whole.
An event committed twice would have been committed on the same base version
twice, but a commit moves the head past its base (`CommitsAreOnSnapshots`).

`CheckpointContent` goes on, under the same assumption, with what the copies
hold:

| theorem | property |
|---|---|
| `FullInvariant` | `FullInv` |
| `CommitsAreOnWhatWasSeen` | `CommittedOnWhatWasSeen` |
| `CurrentIsTrue` | `CurrentCopiesAreTrue` |
| `HistoryIsKept` | `HistoryKept` |
| `TombstonesAreFinal` | `TombstoneIsFinal` |
| `Implements` | `ImplementsSessionLog` |

The second half of the invariant (`CopiesAreHistory`, `AppendsAreSingle`) says
that a copy with marker v holds the first `versions[v].count` events of the log,
`Upto` that number, and so does every copy that an operation or a task has taken
along. It is `get_session` that could break it: between its read of the head and
its reads of the records others commit, and the vault holds the records of
appends that lost. `_read_all` follows `prev_key` from the head's last key, so it
returns *a* chain of the head's length; that this is the history
(`ChainsAreHistory`) is shown on the greatest position where chain and log
differ: one above they agree, so the record there is one record, and it names
the key below. `HistoryIsKept` follows action by action, since only one step of
the vault changes head and log.

The last part of the invariant is about who may hold a tombstone. A caller has
the version of a deleted head, or has begun an append on one, only if an earlier
append of its own was answered with the tombstone (`TombstonesAreGiven`). That
answer has to stay an explanation: if the caller could call the same append
again, the task would start anew and its answer be forgotten. It cannot, since
what it has loaded since is later than what that append was called on
(`LeftBehind`), which in turn needs that a commit leaves a later version than it
was called on (`ResultsAreLater`) and that the task of an append belongs to the
caller that is in it (`AppendsAreOwned`). `get_session` and a fresh read refuse a
tombstone, so a snapshot of one comes from the service's cache or from such an
answer, and the cache is used only by who already has its version.

The refinement maps the head to SessionLog's status and the phase of each task
to its event's answer. A head PUT of an event that the vault takes is `Commit`,
registering a task is `Submit`, the task's noticing (by the reply, or by the
re-read that finds its own key) is `Acknowledge`, losing and giving up are
`Fail`; creating and deleting are `Create` and `Delete`; all other steps stutter.
A crash makes every task of a process fail at once, so `Fail` takes a set of
events. The hard step is `Commit`, which needs that the log is exactly what the
caller had seen when it appended, however long the PUT was on its way.
SessionLog lets a failed append be committed later: the code promises no more.

`DurableRunProofs` proves of DurableRun, for any workers, calls and bounds:

| theorem | property |
|---|---|
| `DurableInvariant` | `IInv` |
| `FailuresAreExplained` | `FailureIsExplained` |
| `OnlyHumanAnswers` | `AnswersAreHuman` |
| `AwaitedAreRequested` | `AwaitedCallsAreRequested` |
| `CompletedByOne` | `CompletedIsFinished`, for one worker |

A worker acts on what it listed some awaits ago, so the properties only hold
because comand withdraws neither a request nor an answer: a listing, however
old, shows no more than there is (`ListingsAreTrue`). What a worker carries
from there to the append is a set of answered calls (`JobsAreRight`), also when
the append takes effect after the worker died (`LateAnswersAreHuman`). A worker
between two requests has still on its list every pending call that has none,
and one about to post FAILED has written the record. The lemmas `GotoKeeps`,
`WorkKeeps` and `EndKeeps` carry most steps: they say what a step that only
moves one worker preserves. `Grows` carries the steps of requests.

`DurableTypes` states the type invariant on its own.

`CompletedByOne` assumes that one worker runs the session, as often as it likes
and with any failures between (`Worker = {w}`): that two workers can complete an
unfinished run is the finding `completed_early`, so the assumption is needed.
Even one worker has a rival, its own past: an append that it gave up on may be
served during a later attempt. The invariant `LoneInv` says that either the log
is the history that the worker has before it, or a late append is still to come
whose base is that history. A pause that the agent emits has calls that were
never answered, so the worker that drives past its end finds them pending and
waits; a history without pending calls that the run has come to the end of has a
final event (`Ends`).

The components' proofs are for any sets of threads, events, keys, rows, paths,
callers and publishers and any bounds.

| module | theorems | properties |
|---|---|---|
| `ScopedStateProofs` | `OnlyTheirKeys`, `ReturnsMerged`, `RefusalsAreWrites` | `MergesTouchOnlyTheirKeys`, `ReturnedMeansMerged`, `EveryRefusalIsAWrite` |
| `ReadProofs` (EventChain) | `FullReadsAreWhole`, `FilteredReadsAreTails` | `EventsAreWholeOrRefused`, `FilteredReadIsTheTail` |
| `ReadProofs` (PagedReads) | `WalksAreComplete` | `WalkIsComplete` |
| `DelegatesProofs` (WorkQueue) | `LossesLeaveNoCard`, `ExampleEndsClean` | `NoCardBehindALoss`, `ExampleLeavesNothing` |
| `DelegatesProofs` (Annotations) | `RefusalsHoldNoJobs`, `ChecklistsFollowTheSpec`, `ResidueHasAReason` | `RefusedPushHoldsNoJobs`, `SeededJobsHaveChecklists`, `ResidueIsExplained` |
| `DelegatesProofs` (DatasetPush) | `GapsAreExplained`, `TheScriptPasses` | `PushGapIsExplained`, `ScriptNeverFails` |
| `ClientProofs` (ClientCaches) | `CachesImplement` | `ImplementsGetOrBuild` |
| `ClientProofs` (TokenCache) | `OneFetchAtATime`, `ExpiryIsExplained` | `FetchIsShared`, `ExpiredTokensAreExplained` |
| `ClientProofs` (Telemetry) | `NeverClosedTwice`, `TracersAreOpen`, `ExitIsClean` | `ClosedAgainOnlyAfterARaise`, `TracerIsOpen`, `ExitLeavesOnlyOrphans` |

- *ScopedState* (`ScopedInv`): a PUT anywhere is either of the record's past, and
  will be refused, or it is the overlay of the record as it is now. Versions only
  grow, so a PUT of the past stays one, and a PUT of the present becomes one with
  the first write. A merger's count of refusals is bounded by how far the version
  has come since it began.
- *ClientCaches* (`CacheInv`): a lock has at most one holder, and while its holder
  builds, the slot is still empty. With that each step of a thread is a step of
  GetOrBuild: looking and locking stutter, building is `Build`, finding is `Reuse`.
  A slot is never emptied, so what the unlocked look found is still the instance.
- *TokenCache* (`TokenInv`): a token looked at without the lock outlives the buffer
  at that moment; what replaces it before it is taken was minted after the look.
  A thread that fetches holds the lock, and the cached token is expired as long as
  it does, since time only goes on.
- *EventChain* (`ChainInv`): what was read is linked from the head on, without
  a record twice, and is a beginning of every chain that the head may stand for;
  so there is one such chain at most. A repeated key ends the walk (a cycle),
  and so does the head's count (a record too many). A walk that returned while it
  still wanted a record did so at one that is too old (`ChainEnd`), and none of
  those kept is.
- *PagedReads* (`PagedInv`): rows are only ever added, anywhere among the others,
  so a row that was there at the start only moves towards the end: it is on a page
  still to come, or was received. The walk must not take a page for the last one
  because some of its rows did not parse.
- *WorkQueue* (`WqInv`): one request per call at most (POST is sent once); the
  request that made a card has been served, hence is not on its way, hence no
  caller waits for it; an answer that a claim is lost is given by the request
  itself, which then makes no card. The example (`ScriptInv`): until a call other
  than its publication raises, the cards on the server (`Held`) and the cards that
  it remembers (`NotedAt`) are functions of the line that is next, and a request
  that is still on its way is the publication, which changes no card. The lemmas
  `CreatesAnswer` to `OthersAnswer` show, line by line, that the server's answer is
  the one asserted. Once a call has raised, only the clean-up runs, and a deletion
  is answered or raises but is never asserted to be anything else.
- *Annotations* (`AnnInv`): for each publisher, where it is in its plan, which of
  its batches can exist and in which status, and what it knows of the
  specifications (`PlanIsRight`, `BatchesAreRight`, `SpecsAreRight`). An ACTIVE
  batch is at every moment remembered, passed over by the teardown, or the one
  that the publisher is at. Publishers
  share only the list of specifications, which grows, so a step of one keeps
  what holds of another (`OthersStay`).
- *DatasetPush* (`DsInv`): the manifest is the newest version wherever nothing is
  astray (`ManifestIsNewest`), which a push breaks at the paths it sends, one by
  one, and restores when it writes the manifest (`PushIsNewest`); a path that a
  stopped push has sent, or a late upload may still hit, is astray. The example
  needs besides that its tree differs from the manifest at its own file only
  (`ScriptTree`).
- *Telemetry* (`TelemetryInv`): what is held, and what the tracer is of, was never
  closed unless its own `shutdown()` raised (`HeldAreOpen`, `TracerUntilDropped`);
  whatever is open is held or an orphan, and whoever holds something has a hook to
  come, a shutdown running, or one that was cut short (`NothingForgotten`).

The assumptions are those of the modules: `BoundsAssumption` and
`NamesAssumption` of Checkpoint, `DurableAssumption` (the bounds of DurableRun
are numbers, its flags Boolean), `TokenAssumption` (the buffer and the lifetimes
are natural numbers and no thread is the lock's "none"),
`TelemetryAssumption` (two bounds are natural numbers), `ChainAssumption` (the
greatest count is a number; "no limit" and "no key" are neither number nor key),
`PagedAssumption` (a page has a row; two bounds are numbers), and
`DatasetAssumption` (there is a version, and "no file" is no content). ScopedState, WorkQueue, Annotations and
ClientCaches need none.

Only model-checked: `OperationsEnd` and `Recovers`. Liveness under fairness is
beyond the prover. Every other property of a passing run is a theorem.

## 6. Findings

- **A stale append may be visible** (`stale_visible`). `_commit` decides after
  a refused head PUT by comparing the *last* key of the head with its own. If
  the first attempt was applied, its response was lost, and another writer
  appended before the resend, the append is answered `StaleSessionError`
  although its event is committed. `_store.py:13-15`, `:228` and
  `docs/adk_sessions.md:79-80` say that such a writer changed nothing visible.
- **Two commits in flight** (`two_in_flight`). `_settle` and `append_event` pop
  the in-flight entry by session id, not by task. Two operations wait for the
  commit of a cancelled caller; when it ends, the first to go on is an append,
  which pops the entry and registers its own task; then the second goes on, and
  its `finally` (`_store.py:142`) finds the old task done and pops the new one.
  The next append does not wait and starts a second commit.
  `_store.py:17-19` says that it waits. The version precondition keeps the log
  safe all the same: `one_process` and the theorems cover these interleavings.
- **Appending to a listed copy erases state** (`append_listed`). A `Session`
  from `list_sessions` has no marker, so `_snapshot_for` skips the version
  check and the copy's empty state is committed. `_store.py:224` and
  `session_service.py:290-291` say otherwise.
- **An answer may be injected twice** (`answer_twice`). `_continue` looks for
  the committed answer in the session it loaded; `run_async` loads the session
  again and appends the answers to whatever it finds. Two resumes that decide
  before either has appended both append, one after the other, and neither is
  stale. `durable.py:20-21` and `docs/adk_sessions.md:130` say that the answer
  is injected once.
- **A run may be completed while it is running** (`completed_early`). `_drive`
  completes a run whose reloaded history has no pending call. If the run was
  paused, answered and resumed by others in between, that history is not
  finished; the result is COMPLETED without a final text (`durable.py:7`,
  `docs/adk_sessions.md:101`).
- **A push that is repeated may leave the draft different** (`DatasetPush_rerun`).
  A push that fails after an upload has not written the manifest. If the user
  undoes the edit before pushing again, tree and manifest agree, `push` sends
  nothing, and the draft keeps the file. `datasets_client.py:302` says that a
  failed push is safe to re-run. `PushGapIsExplained` says where, at most, such
  differences can be.

Seen while modelling, without a run:

- A session is registered before its head is created. A second run in between,
  and every run after a crash in between, raises `SessionNotFound`, which
  `durable.py:222` says means deleted. DurableRun has the behaviour (`Register`,
  `CreateHead`, `not_found`).
- A worker that is slow to create the requests of a pause can set a run that
  others have finished back to AWAITING_INPUT, where no later run gets on
  (`durable.py:272`, `:350-352`). That comand lets a create reopen a terminal
  session is known only from the fake.
- `create_head` does not read back after a 409, though
  `session_vault_client.py:195-196` tells callers to; a create whose response was
  lost and which was resent is answered `AlreadyExistsError` by its own first
  attempt.
- `auth_hooks.py:7-10` says that a hook never sends an expired token. When the
  refresh fails the hook leaves the header alone, so an exporter sends the token
  it was built with; and a delegate's resend reuses the header of its first
  attempt. `ExpiredTokensAreExplained` names exactly these cases.
- `docs/annotations.md:424` says that a push which dies on the upload leg leaves
  an empty DRAFT batch. If the connection breaks after the server has taken the
  graph, the batch is ACTIVE with jobs; `RefusedPushHoldsNoJobs` is about a
  status, not about a lost answer.
- Two runs of `quick_annotations.py` that both find no specification both create
  one, and the second fails the assertion at line 118. `ResidueIsExplained`
  admits this case only.
- `_archive_batch` (`quick_annotations.py:74-80`) does not look at the response,
  and its callers (`:274-275`) go on: a batch that the server refuses to archive
  stays ACTIVE with its jobs, and the example reports that all steps passed.
- A claim that raised may have made its card. If the caller claims again, it is
  told that it lost, to a card of its own; `ExistingItemSummary` does not say who
  made it, so the client cannot tell (`work_queue_client.py:139`).
- `quick_work_queue.py` says that items are torn down unconditionally. Its
  clean-up deletes A and B only; after a step that failed, the cards C, D and the
  rival, and a card made by a call that raised, go only if the server deletes
  them with their queue, of which the SDK knows nothing.
- `quick_dataset_draft_push_publish.py` says that the new version's content equals
  the previous one. A run that dies between its push and its second push leaves
  the added file in the draft, which the next run clones, takes for the dataset's
  own and publishes.
- A second `init` without a `shutdown` in between drops the references to the
  first providers and handler; nothing closes or detaches them
  (`bootstrap.py:328`). So it is with the providers of an init that fails before
  it keeps them (`bootstrap.py:256-262`). `ExitLeavesOnlyOrphans` admits these
  only.
- `bootstrap.py:266-268` and `:331-333` say that an explicit shutdown and the exit
  hook never close a provider twice. When a provider's `shutdown()` raises after it
  took effect, the reference is not cleared (`:339`, `:342`), so the next shutdown
  or the hook closes it again, and until then `_tracer` is that of a closed
  provider. `ClosedAgainOnlyAfterARaise` and `TracerIsOpen` name exactly this case.

## 7. Not modelled

- Files, prompts, rules, ontology and datasource clients, the gateway's data
  transfer objects: one request per call, nothing kept between calls, no order
  to get wrong.
- Of the clients that are modelled: the checks of names, sizes and fields that
  raise before any request; plain reads (`list_*`, and reading jobs back under a
  revision, which the documents leave to the caller); texts, logging, PHI
  redaction.
- Two threads in one `shutdown`: `Observability` has no lock of its own, and
  nothing in the SDK calls it from two threads.
- Operations of the control-plane session delegates that the runner does not use
  (templates, archiving, responding).
- Tests and fakes. The fakes (`agency_sdk/test/adk_fakes.py`) were read as the
  contract of the control plane, which is not part of the repository. Of the
  examples, those of datasets, the work queue and annotations are modelled; the
  others are straight sequences of calls.
