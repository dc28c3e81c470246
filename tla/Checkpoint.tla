----------------------------- MODULE Checkpoint -----------------------------
(***************************************************************************)
(* One ADK session kept in the GTS session vault, and every caller of the  *)
(* session services that read, append to, create or delete it              *)
(* (adk/session_service.py, adk/_store.py over delegates/                  *)
(* session_vault_client.py and base_client.py).                            *)
(*                                                                         *)
(* A checkpoint is two conditional PUTs: the event record (if_absent),     *)
(* then the session head (if_version), the only commit point.  Each PUT is *)
(* a message the vault takes once, in any order, perhaps long after its    *)
(* sender stopped waiting; a connection error makes the transport send it  *)
(* again, whether or not the earlier attempt was (or will be) applied.     *)
(*                                                                         *)
(* A Service is one GtsSessionService with its VaultStore in one event     *)
(* loop: its cache of heads and its table of in-flight commits are shared  *)
(* by the Callers it serves, each of which runs one operation at a time on *)
(* its own copy of the session.                                            *)
(***************************************************************************)
EXTENDS Naturals, SequencesExt

CONSTANTS
  EventId,        \* ids of the events that may be appended
  Caller,         \* coroutines that use the session, each with its own copy
  Service,        \* session services, each in its own process
  ServiceOf,      \* the service a caller uses
  NoEvent,        \* stands for "no event"
  MaxEvents,      \* VaultLimits.max_events
  MaxAttempts,    \* attempts of one PUT: len(_TRANSPORT_RETRY_WAITS) + 1
  MaxCalls,       \* bound: calls of append_event with one event
  Creators,       \* the callers that create the session; if there is none it
                  \* exists from the start
  Deleters,       \* the callers that delete it
  MaxPuts,        \* bound: head PUTs of one caller outside append_event
  DeleteRounds,   \* rounds delete_session tries before it gives up
  MaxCancels,     \* bound: cancelled operations
  MaxCrashes,     \* bound: crashes of a process
  AppendListed    \* do callers append to copies got from list_sessions?

ASSUME BoundsAssumption ==
  /\ MaxEvents \in Nat /\ MaxAttempts \in Nat \ {0} /\ MaxCalls \in Nat
  /\ MaxPuts \in Nat /\ DeleteRounds \in Nat \ {0}
  /\ MaxCancels \in Nat /\ MaxCrashes \in Nat
  /\ AppendListed \in BOOLEAN

ASSUME NamesAssumption ==
  /\ ServiceOf \in [Caller -> Service]
  /\ NoEvent \notin EventId
  /\ EventId \cap Caller = {}
  /\ Creators \subseteq Caller /\ Deleters \subseteq Caller

\* The vault key of event number n (event_key): the number, then the id.
Key == (1..MaxEvents) \X EventId
NoKey == <<0, NoEvent>>

\* A head with its vault version (HeadSnapshot); version 0 is "no head".
\* state is the set of events whose session-scoped deltas it includes.
Snapshot ==
  [version : Nat, count : Nat, last : Key \cup {NoKey},
   state : SUBSET EventId, deleted : BOOLEAN]
NoHead ==
  [version |-> 0, count |-> 0, last |-> NoKey, state |-> {}, deleted |-> FALSE]
AtVersion(s, v) ==
  [version |-> v, count |-> s.count, last |-> s.last, state |-> s.state,
   deleted |-> s.deleted]
FirstHead == AtVersion(NoHead, 1)
Tombstone(s) ==
  [version |-> s.version, count |-> s.count, last |-> s.last,
   state |-> s.state, deleted |-> TRUE]

\* A caller's Session object: its storage marker (0 is None), the events and
\* the session-scoped state it holds.
Copy == [marker : Nat, events : Seq(EventId), state : SUBSET EventId]
NoCopy == [marker |-> 0, events |-> <<>>, state |-> {}]

\* A PUT in progress: the call it belongs to, the attempt it is at (0 before
\* the first) and what that attempt was answered.
Attempt == [call : Nat, try : Nat, reply : {"none", "ok", "conflict"}]
Try(call, n) == [call |-> call, try |-> n, reply |-> "none"]
Replied(t, reply) == [call |-> t.call, try |-> t.try, reply |-> reply]
NoAttempt == Try(0, 0)

Active == {"event_put", "event_get", "head_put", "head_get"}
Phase == Active \cup {"new", "committed", "stale", "unavailable", "dead"}

Reading == {"create_read", "get_read", "append_read", "delete_read"}
Putting == {"create_put", "delete_put"}
PC == Reading \cup Putting
        \cup {"idle", "get_events", "append_settle", "append_wait"}

VARIABLES
  \* the vault
  head,        \* the session head
  records,     \* the event records, each a key and the key before it
  eventPuts,   \* PUTs of event records on their way
  headPuts,    \* PUTs of the head on their way
  log,         \* history: the events committed, in commit order
  versions,    \* history: every head there has been; versions[v] had version v
  \* the commit tasks, one per event (_commit)
  phase,       \* where the task of an event is
  args,        \* what append_event was called with
  attempt,     \* its current PUT
  result,      \* the snapshot it returned
  \* the services
  heads,       \* _heads: the snapshot each service remembers
  inflight,    \* _inflight: the task each service remembers
  \* the callers
  copy,        \* the session copy of each caller
  op,          \* the operation each caller is in
  put,         \* its current PUT, when it is not an append
  \* counters that only bound the model
  cancels, crashes

historyVars == <<log, versions>>
vaultVars == <<head, records, eventPuts, headPuts, historyVars>>
taskVars == <<phase, args, attempt, result>>
serviceVars == <<heads, inflight>>
callerVars == <<copy, op, put>>
boundVars == <<cancels, crashes>>
vars == <<vaultVars, taskVars, serviceVars, callerVars, boundVars>>

Idle ==
  [pc |-> "idle", event |-> NoEvent, waits |-> NoEvent, snap |-> NoHead,
   round |-> 0]

Init ==
  /\ head = IF Creators = {} THEN FirstHead ELSE NoHead
  /\ records = {} /\ eventPuts = {} /\ headPuts = {}
  /\ log = <<>>
  /\ versions = IF Creators = {} THEN <<FirstHead>> ELSE <<>>
  /\ phase = [e \in EventId |-> "new"]
  /\ args = [e \in EventId |->
               [by |-> NoEvent, base |-> NoHead, state |-> {}, seen |-> <<>>]]
  /\ attempt = [e \in EventId |-> NoAttempt]
  /\ result = [e \in EventId |-> NoHead]
  /\ heads = [s \in Service |-> NoHead]
  /\ inflight = [s \in Service |-> NoEvent]
  /\ copy = [c \in Caller |-> NoCopy]
  /\ op = [c \in Caller |-> Idle]
  /\ put = [c \in Caller |-> NoAttempt]
  /\ cancels = 0 /\ crashes = 0

-----------------------------------------------------------------------------
(* What append_event writes for event e, from the arguments of the call.   *)

\* Mutant: the events are numbered from 0.
KeyForFromZero(e, snap) == <<snap.count, e>>

KeyFor(e, snap) == <<snap.count + 1, e>>
KeyOf(e) == KeyFor(e, args[e].base)

NewHead(e) ==
  [version |-> args[e].base.version + 1, count |-> args[e].base.count + 1,
   last |-> KeyOf(e), state |-> args[e].state,
   deleted |-> args[e].base.deleted]

\* Mutant: the record does not name the one before it.
EventPutUnlinked(e, snap, call, try) ==
  [by |-> e, key |-> KeyFor(e, snap), prev |-> NoKey,
   call |-> call, try |-> try]

EventPut(e, snap, call, try) ==
  [by |-> e, key |-> KeyFor(e, snap), prev |-> snap.last,
   call |-> call, try |-> try]

\* ver is the if_version precondition; 0 is if_absent.
HeadPut(who, call, try, ver, body) ==
  [by |-> who, call |-> call, try |-> try, ver |-> ver, body |-> body]

\* Mutant: each attempt is conditional on the version the head has by then.
CommitPutRefreshed(e, try) ==
  HeadPut(e, attempt[e].call, try, head.version, NewHead(e))

CommitPut(e, try) ==
  HeadPut(e, attempt[e].call, try, args[e].base.version, NewHead(e))

-----------------------------------------------------------------------------
(* The vault takes a request.  Its answer reaches a sender that still      *)
(* waits for this attempt; Resend and GiveUp may still lose the answer.    *)

Awaits(m, leg) ==
  /\ phase[m.by] = leg
  /\ attempt[m.by].call = m.call
  /\ attempt[m.by].try = m.try

Answer(held) == IF held THEN "ok" ELSE "conflict"

VaultTakesEvent(m) ==
  LET absent == \A r \in records : r.key # m.key
  IN  /\ eventPuts' = eventPuts \ {m}
      /\ records' = IF absent
                      THEN records \cup {[key |-> m.key, prev |-> m.prev]}
                      ELSE records
      /\ attempt' = IF Awaits(m, "event_put")
                    THEN [attempt EXCEPT ![m.by] = Replied(@, Answer(absent))]
                    ELSE attempt
      /\ UNCHANGED <<head, headPuts, historyVars, phase, args, result,
                     serviceVars, callerVars, boundVars>>

VaultTakesHead(m) ==
  LET holds == head.version = m.ver
  IN  /\ headPuts' = headPuts \ {m}
      /\ head' = IF holds THEN AtVersion(m.body, head.version + 1) ELSE head
      /\ log' = IF holds /\ m.by \in EventId THEN Append(log, m.by) ELSE log
      /\ versions' = IF holds THEN Append(versions, head') ELSE versions
      /\ attempt' = IF m.by \in EventId /\ Awaits(m, "head_put")
                    THEN [attempt EXCEPT ![m.by] = Replied(@, Answer(holds))]
                    ELSE attempt
      /\ put' = IF /\ m.by \in Caller
                   /\ op[m.by].pc \in Putting
                   /\ put[m.by].call = m.call /\ put[m.by].try = m.try
                  THEN [put EXCEPT ![m.by] = Replied(@, Answer(holds))]
                  ELSE put
      /\ UNCHANGED <<records, eventPuts, phase, args, result, serviceVars,
                     copy, op, boundVars>>

-----------------------------------------------------------------------------
(* The shielded commit task of event e (_commit).                          *)

\* Both PUTs start their attempts anew.
StartHeadPut(e) ==
  /\ phase' = [phase EXCEPT ![e] = "head_put"]
  /\ attempt' = [attempt EXCEPT ![e] = Try(@.call, 1)]
  /\ headPuts' = headPuts \cup {CommitPut(e, 1)}
  /\ UNCHANGED <<eventPuts, args, result>>

Finish(e, outcome, snap) ==
  /\ phase' = [phase EXCEPT ![e] = outcome]
  /\ result' = [result EXCEPT ![e] = snap]
  /\ attempt' = [attempt EXCEPT ![e] = Try(@.call, 0)]
  /\ UNCHANGED <<eventPuts, headPuts, args>>

EventPutAnswered(e) ==
  /\ phase[e] = "event_put"
  /\ \/ attempt[e].reply = "ok" /\ StartHeadPut(e)
     \/ /\ attempt[e].reply = "conflict"
        /\ phase' = [phase EXCEPT ![e] = "event_get"]
        /\ UNCHANGED <<eventPuts, headPuts, args, attempt, result>>
  /\ UNCHANGED <<head, records, historyVars, serviceVars, callerVars,
                 boundVars>>

\* A 409 after a retry: the slot is ours if the stored event has our id.
EventReread(e) ==
  /\ phase[e] = "event_get"
  /\ IF \E r \in records : r.key = KeyOf(e)
       THEN StartHeadPut(e)
       ELSE Finish(e, "stale", NoHead)
  /\ UNCHANGED <<head, records, historyVars, serviceVars, callerVars,
                 boundVars>>

HeadPutAnswered(e) ==
  /\ phase[e] = "head_put"
  /\ \/ attempt[e].reply = "ok" /\ Finish(e, "committed", NewHead(e))
     \/ /\ attempt[e].reply = "conflict"
        /\ phase' = [phase EXCEPT ![e] = "head_get"]
        /\ UNCHANGED <<eventPuts, headPuts, args, attempt, result>>
  /\ UNCHANGED <<head, records, historyVars, serviceVars, callerVars,
                 boundVars>>

\* Mutant: the commit is taken for ours by the version number.
OursByVersion(e) == head.version = args[e].base.version + 1

Ours(e) == head.version # 0 /\ head.last = KeyOf(e)

\* A 412: ours if the head still names our event, stale otherwise.
HeadReread(e) ==
  /\ phase[e] = "head_get"
  /\ IF Ours(e)
       THEN Finish(e, "committed", head)
       ELSE Finish(e, "stale", NoHead)
  /\ UNCHANGED <<head, records, historyVars, serviceVars, callerVars,
                 boundVars>>

\* A connection error before the last attempt: the same request again.
Resend(e) ==
  /\ phase[e] \in {"event_put", "head_put"}
  /\ attempt[e].try < MaxAttempts
  /\ attempt' = [attempt EXCEPT ![e] = Try(@.call, @.try + 1)]
  /\ IF phase[e] = "event_put"
       THEN /\ eventPuts' = eventPuts \cup {EventPut(e, args[e].base,
                                   attempt[e].call, attempt[e].try + 1)}
            /\ UNCHANGED headPuts
       ELSE /\ headPuts' = headPuts \cup {CommitPut(e, attempt[e].try + 1)}
            /\ UNCHANGED eventPuts
  /\ UNCHANGED <<head, records, historyVars, phase, args, result, serviceVars,
                 callerVars, boundVars>>

\* Mutant: a failed PUT of the event record does not stop the commit.
GiveUpGoesOn(e) ==
  /\ phase[e] \in Active
  /\ IF phase[e] = "event_put" THEN StartHeadPut(e)
                               ELSE Finish(e, "unavailable", NoHead)
  /\ UNCHANGED <<head, records, historyVars, serviceVars, callerVars,
                 boundVars>>

\* Mutant: the PUT of the head has no timeout.
GiveUpExceptHead(e) ==
  /\ phase[e] \in Active \ {"head_put"}
  /\ Finish(e, "unavailable", NoHead)
  /\ UNCHANGED <<head, records, historyVars, serviceVars, callerVars,
                 boundVars>>

\* A read timeout, an HTTP error, or a connection error of the last attempt:
\* VaultUnavailable.  The request may still be applied.
GiveUp(e) ==
  /\ phase[e] \in Active
  /\ Finish(e, "unavailable", NoHead)
  /\ UNCHANGED <<head, records, historyVars, serviceVars, callerVars,
                 boundVars>>

-----------------------------------------------------------------------------
(* Waiting for the write a service has in flight (_settle), and leaving or *)
(* entering the steps of an operation.                                     *)

\* The in-flight task a caller must wait for; a finished one is dropped.
Pending(c) ==
  LET t == inflight[ServiceOf[c]]
  IN  IF t # NoEvent /\ phase[t] \in Active THEN t ELSE NoEvent

Continue(c, pc, event, waits, snap, round) ==
  op' = [op EXCEPT ![c] = [pc |-> pc, event |-> event, waits |-> waits,
                           snap |-> snap, round |-> round]]

\* Go on to a step that first settles: it may run once waits is NoEvent.
Enter(c, pc, event, snap, round) ==
  /\ Continue(c, pc, event, Pending(c), snap, round)
  /\ inflight' = [inflight EXCEPT ![ServiceOf[c]] = Pending(c)]

Leave(c) == op' = [op EXCEPT ![c] = Idle]

At(c, pc) == op[c].pc = pc /\ op[c].waits = NoEvent

\* The task whose end a suspended caller waits for.
Awaited(c) ==
  IF op[c].pc = "append_wait" THEN op[c].event ELSE op[c].waits

Resumable(c) == Awaited(c) # NoEvent /\ phase[Awaited(c)] \notin Active

\* On resuming, whatever task the service remembers is forgotten if the one
\* awaited is done.
PopIfDone(c) ==
  inflight' = IF Resumable(c)
                THEN [inflight EXCEPT ![ServiceOf[c]] = NoEvent]
                ELSE inflight

\* A PUT made by the caller itself; put.try = 0 until it is first sent.
NewPut(c) ==
  put' = [put EXCEPT ![c] = Try(@.call + 1, 0)]

-----------------------------------------------------------------------------
(* append_event                                                            *)

Full(snap) == snap.count >= MaxEvents

\* The store's append_event once settled: start and remember the commit task.
Register(c, e, snap) ==
  IF Full(snap)
    THEN /\ Leave(c)
         /\ inflight' = [inflight EXCEPT ![ServiceOf[c]] = NoEvent]
         /\ UNCHANGED <<eventPuts, taskVars>>
    ELSE /\ Continue(c, "append_wait", e, NoEvent, snap, 0)
         /\ inflight' = [inflight EXCEPT ![ServiceOf[c]] = e]
         /\ phase' = [phase EXCEPT ![e] = "event_put"]
         /\ args' = [args EXCEPT ![e] =
                       [by |-> c, base |-> snap, seen |-> copy[c].events,
                        state |-> copy[c].state \cup {e}]]
         /\ attempt' = [attempt EXCEPT ![e] = Try(@.call + 1, 1)]
         /\ eventPuts' = eventPuts \cup
                           {EventPut(e, snap, attempt[e].call + 1, 1)}
         /\ UNCHANGED result

\* The store's append_event: settle, then register without a pause if there
\* was nothing to wait for.
StoreAppend(c, e, snap) ==
  IF Pending(c) = NoEvent
    THEN Register(c, e, snap)
    ELSE /\ Enter(c, "append_settle", e, snap, 0)
         /\ UNCHANGED <<eventPuts, taskVars>>

\* A new event, or one whose append by the same caller was cancelled or got
\* VaultUnavailable, from a copy that has not been loaded again since.
MayAppend(c, e) ==
  /\ copy[c].marker # 0 \/ AppendListed
  /\ \A d \in Caller : op[d].event # e
  /\ \/ phase[e] = "new"
     \/ /\ phase[e] \in {"unavailable", "committed"}
        /\ args[e].by = c
        /\ args[e].base.version = copy[c].marker
        /\ attempt[e].call < MaxCalls

\* Mutant: any remembered head will do.
CachedAny(c) == heads[ServiceOf[c]].version # 0

Cached(c) ==
  LET cached == heads[ServiceOf[c]]
  IN  cached.version # 0 /\ cached.version = copy[c].marker

\* _snapshot_for: the remembered head if it is the caller's version.
AppendBegin(c, e) ==
  /\ At(c, "idle")
  /\ MayAppend(c, e)
  /\ IF Cached(c)
       THEN StoreAppend(c, e, heads[ServiceOf[c]])
       ELSE /\ Enter(c, "append_read", e, NoHead, 0)
            /\ UNCHANGED <<eventPuts, taskVars>>
  /\ UNCHANGED <<head, records, headPuts, historyVars, heads, copy, put,
                 boundVars>>

\* Mutant: a copy loaded from an earlier version is accepted.
RefusedIfGone(c) == head.version = 0 \/ head.deleted

Refused(c) ==
  \/ head.version = 0 \/ head.deleted
  \/ copy[c].marker # 0 /\ head.version # copy[c].marker

\* _snapshot_for, otherwise: a fresh read, refused if it is not the version
\* of the caller's copy.
AppendRead(c) ==
  /\ At(c, "append_read")
  /\ IF Refused(c)
       THEN Leave(c) /\ UNCHANGED <<heads, inflight, eventPuts, taskVars>>
       ELSE /\ heads' = [heads EXCEPT ![ServiceOf[c]] = head]
            /\ StoreAppend(c, op[c].event, head)
  /\ UNCHANGED <<head, records, headPuts, historyVars, copy, put, boundVars>>

\* The commit task ended: the copy is changed only if it committed.
AppendReturn(c) ==
  LET e == op[c].event
  IN  /\ op[c].pc = "append_wait"
      /\ phase[e] \notin Active
      /\ PopIfDone(c)
      /\ IF phase[e] = "committed"
           THEN /\ heads' = [heads EXCEPT ![ServiceOf[c]] = result[e]]
                /\ copy' = [copy EXCEPT ![c] =
                              [marker |-> result[e].version,
                               events |-> Append(@.events, e),
                               state |-> @.state \cup {e}]]
           ELSE UNCHANGED <<heads, copy>>
      /\ Leave(c)
      /\ UNCHANGED <<vaultVars, taskVars, put, boundVars>>

\* The awaited task of another operation is done.  Whoever waits for a task
\* may go on in any order here, with anything in between; asyncio goes by the
\* order of their callbacks (CheckpointLoop), one of these.
Wake(c) ==
  /\ op[c].waits # NoEvent
  /\ phase[op[c].waits] \notin Active
  /\ IF op[c].pc = "append_settle"
       THEN Register(c, op[c].event, op[c].snap)
       ELSE /\ Continue(c, op[c].pc, op[c].event, NoEvent, op[c].snap,
                        op[c].round)
            /\ PopIfDone(c)
            /\ UNCHANGED <<eventPuts, taskVars>>
  /\ UNCHANGED <<head, records, headPuts, historyVars, heads, copy, put,
                 boundVars>>

-----------------------------------------------------------------------------
(* get_session                                                             *)

\* The events linked by prev_key from h.last, if they are h.count many.
Chain(h) ==
  LET n == h.count
      Paths == [1..n -> {r.key : r \in records}]
      Linked(k) ==
        /\ n > 0 => k[n] = h.last
        /\ \A i \in 1..n :
             [key |-> k[i],
              prev |-> IF i = 1 THEN NoKey ELSE k[i - 1]] \in records
  IN  {[i \in 1..n |-> k[i][2]] : k \in {k \in Paths : Linked(k)}}

GetBegin(c) ==
  /\ At(c, "idle")
  /\ Enter(c, "get_read", NoEvent, NoHead, 0)
  /\ UNCHANGED <<vaultVars, taskVars, heads, copy, put, boundVars>>

\* Mutant: tombstones are not looked at.
VisibleAny == head.version # 0

\* _visible_head
Visible == head.version # 0 /\ ~head.deleted

GetRead(c) ==
  /\ At(c, "get_read")
  /\ IF Visible THEN Enter(c, "get_events", NoEvent, head, 0)
                ELSE Leave(c) /\ UNCHANGED inflight
  /\ UNCHANGED <<vaultVars, taskVars, heads, copy, put, boundVars>>

\* Mutant: the marker is taken from the head as it is after the events.
LoadedLate(snap, events) ==
  [marker |-> head.version, events |-> events, state |-> snap.state]

Loaded(snap, events) ==
  [marker |-> snap.version, events |-> events, state |-> snap.state]

\* The records are written once, so reading them one by one is one read.  A
\* broken chain is a CorruptRecord.
GetEvents(c) ==
  LET snap == op[c].snap
  IN  /\ At(c, "get_events")
      /\ IF Chain(snap) = {}
           THEN UNCHANGED <<copy, heads>>
           ELSE /\ \E events \in Chain(snap) :
                     copy' = [copy EXCEPT ![c] = Loaded(snap, events)]
                /\ heads' = [heads EXCEPT ![ServiceOf[c]] = snap]
      /\ Leave(c)
      /\ UNCHANGED <<vaultVars, taskVars, inflight, put, boundVars>>

-----------------------------------------------------------------------------
(* create_session (adopting a session id) and delete_session               *)

CreateBegin(c) ==
  /\ c \in Creators
  /\ At(c, "idle")
  /\ put[c].call < MaxPuts
  /\ Enter(c, "create_read", NoEvent, NoHead, 0)
  /\ UNCHANGED <<vaultVars, taskVars, heads, copy, put, boundVars>>

CreateRead(c) ==
  /\ At(c, "create_read")
  /\ IF head.version = 0
       THEN Enter(c, "create_put", NoEvent, NoHead, 0) /\ NewPut(c)
       ELSE Leave(c) /\ UNCHANGED <<put, inflight>>
  /\ UNCHANGED <<vaultVars, taskVars, heads, copy, boundVars>>

DeleteBegin(c) ==
  /\ c \in Deleters
  /\ At(c, "idle")
  /\ put[c].call + DeleteRounds <= MaxPuts
  /\ Enter(c, "delete_read", NoEvent, NoHead, 1)
  /\ UNCHANGED <<vaultVars, taskVars, heads, copy, put, boundVars>>

DeleteRead(c) ==
  /\ At(c, "delete_read")
  /\ IF Visible
       THEN Enter(c, "delete_put", NoEvent, head, op[c].round) /\ NewPut(c)
       ELSE Leave(c) /\ UNCHANGED <<put, inflight>>
  /\ UNCHANGED <<vaultVars, taskVars, heads, copy, boundVars>>

\* The head a create or delete writes: an empty one, or the one read with its
\* deleted flag set.
PutBody(c) ==
  IF op[c].pc = "create_put" THEN NoHead
                             ELSE Tombstone(op[c].snap)

\* The first attempt, or another one after a connection error.
PutSend(c) ==
  /\ op[c].pc \in Putting /\ op[c].waits = NoEvent
  /\ put[c].try < MaxAttempts
  /\ put' = [put EXCEPT ![c] = Try(@.call, @.try + 1)]
  /\ headPuts' = headPuts \cup
       {HeadPut(c, put[c].call, put[c].try + 1, op[c].snap.version,
                PutBody(c))}
  /\ UNCHANGED <<head, records, eventPuts, historyVars, taskVars,
                 serviceVars, copy, op, boundVars>>

\* A refused create is AlreadyExistsError; a refused delete reads again.
PutAnswered(c) ==
  /\ \/ /\ op[c].pc = "create_put" /\ put[c].reply = "ok"
        /\ heads' = [heads EXCEPT ![ServiceOf[c]] = FirstHead]
        /\ copy' = [copy EXCEPT ![c] =
                      [marker |-> 1, events |-> <<>>, state |-> {}]]
        /\ Leave(c) /\ UNCHANGED inflight
     \/ /\ op[c].pc = "create_put" /\ put[c].reply = "conflict"
        /\ Leave(c) /\ UNCHANGED <<heads, copy, inflight>>
     \/ /\ op[c].pc = "delete_put" /\ put[c].reply = "ok"
        /\ heads' = [heads EXCEPT ![ServiceOf[c]] = NoHead]
        /\ Leave(c) /\ UNCHANGED <<copy, inflight>>
     \/ /\ op[c].pc = "delete_put" /\ put[c].reply = "conflict"
        /\ IF op[c].round < DeleteRounds
             THEN Enter(c, "delete_read", NoEvent, NoHead, op[c].round + 1)
             ELSE Leave(c) /\ UNCHANGED inflight
        /\ UNCHANGED <<heads, copy>>
  /\ put' = [put EXCEPT ![c] = Try(@.call, 0)]
  /\ UNCHANGED <<vaultVars, taskVars, boundVars>>

-----------------------------------------------------------------------------
(* Failures                                                                *)

\* A read or a PUT of the caller's own is answered VaultUnavailable.
CallFails(c) ==
  /\ \E pc \in Reading \cup Putting \cup {"get_events"} : At(c, pc)
  /\ Leave(c)
  /\ put' = [put EXCEPT ![c] = Try(@.call, 0)]
  /\ UNCHANGED <<vaultVars, taskVars, serviceVars, copy, boundVars>>

\* The caller is cancelled; its commit task, being shielded, goes on.
Cancel(c) ==
  /\ op[c].pc # "idle"
  /\ cancels < MaxCancels
  /\ cancels' = cancels + 1
  /\ PopIfDone(c)
  /\ Leave(c)
  /\ put' = [put EXCEPT ![c] = Try(@.call, 0)]
  /\ UNCHANGED <<vaultVars, taskVars, heads, copy, crashes>>

\* The process of a service dies with all it holds in memory; requests
\* already sent stay on their way.
Crash(s) ==
  LET dies(c) == ServiceOf[c] = s
  IN  /\ crashes < MaxCrashes
      /\ crashes' = crashes + 1
      /\ phase' = [e \in EventId |->
                     IF /\ args[e].by \in Caller /\ dies(args[e].by)
                        /\ phase[e] \in Active \cup {"unavailable"}
                       THEN "dead" ELSE phase[e]]
      /\ heads' = [heads EXCEPT ![s] = NoHead]
      /\ inflight' = [inflight EXCEPT ![s] = NoEvent]
      /\ copy' = [c \in Caller |-> IF dies(c) THEN NoCopy ELSE copy[c]]
      /\ op' = [c \in Caller |-> IF dies(c) THEN Idle ELSE op[c]]
      /\ put' = [c \in Caller |->
                   IF dies(c) THEN Try(put[c].call, 0) ELSE put[c]]
      /\ UNCHANGED <<vaultVars, args, attempt, result, cancels>>

-----------------------------------------------------------------------------
TaskStep(e) ==
  \/ EventPutAnswered(e) \/ EventReread(e) \/ HeadPutAnswered(e)
  \/ HeadReread(e) \/ Resend(e) \/ GiveUp(e)

CallerStep(c) ==
  \/ AppendRead(c) \/ AppendReturn(c) \/ Wake(c) \/ GetRead(c) \/ GetEvents(c)
  \/ CreateRead(c) \/ DeleteRead(c) \/ PutSend(c) \/ PutAnswered(c)
  \/ CallFails(c)

Next ==
  \/ \E m \in eventPuts : VaultTakesEvent(m)
  \/ \E m \in headPuts : VaultTakesHead(m)
  \/ \E e \in EventId : TaskStep(e)
  \/ \E c \in Caller : CallerStep(c) \/ Cancel(c)
  \/ \E c \in Caller, e \in EventId : AppendBegin(c, e)
  \/ \E c \in Caller : GetBegin(c) \/ CreateBegin(c) \/ DeleteBegin(c)
  \/ \E s \in Service : Crash(s)

Spec == Init /\ [][Next]_vars

\* Every request times out, and the event loop runs every coroutine that can
\* run.  Nothing is assumed of the vault or of who starts operations.
Fairness ==
  /\ \A e \in EventId : WF_vars(TaskStep(e))
  /\ \A c \in Caller : WF_vars(CallerStep(c))

FairSpec == Spec /\ Fairness
=============================================================================
