-------------------------- MODULE CheckpointProps --------------------------
(***************************************************************************)
(* What Checkpoint must guarantee.                                         *)
(***************************************************************************)
EXTENDS Checkpoint

EventPuts == [by : EventId, key : Key, prev : Key \cup {NoKey},
              call : Nat, try : Nat]
HeadPuts == [by : EventId \cup Caller, call : Nat, try : Nat, ver : Nat,
             body : Snapshot]
Args == [by : Caller \cup {NoEvent}, base : Snapshot, state : SUBSET EventId,
         seen : Seq(EventId)]
Op == [pc : PC, event : EventId \cup {NoEvent}, waits : EventId \cup {NoEvent},
       snap : Snapshot, round : Nat]

\* Every variable has its type.
TypeOK ==
  /\ head \in Snapshot
  /\ records \in SUBSET [key : Key, prev : Key \cup {NoKey}]
  /\ eventPuts \in SUBSET EventPuts
  /\ headPuts \in SUBSET HeadPuts
  /\ log \in Seq(EventId)
  /\ versions \in Seq(Snapshot)
  /\ phase \in [EventId -> Phase]
  /\ args \in [EventId -> Args]
  /\ attempt \in [EventId -> Attempt]
  /\ result \in [EventId -> Snapshot]
  /\ heads \in [Service -> Snapshot]
  /\ inflight \in [Service -> EventId \cup {NoEvent}]
  /\ copy \in [Caller -> Copy]
  /\ op \in [Caller -> Op]
  /\ put \in [Caller -> Attempt]
  /\ cancels \in Nat /\ crashes \in Nat

Prev(s, i) == IF i = 1 THEN NoKey ELSE <<i - 1, s[i - 1]>>

\* The head names the last committed event and their number, and every
\* committed event has a record linked to the one committed before it:
\* orphans of lost races, late duplicates, retries and crashes between the
\* two PUTs never break the chain.
ChainIntact ==
  /\ head.count = Len(log)
  /\ head.last = IF log = <<>> THEN NoKey ELSE <<Len(log), log[Len(log)]>>
  /\ \A i \in DOMAIN log :
       [key |-> <<i, log[i]>>, prev |-> Prev(log, i)] \in records

\* The head's session state includes the delta of every committed event and
\* of no other: no append overwrites the state of an append it did not see,
\* and no orphan's delta leaks in.
NoLostUpdate == head.state = ToSet(log)

\* However often an append is sent, resent or retried, its event is committed
\* once at most.
CommittedOnce == \A i, j \in DOMAIN log : log[i] = log[j] => i = j

\* An event is committed on top of exactly the events its caller had seen.
CommittedOnWhatWasSeen ==
  \A i \in DOMAIN log : args[log[i]].seen = SubSeq(log, 1, i - 1)

\* append_event returns only after its event is in the log, and the snapshot
\* it returns, which becomes the caller's marker, has the event as its last.
SuccessIsCommitted ==
  \A e \in EventId : phase[e] = "committed" =>
    /\ e \in ToSet(log)
    /\ result[e].last = KeyOf(e)
    /\ log[result[e].count] = e

\* What a caller or a service still takes for the current version is the
\* current content: a copy whose marker is the head's version holds all the
\* committed events and their state, and a remembered head of that version
\* is the head.
CurrentCopiesAreTrue ==
  /\ \A c \in Caller : copy[c].marker = head.version /\ head.version # 0 =>
       copy[c].events = log /\ copy[c].state = head.state
  /\ \A s \in Service : heads[s].version = head.version => heads[s] = head

\* get_session never finds a broken chain, whatever is committed, orphaned or
\* deleted between its read of the head and its reads of the events.
ReadsFindTheChain ==
  \A c \in Caller : op[c].pc = "get_events" => Chain(op[c].snap) # {}

\* The committed history only grows, event records are never rewritten or
\* removed, the head's version only rises, and a tombstone stays.
HistoryKept ==
  [][/\ IsPrefix(log, log')
     /\ records \subseteq records'
     /\ head'.version >= head.version
     /\ head' # head => head'.version > head.version
     /\ head.deleted => head'.deleted]_vars

\* An append to the live session that was answered with its tombstone: the
\* answer to its commit was lost, and a deleted head still names its event
\* (_store.py:286-289).
TookTombstone(e) ==
  phase[e] = "committed" /\ result[e].deleted /\ ~args[e].base.deleted

\* Nothing is committed to a deleted session, by any caller but one that was
\* given the tombstone as the outcome of an earlier append of its own:
\* append_event does not look at the deleted flag of a remembered head.
TombstoneIsFinal ==
  [][head.deleted /\ log' # log =>
       \E e \in EventId :
         TookTombstone(e) /\ args[e].by = args[log'[Len(log')]].by]_vars

\* Checkpoint implements the abstract session log.
AbstractAnswer(e) ==
  CASE phase[e] = "new" -> "new"
    [] phase[e] \in Active -> "pending"
    [] phase[e] = "committed" -> "committed"
    [] OTHER -> "failed"

Abstract ==
  INSTANCE SessionLog WITH
    status <- IF head.version = 0 THEN "absent"
              ELSE IF head.deleted THEN "deleted" ELSE "live",
    seen <- [e \in EventId |-> args[e].seen],
    answer <- [e \in EventId |-> AbstractAnswer(e)]

ImplementsSessionLog == Abstract!Spec

\* Every operation ends: no caller waits for ever for a commit another caller
\* left in flight, whatever is lost, cancelled or crashed.
OperationsEnd ==
  \A c \in Caller : op[c].pc # "idle" ~> op[c].pc = "idle"

-----------------------------------------------------------------------------
(* What the documentation says and the code does not keep.                 *)

\* A writer that gets StaleSessionError has changed nothing visible
\* (_store.py:13-15, _store.py:228, docs/adk_sessions.md:79-80).
StaleMeansInvisible ==
  \A e \in EventId : phase[e] = "stale" => e \notin ToSet(log)

\* The next operation on a session waits for the write in flight, so that a
\* service never has two commits of one session in flight (_store.py:17-19).
OneCommitInFlight ==
  \A e, f \in EventId :
    /\ phase[e] \in Active /\ phase[f] \in Active
    /\ ServiceOf[args[e].by] = ServiceOf[args[f].by]
    => e = f
=============================================================================
