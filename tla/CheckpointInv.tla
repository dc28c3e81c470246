--------------------------- MODULE CheckpointInv ---------------------------
(***************************************************************************)
(* The inductive invariant behind the safety properties of Checkpoint.     *)
(* Its idea: a version number determines a head, because the vault only    *)
(* ever replaces the head by a conditional PUT.  Every snapshot, in a      *)
(* cache, in a suspended operation, in a commit task or in a request on    *)
(* its way, is therefore the one head that had its version, and a PUT      *)
(* whose precondition holds is a PUT on top of the current head.  It is    *)
(* the invariant of callers that append only to copies they loaded         *)
(* (AppendListed = FALSE).                                                 *)
(***************************************************************************)
EXTENDS CheckpointProps

HeadAt(v) == IF v = 0 THEN NoHead ELSE versions[v]

\* A snapshot is the head that had its version.
Genuine(s) == s.version \in 0..Len(versions) /\ s = HeadAt(s.version)

Started(e) == phase[e] # "new"

\* The version of a head is its place in the history; its last key and its
\* state are those of the first "count" committed events.
VersionsAreHeads ==
  /\ head.version = Len(versions)
  /\ Genuine(head)
  /\ versions # <<>> => versions[1] = FirstHead
  /\ \A v \in 1..Len(versions) :
       /\ versions[v].version = v
       /\ versions[v].count <= Len(log)
       /\ versions[v].last = IF versions[v].count = 0 THEN NoKey
                             ELSE <<versions[v].count, log[versions[v].count]>>
       /\ versions[v].state = {log[i] : i \in 1..versions[v].count}

SnapshotsAreGenuine ==
  /\ \A s \in Service : Genuine(heads[s])
  /\ \A c \in Caller : Genuine(op[c].snap)
  /\ \A e \in EventId : Genuine(args[e].base) /\ Genuine(result[e])

CopiesAreGenuine ==
  \A c \in Caller :
    /\ copy[c].marker \in 0..Len(versions)
    /\ copy[c].marker # 0 =>
         copy[c].state = HeadAt(copy[c].marker).state

\* An append was called on an existing head below the limit, with the state
\* of that head and the event's own delta.
AppendsAreOnSnapshots ==
  \A e \in EventId : Started(e) =>
    /\ args[e].by \in Caller
    /\ args[e].base.version # 0
    /\ args[e].base.count < MaxEvents
    /\ args[e].state = args[e].base.state \cup {e}

HasRecord(e) == [key |-> KeyOf(e), prev |-> args[e].base.last] \in records

\* Every record, stored or on its way, is the one its append wrote.
RecordsAreOfAppends ==
  /\ \A m \in eventPuts :
       /\ Started(m.by)
       /\ m.key = KeyOf(m.by) /\ m.prev = args[m.by].base.last
  /\ \A r \in records :
       /\ Started(r.key[2])
       /\ r.key = KeyOf(r.key[2]) /\ r.prev = args[r.key[2]].base.last

\* A head is only ever sent after its event's record is stored.
HeadPutsAreOnSnapshots ==
  \A m \in headPuts :
    IF m.by \in EventId
      THEN /\ Started(m.by) /\ HasRecord(m.by)
           /\ m.ver = args[m.by].base.version /\ m.body = NewHead(m.by)
      ELSE /\ m.ver \in 0..Len(versions)
           /\ IF m.ver = 0 THEN m.body = NoHead
              ELSE m.body = Tombstone(HeadAt(m.ver))

\* Where a commit task is, its record is stored; what it was told is true.
TasksAreWhereTheyAre ==
  \A e \in EventId :
    /\ phase[e] = "event_put" /\ attempt[e].reply # "none" => HasRecord(e)
    /\ phase[e] \in {"event_get", "head_put", "head_get"} => HasRecord(e)
    /\ phase[e] = "head_put" /\ attempt[e].reply = "ok" =>
         e \in {log[i] : i \in DOMAIN log}
    /\ phase[e] = "committed" =>
         /\ e \in {log[i] : i \in DOMAIN log}
         /\ result[e].last = KeyOf(e)

\* What the step an operation is at says of its caller's copy, its snapshot
\* and its event.
OperationIsWhereItIs(c) ==
  /\ op[c].pc \in {"append_read", "append_settle", "append_wait"} =>
       op[c].event \in EventId /\ copy[c].marker # 0
  /\ op[c].pc = "append_settle" =>
       /\ op[c].snap.version # 0
       /\ op[c].snap.version = copy[c].marker
  /\ op[c].pc \in {"append_read", "append_settle"} /\ Started(op[c].event) =>
       args[op[c].event].base.version = copy[c].marker
  /\ op[c].pc = "append_wait" =>
       /\ Started(op[c].event)
       /\ args[op[c].event].base.version = copy[c].marker
  /\ op[c].pc = "create_put" => op[c].snap = NoHead
  /\ op[c].pc = "delete_put" => op[c].snap.version # 0
  /\ op[c].pc = "create_put" /\ put[c].reply = "ok" => versions # <<>>

\* No two callers append the same event.
EventsAreApart ==
  \A c, d \in Caller :
    op[c].event # NoEvent /\ op[c].event = op[d].event => c = d

OperationsAreWhereTheyAre ==
  EventsAreApart /\ \A c \in Caller : OperationIsWhereItIs(c)

\* A committed event was committed on top of its append's snapshot.
CommitsAreOnSnapshots ==
  \A i \in DOMAIN log :
    LET e == log[i]
    IN  /\ Started(e)
        /\ args[e].base.version < Len(versions)
        /\ args[e].base.count = i - 1
        /\ versions[args[e].base.version + 1] = NewHead(e)

IInv ==
  /\ TypeOK
  /\ VersionsAreHeads
  /\ SnapshotsAreGenuine
  /\ CopiesAreGenuine
  /\ AppendsAreOnSnapshots
  /\ RecordsAreOfAppends
  /\ HeadPutsAreOnSnapshots
  /\ TasksAreWhereTheyAre
  /\ OperationsAreWhereTheyAre
  /\ CommitsAreOnSnapshots
  /\ ChainIntact

-----------------------------------------------------------------------------
(* What the copies hold.  It needs IInv, and nothing in IInv needs it.     *)

Upto(n) == SubSeq(log, 1, n)

\* A copy holds the events its marker's head counts; an append was called
\* with the events its snapshot counts.
CopiesAreHistory ==
  /\ \A c \in Caller : copy[c].marker # 0 =>
       copy[c].events = Upto(HeadAt(copy[c].marker).count)
  /\ \A e \in EventId : Started(e) => args[e].seen = Upto(args[e].base.count)

\* The event of an append that is not registered yet has no task running.
AppendsAreSingle ==
  \A c \in Caller : op[c].pc \in {"append_read", "append_settle"} =>
    phase[op[c].event] \notin Active

-----------------------------------------------------------------------------
(* Who may hold a tombstone.  It needs the above, and nothing above needs   *)
(* it.                                                                     *)

\* An append belongs to the caller that is in it; who creates the session
\* has not appended to it before.
AppendIsOwned(c) ==
  /\ op[c].pc \in {"append_read", "append_settle"} /\ Started(op[c].event) =>
       args[op[c].event].by = c
  /\ op[c].pc = "append_wait" => args[op[c].event].by = c
  /\ op[c].pc = "create_put" =>
       \A e \in EventId : Started(e) => args[e].by # c

AppendsAreOwned == \A c \in Caller : AppendIsOwned(c)

\* An append that committed left a later version than it was called on.
ResultsAreLater ==
  \A e \in EventId :
    phase[e] = "committed" => result[e].version > args[e].base.version

\* The caller of an append has a later version than the append was called on,
\* or none, and is about to load no earlier one: it does not call it again.
LeftBehind(e) ==
  LET c == args[e].by
  IN  /\ copy[c].marker = 0 \/ copy[c].marker > args[e].base.version
      /\ op[c].pc = "get_events" => op[c].snap.version > args[e].base.version

WasGivenTombstone(c) ==
  \E e \in EventId : TookTombstone(e) /\ args[e].by = c /\ LeftBehind(e)

\* A caller has a deleted head's version, or appends on one, only if it was
\* given the tombstone; get_session never reads on from one.
TombstonesAreGiven ==
  /\ \A c \in Caller :
       /\ copy[c].marker # 0 /\ HeadAt(copy[c].marker).deleted =>
            WasGivenTombstone(c)
       /\ op[c].pc = "get_events" => ~op[c].snap.deleted
  /\ \A e \in EventId : Started(e) /\ args[e].base.deleted =>
       WasGivenTombstone(args[e].by)

FullInv ==
  /\ IInv
  /\ CopiesAreHistory /\ AppendsAreSingle
  /\ AppendsAreOwned /\ ResultsAreLater /\ TombstonesAreGiven
=============================================================================
