-------------------------- MODULE CheckpointProofs --------------------------
(* Theorems about Checkpoint, for every value of its constants. *)
EXTENDS CheckpointInv, SequenceTheorems, TLAPS

USE BoundsAssumption, NamesAssumption

-----------------------------------------------------------------------------
(* Types.                                                                  *)

\* Beyond its type, a started append has a caller and a base below the limit
\* of events, and an operation that appends knows its event.
Appending == {"append_read", "append_settle", "append_wait"}

AppendsTyped ==
  \A e \in EventId : Started(e) =>
    args[e].by \in Caller /\ args[e].base.count < MaxEvents

OpsTyped ==
  /\ op \in [Caller -> Op]
  /\ \A c \in Caller : op[c].pc \in Appending => op[c].event \in EventId

TypeInv == TypeOK /\ AppendsTyped /\ OpsTyped

\* The values the program starts from have their types.
LEMMA ConstantTypes ==
  /\ NoHead \in Snapshot /\ FirstHead \in Snapshot /\ NoCopy \in Copy
  /\ Idle \in Op /\ NoAttempt \in Attempt
<1>1. NoHead \in Snapshot
  BY DEF NoHead, Snapshot, NoKey, Key
<1>2. FirstHead \in Snapshot
  BY <1>1 DEF FirstHead, Snapshot, AtVersion
<1>3. NoCopy \in Copy
  BY DEF NoCopy, Copy
<1>4. Idle \in Op
  BY <1>1 DEF Idle, Op, PC, Reading, Putting
<1>5. NoAttempt \in Attempt
  BY DEF NoAttempt, Attempt, Try
<1> QED BY <1>1, <1>2, <1>3, <1>4, <1>5

\* Attempts, answers and the heads derived from a head have their types.
LEMMA RepliedType ==
  ASSUME NEW r \in {"ok", "conflict"}, NEW t \in Attempt
  PROVE  Replied(t, r) \in Attempt
BY DEF Replied, Attempt

\* A new attempt has the type of an attempt.
LEMMA TryType ==
  ASSUME NEW t \in Attempt, NEW n \in Nat
  PROVE  /\ Try(t.call, n) \in Attempt
         /\ Try(t.call, t.try + 1) \in Attempt
         /\ Try(t.call + 1, n) \in Attempt
BY DEF Try, Attempt

\* The heads derived from a head have its type.
LEMMA SnapshotTypes ==
  ASSUME NEW s \in Snapshot, NEW v \in Nat
  PROVE  AtVersion(s, v) \in Snapshot /\ Tombstone(s) \in Snapshot
BY DEF AtVersion, Tombstone, Snapshot

\* An append below the limit of events writes a well-typed head and record.
LEMMA WrittenTypes ==
  ASSUME TypeInv, NEW e \in EventId, Started(e), NEW k \in Nat, NEW n \in Nat
  PROVE  /\ NewHead(e) \in Snapshot
         /\ KeyOf(e) \in Key
         /\ EventPut(e, args[e].base, k, n) \in EventPuts
         /\ CommitPut(e, n) \in HeadPuts
<1> USE DEF TypeInv, TypeOK, AppendsTyped, OpsTyped
<1>1. KeyOf(e) \in Key
  BY DEF KeyOf, KeyFor, Args, Snapshot, Key
<1>2. NewHead(e) \in Snapshot
  BY <1>1 DEF NewHead, Args, Snapshot
<1>3. EventPut(e, args[e].base, k, n) \in EventPuts
  BY <1>1 DEF EventPut, EventPuts, KeyOf, Args, Snapshot
<1>4. CommitPut(e, n) \in HeadPuts
  BY <1>2 DEF CommitPut, HeadPut, HeadPuts, Args, Snapshot, Attempt
<1> QED BY <1>1, <1>2, <1>3, <1>4

\* The initial state is well typed.
LEMMA TypeInit == Init => TypeInv
BY ConstantTypes
DEF Init, TypeInv, TypeOK, AppendsTyped, OpsTyped, Appending, Started, Args,
    Idle, Phase, NoCopy

\* What the vault stores and answers is well typed.
LEMMA TypeVault ==
  ASSUME TypeInv,
         \/ \E m \in eventPuts : VaultTakesEvent(m)
         \/ \E m \in headPuts : VaultTakesHead(m)
  PROVE  TypeInv'
<1> USE DEF TypeInv, TypeOK, AppendsTyped, OpsTyped
<1>1. ASSUME NEW m \in eventPuts, VaultTakesEvent(m)
      PROVE  TypeInv'
  <2> DEFINE absent == \A r \in records : r.key # m.key
             reply == Answer(absent)
  <2>1. m \in EventPuts /\ eventPuts' \in SUBSET EventPuts
    BY <1>1 DEF VaultTakesEvent
  <2>2. records' \in SUBSET [key : Key, prev : Key \cup {NoKey}]
    BY <1>1, <2>1 DEF VaultTakesEvent, EventPuts
  <2>3. reply \in {"ok", "conflict"}
    BY DEF Answer
  <2>4. attempt' \in {attempt, [attempt EXCEPT ![m.by] = Replied(@, reply)]}
    BY <1>1 DEF VaultTakesEvent
  <2>5. attempt' \in [EventId -> Attempt]
    <3> HIDE DEF reply
    <3>1. m.by \in EventId /\ attempt[m.by] \in Attempt
      BY <2>1 DEF EventPuts
    <3>2. Replied(attempt[m.by], reply) \in Attempt
      BY <2>3, <3>1, RepliedType
    <3> QED BY <2>4, <3>1, <3>2
  <2> QED
    BY <1>1, <2>1, <2>2, <2>5
    DEF VaultTakesEvent, Started, serviceVars, callerVars, boundVars,
        historyVars
<1>2. ASSUME NEW m \in headPuts, VaultTakesHead(m)
      PROVE  TypeInv'
  <2> DEFINE holds == head.version = m.ver
             reply == Answer(holds)
  <2>1. m \in HeadPuts /\ headPuts' \in SUBSET HeadPuts
    BY <1>2 DEF VaultTakesHead
  <2>2. head' \in Snapshot
    <3>1. m.body \in Snapshot /\ head.version + 1 \in Nat
      BY <2>1 DEF HeadPuts, Snapshot
    <3>2. head' \in {head, AtVersion(m.body, head.version + 1)}
      BY <1>2 DEF VaultTakesHead
    <3>3. AtVersion(m.body, head.version + 1) \in Snapshot
      BY <3>1, SnapshotTypes
    <3> QED BY <3>2, <3>3
  <2>3. log' \in Seq(EventId) /\ versions' \in Seq(Snapshot)
    BY <1>2, <2>1, <2>2 DEF VaultTakesHead
  <2>4. reply \in {"ok", "conflict"}
    BY DEF Answer
  <2>5. /\ \/ attempt' = attempt
           \/ /\ m.by \in EventId
              /\ attempt' = [attempt EXCEPT ![m.by] = Replied(@, reply)]
        /\ \/ put' = put
           \/ /\ m.by \in Caller
              /\ put' = [put EXCEPT ![m.by] = Replied(@, reply)]
    BY <1>2 DEF VaultTakesHead
  <2>6. attempt' \in [EventId -> Attempt] /\ put' \in [Caller -> Attempt]
    <3> HIDE DEF TypeInv, TypeOK, AppendsTyped, OpsTyped, holds, reply
    <3>0. attempt \in [EventId -> Attempt] /\ put \in [Caller -> Attempt]
      BY DEF TypeInv, TypeOK
    <3>1. m.by \in EventId => Replied(attempt[m.by], reply) \in Attempt
      BY <2>4, <3>0, RepliedType
    <3>2. m.by \in Caller => Replied(put[m.by], reply) \in Attempt
      BY <2>4, <3>0, RepliedType
    <3>3. attempt' \in [EventId -> Attempt]
      BY <2>5, <3>0, <3>1
    <3>4. put' \in [Caller -> Attempt]
      BY <2>5, <3>0, <3>2
    <3> QED BY <3>3, <3>4
  <2> QED
    BY <1>2, <2>1, <2>2, <2>3, <2>6
    DEF VaultTakesHead, Started, serviceVars, callerVars, boundVars
<1> QED BY <1>1, <1>2

\* The steps of a commit task keep the types.
LEMMA TypeTask ==
  ASSUME TypeInv, NEW e \in EventId, TaskStep(e)
  PROVE  TypeInv'
<1> USE DEF TypeInv, TypeOK, AppendsTyped, OpsTyped
<1>1. ASSUME StartHeadPut(e), Started(e),
             UNCHANGED <<head, records, historyVars, serviceVars, callerVars,
                         boundVars>>
      PROVE  TypeInv'
  <2>1. phase' \in [EventId -> Phase]
    BY <1>1 DEF StartHeadPut, Phase, Active
  <2>2. attempt' \in [EventId -> Attempt]
    BY <1>1, TryType DEF StartHeadPut
  <2>3. headPuts' \in SUBSET HeadPuts
    BY <1>1, WrittenTypes DEF StartHeadPut
  <2> QED
    BY <1>1, <2>1, <2>2, <2>3
    DEF StartHeadPut, Started, serviceVars, callerVars, boundVars, historyVars
<1>2. ASSUME NEW outcome \in Phase, NEW snap \in Snapshot, Started(e),
             Finish(e, outcome, snap),
             UNCHANGED <<head, records, historyVars, serviceVars, callerVars,
                         boundVars>>
      PROVE  TypeInv'
  <2>1. phase' \in [EventId -> Phase]
    BY <1>2 DEF Finish
  <2>2. attempt' \in [EventId -> Attempt]
    BY <1>2, TryType DEF Finish
  <2> QED
    BY <1>2, <2>1, <2>2
    DEF Finish, Started, serviceVars, callerVars, boundVars, historyVars
<1>3. ASSUME NEW p \in {"event_get", "head_get"}, Started(e),
             phase' = [phase EXCEPT ![e] = p],
             UNCHANGED <<eventPuts, headPuts, args, attempt, result>>,
             UNCHANGED <<head, records, historyVars, serviceVars, callerVars,
                         boundVars>>
      PROVE  TypeInv'
  <2>1. phase' \in [EventId -> Phase]
    BY <1>3 DEF Phase, Active
  <2> QED
    BY <1>3, <2>1
    DEF Started, serviceVars, callerVars, boundVars, historyVars
<1>4. CASE EventPutAnswered(e)
  BY <1>1, <1>3, <1>4 DEF EventPutAnswered, Started
<1>5. CASE EventReread(e)
  BY <1>1, <1>2, <1>5, ConstantTypes DEF EventReread, Started, Phase
<1>6. CASE HeadPutAnswered(e)
  BY <1>2, <1>3, <1>6, WrittenTypes DEF HeadPutAnswered, Started, Phase
<1>7. CASE HeadReread(e)
  BY <1>2, <1>7, ConstantTypes DEF HeadReread, Started, Phase
<1>8. CASE Resend(e)
  <2>1. Started(e)
    BY <1>8 DEF Resend, Started
  <2>2. attempt' \in [EventId -> Attempt]
    BY <1>8, TryType DEF Resend
  <2>3. attempt[e].try + 1 \in Nat /\ attempt[e].call \in Nat
    BY DEF Attempt
  <2>4. eventPuts' \in SUBSET EventPuts /\ headPuts' \in SUBSET HeadPuts
    BY <1>8, <2>1, <2>3, WrittenTypes DEF Resend
  <2> QED
    BY <1>8, <2>2, <2>4
    DEF Resend, Started, serviceVars, callerVars, boundVars, historyVars
<1>9. CASE GiveUp(e)
  BY <1>2, <1>9, ConstantTypes DEF GiveUp, Started, Phase, Active
<1> QED BY <1>4, <1>5, <1>6, <1>7, <1>8, <1>9 DEF TaskStep

\* Going on to a step, or leaving the operation, keeps operations typed.
LEMMA TypeContinue ==
  ASSUME TypeInv, NEW c \in Caller, NEW pc \in PC,
         NEW event \in EventId \cup {NoEvent},
         NEW waits \in EventId \cup {NoEvent},
         NEW snap \in Snapshot, NEW round \in Nat,
         pc \in Appending => event \in EventId,
         Continue(c, pc, event, waits, snap, round)
  PROVE  OpsTyped'
<1> DEFINE new == [pc |-> pc, event |-> event, waits |-> waits, snap |-> snap,
                   round |-> round]
<1>1. new \in Op
  BY DEF Op
<1>2. op \in [Caller -> Op] /\ op' = [op EXCEPT ![c] = new]
  BY DEF TypeInv, OpsTyped, Continue
<1>3. op' \in [Caller -> Op]
  <2> HIDE DEF new
  <2> QED BY <1>1, <1>2
<1>4. \A d \in Caller : op'[d].pc \in Appending => op'[d].event \in EventId
  BY <1>2 DEF TypeInv, OpsTyped
<1> QED BY <1>3, <1>4 DEF OpsTyped

\* Leaving an operation keeps the types of the operations.
LEMMA TypeLeave ==
  ASSUME TypeInv, NEW c \in Caller, Leave(c)
  PROVE  OpsTyped'
<1>1. op \in [Caller -> Op] /\ op' = [op EXCEPT ![c] = Idle]
  BY DEF TypeInv, OpsTyped, Leave
<1>2. op' \in [Caller -> Op]
  BY <1>1, ConstantTypes
<1>3. \A d \in Caller : op'[d].pc \in Appending => op'[d].event \in EventId
  BY <1>1 DEF TypeInv, OpsTyped, Idle, Appending
<1> QED BY <1>2, <1>3 DEF OpsTyped

\* The write a caller must wait for is an event or none.
LEMMA TypePending ==
  ASSUME TypeInv, NEW c \in Caller
  PROVE  Pending(c) \in EventId \cup {NoEvent}
BY DEF TypeInv, TypeOK, Pending

\* Going on to another step keeps the types of the operations.
LEMMA TypeEnter ==
  ASSUME TypeInv, NEW c \in Caller, NEW pc \in PC,
         NEW event \in EventId \cup {NoEvent},
         NEW snap \in Snapshot, NEW round \in Nat,
         pc \in Appending => event \in EventId,
         Enter(c, pc, event, snap, round)
  PROVE  OpsTyped' /\ inflight' \in [Service -> EventId \cup {NoEvent}]
<1>1. OpsTyped'
  BY TypeContinue, TypePending DEF Enter
<1>2. inflight' \in [Service -> EventId \cup {NoEvent}]
  BY TypePending DEF Enter, TypeInv, TypeOK
<1> QED BY <1>1, <1>2

\* Forgetting a finished write keeps the type of the table of writes.
LEMMA TypePop ==
  ASSUME TypeInv, NEW c \in Caller, PopIfDone(c)
  PROVE  inflight' \in [Service -> EventId \cup {NoEvent}]
BY DEF PopIfDone, TypeInv, TypeOK

\* Everything but the operations and the commit tasks, when only a head
\* remembered or a task in flight may change.
Rest == <<head, records, headPuts, historyVars, copy, put, boundVars>>

\* Starting a commit task keeps the types.
LEMMA TypeRegister ==
  ASSUME TypeInv, NEW c \in Caller, NEW e \in EventId, NEW snap \in Snapshot,
         Register(c, e, snap), UNCHANGED Rest,
         heads' \in [Service -> Snapshot]
  PROVE  TypeInv'
<1>1. CASE Full(snap)
  <2>1. OpsTyped'
    BY <1>1, TypeLeave DEF Register
  <2>2. inflight' \in [Service -> EventId \cup {NoEvent}]
    BY <1>1 DEF Register, TypeInv, TypeOK
  <2>3. UNCHANGED <<eventPuts, taskVars>>
    BY <1>1 DEF Register
  <2> QED
    BY <2>1, <2>2, <2>3
    DEF TypeInv, TypeOK, AppendsTyped, OpsTyped, Started, Rest, taskVars,
        historyVars, boundVars
<1>2. CASE ~Full(snap)
  <2>1. OpsTyped'
    BY <1>2, TypeContinue, NamesAssumption
    DEF Register, PC, Appending
  <2>2. inflight' \in [Service -> EventId \cup {NoEvent}]
    BY <1>2 DEF Register, TypeInv, TypeOK
  <2>3. phase' \in [EventId -> Phase]
    BY <1>2 DEF Register, TypeInv, TypeOK, Phase, Active
  <2> DEFINE new == [by |-> c, base |-> snap, seen |-> copy[c].events,
                     state |-> copy[c].state \cup {e}]
  <2>4. args' \in [EventId -> Args]
    <3>1. new \in Args
      BY DEF TypeInv, TypeOK, Copy, Args
    <3>2. args' = [args EXCEPT ![e] = new] /\ args \in [EventId -> Args]
      BY <1>2 DEF Register, TypeInv, TypeOK
    <3> HIDE DEF new
    <3> QED BY <3>1, <3>2
  <2>5. attempt' \in [EventId -> Attempt]
    <3>1. attempt[e] \in Attempt /\ attempt \in [EventId -> Attempt]
      BY DEF TypeInv, TypeOK
    <3>2. Try(attempt[e].call + 1, 1) \in Attempt
      BY <3>1, TryType
    <3>3. attempt' = [attempt EXCEPT ![e] = Try(@.call + 1, 1)]
      BY <1>2 DEF Register
    <3> QED BY <3>1, <3>2, <3>3
  <2>6. eventPuts' \in SUBSET EventPuts
    <3>1. EventPut(e, snap, attempt[e].call + 1, 1) \in EventPuts
      BY <1>2
      DEF Full, EventPut, EventPuts, KeyFor, Key, Snapshot, TypeInv, TypeOK,
          Attempt
    <3> QED BY <1>2, <3>1 DEF Register, TypeInv, TypeOK
  <2>7. AppendsTyped'
    <3>1. /\ args' = [args EXCEPT ![e] = new] /\ args \in [EventId -> Args]
          /\ \A f \in EventId : f # e => phase'[f] = phase[f]
      BY <1>2 DEF Register, TypeInv, TypeOK
    <3>2. snap.count < MaxEvents
      BY <1>2 DEF Full, Snapshot
    <3> QED BY <3>1, <3>2 DEF TypeInv, AppendsTyped, Started
  <2>8. UNCHANGED <<Rest, result>>
    BY <1>2 DEF Register
  <2> QED
    BY <2>1, <2>2, <2>3, <2>4, <2>5, <2>6, <2>7, <2>8
    DEF TypeInv, TypeOK, OpsTyped, Rest, historyVars, boundVars
<1> QED BY <1>1, <1>2

\* A step that only goes on to another one keeps the types.
LEMMA TypeEntered ==
  ASSUME TypeInv, NEW c \in Caller, NEW pc \in PC,
         NEW event \in EventId \cup {NoEvent},
         NEW snap \in Snapshot, NEW round \in Nat,
         pc \in Appending => event \in EventId,
         Enter(c, pc, event, snap, round),
         UNCHANGED <<head, records, eventPuts, headPuts, historyVars, taskVars,
                     boundVars>>,
         heads' \in [Service -> Snapshot],
         copy' \in [Caller -> Copy],
         put' \in [Caller -> Attempt]
  PROVE  TypeInv'
<1>1. OpsTyped' /\ inflight' \in [Service -> EventId \cup {NoEvent}]
  BY TypeEnter
<1> QED
  BY <1>1
  DEF TypeInv, TypeOK, AppendsTyped, OpsTyped, Started, taskVars, historyVars,
      boundVars

\* A step that only leaves an operation keeps the types.
LEMMA TypeLeft ==
  ASSUME TypeInv, NEW c \in Caller, Leave(c),
         UNCHANGED <<head, records, eventPuts, headPuts, historyVars,
                     taskVars>>,
         inflight' \in [Service -> EventId \cup {NoEvent}],
         heads' \in [Service -> Snapshot],
         copy' \in [Caller -> Copy],
         put' \in [Caller -> Attempt],
         cancels' \in Nat, crashes' \in Nat
  PROVE  TypeInv'
<1>1. OpsTyped'
  BY TypeLeave
<1> QED
  BY <1>1
  DEF TypeInv, TypeOK, AppendsTyped, OpsTyped, Started, taskVars, historyVars

\* An append, whether it waits or starts at once, keeps the types.
LEMMA TypeStoreAppend ==
  ASSUME TypeInv, NEW c \in Caller, NEW e \in EventId, NEW snap \in Snapshot,
         StoreAppend(c, e, snap), UNCHANGED Rest,
         heads' \in [Service -> Snapshot]
  PROVE  TypeInv'
<1>1. CASE Pending(c) = NoEvent
  BY <1>1, TypeRegister DEF StoreAppend
<1>2. CASE Pending(c) # NoEvent
  <2>1. "append_settle" \in PC
    BY DEF PC
  <2>2. /\ Enter(c, "append_settle", e, snap, 0)
        /\ UNCHANGED <<eventPuts, taskVars>>
    BY <1>2 DEF StoreAppend
  <2>3. copy' \in [Caller -> Copy] /\ put' \in [Caller -> Attempt]
    BY DEF TypeInv, TypeOK, Rest
  <2>4. UNCHANGED <<head, records, headPuts, historyVars, boundVars>>
    BY DEF Rest
  <2> QED BY <2>1, <2>2, <2>3, <2>4, TypeEntered
<1> QED BY <1>1, <1>2

\* What every proof of a caller's action uses of the types.
LEMMA TypeFacts ==
  ASSUME TypeInv, NEW c \in Caller
  PROVE  /\ head \in Snapshot /\ op[c].snap \in Snapshot
         /\ op[c].round \in Nat /\ op[c].pc \in PC
         /\ op[c].event \in EventId \cup {NoEvent}
         /\ ServiceOf[c] \in Service
         /\ heads[ServiceOf[c]] \in Snapshot
         /\ copy[c] \in Copy /\ put[c] \in Attempt
         /\ heads \in [Service -> Snapshot]
         /\ inflight \in [Service -> EventId \cup {NoEvent}]
         /\ copy \in [Caller -> Copy] /\ put \in [Caller -> Attempt]
         /\ cancels \in Nat /\ crashes \in Nat
BY DEF TypeInv, TypeOK, Op

\* The steps of append_event, get_session, create_session and delete_session
\* that a caller takes keep every type.
LEMMA TypeAppend ==
  ASSUME TypeInv, NEW c \in Caller,
         \/ \E e \in EventId : AppendBegin(c, e)
         \/ AppendRead(c) \/ AppendReturn(c) \/ Wake(c)
  PROVE  TypeInv'
<1> NoEvent \in EventId \cup {NoEvent} /\ NoHead \in Snapshot /\ 0 \in Nat
  BY ConstantTypes
<1>1. ASSUME NEW e \in EventId, AppendBegin(c, e)
      PROVE  TypeInv'
  <2>1. UNCHANGED Rest /\ heads' \in [Service -> Snapshot]
    BY <1>1, TypeFacts DEF AppendBegin, Rest
  <2>2. CASE StoreAppend(c, e, heads[ServiceOf[c]])
    BY <2>1, <2>2, TypeFacts, TypeStoreAppend
  <2>3. CASE /\ Enter(c, "append_read", e, NoHead, 0)
             /\ UNCHANGED <<eventPuts, taskVars>>
    <3>1. "append_read" \in PC
      BY DEF PC, Reading
    <3>2. copy' \in [Caller -> Copy] /\ put' \in [Caller -> Attempt]
      BY <2>1, TypeFacts DEF Rest
    <3>3. UNCHANGED <<head, records, headPuts, historyVars, boundVars>>
      BY <2>1 DEF Rest
    <3> QED BY <2>1, <2>3, <3>1, <3>2, <3>3, TypeEntered
  <2> QED BY <1>1, <2>2, <2>3 DEF AppendBegin
<1>2. CASE AppendRead(c)
  <2>1. UNCHANGED Rest /\ heads' \in [Service -> Snapshot]
    BY <1>2, TypeFacts DEF AppendRead, Rest
  <2>2. op[c].event \in EventId
    BY <1>2 DEF AppendRead, At, TypeInv, OpsTyped, Appending
  <2>3. CASE StoreAppend(c, op[c].event, head)
    BY <2>1, <2>2, <2>3, TypeFacts, TypeStoreAppend
  <2>4. CASE Leave(c) /\ UNCHANGED <<heads, inflight, eventPuts, taskVars>>
    <3>1. /\ copy' \in [Caller -> Copy] /\ put' \in [Caller -> Attempt]
          /\ inflight' \in [Service -> EventId \cup {NoEvent}]
          /\ cancels' \in Nat /\ crashes' \in Nat
          /\ UNCHANGED <<head, records, headPuts, historyVars>>
      BY <2>1, <2>4, TypeFacts DEF Rest, boundVars
    <3> QED BY <2>1, <2>4, <3>1, TypeLeft
  <2> QED BY <1>2, <2>3, <2>4 DEF AppendRead
<1>3. CASE AppendReturn(c)
  <2> DEFINE e == op[c].event
             new == [marker |-> result[e].version,
                     events |-> Append(copy[c].events, e),
                     state |-> copy[c].state \cup {e}]
  <2>1. e \in EventId
    BY <1>3 DEF AppendReturn, TypeInv, OpsTyped, Appending
  <2>2. new \in Copy /\ result[e] \in Snapshot
    BY <2>1, TypeFacts DEF TypeInv, TypeOK, Copy, Snapshot
  <2>3. heads' \in [Service -> Snapshot]
    BY <1>3, <2>2, TypeFacts DEF AppendReturn
  <2>4. copy' \in [Caller -> Copy]
    <3>1. copy' = copy \/ copy' = [copy EXCEPT ![c] = new]
      BY <1>3 DEF AppendReturn
    <3> HIDE DEF new
    <3> QED BY <2>2, <3>1, TypeFacts
  <2>5. /\ put' \in [Caller -> Attempt]
        /\ inflight' \in [Service -> EventId \cup {NoEvent}]
        /\ cancels' \in Nat /\ crashes' \in Nat
        /\ UNCHANGED <<head, records, eventPuts, headPuts, historyVars,
                       taskVars>>
        /\ Leave(c)
    BY <1>3, TypeFacts, TypePop DEF AppendReturn, vaultVars, boundVars
  <2> QED BY <2>3, <2>4, <2>5, TypeLeft
<1>4. CASE Wake(c)
  <2>1. UNCHANGED Rest /\ heads' \in [Service -> Snapshot]
    BY <1>4, TypeFacts DEF Wake, Rest
  <2>2. CASE op[c].pc = "append_settle"
    <3>1. Register(c, op[c].event, op[c].snap) /\ op[c].event \in EventId
      BY <1>4, <2>2 DEF Wake, TypeInv, OpsTyped, Appending
    <3> QED BY <2>1, <3>1, TypeFacts, TypeRegister
  <2>3. CASE op[c].pc # "append_settle"
    <3>1. /\ Continue(c, op[c].pc, op[c].event, NoEvent, op[c].snap,
                      op[c].round)
          /\ PopIfDone(c)
          /\ UNCHANGED <<eventPuts, taskVars>>
      BY <1>4, <2>3 DEF Wake
    <3>2. op[c].pc \in Appending => op[c].event \in EventId
      BY DEF TypeInv, OpsTyped
    <3>3. OpsTyped'
      BY <3>1, <3>2, TypeFacts, TypeContinue
    <3>4. inflight' \in [Service -> EventId \cup {NoEvent}]
      BY <3>1, TypePop
    <3> QED
      BY <2>1, <3>1, <3>3, <3>4
      DEF TypeInv, TypeOK, AppendsTyped, OpsTyped, Started, Rest, taskVars,
          historyVars, boundVars
  <2> QED BY <2>2, <2>3
<1> QED BY <1>1, <1>2, <1>3, <1>4

\* get_session keeps the types.
LEMMA TypeGet ==
  ASSUME TypeInv, NEW c \in Caller,
         GetBegin(c) \/ GetRead(c) \/ GetEvents(c)
  PROVE  TypeInv'
<1> NoEvent \in EventId \cup {NoEvent} /\ NoHead \in Snapshot /\ 0 \in Nat
  BY ConstantTypes
<1> DEFINE Same == /\ UNCHANGED <<head, records, eventPuts, headPuts,
                                  historyVars, taskVars, boundVars>>
                   /\ put' \in [Caller -> Attempt]
                   /\ cancels' \in Nat /\ crashes' \in Nat
<1>0. Same
  BY TypeFacts DEF GetBegin, GetRead, GetEvents, vaultVars, boundVars
<1>1. CASE GetBegin(c)
  <2>1. "get_read" \in PC /\ "get_read" \notin Appending
    BY DEF PC, Reading, Appending
  <2>2. /\ heads' \in [Service -> Snapshot] /\ copy' \in [Caller -> Copy]
        /\ Enter(c, "get_read", NoEvent, NoHead, 0)
    BY <1>1, TypeFacts DEF GetBegin
  <2> QED BY <1>0, <2>1, <2>2, TypeEntered
<1>2. CASE GetRead(c)
  <2>1. "get_events" \in PC /\ "get_events" \notin Appending
    BY DEF PC, Appending
  <2>2. heads' \in [Service -> Snapshot] /\ copy' \in [Caller -> Copy]
    BY <1>2, TypeFacts DEF GetRead
  <2>3. CASE Enter(c, "get_events", NoEvent, head, 0)
    BY <1>0, <2>1, <2>2, <2>3, TypeEntered, TypeFacts
  <2>4. CASE Leave(c) /\ UNCHANGED inflight
    BY <1>0, <2>2, <2>4, TypeLeft, TypeFacts
  <2> QED BY <1>2, <2>3, <2>4 DEF GetRead
<1>3. CASE GetEvents(c)
  <2>1. heads' \in [Service -> Snapshot]
    BY <1>3, TypeFacts DEF GetEvents
  <2>2. copy' \in [Caller -> Copy]
    <3>1. ASSUME NEW events \in Chain(op[c].snap)
          PROVE  Loaded(op[c].snap, events) \in Copy
      <4>1. events \in Seq(EventId)
        <5>1. PICK k \in [1..op[c].snap.count -> {r.key : r \in records}] :
                     events = [i \in 1..op[c].snap.count |-> k[i][2]]
          BY DEF Chain
        <5>2. \A i \in 1..op[c].snap.count : k[i] \in Key
          BY DEF TypeInv, TypeOK
        <5>3. \A i \in 1..op[c].snap.count : k[i][2] \in EventId
          BY <5>2 DEF Key
        <5>4. op[c].snap.count \in Nat
          BY TypeFacts DEF Snapshot
        <5> QED BY <5>1, <5>3, <5>4
      <4> QED BY <4>1, TypeFacts DEF Loaded, Copy, Snapshot
    <3>2. \/ copy' = copy
          \/ \E events \in Chain(op[c].snap) :
               copy' = [copy EXCEPT ![c] = Loaded(op[c].snap, events)]
      BY <1>3 DEF GetEvents
    <3> QED BY <3>1, <3>2, TypeFacts
  <2>3. Leave(c) /\ inflight' \in [Service -> EventId \cup {NoEvent}]
    BY <1>3, TypeFacts DEF GetEvents
  <2> QED BY <1>0, <2>1, <2>2, <2>3, TypeLeft
<1> QED BY <1>1, <1>2, <1>3

\* create_session and delete_session keep the types.
LEMMA TypeCreateDelete ==
  ASSUME TypeInv, NEW c \in Caller,
         \/ CreateBegin(c) \/ CreateRead(c) \/ DeleteBegin(c) \/ DeleteRead(c)
         \/ PutSend(c) \/ PutAnswered(c)
  PROVE  TypeInv'
<1> NoEvent \in EventId \cup {NoEvent} /\ NoHead \in Snapshot /\ 0 \in Nat
    /\ 1 \in Nat
  BY ConstantTypes
<1> DEFINE Kept == UNCHANGED <<head, records, eventPuts, headPuts, historyVars,
                               taskVars, boundVars>>
           Typed == /\ heads' \in [Service -> Snapshot]
                    /\ copy' \in [Caller -> Copy]
                    /\ put' \in [Caller -> Attempt]
<1>pc. {"create_read", "delete_read", "create_put", "delete_put"}
         \subseteq PC \ Appending
  BY DEF PC, Reading, Putting, Appending
<1>e. ASSUME NEW pc \in PC \ Appending, NEW snap \in Snapshot, NEW n \in Nat,
             Enter(c, pc, NoEvent, snap, n), Kept, Typed
      PROVE  TypeInv'
  BY <1>e, TypeEntered
<1>l. ASSUME Leave(c), UNCHANGED inflight, Kept, Typed
      PROVE  TypeInv'
  <2>1. /\ UNCHANGED <<head, records, eventPuts, headPuts, historyVars,
                       taskVars>>
        /\ inflight' \in [Service -> EventId \cup {NoEvent}]
        /\ cancels' \in Nat /\ crashes' \in Nat
    BY <1>l, TypeFacts DEF boundVars
  <2> QED BY <1>l, <2>1, TypeLeft
<1>n. NewPut(c) => put' \in [Caller -> Attempt]
  BY TypeFacts, TryType DEF NewPut
<1>r. op[c].round \in Nat /\ op[c].round + 1 \in Nat /\ head \in Snapshot
  BY TypeFacts
<1>1. CASE CreateBegin(c)
  <2>1. Kept /\ Typed /\ Enter(c, "create_read", NoEvent, NoHead, 0)
    BY <1>1, TypeFacts DEF CreateBegin, vaultVars
  <2> QED BY <2>1, <1>pc, <1>e
<1>2. CASE DeleteBegin(c)
  <2>1. Kept /\ Typed /\ Enter(c, "delete_read", NoEvent, NoHead, 1)
    BY <1>2, TypeFacts DEF DeleteBegin, vaultVars
  <2> QED BY <2>1, <1>pc, <1>e
<1>3. CASE CreateRead(c)
  <2>1. Kept /\ Typed
    BY <1>3, <1>n, TypeFacts DEF CreateRead, vaultVars
  <2>2. \/ Enter(c, "create_put", NoEvent, NoHead, 0)
        \/ Leave(c) /\ UNCHANGED inflight
    BY <1>3 DEF CreateRead
  <2> QED BY <2>1, <2>2, <1>pc, <1>e, <1>l
<1>4. CASE DeleteRead(c)
  <2>1. Kept /\ Typed
    BY <1>4, <1>n, TypeFacts DEF DeleteRead, vaultVars
  <2>2. \/ Enter(c, "delete_put", NoEvent, head, op[c].round)
        \/ Leave(c) /\ UNCHANGED inflight
    BY <1>4 DEF DeleteRead
  <2> QED BY <2>1, <2>2, <1>pc, <1>e, <1>l, <1>r
<1>5. CASE PutSend(c)
  <2>1. put' \in [Caller -> Attempt]
    BY <1>5, TypeFacts, TryType DEF PutSend
  <2>2. PutBody(c) \in Snapshot
    BY TypeFacts, SnapshotTypes DEF PutBody
  <2>3. HeadPut(c, put[c].call, put[c].try + 1, op[c].snap.version, PutBody(c))
          \in HeadPuts
    BY <2>2, TypeFacts DEF HeadPut, HeadPuts, Attempt, Snapshot
  <2>4. headPuts' \in SUBSET HeadPuts
    BY <1>5, <2>3 DEF PutSend, TypeInv, TypeOK
  <2> QED
    BY <1>5, <2>1, <2>4
    DEF PutSend, TypeInv, TypeOK, AppendsTyped, OpsTyped, Started, taskVars,
        historyVars, serviceVars, boundVars
<1>6. CASE PutAnswered(c)
  <2>1. Kept
    BY <1>6 DEF PutAnswered, vaultVars
  <2>2. put' \in [Caller -> Attempt]
    BY <1>6, TypeFacts, TryType DEF PutAnswered
  <2>3. heads' \in [Service -> Snapshot]
    BY <1>6, TypeFacts, ConstantTypes DEF PutAnswered
  <2>4. copy' \in [Caller -> Copy]
    <3>1. [marker |-> 1, events |-> <<>>, state |-> {}] \in Copy
      BY DEF Copy
    <3>2. \/ copy' = copy
          \/ copy' = [copy EXCEPT ![c] =
                        [marker |-> 1, events |-> <<>>, state |-> {}]]
      BY <1>6 DEF PutAnswered
    <3> QED BY <3>1, <3>2, TypeFacts
  <2>5. \/ Enter(c, "delete_read", NoEvent, NoHead, op[c].round + 1)
        \/ Leave(c) /\ UNCHANGED inflight
    BY <1>6 DEF PutAnswered
  <2> QED BY <2>1, <2>2, <2>3, <2>4, <2>5, <1>pc, <1>e, <1>l, <1>r
<1> QED BY <1>1, <1>2, <1>3, <1>4, <1>5, <1>6

\* A failed call, a cancellation and a crash keep every type.
LEMMA TypeFailures ==
  ASSUME TypeInv,
         \/ \E c \in Caller : CallFails(c) \/ Cancel(c)
         \/ \E s \in Service : Crash(s)
  PROVE  TypeInv'
<1>1. ASSUME NEW c \in Caller, CallFails(c)
      PROVE  TypeInv'
  <2>1. /\ UNCHANGED <<head, records, eventPuts, headPuts, historyVars,
                       taskVars>>
        /\ inflight' \in [Service -> EventId \cup {NoEvent}]
        /\ heads' \in [Service -> Snapshot] /\ copy' \in [Caller -> Copy]
        /\ cancels' \in Nat /\ crashes' \in Nat /\ Leave(c)
    BY <1>1, TypeFacts DEF CallFails, vaultVars, boundVars, serviceVars
  <2>2. put' \in [Caller -> Attempt]
    BY <1>1, TypeFacts, TryType DEF CallFails
  <2> QED BY <2>1, <2>2, TypeLeft
<1>2. ASSUME NEW c \in Caller, Cancel(c)
      PROVE  TypeInv'
  <2>1. /\ UNCHANGED <<head, records, eventPuts, headPuts, historyVars,
                       taskVars>>
        /\ heads' \in [Service -> Snapshot] /\ copy' \in [Caller -> Copy]
        /\ cancels' \in Nat /\ crashes' \in Nat /\ Leave(c) /\ PopIfDone(c)
    BY <1>2, TypeFacts DEF Cancel, vaultVars
  <2>2. put' \in [Caller -> Attempt]
    BY <1>2, TypeFacts, TryType DEF Cancel
  <2> QED BY <2>1, <2>2, TypeLeft, TypePop
<1>3. ASSUME NEW s \in Service, Crash(s)
      PROVE  TypeInv'
  <2>1. phase' \in [EventId -> Phase]
    BY <1>3 DEF Crash, Phase, TypeInv, TypeOK
  <2>2. /\ heads' \in [Service -> Snapshot]
        /\ inflight' \in [Service -> EventId \cup {NoEvent}]
        /\ copy' \in [Caller -> Copy]
    BY <1>3, ConstantTypes DEF Crash, TypeInv, TypeOK
  <2>3. OpsTyped'
    BY <1>3, ConstantTypes DEF Crash, TypeInv, OpsTyped, Idle, Appending
  <2>4. put' \in [Caller -> Attempt]
    <3>1. \A c \in Caller : Try(put[c].call, 0) \in Attempt
      BY TryType DEF TypeInv, TypeOK
    <3> QED BY <1>3, <3>1 DEF Crash, TypeInv, TypeOK
  <2>5. AppendsTyped'
    BY <1>3 DEF Crash, TypeInv, AppendsTyped, Started, Active
  <2>6. UNCHANGED <<vaultVars, args, attempt, result, cancels>>
        /\ crashes' = crashes + 1
    BY <1>3 DEF Crash
  <2> QED
    BY <2>1, <2>2, <2>3, <2>4, <2>5, <2>6
    DEF TypeInv, TypeOK, OpsTyped, vaultVars, historyVars
<1> QED BY <1>1, <1>2, <1>3

\* Every step keeps every type.
LEMMA TypeStep == TypeInv /\ [Next]_vars => TypeInv'
<1> SUFFICES ASSUME TypeInv, [Next]_vars PROVE TypeInv'
  OBVIOUS
<1>1. CASE UNCHANGED vars
  BY <1>1
  DEF vars, vaultVars, historyVars, taskVars, serviceVars, callerVars,
      boundVars, TypeInv, TypeOK, AppendsTyped, OpsTyped, Started
<1>2. CASE Next
  BY <1>2, TypeVault, TypeTask, TypeAppend, TypeGet, TypeCreateDelete,
     TypeFailures
  DEF Next, CallerStep
<1> QED BY <1>1, <1>2

\* Every variable always has its type: in particular no append is ever given
\* an event number beyond max_events, whatever snapshot it was based on.
THEOREM TypeCorrect == Spec => []TypeOK
<1>1. TypeInv => TypeOK
  BY DEF TypeInv
<1> QED BY <1>1, TypeInit, TypeStep, PTL DEF Spec
=============================================================================
