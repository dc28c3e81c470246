-------------------------- MODULE CheckpointSafety --------------------------
(* The inductive invariant of Checkpoint and the safety properties it      *)
(* implies, for every value of the constants.                              *)
EXTENDS CheckpointProofs

USE BoundsAssumption, NamesAssumption

Inv == TypeInv /\ IInv

\* What the steps below need of the types, at one name.
LEMMA Types ==
  ASSUME TypeInv
  PROVE  /\ head \in Snapshot /\ log \in Seq(EventId)
         /\ versions \in Seq(Snapshot)
         /\ phase \in [EventId -> Phase] /\ args \in [EventId -> Args]
         /\ attempt \in [EventId -> Attempt]
         /\ result \in [EventId -> Snapshot]
         /\ heads \in [Service -> Snapshot] /\ copy \in [Caller -> Copy]
         /\ op \in [Caller -> Op] /\ put \in [Caller -> Attempt]
         /\ \A m \in eventPuts : m.by \in EventId
         /\ \A m \in headPuts : m.by \in EventId \cup Caller
         /\ \A r \in records : r.key[2] \in EventId
         /\ inflight \in [Service -> EventId \cup {NoEvent}]
BY DEF TypeInv, TypeOK, EventPuts, HeadPuts, Key

\* A step of a commit task that leaves the vault alone keeps the invariant if
\* what it sends is what its append wrote and what it concludes is so.
LEMMA TaskFrame ==
  ASSUME Inv, TypeInv', NEW e \in EventId, Started(e), Started(e)',
         \A f \in EventId \ {e} :
           /\ phase'[f] = phase[f] /\ attempt'[f] = attempt[f]
           /\ result'[f] = result[f],
         UNCHANGED <<head, records, historyVars, args, serviceVars,
                     callerVars>>,
         \A m \in eventPuts' \ eventPuts :
           m.by = e /\ m.key = KeyOf(e) /\ m.prev = args[e].base.last,
         \A m \in headPuts' \ headPuts :
           /\ m.by = e /\ HasRecord(e)
           /\ m.ver = args[e].base.version /\ m.body = NewHead(e),
         Genuine(result'[e]),
         phase'[e] = "event_put" /\ attempt'[e].reply # "none" => HasRecord(e),
         phase'[e] \in {"event_get", "head_put", "head_get"} => HasRecord(e),
         phase'[e] = "head_put" /\ attempt'[e].reply = "ok" =>
           e \in {log[i] : i \in DOMAIN log},
         phase'[e] = "committed" =>
           /\ e \in {log[i] : i \in DOMAIN log}
           /\ result'[e].last = KeyOf(e)
  PROVE  IInv'
<1> USE DEF Inv, IInv
<1>1. TypeOK'
  BY DEF TypeInv
<1>2. VersionsAreHeads' /\ ChainIntact' /\ CopiesAreGenuine'
  BY DEF VersionsAreHeads, ChainIntact, CopiesAreGenuine, Genuine, HeadAt,
         Prev, historyVars, callerVars
<1>3. SnapshotsAreGenuine'
  BY DEF SnapshotsAreGenuine, Genuine, HeadAt, historyVars, serviceVars,
         callerVars
<1>4. \A f \in EventId : Started(f)' <=> Started(f)
  BY DEF Started
<1>5. AppendsAreOnSnapshots'
  BY <1>4 DEF AppendsAreOnSnapshots
<1>6. \A f \in EventId : KeyOf(f)' = KeyOf(f) /\ NewHead(f)' = NewHead(f)
                         /\ HasRecord(f)' = HasRecord(f)
  BY DEF KeyOf, KeyFor, NewHead, HasRecord
<1>7. RecordsAreOfAppends'
  BY <1>4, <1>6, Types DEF RecordsAreOfAppends
<1>8. HeadPutsAreOnSnapshots'
  BY <1>4, <1>6 DEF HeadPutsAreOnSnapshots, HeadAt, historyVars
<1>9. TasksAreWhereTheyAre'
  BY <1>6 DEF TasksAreWhereTheyAre, historyVars
<1>10. OperationsAreWhereTheyAre'
  BY <1>4, Types DEF OperationsAreWhereTheyAre,
      EventsAreApart, OperationIsWhereItIs, callerVars, historyVars
<1>11. CommitsAreOnSnapshots'
  BY <1>4, <1>6, Types DEF CommitsAreOnSnapshots, historyVars
<1> QED
  BY <1>1, <1>2, <1>3, <1>5, <1>7, <1>8, <1>9, <1>10, <1>11

\* A record and a head never go out under two different keys, so a key tells
\* its event, and the key of an append is never "no key".
LEMMA Keys ==
  ASSUME TypeInv, NEW e \in EventId
  PROVE  /\ KeyOf(e) = <<args[e].base.count + 1, e>>
         /\ KeyOf(e)[1] = args[e].base.count + 1 /\ KeyOf(e)[2] = e
         /\ KeyOf(e) # NoKey
         /\ args[e].base.count \in Nat /\ args[e].base \in Snapshot
<1>1. args[e].base \in Snapshot /\ args[e].base.count \in Nat
  BY Types DEF Args, Snapshot
<1> QED BY <1>1 DEF KeyOf, KeyFor, NoKey

\* The steps of a commit task keep the invariant.
LEMMA InvTask ==
  ASSUME Inv, TypeInv', NEW e \in EventId, TaskStep(e)
  PROVE  IInv'
<1> DEFINE Env == UNCHANGED <<head, records, historyVars, args, serviceVars,
                              callerVars>>
           Others == \A f \in EventId \ {e} :
                       /\ phase'[f] = phase[f] /\ attempt'[f] = attempt[f]
                       /\ result'[f] = result[f]
           Logged == e \in {log[i] : i \in DOMAIN log}
<1> TypeInv
  BY DEF Inv
<1>g. Genuine(result[e]) /\ Genuine(NoHead) /\ Genuine(head)
  BY Types DEF Inv, IInv, SnapshotsAreGenuine, VersionsAreHeads, Genuine,
               HeadAt, NoHead
<1>t. /\ phase[e] = "event_put" /\ attempt[e].reply # "none" => HasRecord(e)
      /\ phase[e] \in {"event_get", "head_put", "head_get"} => HasRecord(e)
      /\ phase[e] = "head_put" /\ attempt[e].reply = "ok" => Logged
  BY DEF Inv, IInv, TasksAreWhereTheyAre
<1>s. ASSUME StartHeadPut(e), HasRecord(e), Started(e), Env
      PROVE  IInv'
  <2>1. Others /\ phase'[e] = "head_put" /\ attempt'[e].reply = "none"
        /\ result'[e] = result[e]
    BY <1>s, Types DEF StartHeadPut, Try
  <2>2. eventPuts' = eventPuts
    BY <1>s DEF StartHeadPut
  <2>3. \A m \in headPuts' \ headPuts :
          /\ m.by = e /\ HasRecord(e)
          /\ m.ver = args[e].base.version /\ m.body = NewHead(e)
    BY <1>s DEF StartHeadPut, CommitPut, HeadPut
  <2>4. Genuine(result'[e]) /\ Started(e)'
    BY <2>1, <1>g DEF Started
  <2> QED BY <1>s, <2>1, <2>2, <2>3, <2>4, TaskFrame
<1>f. ASSUME NEW outcome \in Phase \ Active, NEW snap,
             Finish(e, outcome, snap), Genuine(snap), Started(e),
             outcome # "new", Env,
             outcome = "committed" => Logged /\ snap.last = KeyOf(e)
      PROVE  IInv'
  <2>1. Others /\ phase'[e] = outcome /\ result'[e] = snap
    BY <1>f, Types DEF Finish
  <2>2. eventPuts' = eventPuts /\ headPuts' = headPuts
    BY <1>f DEF Finish
  <2>3. Started(e)'
    BY <1>f, <2>1 DEF Started
  <2>4. phase'[e] \notin {"event_put", "event_get", "head_put", "head_get"}
    BY <1>f, <2>1 DEF Active
  <2> QED BY <1>f, <2>1, <2>2, <2>3, <2>4, TaskFrame
<1>1. CASE EventPutAnswered(e)
  <2>1. Env /\ Started(e) /\ HasRecord(e)
    <3>1. attempt[e].reply # "none" /\ phase[e] = "event_put"
      BY <1>1 DEF EventPutAnswered
    <3> QED BY <1>1, <1>t, <3>1 DEF EventPutAnswered, StartHeadPut, Started
  <2>2. CASE attempt[e].reply = "ok"
    BY <1>1, <1>s, <2>1, <2>2 DEF EventPutAnswered
  <2>3. CASE attempt[e].reply = "conflict"
    <3>1. /\ phase' = [phase EXCEPT ![e] = "event_get"]
          /\ UNCHANGED <<eventPuts, headPuts, attempt, result>>
      BY <1>1, <2>3 DEF EventPutAnswered
    <3>2. Others /\ phase'[e] = "event_get" /\ Started(e)'
      BY <3>1, Types DEF Started
    <3> QED BY <1>g, <2>1, <3>1, <3>2, TaskFrame
  <2> QED BY <1>1, <2>2, <2>3 DEF EventPutAnswered
<1>2. CASE EventReread(e)
  <2>1. Env /\ Started(e) /\ HasRecord(e)
    BY <1>2, <1>t DEF EventReread, StartHeadPut, Finish, Started
  <2>2. StartHeadPut(e)
    BY <1>2, <2>1 DEF EventReread, HasRecord
  <2> QED BY <1>s, <2>1, <2>2
<1>3. CASE HeadPutAnswered(e)
  <2>1. Env /\ Started(e) /\ HasRecord(e)
    BY <1>3, <1>t DEF HeadPutAnswered, Finish, Started
  <2>2. CASE attempt[e].reply = "ok" /\ Finish(e, "committed", NewHead(e))
    <3>1. Logged
      BY <1>3, <1>t, <2>2 DEF HeadPutAnswered
    <3>2. PICK i \in DOMAIN log : log[i] = e
      BY <3>1
    <3>3. /\ args[e].base.version < Len(versions)
          /\ versions[args[e].base.version + 1] = NewHead(e)
      BY <3>2 DEF Inv, IInv, CommitsAreOnSnapshots
    <3>4. args[e].base.version \in Nat /\ Len(versions) \in Nat
      BY Keys, Types, LenProperties DEF Snapshot
    <3>5. Genuine(NewHead(e)) /\ NewHead(e).last = KeyOf(e)
      BY <3>3, <3>4 DEF Genuine, HeadAt, NewHead
    <3>6. "committed" \in Phase \ Active
      BY DEF Phase, Active
    <3> QED BY <1>f, <2>1, <2>2, <3>1, <3>5, <3>6
  <2>3. CASE attempt[e].reply = "conflict"
    <3>1. /\ phase' = [phase EXCEPT ![e] = "head_get"]
          /\ UNCHANGED <<eventPuts, headPuts, attempt, result>>
      BY <1>3, <2>3 DEF HeadPutAnswered
    <3>2. Others /\ phase'[e] = "head_get" /\ Started(e)'
      BY <3>1, Types DEF Started
    <3> QED BY <1>g, <2>1, <3>1, <3>2, TaskFrame
  <2> QED BY <1>3, <2>2, <2>3 DEF HeadPutAnswered
<1>4. CASE HeadReread(e)
  <2>1. Env /\ Started(e)
    BY <1>4 DEF HeadReread, Finish, Started
  <2>2. {"committed", "stale"} \subseteq Phase \ Active
    BY DEF Phase, Active
  <2>3. CASE Ours(e)
    <3>1. Finish(e, "committed", head) /\ head.last = KeyOf(e)
      BY <1>4, <2>3 DEF HeadReread, Ours
    <3>2. log # <<>> /\ head.last = <<Len(log), log[Len(log)]>>
      BY <3>1, Keys DEF Inv, IInv, ChainIntact
    <3>3. log \in Seq(EventId) /\ log # <<>>
      BY <3>2, Types
    <3>4. Len(log) \in DOMAIN log
      <4>1. DOMAIN log = 1..Len(log)
        BY <3>3, LenProperties
      <4>2. Len(log) \in Nat \ {0}
        BY <3>3, EmptySeq
      <4> QED BY <4>1, <4>2
    <3>5. log[Len(log)] = e
      <4>1. <<Len(log), log[Len(log)]>> = <<args[e].base.count + 1, e>>
        BY <3>1, <3>2, Keys
      <4> QED BY <4>1
    <3> QED BY <1>f, <1>g, <2>1, <2>2, <3>1, <3>4, <3>5
  <2>4. CASE ~Ours(e)
    BY <1>4, <1>f, <1>g, <2>1, <2>2, <2>4 DEF HeadReread
  <2> QED BY <2>3, <2>4
<1>5. CASE Resend(e)
  <2>1. Env /\ Started(e) /\ Others /\ Started(e)' /\ phase' = phase
        /\ result' = result /\ attempt'[e].reply = "none"
    BY <1>5, Types DEF Resend, Started, Try
  <2>2. \A m \in eventPuts' \ eventPuts :
          m.by = e /\ m.key = KeyOf(e) /\ m.prev = args[e].base.last
    BY <1>5 DEF Resend, EventPut, KeyOf
  <2>3. \A m \in headPuts' \ headPuts :
          /\ m.by = e /\ HasRecord(e)
          /\ m.ver = args[e].base.version /\ m.body = NewHead(e)
    BY <1>5, <1>t DEF Resend, CommitPut, HeadPut
  <2>4. phase[e] \in {"event_put", "head_put"}
    BY <1>5 DEF Resend
  <2> QED BY <1>g, <1>t, <2>1, <2>2, <2>3, <2>4, TaskFrame
<1>6. CASE GiveUp(e)
  <2>1. Env /\ Started(e)
    BY <1>6 DEF GiveUp, Finish, Started, Active
  <2>2. "unavailable" \in Phase \ Active
    BY DEF Phase, Active
  <2> QED BY <1>6, <1>f, <1>g, <2>1, <2>2 DEF GiveUp
<1> QED BY <1>1, <1>2, <1>3, <1>4, <1>5, <1>6 DEF TaskStep

\* The vault taking an event record keeps the invariant: after it, the record
\* of that append is stored, whether by this request or by an earlier one.
LEMMA InvVaultEvent ==
  ASSUME Inv, TypeInv', NEW m \in eventPuts, VaultTakesEvent(m)
  PROVE  IInv'
<1> USE DEF Inv, IInv
<1> DEFINE e == m.by
           rec == [key |-> m.key, prev |-> m.prev]
<1>1. TypeOK'
  BY DEF TypeInv
<1>2. UNCHANGED <<head, headPuts, historyVars, phase, args, result,
                  serviceVars, callerVars>>
  BY DEF VaultTakesEvent
<1>3. e \in EventId /\ Started(e) /\ m.key = KeyOf(e)
      /\ m.prev = args[e].base.last
  BY Types DEF RecordsAreOfAppends
<1>4. \A f \in EventId : /\ Started(f)' <=> Started(f)
                         /\ KeyOf(f)' = KeyOf(f) /\ NewHead(f)' = NewHead(f)
  BY <1>2 DEF Started, KeyOf, KeyFor, NewHead
<1>5. /\ records \subseteq records' /\ records' \subseteq records \cup {rec}
      /\ eventPuts' \subseteq eventPuts
  BY DEF VaultTakesEvent
<1>6. HasRecord(e)'
  <2>1. CASE \A r \in records : r.key # m.key
    BY <1>2, <1>3, <1>4, <2>1 DEF VaultTakesEvent, HasRecord
  <2>2. CASE \E r \in records : r.key = m.key
    <3>1. PICK r \in records : r.key = KeyOf(e)
      BY <1>3, <2>2
    <3>2. r.key[2] = e
      BY <1>3, <3>1, Keys
    <3>3. r.prev = args[e].base.last
      BY <3>2 DEF RecordsAreOfAppends
    <3>4. r \in [key : Key, prev : Key \cup {NoKey}]
      BY DEF TypeOK
    <3>5. r = [key |-> KeyOf(e), prev |-> args[e].base.last]
      <4>1. r = [key |-> r.key, prev |-> r.prev]
        BY ONLY <3>4
      <4> QED BY ONLY <3>1, <3>3, <4>1
    <3> QED BY <1>2, <1>3, <1>4, <1>5, <3>5 DEF HasRecord
  <2> QED BY <2>1, <2>2
<1>7. \A f \in EventId : HasRecord(f) => HasRecord(f)'
  BY <1>2, <1>4, <1>5 DEF HasRecord
<1>8. VersionsAreHeads' /\ CopiesAreGenuine'
  BY <1>2 DEF VersionsAreHeads, CopiesAreGenuine, Genuine, HeadAt, historyVars,
              callerVars
<1>9. SnapshotsAreGenuine'
  BY <1>2 DEF SnapshotsAreGenuine, Genuine, HeadAt, historyVars, serviceVars,
              callerVars
<1>10. AppendsAreOnSnapshots'
  BY <1>2, <1>4 DEF AppendsAreOnSnapshots
<1>11. RecordsAreOfAppends'
  <2>1. \A p \in eventPuts' : p \in eventPuts /\ p.by \in EventId
    BY <1>5, Types
  <2>2. \A r \in records' : r \in records \/ r = rec
    BY <1>5
  <2>3. rec.key[2] = e /\ rec.key = KeyOf(e) /\ rec.prev = args[e].base.last
    BY <1>3, Keys
  <2> QED
    BY <1>2, <1>3, <1>4, <2>1, <2>2, <2>3, Types DEF RecordsAreOfAppends
<1>12. HeadPutsAreOnSnapshots'
  BY <1>2, <1>4, <1>7 DEF HeadPutsAreOnSnapshots, HeadAt, historyVars
<1>13. TasksAreWhereTheyAre'
  <2>1. \A f \in EventId \ {e} : attempt'[f] = attempt[f]
    BY <1>3, Types DEF VaultTakesEvent
  <2>2. phase[e] = "head_put" => attempt'[e] = attempt[e]
    BY DEF VaultTakesEvent, Awaits
  <2> QED
    BY <1>2, <1>3, <1>4, <1>6, <1>7, <2>1, <2>2
    DEF TasksAreWhereTheyAre, historyVars
<1>14. OperationsAreWhereTheyAre'
  BY <1>2, <1>4, Types DEF OperationsAreWhereTheyAre,
      EventsAreApart, OperationIsWhereItIs, callerVars, historyVars
<1>15. CommitsAreOnSnapshots'
  BY <1>2, <1>4, Types DEF CommitsAreOnSnapshots, historyVars
<1>16. ChainIntact'
  BY <1>2, <1>5 DEF ChainIntact, Prev, historyVars
<1> QED
  BY <1>1, <1>8, <1>9, <1>10, <1>11, <1>12, <1>13, <1>14, <1>15, <1>16

\* The history of heads grows by one: what was genuine stays so.
LEMMA HistoryGrows ==
  ASSUME TypeInv, TypeInv', versions' = Append(versions, head')
  PROVE  /\ Len(versions') = Len(versions) + 1 /\ Len(versions) \in Nat
         /\ versions' # <<>>
         /\ \A v \in 1..Len(versions) : versions'[v] = versions[v]
         /\ versions'[Len(versions) + 1] = head'
         /\ \A v \in 0..Len(versions) : HeadAt(v)' = HeadAt(v)
         /\ \A s : Genuine(s) => Genuine(s)'
<1>1. versions \in Seq(Snapshot) /\ head' \in Snapshot
  BY DEF TypeInv, TypeOK
<1>2. /\ Len(versions') = Len(versions) + 1 /\ Len(versions) \in Nat
      /\ versions' # <<>>
      /\ \A v \in 1..Len(versions) : versions'[v] = versions[v]
      /\ versions'[Len(versions) + 1] = head'
  BY <1>1, AppendProperties, LenProperties
<1>3. \A v \in 0..Len(versions) : HeadAt(v)' = HeadAt(v)
  BY <1>2 DEF HeadAt
<1>4. \A s : Genuine(s) => Genuine(s)'
  BY <1>2 DEF Genuine, HeadAt
<1> QED BY <1>2, <1>3, <1>4

\* The committed events grow by one.
LEMMA LogGrows ==
  ASSUME TypeInv, NEW e \in EventId, log' = Append(log, e)
  PROVE  /\ Len(log') = Len(log) + 1 /\ Len(log) \in Nat /\ log' # <<>>
         /\ \A i \in 1..Len(log) : log'[i] = log[i]
         /\ log'[Len(log) + 1] = e
         /\ DOMAIN log = 1..Len(log) /\ DOMAIN log' = 1..(Len(log) + 1)
         /\ {log'[i] : i \in 1..(Len(log) + 1)}
              = {log[i] : i \in 1..Len(log)} \cup {e}
<1>1. log \in Seq(EventId)
  BY DEF TypeInv, TypeOK
<1>2. /\ Len(log') = Len(log) + 1 /\ Len(log) \in Nat /\ log' # <<>>
      /\ \A i \in 1..Len(log) : log'[i] = log[i]
      /\ log'[Len(log) + 1] = e
      /\ DOMAIN log = 1..Len(log) /\ log' \in Seq(EventId)
  BY <1>1, AppendProperties, LenProperties
<1>3. DOMAIN log' = 1..(Len(log) + 1)
  BY <1>2, LenProperties
<1>4. {log'[i] : i \in 1..(Len(log) + 1)}
        = {log[i] : i \in 1..Len(log)} \cup {e}
  <2>1. 1..(Len(log) + 1) = 1..Len(log) \cup {Len(log) + 1}
    BY <1>2
  <2> QED BY <1>2, <2>1
<1> QED BY <1>2, <1>3, <1>4

\* What a head is when it is the current one.
LEMMA CurrentHead ==
  ASSUME Inv
  PROVE  /\ head.version = Len(versions) /\ Len(versions) \in Nat
         /\ head.count = Len(log) /\ Len(log) \in Nat
         /\ head.last = IF log = <<>> THEN NoKey
                        ELSE <<Len(log), log[Len(log)]>>
         /\ head.state = {log[i] : i \in 1..Len(log)}
         /\ head = HeadAt(head.version)
<1>1. /\ head.version = Len(versions) /\ Len(versions) \in Nat
      /\ head.count = Len(log) /\ Len(log) \in Nat
      /\ head = HeadAt(head.version)
  BY LenProperties, Types
  DEF Inv, IInv, VersionsAreHeads, ChainIntact, Genuine
<1>2. head.last = IF log = <<>> THEN NoKey ELSE <<Len(log), log[Len(log)]>>
  BY DEF Inv, IInv, ChainIntact
<1>3. head.state = {log[i] : i \in 1..Len(log)}
  <2>1. CASE head.version = 0
    <3>1. head.state = {} /\ head.count = 0
      BY <1>1, <2>1 DEF HeadAt, NoHead
    <3>2. 1..Len(log) = {}
      BY <1>1, <3>1
    <3> QED BY <3>1, <3>2
  <2>2. CASE head.version # 0
    <3>1. head = versions[head.version] /\ head.version \in 1..Len(versions)
      BY <1>1, <2>2 DEF HeadAt
    <3>2. head.state = {log[i] : i \in 1..head.count}
      BY <3>1 DEF Inv, IInv, VersionsAreHeads
    <3> QED BY <1>1, <3>2
  <2> QED BY <2>1, <2>2
<1> QED BY <1>1, <1>2, <1>3

\* A commit of event e that the vault accepts is on top of the current head.
LEMMA CommitAccepted ==
  ASSUME Inv, NEW m \in headPuts, m.by \in EventId, head.version = m.ver
  PROVE  /\ Started(m.by) /\ HasRecord(m.by)
         /\ args[m.by].base = head
         /\ AtVersion(m.body, head.version + 1) = NewHead(m.by)
         /\ KeyOf(m.by) = <<Len(log) + 1, m.by>>
         /\ NewHead(m.by).version = Len(versions) + 1
         /\ NewHead(m.by).count = Len(log) + 1
         /\ NewHead(m.by).last = <<Len(log) + 1, m.by>>
         /\ NewHead(m.by).state = {log[i] : i \in 1..Len(log)} \cup {m.by}
<1> DEFINE e == m.by
<1>0. TypeInv
  BY DEF Inv
<1>1. /\ Started(e) /\ HasRecord(e)
      /\ m.ver = args[e].base.version /\ m.body = NewHead(e)
  BY DEF Inv, IInv, HeadPutsAreOnSnapshots
<1>2. args[e].base = head
  BY <1>1, CurrentHead DEF Inv, IInv, SnapshotsAreGenuine, Genuine
<1>3. args[e].state = head.state \cup {e}
  BY <1>1, <1>2 DEF Inv, IInv, AppendsAreOnSnapshots
<1>4. KeyOf(e) = <<Len(log) + 1, e>>
  BY <1>0, <1>2, Keys, CurrentHead
<1>5. AtVersion(m.body, head.version + 1) = NewHead(e)
  BY <1>1, <1>2 DEF AtVersion, NewHead
<1>6. /\ NewHead(e).version = Len(versions) + 1
      /\ NewHead(e).count = Len(log) + 1
      /\ NewHead(e).last = <<Len(log) + 1, e>>
      /\ NewHead(e).state = {log[i] : i \in 1..Len(log)} \cup {e}
  BY <1>2, <1>3, <1>4, CurrentHead DEF NewHead
<1> QED BY <1>1, <1>2, <1>4, <1>5, <1>6

\* A create or a delete that the vault accepts changes the current head only
\* in its version and its flag.
LEMMA OtherAccepted ==
  ASSUME Inv, NEW m \in headPuts, m.by \notin EventId, head.version = m.ver
  PROVE  LET new == AtVersion(m.body, head.version + 1)
         IN  /\ new.version = Len(versions) + 1 /\ new.count = head.count
             /\ new.last = head.last /\ new.state = head.state
             /\ versions = <<>> => new = FirstHead
<1>1. /\ m.ver \in 0..Len(versions)
      /\ m.body = IF m.ver = 0 THEN NoHead ELSE Tombstone(HeadAt(m.ver))
  BY DEF Inv, IInv, HeadPutsAreOnSnapshots
<1>2. CASE m.ver = 0
  <2>1. head = NoHead /\ m.body = NoHead
    BY <1>1, <1>2, CurrentHead DEF HeadAt
  <2> QED BY <1>2, <2>1, CurrentHead DEF AtVersion, NoHead, FirstHead
<1>3. CASE m.ver # 0
  <2>1. m.body = Tombstone(head) /\ versions # <<>>
    BY <1>1, <1>3, CurrentHead
  <2> QED BY <2>1, CurrentHead DEF AtVersion, Tombstone
<1> QED BY <1>2, <1>3

\* The vault taking a head request keeps the invariant.  A refused request
\* changes nothing but an answer.
LEMMA InvHeadRefused ==
  ASSUME Inv, TypeInv', NEW m \in headPuts, VaultTakesHead(m),
         head.version # m.ver
  PROVE  IInv'
<1> USE DEF Inv, IInv
<1>1. UNCHANGED <<head, log, versions, records, eventPuts, phase, args, result,
                  serviceVars, copy, op>>
      /\ headPuts' \subseteq headPuts
  BY DEF VaultTakesHead
<1>2. \A f \in EventId :
        \/ attempt'[f] = attempt[f]
        \/ phase[f] = "head_put" /\ attempt'[f].reply = "conflict"
  BY Types DEF VaultTakesHead, Awaits, Replied, Answer
<1>3. \A c \in Caller :
        \/ put'[c] = put[c]
        \/ put'[c].reply = "conflict"
  BY Types DEF VaultTakesHead, Replied, Answer
<1>4. \A f \in EventId : /\ Started(f)' <=> Started(f)
                         /\ KeyOf(f)' = KeyOf(f) /\ NewHead(f)' = NewHead(f)
                         /\ HasRecord(f)' = HasRecord(f)
  BY <1>1 DEF Started, KeyOf, KeyFor, NewHead, HasRecord
<1>5. VersionsAreHeads' /\ CopiesAreGenuine' /\ ChainIntact'
  BY <1>1 DEF VersionsAreHeads, CopiesAreGenuine, Genuine, HeadAt, ChainIntact,
              Prev
<1>6. SnapshotsAreGenuine'
  BY <1>1 DEF SnapshotsAreGenuine, Genuine, HeadAt, serviceVars
<1>7. AppendsAreOnSnapshots'
  BY <1>1, <1>4 DEF AppendsAreOnSnapshots
<1>8. RecordsAreOfAppends'
  BY <1>1, <1>4, Types DEF RecordsAreOfAppends
<1>9. HeadPutsAreOnSnapshots'
  BY <1>1, <1>4 DEF HeadPutsAreOnSnapshots, HeadAt
<1>10. TasksAreWhereTheyAre'
  BY <1>1, <1>2, <1>4 DEF TasksAreWhereTheyAre
<1>11. OperationsAreWhereTheyAre'
  BY <1>1, <1>3, <1>4, Types DEF OperationsAreWhereTheyAre,
      EventsAreApart, OperationIsWhereItIs
<1>12. CommitsAreOnSnapshots'
  BY <1>1, <1>4, Types DEF CommitsAreOnSnapshots
<1>13. TypeOK'
  BY DEF TypeInv
<1> QED
  BY <1>5, <1>6, <1>7, <1>8, <1>9, <1>10, <1>11, <1>12, <1>13

\* An accepted one adds to both histories, or to that of the heads alone.
LEMMA InvHeadAccepted ==
  ASSUME Inv, TypeInv', NEW m \in headPuts, VaultTakesHead(m),
         head.version = m.ver
  PROVE  IInv'
<1> USE DEF Inv
<1> DEFINE Commit == m.by \in EventId
           n == Len(log)
<1>0. TypeInv /\ log \in Seq(EventId) /\ versions \in Seq(Snapshot)
      /\ log' \in Seq(EventId) /\ versions' \in Seq(Snapshot)
      /\ m.by \in EventId \cup Caller
  BY Types DEF TypeInv, TypeOK
<1>1. /\ UNCHANGED <<records, eventPuts, phase, args, result, serviceVars,
                     copy, op>>
      /\ headPuts' \subseteq headPuts
      /\ head' = AtVersion(m.body, head.version + 1)
      /\ versions' = Append(versions, head')
      /\ log' = IF Commit THEN Append(log, m.by) ELSE log
  BY DEF VaultTakesHead
<1>2. /\ Len(versions') = Len(versions) + 1 /\ Len(versions) \in Nat
      /\ versions' # <<>>
      /\ \A v \in 1..Len(versions) : versions'[v] = versions[v]
      /\ versions'[Len(versions) + 1] = head'
      /\ \A v \in 0..Len(versions) : HeadAt(v)' = HeadAt(v)
      /\ \A s : Genuine(s) => Genuine(s)'
  BY <1>1, HistoryGrows
<1>3. /\ n \in Nat /\ Len(log') \in Nat /\ n <= Len(log')
      /\ DOMAIN log = 1..n /\ DOMAIN log' = 1..Len(log')
      /\ \A i \in 1..n : log'[i] = log[i]
  BY <1>1, LogGrows, Types, LenProperties
<1>4. /\ head'.version = Len(versions) + 1 /\ head'.count = Len(log')
      /\ head'.last = IF log' = <<>> THEN NoKey
                      ELSE <<Len(log'), log'[Len(log')]>>
      /\ head'.state = {log'[i] : i \in 1..Len(log')}
      /\ versions = <<>> => head' = FirstHead
  <2>1. CASE Commit
    <3>1. versions # <<>>
      <4>1. args[m.by].base.version # 0
        BY <2>1, CommitAccepted DEF IInv, AppendsAreOnSnapshots
      <4>2. head.version # 0
        BY <2>1, <4>1, CommitAccepted
      <4> QED BY <4>2, CurrentHead, EmptySeq, Types
    <3>2. log' = Append(log, m.by)
      BY <1>1, <2>1
    <3>3. /\ Len(log') = n + 1 /\ log' # <<>> /\ log'[n + 1] = m.by
          /\ {log'[i] : i \in 1..(n + 1)}
               = {log[i] : i \in 1..n} \cup {m.by}
      BY <1>0, <2>1, <3>2, LogGrows
    <3>4. head' = NewHead(m.by)
      BY <1>1, <2>1, CommitAccepted
    <3>5. /\ head'.version = Len(versions) + 1 /\ head'.count = n + 1
          /\ head'.last = <<n + 1, m.by>>
          /\ head'.state = {log[i] : i \in 1..n} \cup {m.by}
      BY <2>1, <3>4, CommitAccepted
    <3> QED BY <3>1, <3>3, <3>5
  <2>2. CASE ~Commit
    BY <1>1, <2>2, OtherAccepted, CurrentHead
  <2> QED BY <2>1, <2>2
<1>5. \A f \in EventId : /\ Started(f)' <=> Started(f)
                         /\ KeyOf(f)' = KeyOf(f) /\ NewHead(f)' = NewHead(f)
                         /\ HasRecord(f)' = HasRecord(f)
  BY <1>1 DEF Started, KeyOf, KeyFor, NewHead, HasRecord
<1>6. VersionsAreHeads'
  <2>1. head'.version = Len(versions') /\ Genuine(head)'
    BY <1>2, <1>4 DEF Genuine, HeadAt
  <2>2. versions'[1] = FirstHead
    <3>1. CASE versions = <<>>
      BY <1>2, <1>4, <3>1
    <3>2. CASE versions # <<>>
      <4>1. 1 \in 1..Len(versions)
        <5>1. Len(versions) # 0
          BY <1>0, <3>2, EmptySeq
        <5> QED BY <1>2, <5>1
      <4> QED BY <1>2, <3>2, <4>1 DEF IInv, VersionsAreHeads
    <3> QED BY <3>1, <3>2
  <2>3. ASSUME NEW v \in 1..Len(versions')
        PROVE  /\ versions'[v].version = v
               /\ versions'[v].count <= Len(log')
               /\ versions'[v].last =
                    IF versions'[v].count = 0 THEN NoKey
                    ELSE <<versions'[v].count, log'[versions'[v].count]>>
               /\ versions'[v].state =
                    {log'[i] : i \in 1..versions'[v].count}
    <3>1. CASE v \in 1..Len(versions)
      <4>1. versions'[v] = versions[v]
        BY <1>2, <3>1
      <4>2. /\ versions[v].version = v /\ versions[v].count <= n
            /\ versions[v].last =
                 IF versions[v].count = 0 THEN NoKey
                 ELSE <<versions[v].count, log[versions[v].count]>>
            /\ versions[v].state = {log[i] : i \in 1..versions[v].count}
        BY <3>1 DEF IInv, VersionsAreHeads
      <4>3. versions[v].count \in Nat
        <5>1. versions[v] \in Snapshot
          BY <1>0, <3>1, ElementOfSeq
        <5> QED BY <5>1 DEF Snapshot
      <4>4. \A i \in 1..versions[v].count : log'[i] = log[i]
        BY <1>3, <4>2, <4>3
      <4>5. versions[v].count # 0 =>
              versions[v].count \in 1..versions[v].count
        BY <4>3
      <4>6. {log'[i] : i \in 1..versions[v].count}
              = {log[i] : i \in 1..versions[v].count}
        BY <4>4
      <4>7. versions[v].count <= Len(log')
        BY <1>3, <4>2, <4>3
      <4> QED BY <4>1, <4>2, <4>4, <4>5, <4>6, <4>7
    <3>2. CASE v = Len(versions) + 1
      <4>1. versions'[v] = head' /\ (log' = <<>> <=> Len(log') = 0)
        BY <1>0, <1>2, <3>2, EmptySeq
      <4> QED BY <1>3, <1>4, <3>2, <4>1
    <3> QED BY <1>2, <3>1, <3>2
  <2> QED BY <2>1, <2>2, <2>3 DEF VersionsAreHeads
<1>7. SnapshotsAreGenuine'
  <2>1. /\ \A s \in Service : Genuine(heads[s])
        /\ \A c \in Caller : Genuine(op[c].snap)
        /\ \A e \in EventId : Genuine(args[e].base) /\ Genuine(result[e])
    BY DEF IInv, SnapshotsAreGenuine
  <2>2. heads' = heads
    BY <1>1 DEF serviceVars
  <2> QED BY <1>1, <1>2, <2>1, <2>2 DEF SnapshotsAreGenuine, Genuine, HeadAt
<1>8. CopiesAreGenuine'
  BY <1>1, <1>2 DEF IInv, CopiesAreGenuine
<1>9. AppendsAreOnSnapshots'
  BY <1>1, <1>5 DEF IInv, AppendsAreOnSnapshots
<1>10. RecordsAreOfAppends'
  BY <1>1, <1>5, Types DEF IInv, RecordsAreOfAppends
<1>11. HeadPutsAreOnSnapshots'
  BY <1>1, <1>2, <1>5 DEF IInv, HeadPutsAreOnSnapshots
<1>12. \A f \in EventId : f \in {log[i] : i \in DOMAIN log} =>
         f \in {log'[i] : i \in DOMAIN log'}
  BY <1>3
<1>13. TasksAreWhereTheyAre'
  <2>1. \A f \in EventId :
          \/ attempt'[f] = attempt[f]
          \/ phase[f] = "head_put" /\ f = m.by
    BY Types DEF VaultTakesHead, Awaits
  <2>2. Commit => m.by \in {log'[i] : i \in DOMAIN log'}
    BY <1>1, <1>3, LogGrows
  <2> QED
    BY <1>1, <1>5, <1>12, <2>1, <2>2 DEF IInv, TasksAreWhereTheyAre
<1>14. OperationsAreWhereTheyAre'
  BY <1>1, <1>2, <1>5, Types DEF IInv, OperationsAreWhereTheyAre,
      EventsAreApart, OperationIsWhereItIs
<1>15. CommitsAreOnSnapshots'
  <2> DEFINE On(f, i) == /\ Started(f)
                         /\ args[f].base.version + 1 \in 1..Len(versions')
                         /\ args[f].base.version < Len(versions')
                         /\ args[f].base.count = i - 1
                         /\ versions'[args[f].base.version + 1] = NewHead(f)
  <2>1. ASSUME NEW i \in 1..n
        PROVE  On(log'[i], i)
    <3> DEFINE e == log[i]
    <3>1. e \in EventId /\ log'[i] = e
      BY <1>0, <1>3, ElementOfSeq
    <3>2. /\ Started(e) /\ args[e].base.version < Len(versions)
          /\ args[e].base.count = i - 1
          /\ versions[args[e].base.version + 1] = NewHead(e)
      BY <1>3 DEF IInv, CommitsAreOnSnapshots
    <3>3. args[e].base.version \in Nat
      BY <1>0, <3>1, Keys DEF Snapshot
    <3>4. args[e].base.version + 1 \in 1..Len(versions)
      BY <1>2, <3>2, <3>3
    <3> QED BY <1>2, <3>1, <3>2, <3>3, <3>4
  <2>2. Commit => On(log'[n + 1], n + 1)
    <3> SUFFICES ASSUME Commit PROVE On(log'[n + 1], n + 1)
      OBVIOUS
    <3>1. /\ log'[n + 1] = m.by /\ Started(m.by)
          /\ args[m.by].base = head /\ head' = NewHead(m.by)
      BY <1>0, <1>1, CommitAccepted, LogGrows
    <3>2. args[m.by].base.version = Len(versions) /\ args[m.by].base.count = n
      BY <3>1, CurrentHead
    <3> QED BY <1>2, <1>3, <3>1, <3>2
  <2>3. \A i \in DOMAIN log' : i \in 1..n \/ (Commit /\ i = n + 1)
    <3>1. Commit => Len(log') = n + 1
      BY <1>0, <1>1, LogGrows
    <3> QED BY <1>1, <1>3, <3>1
  <2>4. \A i \in DOMAIN log' : On(log'[i], i)
    BY <2>1, <2>2, <2>3
  <2>5. args' = args /\ phase' = phase
    BY <1>1
  <2> QED
    BY <2>4, <2>5 DEF CommitsAreOnSnapshots, Started, NewHead, KeyOf, KeyFor
<1>16. ChainIntact'
  <2> DEFINE Rec(i) == [key |-> <<i, log'[i]>>, prev |-> Prev(log', i)]
  <2>1. \A i \in 1..n : Rec(i) \in records
    <3>1. \A i \in 1..n :
            [key |-> <<i, log[i]>>, prev |-> Prev(log, i)] \in records
      BY <1>3 DEF IInv, ChainIntact
    <3>2. \A i \in 1..n : Prev(log, i) = Prev(log', i)
      BY <1>3 DEF Prev
    <3> QED BY <1>3, <3>1, <3>2
  <2>2. Commit => Rec(n + 1) \in records
    <3> SUFFICES ASSUME Commit PROVE Rec(n + 1) \in records
      OBVIOUS
    <3>1. [key |-> <<n + 1, m.by>>, prev |-> head.last] \in records
      BY CommitAccepted DEF HasRecord
    <3>2. log'[n + 1] = m.by
      BY <1>0, <1>1, LogGrows
    <3>3. Prev(log', n + 1) = head.last
      <4>1. CASE n = 0
        BY <1>0, <4>1, EmptySeq, CurrentHead DEF Prev
      <4>2. CASE n # 0
        <5>1. n \in 1..n /\ log # <<>> /\ n + 1 # 1 /\ (n + 1) - 1 = n
          BY <1>0, <1>3, <4>2, EmptySeq
        <5>2. head.last = <<n, log[n]>> /\ log'[n] = log[n]
          BY <1>3, <5>1, CurrentHead
        <5> QED BY <5>1, <5>2 DEF Prev
      <4> QED BY <4>1, <4>2
    <3> QED BY <3>1, <3>2, <3>3
  <2>3. \A i \in DOMAIN log' : i \in 1..n \/ (Commit /\ i = n + 1)
    <3>1. Commit => Len(log') = n + 1
      BY <1>0, <1>1, LogGrows
    <3> QED BY <1>1, <1>3, <3>1
  <2>4. \A i \in DOMAIN log' : Rec(i) \in records'
    BY <1>1, <2>1, <2>2, <2>3
  <2> QED BY <1>4, <2>4 DEF ChainIntact
<1>17. TypeOK'
  BY DEF TypeInv
<1> QED
  BY <1>6, <1>7, <1>8, <1>9, <1>10, <1>11, <1>13, <1>14, <1>15, <1>16, <1>17
  DEF IInv

-----------------------------------------------------------------------------
(* The steps of the callers.                                               *)

\* A step of caller c that leaves the vault and the commit tasks alone keeps
\* the invariant if what c and its service then hold is genuine.
LEMMA CallerFrame ==
  ASSUME Inv, TypeInv', NEW c \in Caller,
         UNCHANGED <<vaultVars, taskVars>>,
         \A d \in Caller \ {c} :
           op'[d] = op[d] /\ copy'[d] = copy[d] /\ put'[d] = put[d],
         \A s \in Service : Genuine(heads'[s]),
         Genuine(op'[c].snap),
         copy'[c].marker \in 0..Len(versions),
         copy'[c].marker # 0 =>
           copy'[c].state = HeadAt(copy'[c].marker).state,
         \A d \in Caller \ {c} :
           op'[c].event # NoEvent => op[d].event # op'[c].event,
         OperationIsWhereItIs(c)'
  PROVE  IInv'
<1> USE DEF Inv, IInv
<1>1. TypeOK'
  BY DEF TypeInv
<1>2. UNCHANGED <<head, records, eventPuts, headPuts, log, versions, phase,
                  args, attempt, result>>
  BY DEF vaultVars, taskVars, historyVars
<1>3. \A f \in EventId : /\ Started(f)' <=> Started(f)
                         /\ KeyOf(f)' = KeyOf(f) /\ NewHead(f)' = NewHead(f)
                         /\ HasRecord(f)' = HasRecord(f)
  BY <1>2 DEF Started, KeyOf, KeyFor, NewHead, HasRecord
<1>4. VersionsAreHeads' /\ ChainIntact'
  BY <1>2 DEF VersionsAreHeads, Genuine, HeadAt, ChainIntact, Prev
<1>5. SnapshotsAreGenuine'
  BY <1>2 DEF SnapshotsAreGenuine, Genuine, HeadAt
<1>6. CopiesAreGenuine'
  BY <1>2 DEF CopiesAreGenuine, HeadAt
<1>7. AppendsAreOnSnapshots'
  BY <1>2, <1>3 DEF AppendsAreOnSnapshots
<1>8. RecordsAreOfAppends'
  BY <1>2, <1>3, Types DEF RecordsAreOfAppends
<1>9. HeadPutsAreOnSnapshots'
  BY <1>2, <1>3 DEF HeadPutsAreOnSnapshots, HeadAt
<1>10. TasksAreWhereTheyAre'
  BY <1>2, <1>3 DEF TasksAreWhereTheyAre
<1>11. OperationsAreWhereTheyAre'
  <2>1. EventsAreApart'
    BY DEF EventsAreApart, OperationsAreWhereTheyAre
  <2>2. ASSUME NEW d \in Caller \ {c} PROVE OperationIsWhereItIs(d)'
    <3>1. OperationIsWhereItIs(d)
      BY DEF OperationsAreWhereTheyAre
    <3> QED BY <1>2, <3>1 DEF OperationIsWhereItIs, Started
  <2> QED BY <2>1, <2>2 DEF OperationsAreWhereTheyAre
<1>12. CommitsAreOnSnapshots'
  BY <1>2, <1>3, Types DEF CommitsAreOnSnapshots
<1> QED
  BY <1>1, <1>4, <1>5, <1>6, <1>7, <1>8, <1>9, <1>10, <1>11, <1>12

\* Starting the commit task of an append from a genuine snapshot that is the
\* version of the caller's copy keeps the invariant.  An append tried again
\* starts from the same snapshot and writes the same record and head.
LEMMA InvRegister ==
  ASSUME Inv, TypeInv', NEW c \in Caller, NEW e \in EventId, NEW snap,
         Register(c, e, snap), Genuine(snap),
         snap.version # 0, snap.version = copy[c].marker,
         snap.count \in Nat,
         \A d \in Caller \ {c} : op[d].event # e,
         Started(e) => args[e].base.version = copy[c].marker,
         \A s \in Service : Genuine(heads'[s]),
         UNCHANGED <<head, records, headPuts, historyVars, copy, put>>
  PROVE  IInv'
<1> USE DEF Inv
<1>0. /\ op \in [Caller -> Op] /\ args \in [EventId -> Args]
      /\ attempt \in [EventId -> Attempt] /\ phase \in [EventId -> Phase]
  BY Types
<1>g. /\ \A d \in Caller : Genuine(op[d].snap)
      /\ \A f \in EventId : Genuine(args[f].base) /\ Genuine(result[f])
      /\ copy[c].marker \in 0..Len(versions)
      /\ copy[c].state = snap.state /\ snap = HeadAt(copy[c].marker)
  BY DEF IInv, SnapshotsAreGenuine, CopiesAreGenuine, Genuine
<1>n. Genuine(NoHead)
  BY Types, LenProperties DEF Genuine, HeadAt, NoHead
<1>1. CASE Full(snap)
  <2>1. Leave(c) /\ UNCHANGED <<eventPuts, taskVars>>
    BY <1>1 DEF Register
  <2>2. op'[c] = Idle /\ \A d \in Caller \ {c} : op'[d] = op[d]
    BY <1>0, <2>1 DEF Leave
  <2>3. Genuine(op'[c].snap) /\ op'[c].event = NoEvent
    BY <1>n, <2>2 DEF Idle
  <2>4. OperationIsWhereItIs(c)'
    BY <2>2 DEF OperationIsWhereItIs, Idle
  <2>5. UNCHANGED <<vaultVars, taskVars>>
    BY <2>1 DEF vaultVars, historyVars
  <2>6. /\ copy'[c].marker \in 0..Len(versions)
        /\ copy'[c].marker # 0 =>
             copy'[c].state = HeadAt(copy'[c].marker).state
    BY <1>g
  <2> QED BY <2>2, <2>3, <2>4, <2>5, <2>6, CallerFrame
<1>2. CASE ~Full(snap)
  <2>1. /\ Continue(c, "append_wait", e, NoEvent, snap, 0)
        /\ phase' = [phase EXCEPT ![e] = "event_put"]
        /\ args' = [args EXCEPT ![e] =
                      [by |-> c, base |-> snap, seen |-> copy[c].events,
                       state |-> copy[c].state \cup {e}]]
        /\ attempt' = [attempt EXCEPT ![e] = Try(@.call + 1, 1)]
        /\ eventPuts' = eventPuts \cup
                          {EventPut(e, snap, attempt[e].call + 1, 1)}
        /\ UNCHANGED result
    BY <1>2 DEF Register
  <2>2. \A f \in EventId \ {e} :
          /\ phase'[f] = phase[f] /\ args'[f] = args[f]
          /\ attempt'[f] = attempt[f]
    BY <1>0, <2>1
  <2>3. /\ phase'[e] = "event_put" /\ attempt'[e].reply = "none"
        /\ args'[e].by = c /\ args'[e].base = snap
        /\ args'[e].state = copy[c].state \cup {e}
    BY <1>0, <2>1 DEF Try
  <2>4. /\ op'[c].pc = "append_wait" /\ op'[c].event = e /\ op'[c].snap = snap
        /\ \A d \in Caller \ {c} : op'[d] = op[d]
    BY <1>0, <2>1 DEF Continue
  <2>5. Started(e) => args[e].base = snap /\ args[e].state = args'[e].state
    <3> SUFFICES ASSUME Started(e)
                 PROVE  args[e].base = snap /\ args[e].state = args'[e].state
      OBVIOUS
    <3>1. args[e].base = snap
      BY <1>g DEF Genuine
    <3>2. args[e].state = args[e].base.state \cup {e}
      BY DEF IInv, AppendsAreOnSnapshots
    <3> QED BY <1>g, <2>3, <3>1, <3>2
  <2>6. \A f \in EventId : Started(f) =>
          /\ Started(f)' /\ KeyOf(f)' = KeyOf(f) /\ NewHead(f)' = NewHead(f)
          /\ HasRecord(f)' = HasRecord(f)
          /\ args'[f].base = args[f].base /\ args'[f].state = args[f].state
    <3>1. \A f \in EventId : Started(f) =>
            args'[f].base = args[f].base /\ args'[f].state = args[f].state
      BY <2>2, <2>3, <2>5
    <3> QED
      BY <2>2, <2>3, <3>1
      DEF Started, KeyOf, KeyFor, NewHead, HasRecord
  <2>7. TypeOK'
    BY DEF TypeInv
  <2>8. VersionsAreHeads' /\ ChainIntact' /\ CopiesAreGenuine'
    BY DEF IInv, VersionsAreHeads, ChainIntact, CopiesAreGenuine, Genuine,
           HeadAt, Prev, historyVars
  <2>9. SnapshotsAreGenuine'
    <3>1. versions' = versions /\ result' = result
      BY <2>1 DEF historyVars
    <3>2. \A d \in Caller : Genuine(op'[d].snap)
      BY <1>g, <2>4
    <3>3. \A f \in EventId : Genuine(args'[f].base) /\ Genuine(result'[f])
      BY <1>g, <2>2, <2>3, <3>1
    <3> QED BY <3>1, <3>2, <3>3 DEF SnapshotsAreGenuine, Genuine, HeadAt
  <2>10. AppendsAreOnSnapshots'
    <3>1. \A f \in EventId \ {e} : Started(f)' <=> Started(f)
      BY <2>2 DEF Started
    <3>2. args'[e].state = args'[e].base.state \cup {e}
          /\ args'[e].base.count < MaxEvents
      BY <1>2, <1>g, <2>3 DEF Full
    <3> QED BY <2>2, <2>3, <3>1, <3>2 DEF IInv, AppendsAreOnSnapshots
  <2>11. RecordsAreOfAppends'
    <3> DEFINE p == EventPut(e, snap, attempt[e].call + 1, 1)
    <3>1. /\ Started(e)' /\ p.by = e
          /\ p.key = KeyOf(e)' /\ p.prev = args'[e].base.last
      BY <2>3 DEF EventPut, KeyOf, Started
    <3>2. \A m \in eventPuts :
            /\ m.by \in EventId /\ Started(m.by)
            /\ m.key = KeyOf(m.by) /\ m.prev = args[m.by].base.last
      BY Types DEF IInv, RecordsAreOfAppends
    <3>3. \A r \in records :
            /\ r.key[2] \in EventId /\ Started(r.key[2])
            /\ r.key = KeyOf(r.key[2]) /\ r.prev = args[r.key[2]].base.last
      BY Types DEF IInv, RecordsAreOfAppends
    <3> HIDE DEF p
    <3>4. \A m \in eventPuts' :
            /\ Started(m.by)'
            /\ m.key = KeyOf(m.by)' /\ m.prev = args'[m.by].base.last
      <4>1. \A m \in eventPuts' :
              \/ m \in eventPuts
              \/ m.by = e /\ m.key = KeyOf(e)' /\ m.prev = args'[e].base.last
        <5>1. \A m \in eventPuts' : m \in eventPuts \/ m = p
          BY <2>1 DEF p
        <5> QED BY <3>1, <5>1
      <4>2. ASSUME NEW m \in eventPuts
            PROVE  /\ Started(m.by)'
                   /\ m.key = KeyOf(m.by)' /\ m.prev = args'[m.by].base.last
        BY <2>6, <3>2
      <4> QED BY <3>1, <4>1, <4>2
    <3>5. \A r \in records :
            /\ Started(r.key[2])'
            /\ r.key = KeyOf(r.key[2])' /\ r.prev = args'[r.key[2]].base.last
      BY <2>6, <3>3
    <3> QED BY <3>4, <3>5 DEF RecordsAreOfAppends
  <2>12. HeadPutsAreOnSnapshots'
    BY <2>6 DEF IInv, HeadPutsAreOnSnapshots, HeadAt, historyVars
  <2>13. TasksAreWhereTheyAre'
    <3>1. \A f \in EventId \ {e} : Started(f)' <=> Started(f)
      BY <2>2 DEF Started
    <3>2. \A f \in EventId \ {e} : HasRecord(f)' = HasRecord(f)
                                   /\ KeyOf(f)' = KeyOf(f)
      BY <2>2 DEF HasRecord, KeyOf, KeyFor
    <3> QED
      BY <2>1, <2>2, <2>3, <3>2 DEF IInv, TasksAreWhereTheyAre, historyVars
  <2>14. OperationsAreWhereTheyAre'
    <3>1. EventsAreApart'
      BY <2>4 DEF IInv, OperationsAreWhereTheyAre, EventsAreApart
    <3>2. OperationIsWhereItIs(c)'
      BY <2>3, <2>4 DEF OperationIsWhereItIs, Started
    <3>3. ASSUME NEW d \in Caller \ {c} PROVE OperationIsWhereItIs(d)'
      <4>1. OperationIsWhereItIs(d) /\ op'[d] = op[d] /\ op[d].event # e
        BY <2>4 DEF IInv, OperationsAreWhereTheyAre
      <4>2. op[d].pc \in {"append_read", "append_settle", "append_wait"} =>
              op[d].event \in EventId \ {e}
        BY <4>1 DEF OperationIsWhereItIs
      <4> QED
        BY <2>2, <4>1, <4>2 DEF OperationIsWhereItIs, Started, historyVars
    <3> QED BY <3>1, <3>2, <3>3 DEF OperationsAreWhereTheyAre
  <2>15. CommitsAreOnSnapshots'
    <3>1. \A i \in DOMAIN log : log[i] \in EventId
      BY Types
    <3> QED BY <2>6, <3>1 DEF IInv, CommitsAreOnSnapshots, historyVars
  <2> QED
    BY <2>7, <2>8, <2>9, <2>10, <2>11, <2>12, <2>13, <2>14, <2>15 DEF IInv
<1> QED BY <1>1, <1>2

\* What the snapshots in reach of a caller are.
LEMMA InReach ==
  ASSUME Inv
  PROVE  /\ Genuine(NoHead) /\ Genuine(head)
         /\ \A s \in Service : Genuine(heads[s])
         /\ \A c \in Caller :
              /\ Genuine(op[c].snap) /\ OperationIsWhereItIs(c)
              /\ copy[c].marker \in 0..Len(versions)
              /\ copy[c].marker # 0 =>
                   copy[c].state = HeadAt(copy[c].marker).state
              /\ \A d \in Caller \ {c} :
                   op[c].event # NoEvent => op[d].event # op[c].event
<1>1. Genuine(NoHead)
  BY Types, LenProperties DEF Inv, Genuine, HeadAt, NoHead
<1> QED
  BY <1>1
  DEF Inv, IInv, VersionsAreHeads, SnapshotsAreGenuine, CopiesAreGenuine,
      OperationsAreWhereTheyAre, EventsAreApart

\* Leaving an operation keeps the invariant.
LEMMA InvLeave ==
  ASSUME Inv, TypeInv', NEW c \in Caller, Leave(c),
         UNCHANGED <<vaultVars, taskVars>>,
         \A d \in Caller \ {c} : copy'[d] = copy[d] /\ put'[d] = put[d],
         \A s \in Service : Genuine(heads'[s]),
         copy'[c].marker \in 0..Len(versions),
         copy'[c].marker # 0 =>
           copy'[c].state = HeadAt(copy'[c].marker).state
  PROVE  IInv'
<1>1. op'[c] = Idle /\ \A d \in Caller \ {c} : op'[d] = op[d]
  BY Types DEF Leave, Inv
<1>2. Genuine(op'[c].snap) /\ op'[c].event = NoEvent
  BY <1>1, InReach DEF Idle
<1>3. OperationIsWhereItIs(c)'
  BY <1>1 DEF OperationIsWhereItIs, Idle
<1> QED BY <1>1, <1>2, <1>3, CallerFrame

\* Going on to a step that has no event keeps the invariant; the PUT a create
\* or a delete goes on to has a fresh attempt.
LEMMA InvGoOn ==
  ASSUME Inv, TypeInv', NEW c \in Caller, NEW pc, NEW waits, NEW snap,
         NEW round, Continue(c, pc, NoEvent, waits, snap, round),
         pc \notin Appending, Genuine(snap),
         pc = "create_put" => snap = NoHead /\ put'[c].reply = "none",
         pc = "delete_put" => snap.version # 0,
         UNCHANGED <<vaultVars, taskVars, heads, copy>>,
         \A d \in Caller \ {c} : put'[d] = put[d]
  PROVE  IInv'
<1>1. /\ op'[c].pc = pc /\ op'[c].event = NoEvent /\ op'[c].snap = snap
      /\ \A d \in Caller \ {c} : op'[d] = op[d]
  BY Types DEF Continue, Inv
<1>2. OperationIsWhereItIs(c)'
  BY <1>1 DEF OperationIsWhereItIs, Appending
<1> QED BY <1>1, <1>2, InReach, CallerFrame

\* An append that must first wait for another one keeps the invariant, and so
\* does one that starts at once.
LEMMA InvStoreAppend ==
  ASSUME Inv, TypeInv', NEW c \in Caller, NEW e \in EventId, NEW snap,
         StoreAppend(c, e, snap), Genuine(snap),
         snap.version # 0, snap.version = copy[c].marker,
         snap.count \in Nat,
         \A d \in Caller \ {c} : op[d].event # e,
         Started(e) => args[e].base.version = copy[c].marker,
         \A s \in Service : Genuine(heads'[s]),
         UNCHANGED <<head, records, headPuts, historyVars, copy, put>>
  PROVE  IInv'
<1>1. CASE Register(c, e, snap)
  BY <1>1, InvRegister
<1>2. CASE /\ Enter(c, "append_settle", e, snap, 0)
           /\ UNCHANGED <<eventPuts, taskVars>>
  <2>1. /\ op'[c].pc = "append_settle" /\ op'[c].event = e
        /\ op'[c].snap = snap
        /\ \A d \in Caller \ {c} : op'[d] = op[d]
    BY <1>2, Types DEF Enter, Continue, Inv
  <2>2. UNCHANGED <<vaultVars, taskVars>>
    BY <1>2 DEF vaultVars, historyVars
  <2>3. OperationIsWhereItIs(c)'
    BY <1>2, <2>1 DEF OperationIsWhereItIs, Started, taskVars
  <2> QED BY <2>1, <2>2, <2>3, InReach, CallerFrame
<1> QED BY <1>1, <1>2 DEF StoreAppend

\* append_event from the remembered head, which is the caller's version.
LEMMA InvAppendBegin ==
  ASSUME Inv, TypeInv', AppendListed = FALSE, NEW c \in Caller,
         NEW e \in EventId, AppendBegin(c, e)
  PROVE  IInv'
<1>1. /\ op[c].pc = "idle" /\ copy[c].marker # 0
      /\ \A d \in Caller : op[d].event # e
      /\ Started(e) => args[e].base.version = copy[c].marker
      /\ UNCHANGED <<head, records, headPuts, historyVars, heads, copy, put>>
  BY DEF AppendBegin, At, MayAppend, Started
<1>2. ServiceOf[c] \in Service
  OBVIOUS
<1>3. CASE Cached(c)
  <2> DEFINE snap == heads[ServiceOf[c]]
  <2>1. StoreAppend(c, e, snap)
    BY <1>3 DEF AppendBegin
  <2>2. Genuine(snap) /\ snap.version # 0 /\ snap.version = copy[c].marker
    BY <1>2, <1>3, InReach DEF Cached
  <2>3. snap.count \in Nat
    BY <1>2, Types DEF Snapshot, Inv
  <2>4. \A s \in Service : Genuine(heads'[s])
    BY <1>1, InReach
  <2> HIDE DEF snap
  <2> QED BY <1>1, <2>1, <2>2, <2>3, <2>4, InvStoreAppend
<1>4. CASE ~Cached(c)
  <2>1. /\ Enter(c, "append_read", e, NoHead, 0)
        /\ UNCHANGED <<eventPuts, taskVars>>
    BY <1>4 DEF AppendBegin
  <2>2. /\ op'[c].pc = "append_read" /\ op'[c].event = e
        /\ op'[c].snap = NoHead
        /\ \A d \in Caller \ {c} : op'[d] = op[d]
    BY <2>1, Types DEF Enter, Continue, Inv
  <2>3. UNCHANGED <<vaultVars, taskVars>>
    BY <1>1, <2>1 DEF vaultVars, historyVars
  <2>4. OperationIsWhereItIs(c)'
    BY <1>1, <2>1, <2>2 DEF OperationIsWhereItIs, Started, taskVars
  <2> QED BY <1>1, <2>2, <2>3, <2>4, InReach, CallerFrame
<1> QED BY <1>3, <1>4

\* append_event from a fresh read, refused unless it is the caller's version.
LEMMA InvAppendRead ==
  ASSUME Inv, TypeInv', NEW c \in Caller, AppendRead(c)
  PROVE  IInv'
<1> DEFINE e == op[c].event
<1>1. /\ op[c].pc = "append_read" /\ e \in EventId /\ copy[c].marker # 0
      /\ \A d \in Caller \ {c} : op[d].event # e
      /\ Started(e) => args[e].base.version = copy[c].marker
  BY InReach DEF AppendRead, At, OperationIsWhereItIs
<1>2. UNCHANGED <<head, records, headPuts, historyVars, copy, put>>
  BY DEF AppendRead
<1>3. CASE Refused(c)
  <2>1. Leave(c) /\ UNCHANGED <<heads, eventPuts, taskVars>>
    BY <1>3 DEF AppendRead
  <2>2. UNCHANGED <<vaultVars, taskVars>>
    BY <1>2, <2>1 DEF vaultVars, historyVars
  <2> QED BY <1>2, <2>1, <2>2, InReach, InvLeave
<1>4. CASE ~Refused(c)
  <2>1. /\ heads' = [heads EXCEPT ![ServiceOf[c]] = head]
        /\ StoreAppend(c, e, head)
    BY <1>4 DEF AppendRead
  <2>2. head.version # 0 /\ head.version = copy[c].marker
    BY <1>1, <1>4 DEF Refused
  <2>3. \A s \in Service : Genuine(heads'[s])
    BY <2>1, InReach, Types DEF Inv
  <2>4. Genuine(head) /\ head.count \in Nat
    BY InReach, Types DEF Inv, Snapshot
  <2> HIDE DEF e
  <2> QED BY <1>1, <1>2, <2>1, <2>2, <2>3, <2>4, InvStoreAppend
<1> QED BY <1>3, <1>4

\* The head an append returned is the caller's old one with the event added.
LEMMA ReturnedHead ==
  ASSUME Inv, NEW c \in Caller, op[c].pc = "append_wait",
         phase[op[c].event] = "committed"
  PROVE  LET r == result[op[c].event]
         IN  /\ r.version \in 1..Len(versions) /\ r = HeadAt(r.version)
             /\ r.state = copy[c].state \cup {op[c].event}
             /\ r.count = HeadAt(copy[c].marker).count + 1
             /\ r.count <= Len(log) /\ log[r.count] = op[c].event
<1> DEFINE e == op[c].event
           r == result[e]
           b == args[e].base
<1> TypeInv
  BY DEF Inv
<1>1. /\ e \in EventId /\ copy[c].marker # 0 /\ Started(e)
      /\ b.version = copy[c].marker
  BY InReach DEF OperationIsWhereItIs
<1>2. r.last = KeyOf(e)
  BY <1>1 DEF Inv, IInv, TasksAreWhereTheyAre
<1>3. Genuine(r) /\ Genuine(b)
  BY <1>1 DEF Inv, IInv, SnapshotsAreGenuine
<1>4. r.version # 0
  <2>1. r # NoHead
    BY <1>1, <1>2, Keys DEF NoHead
  <2> QED BY <1>3, <2>1 DEF Genuine, HeadAt
<1>5. r.version \in 1..Len(versions) /\ r = versions[r.version]
      /\ Len(versions) \in Nat
  BY <1>3, <1>4, Types, LenProperties DEF Genuine, HeadAt
<1>6. /\ r.count <= Len(log)
      /\ r.last = IF r.count = 0 THEN NoKey ELSE <<r.count, log[r.count]>>
      /\ r.state = {log[i] : i \in 1..r.count}
  BY <1>5 DEF Inv, IInv, VersionsAreHeads
<1>7. r.count # 0 /\ r.count = b.count + 1 /\ log[r.count] = e
  <2>1. r.count # 0
    BY <1>1, <1>2, <1>6, Keys
  <2>2. <<r.count, log[r.count]>> = <<b.count + 1, e>>
    BY <1>1, <1>2, <1>6, <2>1, Keys
  <2> QED BY <2>1, <2>2
<1>8. b.count \in Nat /\ b.version \in Nat
  BY <1>1, Keys DEF Snapshot
<1>9. r.count \in DOMAIN log
  BY <1>6, <1>7, <1>8, Types, LenProperties
<1>10. b.version < Len(versions) /\ versions[b.version + 1] = NewHead(e)
  BY <1>7, <1>9 DEF Inv, IInv, CommitsAreOnSnapshots
<1>11. NewHead(e).state = {log[i] : i \in 1..r.count}
  <2>1. b.version + 1 \in 1..Len(versions)
    BY <1>5, <1>8, <1>10
  <2>2. NewHead(e).state = {log[i] : i \in 1..NewHead(e).count}
    BY <1>10, <2>1 DEF Inv, IInv, VersionsAreHeads
  <2>3. NewHead(e).count = r.count
    BY <1>7 DEF NewHead
  <2> QED BY <2>2, <2>3
<1>12. NewHead(e).state = b.state \cup {e}
  BY <1>1 DEF Inv, IInv, AppendsAreOnSnapshots, NewHead
<1>13. copy[c].state = b.state /\ b = HeadAt(copy[c].marker)
  BY <1>1, <1>3, InReach DEF Genuine
<1> QED BY <1>5, <1>3, <1>6, <1>7, <1>11, <1>12, <1>13 DEF Genuine

\* append_event returning keeps the invariant.
LEMMA InvAppendReturn ==
  ASSUME Inv, TypeInv', NEW c \in Caller, AppendReturn(c)
  PROVE  IInv'
<1> DEFINE e == op[c].event
           r == result[e]
<1>1. /\ op[c].pc = "append_wait" /\ Leave(c)
      /\ UNCHANGED <<vaultVars, taskVars, put>>
  BY DEF AppendReturn
<1>2. CASE phase[e] # "committed"
  <2>1. UNCHANGED <<heads, copy>>
    BY <1>2 DEF AppendReturn
  <2> QED BY <1>1, <2>1, InReach, InvLeave
<1>3. CASE phase[e] = "committed"
  <2>1. /\ heads' = [heads EXCEPT ![ServiceOf[c]] = r]
        /\ copy' = [copy EXCEPT ![c] =
                      [marker |-> r.version, events |-> Append(@.events, e),
                       state |-> @.state \cup {e}]]
    BY <1>3 DEF AppendReturn
  <2>2. /\ r.version \in 1..Len(versions) /\ r = HeadAt(r.version)
        /\ r.state = copy[c].state \cup {e}
    BY <1>1, <1>3, ReturnedHead
  <2>3. Genuine(r)
    BY <2>2, Types, LenProperties DEF Genuine, Inv
  <2> HIDE DEF r
  <2>4. \A s \in Service : Genuine(heads'[s])
    BY <2>1, <2>3, InReach, Types DEF Inv
  <2>5. /\ \A d \in Caller \ {c} : copy'[d] = copy[d]
        /\ copy'[c].marker = r.version
        /\ copy'[c].state = copy[c].state \cup {e}
    BY <2>1, Types DEF Inv
  <2>6. copy'[c].marker \in 0..Len(versions)
    BY <2>2, <2>5
  <2>7. copy'[c].state = HeadAt(copy'[c].marker).state
    BY <2>2, <2>5
  <2> QED BY <1>1, <2>4, <2>5, <2>6, <2>7, InvLeave
<1> QED BY <1>2, <1>3

\* A caller going on after the task it waited for keeps the invariant.
LEMMA InvWake ==
  ASSUME Inv, TypeInv', NEW c \in Caller, Wake(c)
  PROVE  IInv'
<1> DEFINE e == op[c].event
           s == op[c].snap
<1>1. UNCHANGED <<head, records, headPuts, historyVars, heads, copy, put>>
  BY DEF Wake
<1>2. Genuine(s) /\ OperationIsWhereItIs(c) /\ s.count \in Nat
      /\ \A t \in Service : Genuine(heads'[t])
  BY <1>1, InReach, Types DEF Inv, Op, Snapshot
<1>3. CASE op[c].pc = "append_settle"
  <2>1. Register(c, e, s)
    BY <1>3 DEF Wake
  <2>2. /\ e \in EventId /\ copy[c].marker # 0 /\ s.version # 0
        /\ s.version = copy[c].marker
        /\ Started(e) => args[e].base.version = copy[c].marker
    BY <1>2, <1>3 DEF OperationIsWhereItIs
  <2>3. \A d \in Caller \ {c} : op[d].event # e
    <3>1. e # NoEvent
      BY <2>2
    <3> QED BY <3>1, InReach
  <2> HIDE DEF e, s
  <2> QED BY <1>1, <1>2, <2>1, <2>2, <2>3, InvRegister
<1>4. CASE op[c].pc # "append_settle"
  <2>1. /\ Continue(c, op[c].pc, e, NoEvent, s, op[c].round)
        /\ UNCHANGED <<eventPuts, taskVars>>
    BY <1>4 DEF Wake
  <2>2. /\ op'[c].pc = op[c].pc /\ op'[c].event = e /\ op'[c].snap = s
        /\ \A d \in Caller \ {c} : op'[d] = op[d]
    BY <2>1, Types DEF Continue, Inv
  <2>3. UNCHANGED <<vaultVars, taskVars>>
    BY <1>1, <2>1 DEF vaultVars, historyVars
  <2>4. OperationIsWhereItIs(c)'
    BY <1>1, <1>2, <2>1, <2>2
    DEF OperationIsWhereItIs, Started, taskVars, historyVars
  <2> QED BY <1>1, <1>2, <2>2, <2>3, <2>4, InReach, CallerFrame
<1> QED BY <1>3, <1>4

\* get_session keeps the invariant.
LEMMA InvGet ==
  ASSUME Inv, TypeInv', NEW c \in Caller,
         GetBegin(c) \/ GetRead(c) \/ GetEvents(c)
  PROVE  IInv'
<1>1. CASE GetBegin(c)
  <2>1. Continue(c, "get_read", NoEvent, Pending(c), NoHead, 0)
    BY <1>1 DEF GetBegin, Enter
  <2>2. UNCHANGED <<vaultVars, taskVars, heads, copy, put>>
    BY <1>1 DEF GetBegin
  <2> QED BY <2>1, <2>2, InReach, InvGoOn DEF Appending
<1>2. CASE GetRead(c)
  <2>1. UNCHANGED <<vaultVars, taskVars, heads, copy, put>>
    BY <1>2 DEF GetRead
  <2>2. \/ Continue(c, "get_events", NoEvent, Pending(c), head, 0)
        \/ Leave(c)
    BY <1>2 DEF GetRead, Enter
  <2>3. CASE Leave(c)
    BY <2>1, <2>3, InReach, InvLeave
  <2>4. CASE Continue(c, "get_events", NoEvent, Pending(c), head, 0)
    BY <2>1, <2>4, InReach, InvGoOn DEF Appending
  <2> QED BY <2>2, <2>3, <2>4
<1>3. CASE GetEvents(c)
  <2> DEFINE s == op[c].snap
  <2>1. Leave(c) /\ UNCHANGED <<vaultVars, taskVars, put>>
    BY <1>3 DEF GetEvents
  <2>2. CASE UNCHANGED <<copy, heads>>
    BY <2>1, <2>2, InReach, InvLeave
  <2>3. CASE /\ \E events \in Chain(s) :
                   copy' = [copy EXCEPT ![c] = Loaded(s, events)]
             /\ heads' = [heads EXCEPT ![ServiceOf[c]] = s]
    <3>1. Genuine(s)
      BY InReach
    <3>2. \A t \in Service : Genuine(heads'[t])
      BY <2>3, <3>1, InReach, Types DEF Inv
    <3>3. /\ \A d \in Caller \ {c} : copy'[d] = copy[d]
          /\ copy'[c].marker = s.version /\ copy'[c].state = s.state
      BY <2>3, Types DEF Inv, Loaded
    <3>4. /\ copy'[c].marker \in 0..Len(versions)
          /\ copy'[c].state = HeadAt(copy'[c].marker).state
      BY <3>1, <3>3 DEF Genuine
    <3> QED BY <2>1, <3>2, <3>3, <3>4, InvLeave
  <2> QED BY <1>3, <2>2, <2>3 DEF GetEvents
<1> QED BY <1>1, <1>2, <1>3

\* The PUT a caller sends itself is an empty head on top of none, or the
\* tombstone of the head it read.
LEMMA InvPutSend ==
  ASSUME Inv, TypeInv', NEW c \in Caller, PutSend(c)
  PROVE  IInv'
<1> USE DEF Inv
<1> DEFINE p == HeadPut(c, put[c].call, put[c].try + 1, op[c].snap.version,
                        PutBody(c))
<1>1. /\ op[c].pc \in Putting
      /\ put' = [put EXCEPT ![c] = Try(@.call, @.try + 1)]
      /\ headPuts' = headPuts \cup {p}
      /\ UNCHANGED <<head, records, eventPuts, log, versions, phase, args,
                     attempt, result, heads, inflight, copy, op>>
  BY DEF PutSend, historyVars, taskVars, serviceVars
<1>2. /\ put'[c].reply = "none"
      /\ \A d \in Caller \ {c} : put'[d] = put[d]
  BY <1>1, Types DEF Try
<1>3. p.by = c /\ p.ver = op[c].snap.version /\ p.body = PutBody(c)
  BY DEF HeadPut
<1>4. /\ p.by \notin EventId /\ p.ver \in 0..Len(versions)
      /\ p.body = IF p.ver = 0 THEN NoHead ELSE Tombstone(HeadAt(p.ver))
  <2>1. Genuine(op[c].snap) /\ OperationIsWhereItIs(c)
    BY InReach
  <2>2. CASE op[c].pc = "create_put"
    <3>1. op[c].snap = NoHead
      BY <2>1, <2>2 DEF OperationIsWhereItIs
    <3> QED BY <1>3, <2>1, <2>2, <3>1 DEF PutBody, NoHead, Genuine
  <2>3. CASE op[c].pc = "delete_put"
    <3>1. op[c].snap.version # 0
      BY <2>1, <2>3 DEF OperationIsWhereItIs
    <3> QED BY <1>3, <2>1, <2>3, <3>1 DEF PutBody, Genuine
  <2> QED BY <1>1, <2>2, <2>3 DEF Putting
<1> HIDE DEF p
<1>5. \A f \in EventId : /\ Started(f)' <=> Started(f)
                         /\ KeyOf(f)' = KeyOf(f) /\ NewHead(f)' = NewHead(f)
                         /\ HasRecord(f)' = HasRecord(f)
  BY <1>1 DEF Started, KeyOf, KeyFor, NewHead, HasRecord
<1>6. TypeOK'
  BY DEF TypeInv
<1>7. VersionsAreHeads' /\ ChainIntact' /\ CopiesAreGenuine'
      /\ SnapshotsAreGenuine'
  BY <1>1 DEF IInv, VersionsAreHeads, ChainIntact, CopiesAreGenuine,
              SnapshotsAreGenuine, Genuine, HeadAt, Prev
<1>8. AppendsAreOnSnapshots' /\ RecordsAreOfAppends'
  BY <1>1, <1>5, Types DEF IInv, AppendsAreOnSnapshots, RecordsAreOfAppends
<1>9. HeadPutsAreOnSnapshots'
  <2>1. \A m \in headPuts' : m \in headPuts \/ m = p
    BY <1>1
  <2>2. \A v : HeadAt(v)' = HeadAt(v)
    BY <1>1 DEF HeadAt
  <2> QED BY <1>1, <1>4, <1>5, <2>1, <2>2 DEF IInv, HeadPutsAreOnSnapshots
<1>10. TasksAreWhereTheyAre' /\ CommitsAreOnSnapshots'
  BY <1>1, <1>5, Types DEF IInv, TasksAreWhereTheyAre, CommitsAreOnSnapshots
<1>11. OperationsAreWhereTheyAre'
  BY <1>1, <1>2
  DEF IInv, OperationsAreWhereTheyAre, EventsAreApart, OperationIsWhereItIs,
      Started
<1> QED BY <1>6, <1>7, <1>8, <1>9, <1>10, <1>11 DEF IInv

\* The answer to it keeps the invariant: a created session's copy is its
\* first head.
LEMMA InvPutAnswered ==
  ASSUME Inv, TypeInv', NEW c \in Caller, PutAnswered(c)
  PROVE  IInv'
<1>1. /\ \A d \in Caller \ {c} : put'[d] = put[d]
      /\ put' = [put EXCEPT ![c] = Try(@.call, 0)]
      /\ UNCHANGED <<vaultVars, taskVars>>
  BY Types DEF PutAnswered, Inv
<1>2. CASE /\ op[c].pc = "create_put" /\ put[c].reply = "ok"
           /\ heads' = [heads EXCEPT ![ServiceOf[c]] = FirstHead]
           /\ copy' = [copy EXCEPT ![c] =
                         [marker |-> 1, events |-> <<>>, state |-> {}]]
           /\ Leave(c)
  <2>1. versions # <<>>
    BY <1>2, InReach DEF OperationIsWhereItIs
  <2>2. 1 \in 1..Len(versions) /\ HeadAt(1) = FirstHead
    <3>1. Len(versions) \in Nat \ {0}
      BY <2>1, Types, LenProperties, EmptySeq DEF Inv
    <3> QED BY <2>1, <3>1 DEF Inv, IInv, VersionsAreHeads, HeadAt
  <2>3. Genuine(FirstHead)
    BY <2>2 DEF Genuine, FirstHead, AtVersion
  <2>4. \A s \in Service : Genuine(heads'[s])
    BY <1>2, <2>3, InReach, Types DEF Inv
  <2>5. /\ \A d \in Caller \ {c} : copy'[d] = copy[d]
        /\ copy'[c].marker = 1 /\ copy'[c].state = {}
    BY <1>2, Types DEF Inv
  <2>6. HeadAt(1).state = {}
    BY <2>2 DEF FirstHead, AtVersion, NoHead
  <2>7. copy'[c].marker \in 0..Len(versions)
    BY <2>2, <2>5
  <2>8. copy'[c].state = HeadAt(copy'[c].marker).state
    BY <2>5, <2>6
  <2>9. \A d \in Caller \ {c} : copy'[d] = copy[d] /\ put'[d] = put[d]
    BY <1>1, <2>5
  <2> QED BY <1>1, <1>2, <2>4, <2>7, <2>8, <2>9, InvLeave
<1>3. CASE Leave(c) /\ UNCHANGED <<heads, copy>>
  BY <1>1, <1>3, InReach, InvLeave
<1>4. CASE /\ heads' = [heads EXCEPT ![ServiceOf[c]] = NoHead]
           /\ Leave(c) /\ UNCHANGED copy
  <2>1. \A s \in Service : Genuine(heads'[s])
    BY <1>4, InReach, Types DEF Inv
  <2> QED BY <1>1, <1>4, <2>1, InReach, InvLeave
<1>5. CASE /\ Continue(c, "delete_read", NoEvent, Pending(c), NoHead,
                       op[c].round + 1)
           /\ UNCHANGED <<heads, copy>>
  BY <1>1, <1>5, InReach, InvGoOn DEF Appending
<1> QED BY <1>2, <1>3, <1>4, <1>5 DEF PutAnswered, Enter

\* Beginning and reading for a create or a delete keeps the invariant.
LEMMA InvCreateDelete ==
  ASSUME Inv, TypeInv', NEW c \in Caller,
         CreateBegin(c) \/ CreateRead(c) \/ DeleteBegin(c) \/ DeleteRead(c)
  PROVE  IInv'
<1>1. CASE CreateBegin(c)
  <2>1. /\ Continue(c, "create_read", NoEvent, Pending(c), NoHead, 0)
        /\ UNCHANGED <<vaultVars, taskVars, heads, copy, put>>
    BY <1>1 DEF CreateBegin, Enter
  <2> QED BY <2>1, InReach, InvGoOn DEF Appending
<1>2. CASE CreateRead(c)
  <2>1. UNCHANGED <<vaultVars, taskVars, heads, copy>>
    BY <1>2 DEF CreateRead
  <2>2. CASE Leave(c) /\ UNCHANGED put
    BY <2>1, <2>2, InReach, InvLeave
  <2>3. CASE /\ Continue(c, "create_put", NoEvent, Pending(c), NoHead, 0)
             /\ NewPut(c)
    <3>1. put'[c].reply = "none" /\ \A d \in Caller \ {c} : put'[d] = put[d]
      BY <2>3, Types DEF NewPut, Try, Inv
    <3> QED BY <2>1, <2>3, <3>1, InReach, InvGoOn DEF Appending
  <2> QED BY <1>2, <2>2, <2>3 DEF CreateRead, Enter
<1>3. CASE DeleteBegin(c)
  <2>1. /\ Continue(c, "delete_read", NoEvent, Pending(c), NoHead, 1)
        /\ UNCHANGED <<vaultVars, taskVars, heads, copy, put>>
    BY <1>3 DEF DeleteBegin, Enter
  <2> QED BY <2>1, InReach, InvGoOn DEF Appending
<1>4. CASE DeleteRead(c)
  <2>1. UNCHANGED <<vaultVars, taskVars, heads, copy>>
    BY <1>4 DEF DeleteRead
  <2>2. CASE Leave(c) /\ UNCHANGED put
    BY <2>1, <2>2, InReach, InvLeave
  <2>3. CASE /\ Continue(c, "delete_put", NoEvent, Pending(c), head,
                         op[c].round)
             /\ NewPut(c) /\ Visible
    <3>1. put'[c].reply = "none" /\ \A d \in Caller \ {c} : put'[d] = put[d]
      BY <2>3, Types DEF NewPut, Try, Inv
    <3> QED BY <2>1, <2>3, <3>1, InReach, InvGoOn DEF Appending, Visible
  <2> QED BY <1>4, <2>2, <2>3 DEF DeleteRead, Enter
<1> QED BY <1>1, <1>2, <1>3, <1>4

\* A failed call and a cancelled operation keep the invariant.
LEMMA InvFails ==
  ASSUME Inv, TypeInv', NEW c \in Caller, CallFails(c) \/ Cancel(c)
  PROVE  IInv'
<1>1. /\ Leave(c) /\ UNCHANGED <<vaultVars, taskVars, heads, copy>>
      /\ put' = [put EXCEPT ![c] = Try(@.call, 0)]
  BY DEF CallFails, Cancel, serviceVars
<1>2. \A d \in Caller \ {c} : put'[d] = put[d]
  BY <1>1, Types DEF Inv
<1> QED BY <1>1, <1>2, InReach, InvLeave

-----------------------------------------------------------------------------
(* The other steps, and the theorems.                                      *)

\* A crash forgets copies, caches and operations and turns some tasks dead;
\* it changes no request, record or head.
LEMMA InvCrash ==
  ASSUME Inv, TypeInv', NEW s \in Service, Crash(s)
  PROVE  IInv'
<1> USE DEF Inv
<1>1. UNCHANGED <<head, records, eventPuts, headPuts, log, versions, args,
                  attempt, result>>
  BY DEF Crash, vaultVars, historyVars
<1>2. \A f \in EventId :
        \/ phase'[f] = phase[f]
        \/ phase[f] # "new" /\ phase'[f] = "dead"
  BY Types DEF Crash, Active
<1>3. /\ \A t \in Service : heads'[t] \in {heads[t], NoHead}
      /\ \A c \in Caller :
           \/ copy'[c] = NoCopy /\ op'[c] = Idle
           \/ copy'[c] = copy[c] /\ op'[c] = op[c] /\ put'[c] = put[c]
  BY Types DEF Crash
<1>4. \A f \in EventId : /\ Started(f)' <=> Started(f)
                         /\ KeyOf(f)' = KeyOf(f) /\ NewHead(f)' = NewHead(f)
                         /\ HasRecord(f)' = HasRecord(f)
  BY <1>1, <1>2 DEF Started, KeyOf, KeyFor, NewHead, HasRecord
<1>5. TypeOK'
  BY DEF TypeInv
<1>6. VersionsAreHeads' /\ ChainIntact'
  BY <1>1 DEF IInv, VersionsAreHeads, ChainIntact, Genuine, HeadAt, Prev
<1>7. SnapshotsAreGenuine'
  <2>1. \A t \in Service : Genuine(heads'[t])
    BY <1>3, InReach
  <2>2. \A c \in Caller : Genuine(op'[c].snap)
    BY <1>3, InReach DEF Idle
  <2>3. \A f \in EventId : Genuine(args'[f].base) /\ Genuine(result'[f])
    BY <1>1 DEF IInv, SnapshotsAreGenuine
  <2> QED BY <1>1, <2>1, <2>2, <2>3 DEF SnapshotsAreGenuine, Genuine, HeadAt
<1>8. CopiesAreGenuine'
  <2>1. \A v : HeadAt(v)' = HeadAt(v)
    BY <1>1 DEF HeadAt
  <2>2. Len(versions) \in Nat
    BY Types, LenProperties
  <2> QED BY <1>1, <1>3, <2>1, <2>2 DEF IInv, CopiesAreGenuine, NoCopy
<1>9. AppendsAreOnSnapshots' /\ RecordsAreOfAppends'
  BY <1>1, <1>4, Types DEF IInv, AppendsAreOnSnapshots, RecordsAreOfAppends
<1>10. HeadPutsAreOnSnapshots'
  BY <1>1, <1>4 DEF IInv, HeadPutsAreOnSnapshots, HeadAt
<1>11. TasksAreWhereTheyAre' /\ CommitsAreOnSnapshots'
  BY <1>1, <1>2, <1>4, Types
  DEF IInv, TasksAreWhereTheyAre, CommitsAreOnSnapshots
<1>12. OperationsAreWhereTheyAre'
  <2>1. EventsAreApart'
    BY <1>3 DEF IInv, OperationsAreWhereTheyAre, EventsAreApart, Idle
  <2>2. ASSUME NEW c \in Caller PROVE OperationIsWhereItIs(c)'
    <3>1. CASE op'[c] = Idle
      BY <3>1 DEF OperationIsWhereItIs, Idle
    <3>2. CASE copy'[c] = copy[c] /\ op'[c] = op[c] /\ put'[c] = put[c]
      BY <1>1, <1>4, <3>2, InReach DEF OperationIsWhereItIs
    <3> QED BY <1>3, <3>1, <3>2
  <2> QED BY <2>1, <2>2 DEF OperationsAreWhereTheyAre
<1> QED
  BY <1>5, <1>6, <1>7, <1>8, <1>9, <1>10, <1>11, <1>12 DEF IInv

\* The invariant holds where the program starts.
LEMMA InvInit ==
  ASSUME Init
  PROVE  IInv
<1>1. TypeOK
  BY TypeInit DEF TypeInv
<1>2. /\ versions = IF Creators = {} THEN <<FirstHead>> ELSE <<>>
      /\ head = IF Creators = {} THEN FirstHead ELSE NoHead
      /\ log = <<>> /\ records = {} /\ eventPuts = {} /\ headPuts = {}
      /\ \A e \in EventId : phase[e] = "new" /\ args[e].base = NoHead
                            /\ result[e] = NoHead
      /\ \A s \in Service : heads[s] = NoHead
      /\ \A c \in Caller : copy[c] = NoCopy /\ op[c] = Idle
  BY DEF Init
<1>3. Len(versions) \in Nat /\ Genuine(NoHead)
  BY <1>1, LenProperties DEF TypeOK, Genuine, HeadAt, NoHead
<1>4. VersionsAreHeads
  <2>1. CASE Creators = {}
    <3>1. /\ Len(versions) = 1 /\ versions[1] = FirstHead /\ head = FirstHead
          /\ DOMAIN log = {} /\ Len(log) = 0
      BY <1>2, <2>1
    <3>2. /\ FirstHead.version = 1 /\ FirstHead.count = 0
          /\ FirstHead.last = NoKey /\ FirstHead.state = {}
      BY DEF FirstHead, AtVersion, NoHead
    <3>3. Genuine(head)
      BY <3>1, <3>2 DEF Genuine, HeadAt
    <3>4. {log[i] : i \in 1..0} = {}
      OBVIOUS
    <3>5. \A v \in 1..1 : v = 1
      OBVIOUS
    <3> QED BY <3>1, <3>2, <3>3, <3>4, <3>5 DEF VersionsAreHeads
  <2>2. CASE Creators # {}
    <3>1. versions = <<>> /\ Len(versions) = 0 /\ head = NoHead
      BY <1>2, <2>2
    <3> QED BY <1>3, <3>1 DEF VersionsAreHeads, NoHead
  <2> QED BY <2>1, <2>2
<1>5. SnapshotsAreGenuine /\ CopiesAreGenuine
  BY <1>2, <1>3 DEF SnapshotsAreGenuine, CopiesAreGenuine, Idle, NoCopy
<1>6. /\ AppendsAreOnSnapshots /\ RecordsAreOfAppends
      /\ HeadPutsAreOnSnapshots /\ TasksAreWhereTheyAre
  BY <1>2 DEF AppendsAreOnSnapshots, RecordsAreOfAppends,
              HeadPutsAreOnSnapshots, TasksAreWhereTheyAre, Started
<1>7. OperationsAreWhereTheyAre
  BY <1>2 DEF OperationsAreWhereTheyAre, EventsAreApart,
              OperationIsWhereItIs, Idle
<1>8. CommitsAreOnSnapshots /\ ChainIntact
  <2>1. head.count = 0 /\ head.last = NoKey
    BY <1>2 DEF FirstHead, AtVersion, NoHead
  <2>2. DOMAIN log = {} /\ Len(log) = 0
    BY <1>2
  <2> QED BY <1>2, <2>1, <2>2 DEF CommitsAreOnSnapshots, ChainIntact
<1> QED BY <1>1, <1>4, <1>5, <1>6, <1>7, <1>8 DEF IInv

\* Every step keeps it, if callers append only to copies they loaded.
LEMMA InvStep ==
  ASSUME Inv, TypeInv', AppendListed = FALSE, [Next]_vars
  PROVE  IInv'
<1>1. CASE UNCHANGED vars
  <2> USE DEF vars, vaultVars, taskVars, serviceVars, callerVars, boundVars,
              historyVars
  <2>1. UNCHANGED <<head, records, eventPuts, headPuts, log, versions, phase,
                    args, attempt, result, heads, inflight, copy, op, put,
                    cancels, crashes>>
    BY <1>1
  <2>2. TypeOK'
    BY DEF TypeInv
  <2>3. VersionsAreHeads' /\ SnapshotsAreGenuine' /\ CopiesAreGenuine'
    BY <2>1 DEF Inv, IInv, VersionsAreHeads, SnapshotsAreGenuine,
                CopiesAreGenuine, Genuine, HeadAt
  <2>4. AppendsAreOnSnapshots' /\ RecordsAreOfAppends'
    BY <2>1 DEF Inv, IInv, AppendsAreOnSnapshots, RecordsAreOfAppends,
                Started, Genuine, HeadAt, Prev, HasRecord, KeyOf
  <2>5. HeadPutsAreOnSnapshots'
    <3>1. \A e : Started(e)' = Started(e) /\ HasRecord(e)' = HasRecord(e)
                 /\ NewHead(e)' = NewHead(e)
      BY <2>1 DEF Started, HasRecord, NewHead, KeyOf
    <3>2. \A v : HeadAt(v)' = HeadAt(v)
      BY <2>1 DEF HeadAt
    <3> QED
      BY <2>1, <3>1, <3>2 DEF Inv, IInv, HeadPutsAreOnSnapshots
  <2>6. TasksAreWhereTheyAre'
    BY <2>1 DEF Inv, IInv, TasksAreWhereTheyAre, HasRecord, Started, Prev,
                KeyOf, Genuine, HeadAt
  <2>7. OperationsAreWhereTheyAre'
    BY <2>1 DEF Inv, IInv, OperationsAreWhereTheyAre, EventsAreApart,
                OperationIsWhereItIs, Genuine, HeadAt, Started
  <2>8. CommitsAreOnSnapshots' /\ ChainIntact'
    <3>1. \A e : Started(e)' = Started(e) /\ NewHead(e)' = NewHead(e)
      BY <2>1 DEF Started, NewHead, KeyOf
    <3> QED
      BY <2>1, <3>1 DEF Inv, IInv, CommitsAreOnSnapshots, ChainIntact
  <2> QED BY <2>2, <2>3, <2>4, <2>5, <2>6, <2>7, <2>8 DEF IInv
<1>2. ASSUME NEW m \in headPuts, VaultTakesHead(m) PROVE IInv'
  BY <1>2, InvHeadRefused, InvHeadAccepted
<1>3. ASSUME NEW c \in Caller, CallerStep(c) \/ Cancel(c) PROVE IInv'
  BY <1>3, InvAppendRead, InvAppendReturn, InvWake, InvGet, InvCreateDelete,
     InvPutSend, InvPutAnswered, InvFails DEF CallerStep
<1>4. ASSUME NEW c \in Caller, GetBegin(c) \/ CreateBegin(c) \/ DeleteBegin(c)
      PROVE IInv'
  BY <1>4, InvGet, InvCreateDelete
<1> QED
  BY <1>1, <1>2, <1>3, <1>4, InvVaultEvent, InvTask, InvAppendBegin, InvCrash
  DEF Next

\* The invariant is inductive, for every number of events, callers, services,
\* retries, cancellations and crashes.
THEOREM Invariant ==
  ASSUME AppendListed = FALSE
  PROVE  Spec => []IInv
<1>1. Init => Inv
  BY TypeInit, InvInit DEF Inv
<1>2. Inv /\ [Next]_vars => Inv'
  <2> SUFFICES ASSUME Inv, [Next]_vars PROVE Inv'
    OBVIOUS
  <2>1. TypeInv'
    BY TypeStep DEF Inv
  <2> QED BY <2>1, InvStep DEF Inv
<1>3. Inv => IInv
  BY DEF Inv
<1> QED BY <1>1, <1>2, <1>3, PTL DEF Spec

\* The chain of event records behind the head is never broken (_store.py's
\* commit protocol, whatever races, is resent, cancelled or crashes).
THEOREM ChainIsIntact ==
  ASSUME AppendListed = FALSE
  PROVE  Spec => []ChainIntact
<1>1. IInv => ChainIntact
  BY DEF IInv
<1> QED BY <1>1, Invariant, PTL

\* The head's session state is that of the committed events, no more and no
\* less: no append overwrites another's update.
THEOREM NoUpdateIsLost ==
  ASSUME AppendListed = FALSE
  PROVE  Spec => []NoLostUpdate
<1>1. Inv => NoLostUpdate
  <2> SUFFICES ASSUME Inv PROVE NoLostUpdate
    OBVIOUS
  <2>1. head.state = {log[i] : i \in 1..Len(log)} /\ DOMAIN log = 1..Len(log)
    BY CurrentHead, Types, LenProperties DEF Inv
  <2> QED BY <2>1 DEF NoLostUpdate, ToSet
<1>2. TypeInv /\ IInv => Inv
  BY DEF Inv
<1> QED BY <1>1, <1>2, TypeInit, TypeStep, Invariant, PTL DEF Spec

\* However often an append is sent, resent by the transport or called again,
\* its event is committed once at most.
THEOREM EventsAreCommittedOnce ==
  ASSUME AppendListed = FALSE
  PROVE  Spec => []CommittedOnce
<1>1. Inv => CommittedOnce
  <2> SUFFICES ASSUME Inv, NEW i \in DOMAIN log, NEW j \in DOMAIN log,
                      log[i] = log[j]
               PROVE  i = j
    BY DEF CommittedOnce
  <2>1. args[log[i]].base.count = i - 1 /\ args[log[j]].base.count = j - 1
    BY DEF Inv, IInv, CommitsAreOnSnapshots
  <2>2. i \in Nat /\ j \in Nat
    BY Types, LenProperties DEF Inv
  <2> QED BY <2>1, <2>2
<1>2. TypeInv /\ IInv => Inv
  BY DEF Inv
<1> QED BY <1>1, <1>2, TypeInit, TypeStep, Invariant, PTL DEF Spec

\* append_event returns only once its event is in the log, and what it
\* returns, which becomes the caller's marker, is a head whose last event it
\* is.
THEOREM SuccessMeansCommitted ==
  ASSUME AppendListed = FALSE
  PROVE  Spec => []SuccessIsCommitted
<1>1. Inv => SuccessIsCommitted
  <2> SUFFICES ASSUME Inv, NEW e \in EventId, phase[e] = "committed"
               PROVE  /\ e \in ToSet(log) /\ result[e].last = KeyOf(e)
                      /\ log[result[e].count] = e
    BY DEF SuccessIsCommitted
  <2> TypeInv
    BY DEF Inv
  <2> DEFINE r == result[e]
  <2>1. e \in ToSet(log) /\ r.last = KeyOf(e)
    BY DEF Inv, IInv, TasksAreWhereTheyAre, ToSet
  <2>2. Genuine(r) /\ r # NoHead
    BY <2>1, Keys DEF Inv, IInv, SnapshotsAreGenuine, NoHead
  <2>3. r.version \in 1..Len(versions) /\ r = versions[r.version]
    BY <2>2, Types, LenProperties DEF Genuine, HeadAt
  <2>4. r.last = IF r.count = 0 THEN NoKey ELSE <<r.count, log[r.count]>>
    BY <2>3 DEF Inv, IInv, VersionsAreHeads
  <2>5. <<r.count, log[r.count]>> = <<args[e].base.count + 1, e>>
    BY <2>1, <2>4, Keys
  <2> QED BY <2>1, <2>5
<1>2. TypeInv /\ IInv => Inv
  BY DEF Inv
<1> QED BY <1>1, <1>2, TypeInit, TypeStep, Invariant, PTL DEF Spec

\* get_session always finds the records its head needs, whatever was
\* committed, orphaned or deleted since it read the head.
THEOREM ChainIsFound ==
  ASSUME AppendListed = FALSE
  PROVE  Spec => []ReadsFindTheChain
<1>1. Inv => ReadsFindTheChain
  <2> SUFFICES ASSUME Inv, NEW c \in Caller PROVE Chain(op[c].snap) # {}
    BY DEF ReadsFindTheChain
  <2> DEFINE h == op[c].snap
             n == h.count
             k == [i \in 1..n |-> <<i, log[i]>>]
  <2>1. Genuine(h)
    BY InReach
  <2>2. /\ n \in Nat /\ n <= Len(log) /\ Len(log) \in Nat
        /\ n > 0 => h.last = <<n, log[n]>>
    <3>1. n \in Nat /\ h.version \in Nat /\ Len(log) \in Nat
      BY Types, LenProperties DEF Inv, Op, Snapshot
    <3>2. CASE h.version = 0
      BY <2>1, <3>1, <3>2 DEF Genuine, HeadAt, NoHead
    <3>3. CASE h.version # 0
      <4>1. h.version \in 1..Len(versions) /\ h = versions[h.version]
        BY <2>1, <3>1, <3>3 DEF Genuine, HeadAt
      <4>2. /\ versions[h.version].count <= Len(log)
            /\ versions[h.version].last =
                 IF versions[h.version].count = 0 THEN NoKey
                 ELSE <<versions[h.version].count,
                        log[versions[h.version].count]>>
        BY <4>1 DEF Inv, IInv, VersionsAreHeads
      <4> HIDE DEF h
      <4> QED BY <3>1, <4>1, <4>2
    <3> QED BY <3>2, <3>3
  <2>3. \A i \in 1..n :
          [key |-> <<i, log[i]>>, prev |-> Prev(log, i)] \in records
    <3>1. DOMAIN log = 1..Len(log)
      BY Types, LenProperties DEF Inv
    <3> QED BY <2>2, <3>1 DEF Inv, IInv, ChainIntact
  <2> HIDE DEF h, n
  <2>4. k \in [1..n -> {r.key : r \in records}]
    <3>1. \A i \in 1..n : \E r \in records : r.key = <<i, log[i]>>
      BY <2>3
    <3> QED BY <3>1
  <2>5. \A i \in 1..n :
          [key |-> k[i],
           prev |-> IF i = 1 THEN NoKey ELSE k[i - 1]] \in records
    <3> TAKE i \in 1..n
    <3>1. k[i] = <<i, log[i]>>
      OBVIOUS
    <3>2. i # 1 => k[i - 1] = <<i - 1, log[i - 1]>>
      BY <2>2
    <3> HIDE DEF k
    <3> QED BY <2>3, <3>1, <3>2 DEF Prev
  <2>6. n > 0 => k[n] = h.last
    <3>1. n > 0 => n \in 1..n
      BY <2>2
    <3>2. n > 0 => k[n] = <<n, log[n]>>
      BY <3>1
    <3> QED BY <2>2, <3>2
  <2> HIDE DEF k
  <2>7. [i \in 1..n |-> k[i][2]] \in Chain(h)
    BY <2>4, <2>5, <2>6 DEF Chain, n
  <2> QED BY <2>7 DEF h
<1>2. TypeInv /\ IInv => Inv
  BY DEF Inv
<1> QED BY <1>1, <1>2, TypeInit, TypeStep, Invariant, PTL DEF Spec
=============================================================================
