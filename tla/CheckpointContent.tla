------------------------- MODULE CheckpointContent -------------------------
(***************************************************************************)
(* What the copies of a session hold: the second half of the inductive     *)
(* invariant of Checkpoint, the properties it implies, and the refinement  *)
(* of SessionLog, for every value of the constants.                        *)
(*                                                                         *)
(* The point that needs an argument is get_session: it follows prev_key    *)
(* through whatever records the vault holds, orphans included, and must    *)
(* find the committed events and nothing else.                             *)
(*                                                                         *)
(* The last part is about tombstones: who may hold one, and hence who may  *)
(* still commit to a deleted session.                                      *)
(***************************************************************************)
EXTENDS CheckpointSafety, WellFoundedInduction

USE BoundsAssumption, NamesAssumption

Content == CopiesAreHistory /\ AppendsAreSingle
All == Inv /\ Content

-----------------------------------------------------------------------------
(* UptoIs of the log.                                                    *)

\* A set of numbers up to n has a greatest one.
LEMMA Greatest ==
  ASSUME NEW n \in Nat, NEW S \in SUBSET (0..n), S # {}
  PROVE  \E m \in S : \A k \in S : k <= m
<1> DEFINE T == {n - k : k \in S}
<1>1. T \subseteq Nat /\ T # {}
  <2>1. \A k \in S : k \in 0..n /\ n - k \in Nat
    OBVIOUS
  <2>2. PICK k \in S : TRUE
    OBVIOUS
  <2>3. n - k \in T
    OBVIOUS
  <2> QED BY <2>1, <2>3
<1>2. PICK x \in T : \A y \in T : ~(y < x)
  <2> DEFINE R == OpToRel(<, Nat)
  <2> HIDE DEF T, R
  <2>1. IsWellFoundedOn(R, Nat)
    BY NatLessThanWellFounded DEF R
  <2>2. \E x \in T : \A y \in T : ~(<<y, x>> \in R)
    BY <1>1, <2>1, WFMin
  <2>3. \A x, y \in Nat : y < x => <<y, x>> \in R
    BY Zenon DEF OpToRel, R
  <2> QED BY <1>1, <2>2, <2>3
<1>3. PICK m \in S : x = n - m
  OBVIOUS
<1>4. ASSUME NEW k \in S PROVE k <= m
  <2>1. n - k \in T
    OBVIOUS
  <2>2. ~(n - k < x)
    BY <1>2, <2>1
  <2> QED BY <1>3, <2>2
<1> QED BY <1>4

\* The first n events of the log, as a sequence.
LEMMA UptoIs ==
  ASSUME TypeInv, NEW n \in 0..Len(log)
  PROVE  /\ Upto(n) \in Seq(EventId) /\ Len(Upto(n)) = n
         /\ \A i \in 1..n : Upto(n)[i] = log[i]
         /\ n = Len(log) => Upto(n) = log
         /\ n < Len(log) => Upto(n + 1) = Append(Upto(n), log[n + 1])
<1>1. log \in Seq(EventId) /\ Len(log) \in Nat /\ n \in Nat
      /\ \A i \in 1..Len(log) : log[i] \in EventId
  BY Types, LenProperties, ElementOfSeq
<1>2. ASSUME NEW k \in 0..Len(log)
      PROVE  /\ Upto(k) \in Seq(EventId) /\ Len(Upto(k)) = k
             /\ \A i \in 1..k : Upto(k)[i] = log[i]
  <2>1. \A i \in 1..k : log[i] \in EventId
    BY <1>1
  <2>2. /\ SubSeq(log, 1, k) \in Seq(EventId)
        /\ Len(SubSeq(log, 1, k)) = IF 1 <= k THEN k - 1 + 1 ELSE 0
        /\ \A i \in 1..(k - 1 + 1) : SubSeq(log, 1, k)[i] = log[1 + i - 1]
    BY <1>1, <2>1, SubSeqProperties
  <2> QED BY <1>1, <2>2 DEF Upto
<1>3. n = Len(log) => Upto(n) = log
  BY <1>1, SubSeqFull DEF Upto
<1>4. ASSUME n < Len(log) PROVE Upto(n + 1) = Append(Upto(n), log[n + 1])
  <2>1. n + 1 \in 0..Len(log) /\ log[n + 1] \in EventId
    BY <1>1, <1>4
  <2>2. /\ Append(Upto(n), log[n + 1]) \in Seq(EventId)
        /\ Len(Append(Upto(n), log[n + 1])) = n + 1
        /\ \A i \in 1..n : Append(Upto(n), log[n + 1])[i] = Upto(n)[i]
        /\ Append(Upto(n), log[n + 1])[n + 1] = log[n + 1]
    BY <1>2, <2>1, AppendProperties
  <2>3. \A i \in 1..(n + 1) :
          Append(Upto(n), log[n + 1])[i] = Upto(n + 1)[i]
    BY <1>1, <1>2, <2>1, <2>2
  <2> QED BY <1>2, <2>1, <2>2, <2>3, SeqEqual
<1> QED BY <1>2, <1>3, <1>4

\* What was committed is not committed differently later.
LEMMA UptoStays ==
  ASSUME TypeInv, TypeInv', NEW n \in 0..Len(log),
         log' = log \/ \E e \in EventId : log' = Append(log, e)
  PROVE  Upto(n)' = Upto(n) /\ n \in 0..Len(log')
<1>1. CASE log' = log
  BY <1>1 DEF Upto
<1>2. CASE \E e \in EventId : log' = Append(log, e)
  <2>1. /\ Len(log') = Len(log) + 1 /\ Len(log) \in Nat
        /\ \A i \in 1..Len(log) : log'[i] = log[i]
    BY <1>2, LogGrows
  <2>2. log \in Seq(EventId) /\ log' \in Seq(EventId)
    BY DEF TypeInv, TypeOK
  <2>3. \A i \in 1..n : log[i] \in EventId /\ log'[i] = log[i]
    BY <2>1, <2>2, ElementOfSeq
  <2>4. /\ SubSeq(log, 1, n) \in Seq(EventId)
        /\ SubSeq(log', 1, n) \in Seq(EventId)
        /\ Len(SubSeq(log, 1, n)) = Len(SubSeq(log', 1, n))
        /\ Len(SubSeq(log, 1, n)) = IF 1 <= n THEN n - 1 + 1 ELSE 0
        /\ \A i \in 1..(n - 1 + 1) :
             SubSeq(log, 1, n)[i] = log[1 + i - 1]
             /\ SubSeq(log', 1, n)[i] = log'[1 + i - 1]
    BY <2>1, <2>3, SubSeqProperties
  <2>5. \A i \in 1..Len(SubSeq(log, 1, n)) :
          SubSeq(log, 1, n)[i] = SubSeq(log', 1, n)[i]
    BY <2>1, <2>3, <2>4
  <2>6. SubSeq(log, 1, n) = SubSeq(log', 1, n)
    BY <2>4, <2>5, SeqEqual
  <2> QED BY <2>1, <2>6 DEF Upto
<1> QED BY <1>1, <1>2

\* Every snapshot counts events that are in the log, and names the last.
LEMMA SnapshotsAreOfTheLog ==
  ASSUME Inv, NEW s, Genuine(s)
  PROVE  /\ s.count \in 0..Len(log) /\ s.version \in 0..Len(versions)
         /\ s = HeadAt(s.version)
         /\ s.last = IF s.count = 0 THEN NoKey ELSE <<s.count, log[s.count]>>
<1>1. s.version \in 0..Len(versions) /\ s = HeadAt(s.version)
      /\ Len(versions) \in Nat /\ Len(log) \in Nat
  BY Types, LenProperties DEF Genuine, Inv
<1>2. CASE s.version = 0
  BY <1>1, <1>2 DEF HeadAt, NoHead
<1>3. CASE s.version # 0
  <2>1. s.version \in 1..Len(versions) /\ s = versions[s.version]
    BY <1>1, <1>3 DEF HeadAt
  <2>2. versions[s.version] \in Snapshot
    BY <2>1, Types, ElementOfSeq DEF Inv
  <2>3. /\ versions[s.version].count <= Len(log)
        /\ versions[s.version].last =
             IF versions[s.version].count = 0 THEN NoKey
             ELSE <<versions[s.version].count,
                    log[versions[s.version].count]>>
    BY <2>1 DEF Inv, IInv, VersionsAreHeads
  <2>4. s.count \in Nat
    BY <2>1, <2>2 DEF Snapshot
  <2> QED BY <1>1, <2>1, <2>3, <2>4
<1> QED BY <1>2, <1>3

\* The head of a version there has been is genuine.
LEMMA HeadAtIsGenuine ==
  ASSUME Inv, NEW v \in 0..Len(versions)
  PROVE  Genuine(HeadAt(v))
<1>1. Len(versions) \in Nat
  BY Types, LenProperties DEF Inv
<1>2. \A w \in 1..Len(versions) : versions[w].version = w
  BY DEF Inv, IInv, VersionsAreHeads
<1>3. HeadAt(v).version = v
  BY <1>1, <1>2 DEF HeadAt, NoHead
<1> QED BY <1>3 DEF Genuine

\* Following prev_key from a head finds the events it counts, whatever else
\* the vault holds: a record names its event's key and the one before it.
LEMMA ChainsAreHistory ==
  ASSUME Inv, NEW h, Genuine(h), NEW events \in Chain(h)
  PROVE  events = Upto(h.count)
<1> TypeInv
  BY DEF Inv
<1> DEFINE n == h.count
           Right(i) == <<i, log[i]>>
<1>1. /\ n \in 0..Len(log) /\ n \in Nat /\ Len(log) \in Nat
      /\ n > 0 => h.last = Right(n)
  <2>1. /\ h.count \in 0..Len(log)
        /\ h.last = IF h.count = 0 THEN NoKey
                    ELSE <<h.count, log[h.count]>>
    BY SnapshotsAreOfTheLog
  <2>2. Len(log) \in Nat
    BY Types, LenProperties
  <2> QED BY <2>1, <2>2
<1> HIDE DEF n
<1>2. PICK k \in [1..n -> {r.key : r \in records}] :
        /\ events = [i \in 1..n |-> k[i][2]]
        /\ n > 0 => k[n] = h.last
        /\ \A i \in 1..n :
             [key |-> k[i],
              prev |-> IF i = 1 THEN NoKey ELSE k[i - 1]] \in records
  BY DEF Chain, n
<1>3. ASSUME NEW i \in 1..n, k[i] # Right(i)
      PROVE  FALSE
  <2> DEFINE Wrong == {j \in 1..n : k[j] # Right(j)}
  <2>1. Wrong \in SUBSET (0..n) /\ i \in Wrong
    BY <1>3
  <2>2. PICK j \in Wrong : \A m \in Wrong : m <= j
    <3> HIDE DEF Wrong
    <3> QED BY <1>1, <2>1, Greatest
  <2>3. j \in 1..n /\ k[j] # Right(j) /\ j # n
    BY <1>1, <1>2, <2>2
  <2>4. j + 1 \in 1..n /\ j + 1 # 1 /\ (j + 1) - 1 = j
    BY <1>1, <2>3
  <2>5. k[j + 1] = Right(j + 1)
    BY <1>1, <2>2, <2>4
  <2> HIDE DEF Wrong
  <2> DEFINE f == log[j + 1]
  <2>6. [key |-> <<j + 1, f>>, prev |-> k[j]] \in records
    BY <1>2, <2>4, <2>5
  <2>7. [key |-> <<j + 1, f>>, prev |-> Right(j)] \in records
    <3>1. j + 1 \in DOMAIN log
      BY <1>1, <2>4, Types, LenProperties
    <3> QED BY <2>4, <3>1 DEF Inv, IInv, ChainIntact, Prev
  <2> HIDE DEF f, Right
  <2>8. k[j] = args[f].base.last /\ Right(j) = args[f].base.last
    BY <2>6, <2>7 DEF Inv, IInv, RecordsAreOfAppends
  <2> QED BY <2>3, <2>8
<1>4. \A i \in 1..n : events[i] = Upto(n)[i]
  BY <1>1, <1>2, <1>3, UptoIs
<1>5. events \in Seq(EventId) /\ Len(events) = n
  <2>1. \A i \in 1..n : log[i] \in EventId /\ k[i][2] = log[i]
    BY <1>1, <1>3, Types, ElementOfSeq
  <2>2. events \in [1..n -> EventId]
    BY <1>2, <2>1
  <2> QED BY <1>1, <2>2, SeqDef
<1>6. events = Upto(n)
  BY <1>1, <1>4, <1>5, UptoIs, SeqEqual
<1> QED BY <1>6 DEF n

-----------------------------------------------------------------------------
(* The steps.                                                              *)

\* A commit task starts no task, ends none but its own, and changes no copy
\* and no operation.
LEMMA TaskChanges ==
  ASSUME TypeInv, NEW e \in EventId, TaskStep(e)
  PROVE  /\ UNCHANGED <<args, copy, op>>
         /\ phase[e] \in Active
         /\ phase'[e] \in Active \cup {"committed", "stale", "unavailable"}
         /\ \A f \in EventId \ {e} : phase'[f] = phase[f]
BY Types
DEF TaskStep, EventPutAnswered, EventReread, HeadPutAnswered, HeadReread,
    Resend, GiveUp, StartHeadPut, Finish, Active, callerVars

\* What registering an append finds: the snapshot is the head of the copy's
\* version, and nobody else has the event in hand.
Registering(c, e, snap) ==
  /\ Register(c, e, snap) /\ ~Full(snap)
  /\ Genuine(snap) /\ snap.version # 0 /\ snap.version = copy[c].marker
  /\ Started(e) => args[e].base.version = copy[c].marker
  /\ phase[e] \notin Active
  /\ \A d \in Caller \ {c} : op[d].event # e
  /\ UNCHANGED copy

\* An append that is not registered yet has an event nobody else has, and no
\* task of it runs.
NotYet(c, e) ==
  /\ e \in EventId
  /\ copy[c].marker # 0
  /\ Started(e) => args[e].base.version = copy[c].marker
  /\ phase[e] \notin Active
  /\ \A d \in Caller \ {c} : op[d].event # e

\* A caller that is about to append is at one of these steps.
Before == {"append_read", "append_settle"}

\* An append goes on to register, waits first, or is refused.
LEMMA StoreAppendIs ==
  ASSUME All, NEW c \in Caller, NEW e, NEW snap, NotYet(c, e),
         StoreAppend(c, e, snap), UNCHANGED copy,
         Genuine(snap), snap.version # 0, snap.version = copy[c].marker
  PROVE  \/ Registering(c, e, snap)
         \/ /\ UNCHANGED <<args, phase, copy>>
            /\ op'[c].pc \in Before => op'[c].event = e
            /\ \A d \in Caller \ {c} : op'[d] = op[d]
<1>1. op \in [Caller -> Op]
  BY Types DEF All, Inv
<1>2. CASE Register(c, e, snap) /\ ~Full(snap)
  BY <1>2 DEF Registering, NotYet
<1>3. CASE Register(c, e, snap) /\ Full(snap)
  BY <1>1, <1>3 DEF Register, Leave, Idle, Before, taskVars
<1>4. CASE /\ Enter(c, "append_settle", e, snap, 0)
           /\ UNCHANGED <<eventPuts, taskVars>>
  BY <1>1, <1>4 DEF Enter, Continue, taskVars
<1> QED BY <1>2, <1>3, <1>4 DEF StoreAppend

\* What the step of one caller does to copies, operations and tasks.
Quiet(c) ==
  /\ UNCHANGED <<args, phase>>
  /\ \A d \in Caller \ {c} : op'[d] = op[d] /\ copy'[d] = copy[d]
  /\ op'[c].pc \in Before =>
       op'[c].event \in EventId /\ phase[op'[c].event] \notin Active
  /\ \/ copy'[c] = copy[c]
     \/ copy'[c].events = Upto(HeadAt(copy'[c].marker).count)

Registers(c) == \E e \in EventId : \E snap : Registering(c, e, snap)

\* append_event registers only what it may, or changes nothing but where its
\* caller is.
LEMMA AppendChanges ==
  ASSUME All, AppendListed = FALSE, NEW c \in Caller,
         \/ \E e \in EventId : AppendBegin(c, e)
         \/ AppendRead(c) \/ Wake(c)
  PROVE  Registers(c) \/ Quiet(c)
<1>1. /\ op \in [Caller -> Op] /\ ServiceOf[c] \in Service
      /\ OperationIsWhereItIs(c)
      /\ \A s \in Service : Genuine(heads[s])
      /\ Genuine(head) /\ Genuine(op[c].snap)
  BY Types, InReach DEF All, Inv
<1>2. op[c].pc \in Before => NotYet(c, op[c].event)
  <2>1. ASSUME op[c].pc \in Before
        PROVE  /\ op[c].event \in EventId /\ copy[c].marker # 0
               /\ Started(op[c].event) =>
                    args[op[c].event].base.version = copy[c].marker
               /\ phase[op[c].event] \notin Active
    BY <1>1, <2>1
    DEF All, Content, AppendsAreSingle, OperationIsWhereItIs, Before
  <2>2. op[c].pc \in Before => op[c].event # NoEvent
    BY <2>1
  <2> QED BY <2>1, <2>2, InReach DEF NotYet, All
<1>3. ASSUME NEW e, NEW snap, NotYet(c, e), StoreAppend(c, e, snap),
             UNCHANGED copy, Genuine(snap), snap.version # 0,
             snap.version = copy[c].marker
      PROVE  Registers(c) \/ Quiet(c)
  <2>1. e \in EventId /\ phase[e] \notin Active
    BY <1>3 DEF NotYet
  <2>2. CASE Registering(c, e, snap)
    BY <2>1, <2>2 DEF Registers
  <2>3. CASE /\ UNCHANGED <<args, phase, copy>>
             /\ op'[c].pc \in Before => op'[c].event = e
             /\ \A d \in Caller \ {c} : op'[d] = op[d]
    BY <2>1, <2>3 DEF Quiet
  <2> QED BY <1>3, <2>2, <2>3, StoreAppendIs
<1>4. ASSUME NEW e \in EventId, AppendBegin(c, e)
      PROVE  Registers(c) \/ Quiet(c)
  <2>1. NotYet(c, e) /\ UNCHANGED copy
    BY <1>4 DEF AppendBegin, MayAppend, NotYet, Started, Active
  <2>2. CASE Cached(c)
    BY <1>1, <1>3, <1>4, <2>1, <2>2 DEF AppendBegin, Cached
  <2>3. CASE ~Cached(c)
    BY <1>1, <1>4, <2>1, <2>3
    DEF AppendBegin, Enter, Continue, Quiet, NotYet, taskVars
  <2> QED BY <2>2, <2>3
<1>5. CASE AppendRead(c)
  <2>1. NotYet(c, op[c].event) /\ UNCHANGED copy
    BY <1>2, <1>5 DEF AppendRead, At, Before
  <2>2. CASE Refused(c)
    BY <1>1, <1>5, <2>1, <2>2
    DEF AppendRead, Leave, Quiet, Idle, Before, taskVars
  <2>3. CASE ~Refused(c)
    <3>1. head.version # 0 /\ head.version = copy[c].marker
      BY <2>1, <2>3 DEF Refused, NotYet
    <3>2. StoreAppend(c, op[c].event, head)
      BY <1>5, <2>3 DEF AppendRead
    <3> QED BY <1>1, <1>3, <2>1, <3>1, <3>2
  <2> QED BY <2>2, <2>3
<1>6. CASE Wake(c)
  <2>1. UNCHANGED copy
    BY <1>6 DEF Wake
  <2>2. CASE op[c].pc = "append_settle"
    <3>1. /\ NotYet(c, op[c].event)
          /\ op[c].snap.version # 0 /\ op[c].snap.version = copy[c].marker
          /\ Register(c, op[c].event, op[c].snap)
      BY <1>1, <1>2, <1>6, <2>2 DEF OperationIsWhereItIs, Wake, Before
    <3>2. CASE Full(op[c].snap)
      BY <1>1, <2>1, <3>1, <3>2
      DEF Register, Leave, Quiet, Idle, Before, taskVars
    <3>3. CASE ~Full(op[c].snap)
      BY <1>1, <2>1, <3>1, <3>3 DEF Registers, Registering, NotYet
    <3> QED BY <3>2, <3>3
  <2>3. CASE op[c].pc # "append_settle"
    <3>1. /\ UNCHANGED <<args, phase>>
          /\ op'[c].pc = op[c].pc /\ op'[c].event = op[c].event
          /\ \A d \in Caller \ {c} : op'[d] = op[d]
      BY <1>1, <1>6, <2>3 DEF Wake, Continue, taskVars
    <3> QED BY <1>2, <2>1, <3>1 DEF Quiet, NotYet
  <2> QED BY <2>2, <2>3
<1> QED BY <1>4, <1>5, <1>6

\* The other operations load, extend or make a copy of the history they read,
\* or change no copy.
LEMMA OtherChanges ==
  ASSUME All, NEW c \in Caller,
         \/ AppendReturn(c) \/ GetBegin(c) \/ GetRead(c) \/ GetEvents(c)
         \/ CreateBegin(c) \/ CreateRead(c) \/ DeleteBegin(c)
         \/ DeleteRead(c) \/ PutSend(c) \/ PutAnswered(c) \/ CallFails(c)
         \/ Cancel(c)
  PROVE  Quiet(c)
<1> TypeInv /\ Inv
  BY DEF All, Inv
<1>1. op \in [Caller -> Op] /\ copy \in [Caller -> Copy]
  BY Types
<1>2. UNCHANGED <<args, phase>>
  BY DEF AppendReturn, GetBegin, GetRead, GetEvents, CreateBegin, CreateRead,
         DeleteBegin, DeleteRead, PutSend, PutAnswered, CallFails, Cancel,
         taskVars
<1>3. /\ \A d \in Caller \ {c} : op'[d] = op[d]
      /\ op'[c].pc \in Before => op'[c].event \in EventId
                                 /\ phase[op'[c].event] \notin Active
  <2>1. CASE PutSend(c)
    BY <1>1, <2>1 DEF PutSend, Putting, Before
  <2>2. CASE Leave(c)
    BY <1>1, <2>2 DEF Leave, Idle, Before
  <2>3. ASSUME NEW pc \in {"get_read", "get_events", "create_read",
                           "create_put", "delete_read", "delete_put"},
               NEW snap, NEW round, Enter(c, pc, NoEvent, snap, round)
        PROVE  /\ \A d \in Caller \ {c} : op'[d] = op[d]
               /\ op'[c].pc \notin Before
    BY <1>1, <2>3 DEF Enter, Continue, Before
  <2> QED
    BY <2>1, <2>2, <2>3
    DEF AppendReturn, GetBegin, GetRead, GetEvents, CreateBegin, CreateRead,
        DeleteBegin, DeleteRead, PutAnswered, CallFails, Cancel
<1>4. CASE AppendReturn(c)
  <2> DEFINE e == op[c].event
             r == result[e]
             b == HeadAt(copy[c].marker)
  <2>1. CASE phase[e] # "committed"
    BY <1>2, <1>3, <1>4, <2>1 DEF AppendReturn, Quiet
  <2>2. CASE phase[e] = "committed"
    <3>1. copy' = [copy EXCEPT ![c] =
                     [marker |-> r.version, events |-> Append(@.events, e),
                      state |-> @.state \cup {e}]]
      BY <1>4, <2>2 DEF AppendReturn
    <3>2. /\ r = HeadAt(r.version) /\ r.version \in 1..Len(versions)
          /\ r.count = b.count + 1
          /\ r.count <= Len(log) /\ log[r.count] = e
      BY <1>4, <2>2, ReturnedHead DEF AppendReturn
    <3>3. copy[c].marker # 0
      BY <1>4, InReach DEF OperationIsWhereItIs, AppendReturn
    <3>4. Genuine(b) /\ b.count \in 0..Len(log) /\ Len(log) \in Nat
      <4>1. Genuine(b)
        BY InReach, HeadAtIsGenuine
      <4> QED BY <4>1, SnapshotsAreOfTheLog, Types, LenProperties
    <3>5. copy[c].events = Upto(b.count)
      BY <3>3 DEF All, Content, CopiesAreHistory
    <3>6. Append(copy[c].events, e) = Upto(r.count)
      BY <3>2, <3>4, <3>5, UptoIs
    <3> HIDE DEF r, b, e
    <3>7. copy'[c].events = Upto(r.count) /\ copy'[c].marker = r.version
          /\ \A d \in Caller \ {c} : copy'[d] = copy[d]
      BY <1>1, <3>1, <3>6
    <3> QED BY <1>2, <1>3, <3>2, <3>7 DEF Quiet
  <2> QED BY <2>1, <2>2
<1>5. CASE GetEvents(c)
  <2> DEFINE s == op[c].snap
  <2>1. CASE UNCHANGED copy
    BY <1>2, <1>3, <2>1 DEF Quiet
  <2>2. CASE \E events \in Chain(s) :
               copy' = [copy EXCEPT ![c] = Loaded(s, events)]
    <3>1. PICK events \in Chain(s) :
            copy' = [copy EXCEPT ![c] = Loaded(s, events)]
      BY <2>2
    <3>2. Genuine(s) /\ s = HeadAt(s.version)
      BY InReach DEF Genuine
    <3>3. events = Upto(s.count)
      BY <3>2, ChainsAreHistory
    <3> HIDE DEF s
    <3>4. copy'[c].events = Upto(s.count) /\ copy'[c].marker = s.version
          /\ \A d \in Caller \ {c} : copy'[d] = copy[d]
      BY <1>1, <3>1, <3>3 DEF Loaded
    <3> QED BY <1>2, <1>3, <3>2, <3>4 DEF Quiet
  <2> QED BY <1>5, <2>1, <2>2 DEF GetEvents
<1>6. CASE PutAnswered(c)
  <2>1. CASE UNCHANGED copy
    BY <1>2, <1>3, <2>1 DEF Quiet
  <2>2. CASE /\ op[c].pc = "create_put" /\ put[c].reply = "ok"
             /\ copy' = [copy EXCEPT ![c] =
                           [marker |-> 1, events |-> <<>>, state |-> {}]]
    <3>1. versions # <<>> /\ versions[1] = FirstHead
      BY <2>2, InReach
      DEF OperationIsWhereItIs, Inv, IInv, VersionsAreHeads
    <3>2. HeadAt(1).count = 0
      BY <3>1 DEF HeadAt, FirstHead, AtVersion, NoHead
    <3>3. Upto(0) = <<>>
      BY SubSeqEmpty DEF Upto
    <3>4. copy'[c].events = <<>> /\ copy'[c].marker = 1
          /\ \A d \in Caller \ {c} : copy'[d] = copy[d]
      BY <1>1, <2>2
    <3> QED BY <1>2, <1>3, <3>2, <3>3, <3>4 DEF Quiet
  <2> QED BY <1>6, <2>1, <2>2 DEF PutAnswered
<1>7. CASE UNCHANGED copy
  BY <1>2, <1>3, <1>7 DEF Quiet
<1> QED
  BY <1>4, <1>5, <1>6, <1>7
  DEF GetBegin, GetRead, CreateBegin, CreateRead, DeleteBegin, DeleteRead,
      PutSend, CallFails, Cancel

-----------------------------------------------------------------------------
(* The invariant.                                                          *)

\* A step that commits nothing and registers nothing keeps it, if what it
\* loads is history and what it begins is not running.
LEMMA ContentStays ==
  ASSUME All, TypeInv', UNCHANGED <<log, versions, args>>,
         \A e \in EventId :
           \/ phase'[e] = phase[e]
           \/ Started(e) /\ (phase'[e] \in Active => phase[e] \in Active),
         \A c \in Caller :
           \/ copy'[c] = copy[c]
           \/ copy'[c].marker = 0
           \/ copy'[c].events = Upto(HeadAt(copy'[c].marker).count),
         \A c \in Caller : op'[c].pc \in Before =>
           op'[c].event \in EventId /\ phase[op'[c].event] \notin Active
  PROVE  Content'
<1>1. \A n : Upto(n)' = Upto(n) /\ HeadAt(n)' = HeadAt(n)
  BY DEF Upto, HeadAt
<1>2. CopiesAreHistory'
  <2>1. \A c \in Caller : copy'[c].marker # 0 =>
          copy'[c].events = Upto(HeadAt(copy'[c].marker).count)
    BY DEF All, Content, CopiesAreHistory
  <2>2. \A e \in EventId : Started(e)' => Started(e)
    BY DEF Started
  <2>3. \A e \in EventId : Started(e)' =>
          args'[e].seen = Upto(args'[e].base.count)
    BY <2>2 DEF All, Content, CopiesAreHistory
  <2> QED BY <1>1, <2>1, <2>3 DEF CopiesAreHistory
<1>3. AppendsAreSingle'
  BY DEF AppendsAreSingle, Before, Active
<1> QED BY <1>2, <1>3 DEF Content

\* Registering an append keeps it: the events the caller saw are those its
\* snapshot counts, and nobody else is about to register the same event.
LEMMA ContentRegisters ==
  ASSUME All, TypeInv', NEW c \in Caller, NEW e \in EventId, NEW snap,
         Registering(c, e, snap), UNCHANGED <<log, versions>>
  PROVE  /\ Content'
         /\ phase'[e] = "event_put"
         /\ args'[e].seen = Upto(snap.count) /\ snap.count \in 0..Len(log)
         /\ \A f \in EventId \ {e} :
              phase'[f] = phase[f] /\ args'[f] = args[f]
<1>1. /\ phase \in [EventId -> Phase] /\ args \in [EventId -> Args]
      /\ op \in [Caller -> Op]
  BY Types DEF All, Inv
<1>2. /\ phase' = [phase EXCEPT ![e] = "event_put"]
      /\ args' = [args EXCEPT ![e] =
                    [by |-> c, base |-> snap, seen |-> copy[c].events,
                     state |-> copy[c].state \cup {e}]]
      /\ Continue(c, "append_wait", e, NoEvent, snap, 0)
      /\ copy' = copy
  BY DEF Registering, Register
<1>3. snap = HeadAt(copy[c].marker) /\ copy[c].marker # 0
      /\ snap.count \in 0..Len(log)
  BY SnapshotsAreOfTheLog DEF Registering, All
<1>4. args'[e].seen = Upto(snap.count) /\ args'[e].base = snap
  BY <1>1, <1>2, <1>3 DEF All, Content, CopiesAreHistory
<1>5. \A f \in EventId \ {e} : phase'[f] = phase[f] /\ args'[f] = args[f]
  BY <1>1, <1>2
<1>6. \A n : Upto(n)' = Upto(n) /\ HeadAt(n)' = HeadAt(n)
  BY DEF Upto, HeadAt
<1>7. CopiesAreHistory'
  <2>1. \A f \in EventId : Started(f)' =>
          args'[f].seen = Upto(args'[f].base.count)
    BY <1>4, <1>5 DEF All, Content, CopiesAreHistory, Started
  <2> QED BY <1>2, <1>6, <2>1 DEF All, Content, CopiesAreHistory
<1>8. AppendsAreSingle'
  <2> SUFFICES ASSUME NEW d \in Caller,
                      op'[d].pc \in {"append_read", "append_settle"}
               PROVE  phase'[op'[d].event] \notin Active
    BY DEF AppendsAreSingle, Active
  <2>1. d # c /\ op'[d] = op[d]
    BY <1>1, <1>2 DEF Continue
  <2>2. op[d].event # e /\ op[d].event \in EventId
    BY <2>1, InReach DEF Registering, OperationIsWhereItIs, All
  <2>3. phase[op[d].event] \notin Active
    BY <2>1 DEF All, Content, AppendsAreSingle
  <2> QED BY <1>5, <2>1, <2>2, <2>3
<1> QED BY <1>1, <1>2, <1>3, <1>4, <1>5, <1>7, <1>8 DEF Content

\* A head the vault takes keeps it: what was history stays history.
LEMMA ContentCommits ==
  ASSUME All, TypeInv', NEW m \in headPuts, VaultTakesHead(m)
  PROVE  Content'
<1> TypeInv /\ Inv
  BY DEF All, Inv
<1>1. UNCHANGED <<phase, args, copy, op>>
  BY DEF VaultTakesHead
<1>2. CASE head.version # m.ver
  <2>1. UNCHANGED <<log, versions>>
    BY <1>2 DEF VaultTakesHead
  <2>2. \A c \in Caller : op'[c].pc \in Before =>
          op'[c].event \in EventId /\ phase[op'[c].event] \notin Active
    BY <1>1, InReach
    DEF All, Content, AppendsAreSingle, Before, OperationIsWhereItIs
  <2> QED BY <1>1, <2>1, <2>2, ContentStays
<1>3. CASE head.version = m.ver
  <2>1. versions' = Append(versions, head')
        /\ (log' = log \/ \E e \in EventId : log' = Append(log, e))
    BY <1>3 DEF VaultTakesHead
  <2>2. \A v \in 0..Len(versions) : HeadAt(v)' = HeadAt(v)
    BY <2>1, HistoryGrows
  <2>3. \A n \in 0..Len(log) : Upto(n)' = Upto(n)
    BY <2>1, UptoStays
  <2>4. ASSUME NEW c \in Caller, copy'[c].marker # 0
        PROVE  (copy[c].events = Upto(HeadAt(copy[c].marker).count))'
    <3>1. copy[c].marker \in 0..Len(versions)
      BY InReach
    <3>2. HeadAt(copy[c].marker).count \in 0..Len(log)
      BY <3>1, HeadAtIsGenuine, SnapshotsAreOfTheLog
    <3>3. copy[c].events = Upto(HeadAt(copy[c].marker).count)
      BY <1>1, <2>4 DEF All, Content, CopiesAreHistory
    <3>4. HeadAt(copy[c].marker)' = HeadAt(copy[c].marker)
      BY <1>1, <2>2, <3>1 DEF HeadAt
    <3> QED BY <1>1, <2>3, <3>2, <3>3, <3>4 DEF Upto
  <2>5. ASSUME NEW e \in EventId, Started(e)'
        PROVE  (args[e].seen = Upto(args[e].base.count))'
    <3>1. args[e].base.count \in 0..Len(log)
      BY SnapshotsAreOfTheLog DEF Inv, IInv, SnapshotsAreGenuine
    <3>2. args[e].seen = Upto(args[e].base.count)
      BY <1>1, <2>5 DEF All, Content, CopiesAreHistory, Started
    <3> QED BY <1>1, <2>3, <3>1, <3>2 DEF Upto
  <2>6. AppendsAreSingle'
    BY <1>1 DEF All, Content, AppendsAreSingle
  <2> QED BY <2>4, <2>5, <2>6 DEF Content, CopiesAreHistory
<1> QED BY <1>2, <1>3

\* No caller is about to append an event whose task runs.
LEMMA BeforeIsNotRunning ==
  ASSUME All
  PROVE  \A c \in Caller : op[c].pc \in Before =>
           op[c].event \in EventId /\ phase[op[c].event] \notin Active
BY InReach
DEF All, Content, AppendsAreSingle, Before, OperationIsWhereItIs

\* The steps of the callers, each of which registers an append or none.
CallerActs(c) ==
  \/ CallerStep(c) \/ Cancel(c) \/ GetBegin(c) \/ CreateBegin(c)
  \/ DeleteBegin(c) \/ \E e \in EventId : AppendBegin(c, e)

LEMMA CallerChanges ==
  ASSUME All, AppendListed = FALSE, NEW c \in Caller, CallerActs(c)
  PROVE  /\ Registers(c) \/ Quiet(c)
         /\ UNCHANGED <<head, records, log, versions>>
<1>1. Registers(c) \/ Quiet(c)
  BY AppendChanges, OtherChanges DEF CallerActs, CallerStep
<1>2. UNCHANGED <<head, records, log, versions>>
  BY DEF CallerActs, CallerStep, AppendRead, AppendReturn, Wake, GetRead,
         GetEvents, CreateRead, DeleteRead, PutSend, PutAnswered, CallFails,
         Cancel, AppendBegin, GetBegin, CreateBegin, DeleteBegin, vaultVars,
         historyVars
<1> QED BY <1>1, <1>2

\* The tasks a crash ends, and what its callers forget.
LEMMA CrashChanges ==
  ASSUME TypeInv, NEW s \in Service, Crash(s)
  PROVE  /\ UNCHANGED <<head, records, log, versions, args>>
         /\ \A e \in EventId :
              \/ phase'[e] = phase[e]
              \/ /\ phase'[e] = "dead"
                 /\ phase[e] \in Active \cup {"unavailable"}
         /\ \A c \in Caller :
              \/ copy'[c] = NoCopy /\ op'[c] = Idle
              \/ copy'[c] = copy[c] /\ op'[c] = op[c]
BY Types DEF Crash, vaultVars, historyVars

\* Every step keeps the invariant.
LEMMA ContentStep ==
  ASSUME All, TypeInv', AppendListed = FALSE, [Next]_vars
  PROVE  Content'
<1> TypeInv
  BY DEF All, Inv
<1>0. \A c \in Caller : op[c].pc \in Before =>
        op[c].event \in EventId /\ phase[op[c].event] \notin Active
  BY BeforeIsNotRunning
<1>1. CASE UNCHANGED vars
  BY <1>0, <1>1, ContentStays
  DEF vars, vaultVars, taskVars, callerVars, historyVars
<1>2. ASSUME NEW m \in eventPuts, VaultTakesEvent(m) PROVE Content'
  BY <1>0, <1>2, ContentStays DEF VaultTakesEvent, callerVars, historyVars
<1>3. ASSUME NEW m \in headPuts, VaultTakesHead(m) PROVE Content'
  BY <1>3, ContentCommits
<1>4. ASSUME NEW e \in EventId, TaskStep(e) PROVE Content'
  <2>1. UNCHANGED <<log, versions>>
    BY <1>4
    DEF TaskStep, EventPutAnswered, EventReread, HeadPutAnswered, HeadReread,
        Resend, GiveUp, historyVars
  <2>2. Started(e)
    BY <1>4, TaskChanges DEF Started, Active
  <2> QED BY <1>0, <1>4, <2>1, <2>2, TaskChanges, ContentStays
<1>5. ASSUME NEW c \in Caller, CallerActs(c) PROVE Content'
  <2>1. UNCHANGED <<log, versions>> /\ (Registers(c) \/ Quiet(c))
    BY <1>5, CallerChanges
  <2>2. CASE Registers(c)
    BY <2>1, <2>2, ContentRegisters DEF Registers
  <2>3. CASE Quiet(c)
    BY <1>0, <2>1, <2>3, ContentStays DEF Quiet
  <2> QED BY <2>1, <2>2, <2>3
<1>6. ASSUME NEW s \in Service, Crash(s) PROVE Content'
  <2>1. \A e \in EventId :
          \/ phase'[e] = phase[e]
          \/ Started(e) /\ phase'[e] \notin Active
    BY <1>6, CrashChanges DEF Started, Active
  <2>2. \A c \in Caller :
          \/ copy'[c].marker = 0 /\ op'[c].pc \notin Before
          \/ copy'[c] = copy[c] /\ op'[c] = op[c]
    BY <1>6, CrashChanges DEF NoCopy, Idle, Before
  <2> QED BY <1>0, <1>6, <2>1, <2>2, CrashChanges, ContentStays
<1> QED
  BY <1>1, <1>2, <1>3, <1>4, <1>5, <1>6 DEF Next, CallerActs

-----------------------------------------------------------------------------
(* What follows.                                                           *)

\* The whole invariant holds, for every number of events, callers, services,
\* retries, cancellations and crashes: besides what IInv says, a copy of the
\* session of marker v holds exactly the events the head of version v counts.
LEMMA AllInvariant ==
  ASSUME AppendListed = FALSE
  PROVE  Spec => []All
<1>1. Init => All
  <2> SUFFICES ASSUME Init PROVE All
    OBVIOUS
  <2>1. Inv
    BY TypeInit, InvInit DEF Inv
  <2>2. Content
    BY DEF Init, Content, CopiesAreHistory, AppendsAreSingle, Started, NoCopy,
           Idle
  <2> QED BY <2>1, <2>2 DEF All
<1>2. All /\ [Next]_vars => All'
  <2> SUFFICES ASSUME All, [Next]_vars PROVE All'
    OBVIOUS
  <2>1. TypeInv'
    BY TypeStep DEF All, Inv
  <2> QED BY <2>1, InvStep, ContentStep DEF All, Inv
<1> QED BY <1>1, <1>2, PTL DEF Spec

\* An event is committed on top of exactly the events its caller had seen
\* when it called append_event (the whole point of the marker and of
\* StaleSessionError).
THEOREM CommitsAreOnWhatWasSeen ==
  ASSUME AppendListed = FALSE
  PROVE  Spec => []CommittedOnWhatWasSeen
<1>1. All => CommittedOnWhatWasSeen
  <2> SUFFICES ASSUME All, NEW i \in DOMAIN log
               PROVE  args[log[i]].seen = SubSeq(log, 1, i - 1)
    BY DEF CommittedOnWhatWasSeen
  <2>1. Started(log[i]) /\ args[log[i]].base.count = i - 1
    BY DEF All, Inv, IInv, CommitsAreOnSnapshots
  <2>2. log[i] \in EventId
    BY Types, ElementOfSeq, LenProperties DEF All, Inv
  <2> QED BY <2>1, <2>2 DEF All, Content, CopiesAreHistory, Upto
<1> QED BY <1>1, AllInvariant, PTL

\* A copy whose marker is the version of the head holds the committed events
\* and their state, and a remembered head of that version is the head: what
\* append_event decides on without a read is what a read would have found.
THEOREM CurrentIsTrue ==
  ASSUME AppendListed = FALSE
  PROVE  Spec => []CurrentCopiesAreTrue
<1>1. All => CurrentCopiesAreTrue
  <2> SUFFICES ASSUME All PROVE CurrentCopiesAreTrue
    OBVIOUS
  <2>1. /\ head = HeadAt(head.version) /\ head.count = Len(log)
        /\ Len(log) \in Nat
    BY CurrentHead DEF All
  <2>2. Upto(Len(log)) = log
    BY <2>1, UptoIs DEF All, Inv
  <2>3. ASSUME NEW c \in Caller, copy[c].marker = head.version,
               head.version # 0
        PROVE  copy[c].events = log /\ copy[c].state = head.state
    <3>1. copy[c].events = Upto(HeadAt(head.version).count)
      BY <2>3 DEF All, Content, CopiesAreHistory
    <3>2. copy[c].state = HeadAt(head.version).state
      BY <2>3, InReach DEF All
    <3> QED BY <2>1, <2>2, <3>1, <3>2
  <2>4. ASSUME NEW s \in Service, heads[s].version = head.version
        PROVE  heads[s] = head
    BY <2>1, <2>4, InReach DEF Genuine, All
  <2> QED BY <2>3, <2>4 DEF CurrentCopiesAreTrue
<1> QED BY <1>1, AllInvariant, PTL

\* What the vault does with the head: a commit, a create, a tombstone, or
\* nothing.
LEMMA HeadChanges ==
  ASSUME All, TypeInv', NEW m \in headPuts, VaultTakesHead(m)
  PROVE  /\ UNCHANGED <<records, phase, args>>
         /\ \/ UNCHANGED <<head, log>>
            \/ /\ m.by \in EventId /\ log' = Append(log, m.by)
               /\ Started(m.by) /\ args[m.by].seen = log
               /\ head.version # 0
               /\ head'.version = head.version + 1
               /\ head'.deleted = head.deleted
            \/ /\ log' = log /\ head.version = 0
               /\ head'.version = head.version + 1
               /\ ~head.deleted /\ ~head'.deleted
            \/ /\ log' = log /\ head.version # 0
               /\ head'.version = head.version + 1
               /\ head'.deleted
<1> TypeInv /\ Inv
  BY DEF All, Inv
<1>1. UNCHANGED <<records, phase, args>>
  BY DEF VaultTakesHead
<1>2. CASE head.version # m.ver
  BY <1>1, <1>2 DEF VaultTakesHead
<1>3. CASE head.version = m.ver /\ m.by \in EventId
  <2>1. /\ head' = NewHead(m.by) /\ log' = Append(log, m.by)
        /\ Started(m.by) /\ args[m.by].base = head
    BY <1>3, CommitAccepted DEF VaultTakesHead
  <2>2. args[m.by].base.version # 0
    BY <2>1, <1>3 DEF Inv, IInv, AppendsAreOnSnapshots
  <2>3. args[m.by].seen = Upto(head.count)
    BY <1>3, <2>1 DEF All, Content, CopiesAreHistory
  <2>4. Upto(head.count) = log
    BY CurrentHead, UptoIs
  <2>5. head'.version = head.version + 1 /\ head'.deleted = head.deleted
    BY <2>1 DEF NewHead
  <2> QED BY <1>1, <1>3, <2>1, <2>2, <2>3, <2>4, <2>5
<1>4. CASE head.version = m.ver /\ m.by \notin EventId
  <2>1. head' = AtVersion(m.body, head.version + 1) /\ log' = log
    BY <1>4 DEF VaultTakesHead
  <2>2. m.body = IF m.ver = 0 THEN NoHead ELSE Tombstone(HeadAt(m.ver))
    BY <1>4 DEF Inv, IInv, HeadPutsAreOnSnapshots
  <2>3. head.version = 0 => ~head.deleted
    BY CurrentHead DEF HeadAt, NoHead
  <2>4. /\ head'.version = head.version + 1
        /\ head'.deleted = IF head.version = 0 THEN FALSE ELSE TRUE
    BY <1>4, <2>1, <2>2 DEF AtVersion, NoHead, Tombstone
  <2> QED BY <1>1, <2>1, <2>3, <2>4
<1> QED BY <1>2, <1>3, <1>4

\* The steps that leave the head and the log alone.
LEMMA OtherSteps ==
  ASSUME NEW e \in EventId, TaskStep(e)
  PROVE  UNCHANGED <<head, records, log>>
BY DEF TaskStep, EventPutAnswered, EventReread, HeadPutAnswered, HeadReread,
       Resend, GiveUp, historyVars

\* The committed history only grows, records are never rewritten or removed,
\* versions only rise and a tombstone stays, in every step.
THEOREM HistoryIsKept ==
  ASSUME AppendListed = FALSE
  PROVE  Spec => HistoryKept
<1> DEFINE Kept == /\ IsPrefix(log, log')
                   /\ records \subseteq records'
                   /\ head'.version >= head.version
                   /\ head' # head => head'.version > head.version
                   /\ head.deleted => head'.deleted
<1>1. ASSUME All, TypeInv', AppendListed = FALSE, [Next]_vars
      PROVE  Kept
  <2> TypeInv /\ head.version \in Nat /\ log \in Seq(EventId)
    BY <1>1, Types DEF All, Inv, Snapshot
  <2>1. ASSUME log' = log \/ \E e \in EventId : log' = Append(log, e)
        PROVE  IsPrefix(log, log')
    <3>1. Len(log) \in 0..Len(log) /\ Len(log) \in Nat
      BY LenProperties
    <3>2. SubSeq(log', 1, Len(log)) = SubSeq(log, 1, Len(log))
      BY <1>1, <2>1, <3>1, UptoStays DEF Upto
    <3>3. Len(log) <= Len(log')
      BY <1>1, <2>1, <3>1, LogGrows
    <3> QED BY <3>2, <3>3 DEF IsPrefix
  <2>2. CASE UNCHANGED <<head, records, log>>
    BY <2>1, <2>2
  <2>3. ASSUME NEW m \in eventPuts, VaultTakesEvent(m) PROVE Kept
    BY <2>1, <2>3 DEF VaultTakesEvent, historyVars
  <2>4. ASSUME NEW m \in headPuts, VaultTakesHead(m) PROVE Kept
    <3> HIDE DEF Kept
    <3>1. /\ log' = log \/ \E e \in EventId : log' = Append(log, e)
          /\ records' = records
          /\ \/ head' = head
             \/ /\ head'.version = head.version + 1
                /\ head.deleted => head'.deleted
      BY <1>1, <2>4, HeadChanges
    <3>2. IsPrefix(log, log')
      BY <2>1, <3>1
    <3> QED BY <3>1, <3>2 DEF Kept
  <2> QED
    BY <1>1, <2>2, <2>3, <2>4, OtherSteps, CallerChanges, CrashChanges
    DEF Next, CallerActs, vars, vaultVars, historyVars
<1>2. All /\ All' /\ [Next]_vars => [Kept]_vars
  <2>1. All' => TypeInv'
    BY DEF All, Inv
  <2> QED BY <1>1, <2>1
<1> QED BY <1>2, AllInvariant, PTL DEF Spec, HistoryKept

-----------------------------------------------------------------------------
(* Who may hold a tombstone.                                               *)

Owned == AppendsAreOwned /\ ResultsAreLater /\ TombstonesAreGiven
Whole == All /\ Owned

\* What a step makes of one caller fits the invariant: its append is its own,
\* it reads on from no tombstone and holds one only if it was given it, and
\* the append it was given it for stays behind.
Fits(c) ==
  /\ AppendIsOwned(c)'
  /\ op'[c].pc = "get_events" => ~op'[c].snap.deleted
  /\ copy'[c].marker # 0 /\ (HeadAt(copy[c].marker).deleted)' =>
       WasGivenTombstone(c) \/ WasGivenTombstone(c)'
  /\ \A e \in EventId :
       TookTombstone(e) /\ args[e].by = c /\ LeftBehind(e) => LeftBehind(e)'

\* A step that registers no append keeps the invariant if what it makes of
\* every caller fits it, and no append it ends was answered an old version.
LEMMA OwnedStays ==
  ASSUME Whole, UNCHANGED args, \A c \in Caller : Fits(c),
         \A e \in EventId :
           \/ phase'[e] = phase[e] /\ result'[e] = result[e]
           \/ /\ phase[e] # "committed" /\ (Started(e)' => Started(e))
              /\ phase'[e] = "committed" =>
                   result'[e].version > args[e].base.version
  PROVE  Owned'
<1>1. AppendsAreOwned'
  BY DEF Fits, AppendsAreOwned
<1>2. ResultsAreLater'
  BY DEF Whole, Owned, ResultsAreLater
<1>3. ASSUME NEW e \in EventId, TookTombstone(e) PROVE TookTombstone(e)'
  BY <1>3 DEF TookTombstone
<1>4. ASSUME NEW c \in Caller, WasGivenTombstone(c)
      PROVE  WasGivenTombstone(c)'
  <2>1. PICK e \in EventId :
          TookTombstone(e) /\ args[e].by = c /\ LeftBehind(e)
    BY <1>4 DEF WasGivenTombstone
  <2>2. TookTombstone(e)' /\ LeftBehind(e)' /\ args'[e].by = c
    BY <1>3, <2>1 DEF Fits
  <2> QED BY <2>2 DEF WasGivenTombstone
<1>5. ASSUME NEW e \in EventId, Started(e)', args'[e].base.deleted
      PROVE  WasGivenTombstone(args[e].by)'
  <2>1. Started(e)
    BY <1>5 DEF Started
  <2>2. args[e].by \in Caller /\ WasGivenTombstone(args[e].by)
    BY <1>5, <2>1
    DEF Whole, Owned, TombstonesAreGiven, All, Inv, IInv,
        AppendsAreOnSnapshots
  <2> QED BY <1>4, <2>2
<1>6. TombstonesAreGiven'
  BY <1>4, <1>5 DEF Fits, TombstonesAreGiven
<1> QED BY <1>1, <1>2, <1>6 DEF Owned

\* What is left alone fits.
LEMMA SameFits ==
  ASSUME Whole, NEW c \in Caller, UNCHANGED args,
         op'[c] = op[c], copy'[c] = copy[c],
         \A v \in 0..Len(versions) : HeadAt(v)' = HeadAt(v),
         \A e \in EventId : Started(e)' => Started(e)
  PROVE  Fits(c)
<1>1. /\ AppendIsOwned(c) /\ OperationIsWhereItIs(c)
      /\ copy[c].marker \in 0..Len(versions)
  BY InReach DEF Whole, Owned, AppendsAreOwned, All
<1>2. AppendIsOwned(c)'
  BY <1>1 DEF AppendIsOwned, OperationIsWhereItIs
<1>3. (HeadAt(copy[c].marker))' = HeadAt(copy[c].marker)
  BY <1>1 DEF HeadAt
<1>4. \A e \in EventId : args[e].by = c /\ LeftBehind(e) => LeftBehind(e)'
  BY DEF LeftBehind
<1> QED
  BY <1>2, <1>3, <1>4 DEF Fits, Whole, Owned, TombstonesAreGiven

\* A caller that keeps its copy and neither appends, creates nor reads on
\* fits.
LEMMA ElsewhereFits ==
  ASSUME Whole, NEW c \in Caller, UNCHANGED <<args, versions>>,
         copy'[c] = copy[c],
         op'[c].pc \notin Before \cup {"append_wait", "create_put",
                                       "get_events"}
  PROVE  Fits(c)
BY DEF Fits, AppendIsOwned, Before, HeadAt, LeftBehind, Whole, Owned,
       TombstonesAreGiven

\* Registering an append keeps it: a caller that has a tombstone's version
\* was given it, and the append it was given it for is not this one.
LEMMA OwnedRegisters ==
  ASSUME Whole, TypeInv', NEW c \in Caller, NEW e \in EventId, NEW snap,
         Registering(c, e, snap), Started(e) => args[e].by = c,
         UNCHANGED <<log, versions>>
  PROVE  Owned'
<1> All /\ Inv /\ TypeInv
  BY DEF Whole, All, Inv
<1>1. /\ phase \in [EventId -> Phase] /\ args \in [EventId -> Args]
      /\ op \in [Caller -> Op] /\ copy[c].marker \in Nat
  BY Types DEF Copy
<1>2. /\ phase' = [phase EXCEPT ![e] = "event_put"]
      /\ args' = [args EXCEPT ![e] =
                    [by |-> c, base |-> snap, seen |-> copy[c].events,
                     state |-> copy[c].state \cup {e}]]
      /\ Continue(c, "append_wait", e, NoEvent, snap, 0)
      /\ UNCHANGED <<copy, result>>
  BY DEF Registering, Register
<1>3. /\ args'[e].by = c /\ args'[e].base = snap /\ phase'[e] = "event_put"
      /\ \A f \in EventId \ {e} : phase'[f] = phase[f] /\ args'[f] = args[f]
      /\ op'[c].pc = "append_wait" /\ op'[c].event = e
      /\ \A d \in Caller \ {c} : op'[d] = op[d] /\ op[d].event # e
      /\ snap = HeadAt(copy[c].marker) /\ copy[c].marker # 0
  BY <1>1, <1>2 DEF Registering, Continue, Genuine
<1>4. ASSUME NEW d \in Caller PROVE AppendIsOwned(d)'
  <2>1. CASE d = c
    BY <1>3, <2>1 DEF AppendIsOwned
  <2>2. CASE d # c
    <3>1. AppendIsOwned(d) /\ OperationIsWhereItIs(d) /\ op'[d] = op[d]
          /\ op[d].event # e
      BY <1>3, <2>2, InReach DEF Whole, Owned, AppendsAreOwned
    <3>2. op'[d].pc \in {"append_read", "append_settle"}
            /\ Started(op[d].event)' => args'[op'[d].event].by = d
      BY <1>3, <3>1 DEF AppendIsOwned, OperationIsWhereItIs, Started
    <3>3. op'[d].pc = "append_wait" => args'[op'[d].event].by = d
      BY <1>3, <3>1 DEF AppendIsOwned, OperationIsWhereItIs
    <3>4. op'[d].pc = "create_put" =>
            \A f \in EventId : Started(f)' => args'[f].by # d
      BY <1>3, <2>2, <3>1 DEF AppendIsOwned, Started
    <3> QED BY <3>1, <3>2, <3>3, <3>4 DEF AppendIsOwned
  <2> QED BY <2>1, <2>2
<1>5. ResultsAreLater'
  BY <1>2, <1>3 DEF Whole, Owned, ResultsAreLater
<1>6. ASSUME NEW d, WasGivenTombstone(d) PROVE WasGivenTombstone(d)'
  <2>1. PICK f \in EventId :
          TookTombstone(f) /\ args[f].by = d /\ LeftBehind(f)
    BY <1>6 DEF WasGivenTombstone
  <2>2. Started(f) /\ args[f].by \in Caller /\ args[f].base.version \in Nat
    BY <2>1, Types
    DEF TookTombstone, Started, Inv, IInv, AppendsAreOnSnapshots, Args,
        Snapshot
  <2>3. f # e
    BY <1>1, <1>3, <2>1, <2>2 DEF Registering, LeftBehind
  <2>4. args'[f] = args[f] /\ phase'[f] = phase[f]
    BY <1>3, <2>3
  <2>5. TookTombstone(f)'
    BY <1>2, <2>1, <2>4 DEF TookTombstone
  <2>6. LeftBehind(f)'
    BY <1>2, <1>3, <2>1, <2>2, <2>4 DEF LeftBehind
  <2> QED BY <2>1, <2>4, <2>5, <2>6 DEF WasGivenTombstone
<1>7. ASSUME NEW d \in Caller
      PROVE  /\ copy'[d].marker # 0 /\ (HeadAt(copy[d].marker).deleted)' =>
                  WasGivenTombstone(d)'
             /\ op'[d].pc = "get_events" => ~op'[d].snap.deleted
  BY <1>2, <1>3, <1>6 DEF Whole, Owned, TombstonesAreGiven, HeadAt
<1>8. ASSUME NEW f \in EventId, Started(f)', args'[f].base.deleted
      PROVE  WasGivenTombstone(args[f].by)'
  <2>1. CASE f = e
    <3>1. WasGivenTombstone(c)
      BY <1>3, <1>8, <2>1 DEF Whole, Owned, TombstonesAreGiven
    <3>2. WasGivenTombstone(c)'
      BY <1>6, <3>1
    <3> QED BY <1>3, <2>1, <3>2 DEF WasGivenTombstone
  <2>2. CASE f # e
    <3>1. Started(f) /\ args'[f] = args[f]
      BY <1>3, <1>8, <2>2 DEF Started
    <3>2. WasGivenTombstone(args[f].by)
      BY <1>8, <3>1 DEF Whole, Owned, TombstonesAreGiven
    <3> QED BY <1>6, <3>1, <3>2 DEF WasGivenTombstone
  <2> QED BY <2>1, <2>2
<1>9. TombstonesAreGiven'
  BY <1>7, <1>8 DEF TombstonesAreGiven
<1> QED BY <1>4, <1>5, <1>9 DEF Owned, AppendsAreOwned

\* A caller registers its own append, or goes on to append or to what it was
\* about to do, on the same copy.
LEMMA AppendFits ==
  ASSUME Whole, AppendListed = FALSE, NEW c \in Caller,
         \/ \E e \in EventId : AppendBegin(c, e)
         \/ AppendRead(c) \/ Wake(c),
         TypeInv', UNCHANGED <<log, versions>>
  PROVE  Owned'
<1> All /\ Inv /\ TypeInv /\ op \in [Caller -> Op] /\ AppendIsOwned(c)
  BY Types DEF Whole, All, Inv, Owned, AppendsAreOwned
<1> DEFINE Own(e) == Started(e) => args[e].by = c
           Moves == /\ op'[c].pc \in Before => Own(op'[c].event)
                    /\ op'[c].pc = "append_wait" =>
                         \/ phase'[op'[c].event] = "event_put"
                            /\ Own(op'[c].event)
                         \/ op[c].pc = "append_wait"
                            /\ op'[c].event = op[c].event
                    /\ op'[c].pc = "create_put" => op[c].pc = "create_put"
                    /\ op'[c].pc = "get_events" =>
                         op[c].pc = "get_events" /\ op'[c].snap = op[c].snap
                    /\ UNCHANGED <<copy, result>>
<1>1. ASSUME NEW e \in EventId, NEW snap, StoreAppend(c, e, snap), Own(e),
             UNCHANGED copy
      PROVE  Moves
  <2>1. phase \in [EventId -> Phase]
    BY Types
  <2>2. CASE Register(c, e, snap)
    BY <1>1, <2>1, <2>2
    DEF Register, Leave, Continue, Idle, Before, taskVars
  <2>3. CASE /\ Enter(c, "append_settle", e, snap, 0)
             /\ UNCHANGED <<eventPuts, taskVars>>
    BY <1>1, <2>3 DEF Enter, Continue, Before, taskVars
  <2> QED BY <1>1, <2>2, <2>3 DEF StoreAppend
<1>2. op[c].pc \in Before => Own(op[c].event) /\ op[c].event \in EventId
  BY InReach DEF AppendIsOwned, OperationIsWhereItIs, Before
<1>3. Moves
  <2>1. ASSUME NEW e \in EventId, AppendBegin(c, e) PROVE Moves
    <3>1. Own(e) /\ UNCHANGED copy
      BY <2>1 DEF AppendBegin, MayAppend, Started
    <3>2. CASE Cached(c)
      BY <1>1, <2>1, <3>1, <3>2 DEF AppendBegin
    <3>3. CASE ~Cached(c)
      BY <2>1, <3>1, <3>3
      DEF AppendBegin, Enter, Continue, Before, taskVars
    <3> QED BY <3>2, <3>3
  <2>2. CASE AppendRead(c)
    <3>1. op[c].pc \in Before /\ UNCHANGED copy
      BY <2>2 DEF AppendRead, At, Before
    <3>2. CASE Refused(c)
      BY <2>2, <3>1, <3>2 DEF AppendRead, Leave, Idle, Before, taskVars
    <3>3. CASE ~Refused(c)
      BY <1>1, <1>2, <2>2, <3>1, <3>3 DEF AppendRead
    <3> QED BY <3>2, <3>3
  <2>3. CASE Wake(c) /\ op[c].pc = "append_settle"
    <3>1. Own(op[c].event) /\ op[c].event \in EventId /\ UNCHANGED copy
          /\ Register(c, op[c].event, op[c].snap)
      BY <1>2, <2>3 DEF Wake, Before
    <3>2. phase \in [EventId -> Phase]
      BY Types
    <3> QED
      BY <3>1, <3>2 DEF Register, Leave, Continue, Idle, Before, taskVars
  <2>4. CASE Wake(c) /\ op[c].pc # "append_settle"
    BY <1>2, <2>4 DEF Wake, Continue, taskVars
  <2> QED BY <2>1, <2>2, <2>3, <2>4
<1>4. Registers(c) \/ Quiet(c)
  BY AppendChanges
<1>5. CASE Registers(c)
  <2>1. PICK e \in EventId : \E snap : Registering(c, e, snap)
    BY <1>5 DEF Registers
  <2>2. PICK snap : Registering(c, e, snap)
    BY <2>1
  <2>3. op'[c].pc = "append_wait" /\ op'[c].event = e
    BY <2>2 DEF Registering, Register, Continue
  <2>4. Own(e)
    <3>1. CASE op[c].pc = "append_wait" /\ op[c].event = e
      BY <3>1 DEF AppendIsOwned
    <3> QED BY <1>3, <2>3, <3>1
  <2> QED BY <2>2, <2>4, OwnedRegisters
<1>6. CASE Quiet(c)
  <2>1. UNCHANGED <<args, phase, copy, result>>
        /\ \A d \in Caller \ {c} : op'[d] = op[d]
    BY <1>3, <1>6 DEF Quiet
  <2>2. \A e \in EventId : Started(e)' <=> Started(e)
    BY <2>1 DEF Started
  <2>3. AppendIsOwned(c)'
    <3>1. /\ op'[c].pc \in {"append_read", "append_settle"} =>
               op'[c].event \in EventId /\ Own(op'[c].event)
          /\ op'[c].pc = "create_put" => op[c].pc = "create_put"
      BY <1>3, <1>6 DEF Quiet, Before
    <3>2. op'[c].pc = "append_wait" => args[op'[c].event].by = c
      <4>1. CASE op[c].pc = "append_wait" /\ op'[c].event = op[c].event
        BY <4>1 DEF AppendIsOwned
      <4>2. CASE phase'[op'[c].event] = "event_put" /\ Own(op'[c].event)
        BY <2>1, <4>2 DEF Started
      <4> QED BY <1>3, <4>1, <4>2
    <3> QED BY <2>1, <2>2, <3>1, <3>2 DEF AppendIsOwned
  <2>4. Fits(c)
    <3>1. \A e \in EventId :
            args[e].by = c /\ LeftBehind(e) => LeftBehind(e)'
      BY <1>3, <2>1 DEF LeftBehind
    <3> QED
      BY <1>3, <2>1, <2>3, <3>1
      DEF Fits, HeadAt, Whole, Owned, TombstonesAreGiven
  <2>5. \A d \in Caller : Fits(d)
    <3>1. \A v \in 0..Len(versions) : HeadAt(v)' = HeadAt(v)
      BY DEF HeadAt
    <3> QED BY <2>1, <2>2, <2>4, <3>1, SameFits
  <2> QED BY <2>1, <2>5, OwnedStays
<1> QED BY <1>4, <1>5, <1>6

\* append_event returns a later version than its caller had.  If that is a
\* tombstone and the append was called on the live session, this was the
\* append that took it.
LEMMA ReturnFits ==
  ASSUME Whole, NEW c \in Caller, AppendReturn(c)
  PROVE  Fits(c)
<1> PICK e : e = op[c].event
  OBVIOUS
<1> PICK r : r = result[e]
  OBVIOUS
<1> All /\ Inv /\ TypeInv /\ op'[c] = Idle
    /\ UNCHANGED <<args, versions, phase, result>>
  <2>1. op \in [Caller -> Op]
    BY Types DEF Whole, All, Inv
  <2> QED
    BY <2>1 DEF Whole, All, Inv, AppendReturn, Leave, vaultVars, historyVars,
                taskVars
<1>1. CASE phase[e] # "committed"
  <2>1. copy'[c] = copy[c]
    BY <1>1 DEF AppendReturn
  <2> QED BY <2>1, ElsewhereFits DEF Idle, Before
<1>2. CASE phase[e] = "committed"
  <2>1. /\ e \in EventId /\ Started(e) /\ args[e].by = c
        /\ args[e].base.version = copy[c].marker /\ copy[c].marker # 0
    <3>1. op[c].pc = "append_wait" /\ OperationIsWhereItIs(c)
          /\ AppendIsOwned(c)
      BY InReach DEF AppendReturn, Whole, Owned, AppendsAreOwned
    <3> QED BY <3>1 DEF OperationIsWhereItIs, AppendIsOwned
  <2>2. r.version > copy[c].marker /\ r = HeadAt(r.version)
        /\ copy[c].marker \in Nat /\ r.version \in Nat
    <3>1. r.version > args[e].base.version
      BY <1>2, <2>1 DEF Whole, Owned, ResultsAreLater
    <3>2. r = HeadAt(r.version)
      BY <2>1 DEF Inv, IInv, SnapshotsAreGenuine, Genuine
    <3>3. copy[c].marker \in Nat /\ r.version \in Nat
      BY <2>1, Types DEF Copy, Snapshot
    <3> QED BY <2>1, <3>1, <3>2, <3>3
  <2>3. copy'[c].marker = r.version
    BY <1>2, Types DEF AppendReturn
  <2>4. AppendIsOwned(c)' /\ op'[c].pc # "get_events"
    BY DEF Idle, AppendIsOwned
  <2>5. ASSUME NEW f \in EventId, TookTombstone(f), args[f].by = c,
               LeftBehind(f)
        PROVE  LeftBehind(f)'
    <3>1. copy[c].marker > args[f].base.version
          /\ args[f].base.version \in Nat
      BY <2>1, <2>5, Types DEF LeftBehind, Args, Snapshot
    <3>2. copy'[c].marker > args[f].base.version
      BY <2>2, <2>3, <3>1
    <3> QED BY <2>4, <2>5, <3>2 DEF LeftBehind
  <2>6. ASSUME (HeadAt(copy[c].marker).deleted)'
        PROVE  WasGivenTombstone(c) \/ WasGivenTombstone(c)'
    <3>1. r.deleted
      BY <2>2, <2>3, <2>6 DEF HeadAt
    <3>2. CASE args[e].base.deleted
      BY <2>1, <3>2 DEF Whole, Owned, TombstonesAreGiven
    <3>3. CASE ~args[e].base.deleted
      <4>1. TookTombstone(e)'
        BY <1>2, <3>1, <3>3 DEF TookTombstone
      <4>2. LeftBehind(e)'
        BY <2>1, <2>2, <2>3, <2>4 DEF LeftBehind
      <4> QED BY <2>1, <4>1, <4>2 DEF WasGivenTombstone
    <3> QED BY <3>2, <3>3
  <2> QED BY <2>4, <2>5, <2>6 DEF Fits
<1> QED BY <1>1, <1>2

\* get_session reads on from a live head, later than every append it left.
LEMMA GetFits ==
  ASSUME Whole, NEW c \in Caller, GetRead(c) \/ GetEvents(c)
  PROVE  Fits(c)
<1> All /\ Inv /\ TypeInv /\ op \in [Caller -> Op] /\ copy \in [Caller -> Copy]
    /\ UNCHANGED <<args, versions, phase, result>>
  BY Types DEF Whole, All, Inv, GetRead, GetEvents, vaultVars, historyVars,
               taskVars
<1>1. CASE GetRead(c) /\ ~Visible
  BY <1>1, ElsewhereFits DEF GetRead, Leave, Idle, Before
<1>2. CASE GetRead(c) /\ Visible
  <2>1. /\ op'[c].pc = "get_events" /\ op'[c].snap = head /\ ~head.deleted
        /\ copy' = copy
    BY <1>2 DEF GetRead, Enter, Continue, Visible
  <2>2. ASSUME NEW e \in EventId, TookTombstone(e), LeftBehind(e),
               args[e].by = c
        PROVE  LeftBehind(e)'
    <3>1. result[e].version > args[e].base.version
      BY <2>2 DEF TookTombstone, Whole, Owned, ResultsAreLater
    <3>2. result[e].version \in 0..Len(versions)
          /\ head.version = Len(versions) /\ Len(versions) \in Nat
      BY CurrentHead DEF Inv, IInv, SnapshotsAreGenuine, Genuine
    <3>3. args[e].base.version \in Nat
      BY Types DEF Args, Snapshot
    <3>4. head.version > args[e].base.version
      BY <3>1, <3>2, <3>3
    <3> QED BY <2>1, <2>2, <3>4 DEF LeftBehind
  <2>3. AppendIsOwned(c)'
    BY <2>1 DEF AppendIsOwned
  <2> QED
    BY <2>1, <2>2, <2>3
    DEF Fits, HeadAt, Whole, Owned, TombstonesAreGiven
<1>3. CASE GetEvents(c) /\ copy'[c] = copy[c]
  BY <1>3, ElsewhereFits DEF GetEvents, Leave, Idle, Before
<1>4. CASE GetEvents(c) /\ copy'[c] # copy[c]
  <2>1. /\ op[c].pc = "get_events" /\ op'[c] = Idle
        /\ copy'[c].marker = op[c].snap.version
    BY <1>4 DEF GetEvents, At, Leave, Loaded
  <2>2. ~op[c].snap.deleted /\ op[c].snap = HeadAt(op[c].snap.version)
    BY <2>1, InReach DEF Whole, Owned, TombstonesAreGiven, Genuine
  <2>3. ~(HeadAt(copy[c].marker).deleted)'
    BY <2>1, <2>2 DEF HeadAt
  <2>4. AppendIsOwned(c)' /\ op'[c].pc # "get_events"
    BY <2>1 DEF AppendIsOwned, Idle
  <2>5. \A e \in EventId :
          args[e].by = c /\ LeftBehind(e) => LeftBehind(e)'
    BY <2>1, <2>4 DEF LeftBehind
  <2> QED BY <2>3, <2>4, <2>5 DEF Fits
<1> QED BY <1>1, <1>2, <1>3, <1>4

\* A session is created by a caller that has not appended to it: there was
\* no head to append to.
LEMMA CreateFits ==
  ASSUME Whole, NEW c \in Caller, CreateRead(c) \/ PutAnswered(c)
  PROVE  Fits(c)
<1> All /\ Inv /\ TypeInv /\ op \in [Caller -> Op] /\ copy \in [Caller -> Copy]
    /\ UNCHANGED <<args, versions, phase, result>>
  BY Types DEF Whole, All, Inv, CreateRead, PutAnswered, vaultVars,
               historyVars, taskVars
<1>1. CASE CreateRead(c) /\ head.version # 0
  BY <1>1, ElsewhereFits DEF CreateRead, Leave, Idle, Before
<1>2. CASE CreateRead(c) /\ head.version = 0
  <2>1. op'[c].pc = "create_put" /\ copy'[c] = copy[c]
    BY <1>2 DEF CreateRead, Enter, Continue
  <2>2. \A e \in EventId : ~Started(e)
    <3>1. \A e \in EventId :
            args[e].base.version \in 0..Len(versions) /\ Len(versions) = 0
      BY <1>2, CurrentHead DEF Inv, IInv, SnapshotsAreGenuine, Genuine
    <3> QED BY <3>1 DEF Inv, IInv, AppendsAreOnSnapshots
  <2>3. AppendIsOwned(c)'
    BY <2>1, <2>2 DEF AppendIsOwned, Started
  <2>4. \A e \in EventId :
          args[e].by = c /\ LeftBehind(e) => LeftBehind(e)'
    BY <2>1 DEF LeftBehind
  <2> QED
    BY <2>1, <2>3, <2>4 DEF Fits, HeadAt, Whole, Owned, TombstonesAreGiven
<1>3. CASE PutAnswered(c) /\ copy' = copy
  <2>1. op'[c].pc \in {"idle", "delete_read"}
    BY <1>3 DEF PutAnswered, Leave, Idle, Enter, Continue
  <2> QED BY <1>3, <2>1, ElsewhereFits DEF Before
<1>4. CASE PutAnswered(c) /\ copy' # copy
  <2>1. /\ op[c].pc = "create_put" /\ put[c].reply = "ok"
        /\ op'[c] = Idle /\ copy'[c].marker = 1
    BY <1>4 DEF PutAnswered, Leave
  <2>2. versions # <<>> /\ versions[1] = FirstHead
    BY <2>1, InReach DEF OperationIsWhereItIs, Inv, IInv, VersionsAreHeads
  <2>3. ~(HeadAt(copy[c].marker).deleted)'
    BY <2>1, <2>2 DEF HeadAt, FirstHead, AtVersion, NoHead
  <2>4. \A e \in EventId : TookTombstone(e) => args[e].by # c
    BY <2>1
    DEF Whole, Owned, AppendsAreOwned, AppendIsOwned, TookTombstone, Started
  <2> QED BY <2>1, <2>3, <2>4 DEF Fits, AppendIsOwned, Idle
<1> QED BY <1>1, <1>2, <1>3, <1>4

\* The other steps of a caller keep its copy and lead nowhere that matters.
LEMMA OthersFit ==
  ASSUME Whole, NEW c \in Caller,
         \/ GetBegin(c) \/ CreateBegin(c) \/ DeleteBegin(c) \/ DeleteRead(c)
         \/ PutSend(c) \/ CallFails(c) \/ Cancel(c)
  PROVE  Fits(c)
<1> op \in [Caller -> Op]
  BY Types DEF Whole, All, Inv
<1>1. UNCHANGED <<args, versions, phase, copy>>
  BY DEF GetBegin, CreateBegin, DeleteBegin, DeleteRead, PutSend, CallFails,
         Cancel, vaultVars, historyVars, taskVars
<1>2. CASE PutSend(c)
  <2>1. op' = op /\ \A v \in 0..Len(versions) : HeadAt(v)' = HeadAt(v)
    BY <1>1, <1>2 DEF PutSend, HeadAt
  <2>2. \A e \in EventId : Started(e)' => Started(e)
    BY <1>1 DEF Started
  <2> QED BY <1>1, <2>1, <2>2, SameFits
<1>3. CASE ~PutSend(c)
  <2>1. op'[c].pc \in {"idle", "get_read", "create_read", "delete_read",
                       "delete_put"}
    BY <1>3 DEF GetBegin, CreateBegin, DeleteBegin, DeleteRead, CallFails,
                Cancel, Enter, Continue, Leave, Idle
  <2> QED BY <1>1, <2>1, ElsewhereFits DEF Before
<1> QED BY <1>2, <1>3

\* A commit task that succeeds returns a later head than it was given: the
\* one it wrote, or one that counts its event.
LEMMA TaskReturnsLater ==
  ASSUME All, NEW e \in EventId, TaskStep(e)
  PROVE  /\ UNCHANGED <<args, copy, op, versions>>
         /\ \A f \in EventId :
              \/ phase'[f] = phase[f] /\ result'[f] = result[f]
              \/ /\ phase[f] \in Active
                 /\ phase'[f] = "committed" =>
                      result'[f].version > args[f].base.version
<1> Inv /\ TypeInv
  BY DEF All, Inv
<1> DEFINE Later(s) == s.version > args[e].base.version
<1>1. /\ UNCHANGED <<args, copy, op, versions>> /\ phase[e] \in Active
      /\ \A f \in EventId \ {e} :
           phase'[f] = phase[f] /\ result'[f] = result[f]
  BY Types
  DEF TaskStep, EventPutAnswered, EventReread, HeadPutAnswered, HeadReread,
      Resend, GiveUp, StartHeadPut, Finish, Active, callerVars, historyVars
<1>2. args[e].base.version \in Nat /\ args[e].base.count \in Nat
  BY Types DEF Args, Snapshot
<1>3. Later(NewHead(e))
  BY <1>2 DEF NewHead
<1>4. Ours(e) => Later(head)
  <2> SUFFICES ASSUME Ours(e) PROVE Later(head)
    OBVIOUS
  <2> DEFINE b == args[e].base
  <2>1. /\ b.version \in 0..Len(versions) /\ b = HeadAt(b.version)
        /\ head.version = Len(versions) /\ Len(versions) \in Nat
        /\ head = HeadAt(head.version)
    BY CurrentHead DEF Inv, IInv, SnapshotsAreGenuine, Genuine
  <2>2. head.last = <<b.count + 1, e>> /\ b.count \in 0..Len(log)
        /\ b.last = IF b.count = 0 THEN NoKey ELSE <<b.count, log[b.count]>>
    <3>1. Genuine(b)
      BY DEF Inv, IInv, SnapshotsAreGenuine
    <3> QED BY <3>1, SnapshotsAreOfTheLog DEF Ours, KeyOf, KeyFor
  <2>3. b # head
    <3> HIDE DEF b
    <3> QED BY <2>2 DEF NoKey
  <2>4. b.version # head.version
    <3> HIDE DEF b
    <3> QED BY <2>1, <2>3
  <2> QED BY <2>1, <2>4
<1>5. phase'[e] = "committed" => Later(result'[e])
  <2>1. phase'[e] = "committed" =>
          \/ Finish(e, "committed", NewHead(e))
          \/ Ours(e) /\ Finish(e, "committed", head)
    BY <1>1, Types
    DEF TaskStep, EventPutAnswered, EventReread, HeadPutAnswered, HeadReread,
        Resend, GiveUp, StartHeadPut, Finish, Active
  <2> QED BY <1>3, <1>4, <2>1, Types DEF Finish
<1> QED BY <1>1, <1>5

\* Every step keeps the invariant.
LEMMA OwnedStep ==
  ASSUME Whole, TypeInv', AppendListed = FALSE, [Next]_vars
  PROVE  Owned'
<1> All /\ Inv /\ TypeInv
  BY DEF Whole, All, Inv
<1>0. ASSUME UNCHANGED <<args, copy, op>>,
             \A v \in 0..Len(versions) : HeadAt(v)' = HeadAt(v),
             \A e \in EventId :
               \/ phase'[e] = phase[e] /\ result'[e] = result[e]
               \/ /\ phase[e] \in Active
                  /\ phase'[e] = "committed" =>
                       result'[e].version > args[e].base.version
      PROVE  Owned'
  <2>1. \A e \in EventId : /\ Started(e)' => Started(e)
                           /\ phase[e] \in Active => phase[e] # "committed"
    BY <1>0 DEF Started, Active
  <2>2. \A c \in Caller : Fits(c)
    BY <1>0, <2>1, SameFits
  <2> QED BY <1>0, <2>1, <2>2, OwnedStays
<1>1. CASE UNCHANGED vars
  BY <1>0, <1>1
  DEF vars, vaultVars, taskVars, callerVars, historyVars, HeadAt
<1>2. ASSUME NEW m \in eventPuts, VaultTakesEvent(m) PROVE Owned'
  BY <1>0, <1>2 DEF VaultTakesEvent, callerVars, historyVars, HeadAt
<1>3. ASSUME NEW m \in headPuts, VaultTakesHead(m) PROVE Owned'
  <2>1. \A v \in 0..Len(versions) : HeadAt(v)' = HeadAt(v)
    <3>1. CASE versions' = versions
      BY <3>1 DEF HeadAt
    <3>2. CASE versions' = Append(versions, head')
      BY <3>2, HistoryGrows
    <3> QED BY <1>3, <3>1, <3>2 DEF VaultTakesHead
  <2>2. UNCHANGED <<args, copy, op, phase, result>>
    BY <1>3 DEF VaultTakesHead
  <2> QED BY <1>0, <2>1, <2>2
<1>4. ASSUME NEW e \in EventId, TaskStep(e) PROVE Owned'
  <2>1. \A v : HeadAt(v)' = HeadAt(v)
    BY <1>4, TaskReturnsLater DEF HeadAt
  <2> QED BY <1>0, <1>4, <2>1, TaskReturnsLater
<1>5. ASSUME NEW c \in Caller, CallerActs(c) PROVE Owned'
  <2>1. UNCHANGED <<log, versions>>
    BY <1>5, CallerChanges
  <2>2. CASE (\E e \in EventId : AppendBegin(c, e))
             \/ AppendRead(c) \/ Wake(c)
    BY <2>1, <2>2, AppendFits
  <2>3. CASE \/ AppendReturn(c) \/ GetRead(c) \/ GetEvents(c)
             \/ CreateRead(c) \/ PutAnswered(c)
             \/ GetBegin(c) \/ CreateBegin(c) \/ DeleteBegin(c)
             \/ DeleteRead(c) \/ PutSend(c) \/ CallFails(c) \/ Cancel(c)
    <3>1. Fits(c)
      BY <2>3, ReturnFits, GetFits, CreateFits, OthersFit
    <3>2. /\ UNCHANGED <<args, phase>>
          /\ \A d \in Caller \ {c} : op'[d] = op[d] /\ copy'[d] = copy[d]
      BY <2>3, OtherChanges DEF Quiet
    <3>3. UNCHANGED result
      BY <2>3
      DEF AppendReturn, GetBegin, GetRead, GetEvents, CreateBegin,
          CreateRead, DeleteBegin, DeleteRead, PutSend, PutAnswered,
          CallFails, Cancel, taskVars
    <3>4. \A d \in Caller : Fits(d)
      <4>1. \A v : HeadAt(v)' = HeadAt(v)
        BY <2>1 DEF HeadAt
      <4>2. \A e \in EventId : Started(e)' => Started(e)
        BY <3>2 DEF Started
      <4> QED BY <3>1, <3>2, <4>1, <4>2, SameFits
    <3> QED BY <3>2, <3>3, <3>4, OwnedStays
  <2> QED BY <1>5, <2>2, <2>3 DEF CallerActs, CallerStep
<1>6. ASSUME NEW s \in Service, Crash(s) PROVE Owned'
  <2>1. UNCHANGED <<args, versions, result>>
    BY <1>6 DEF Crash, vaultVars, historyVars
  <2>2. \A e \in EventId :
          \/ phase'[e] = phase[e] /\ result'[e] = result[e]
          \/ /\ phase[e] # "committed" /\ (Started(e)' => Started(e))
             /\ phase'[e] # "committed"
    BY <1>6, <2>1, CrashChanges DEF Active, Started
  <2>3. ASSUME NEW c \in Caller PROVE Fits(c)
    <3>1. CASE copy'[c] = NoCopy /\ op'[c] = Idle
      BY <2>1, <3>1
      DEF Fits, AppendIsOwned, LeftBehind, NoCopy, Idle
    <3>2. CASE copy'[c] = copy[c] /\ op'[c] = op[c]
      <4>1. \A v : HeadAt(v)' = HeadAt(v)
        BY <2>1 DEF HeadAt
      <4>2. \A e \in EventId : Started(e)' => Started(e)
        BY <2>2 DEF Started
      <4> QED BY <2>1, <3>2, <4>1, <4>2, SameFits
    <3> QED BY <1>6, <3>1, <3>2, CrashChanges
  <2> QED BY <2>1, <2>2, <2>3, OwnedStays
<1> QED
  BY <1>1, <1>2, <1>3, <1>4, <1>5, <1>6 DEF Next, CallerActs

LEMMA WholeInvariant ==
  ASSUME AppendListed = FALSE
  PROVE  Spec => []Whole
<1>1. Init => Owned
  BY DEF Init, Owned, AppendsAreOwned, AppendIsOwned, ResultsAreLater,
         TombstonesAreGiven, Started, NoCopy, Idle
<1>2. Owned /\ All /\ All' /\ [Next]_vars => Owned'
  <2>1. All' => TypeInv'
    BY DEF All, Inv
  <2> QED BY <2>1, OwnedStep DEF Whole
<1>3. Spec => []All
  BY AllInvariant
<1>4. All /\ Owned => Whole
  BY DEF Whole
<1> QED BY <1>1, <1>2, <1>3, <1>4, PTL DEF Spec

\* Inductive, with the types: every snapshot is a head there was, every copy
\* holds the events that were committed when its marker was the head, and
\* whoever holds a tombstone was given it by an append.
THEOREM FullInvariant ==
  ASSUME AppendListed = FALSE
  PROVE  Spec => []FullInv
<1>1. Whole => FullInv
  BY DEF Whole, All, Inv, Content, Owned, FullInv
<1> QED BY <1>1, WholeInvariant, PTL

\* After delete_session nothing is committed, by any caller but one whose own
\* earlier append was answered with the tombstone: no other cache, copy,
\* suspended operation or late request brings a deleted session back.
THEOREM TombstonesAreFinal ==
  ASSUME AppendListed = FALSE
  PROVE  Spec => TombstoneIsFinal
<1> DEFINE Final == head.deleted /\ log' # log =>
             \E e \in EventId :
               TookTombstone(e) /\ args[e].by = args[log'[Len(log')]].by
<1>1. ASSUME Whole, TypeInv', [Next]_vars PROVE Final
  <2> All /\ Inv /\ TypeInv
    BY <1>1 DEF Whole, All, Inv
  <2>1. ASSUME NEW m \in headPuts, VaultTakesHead(m), head.deleted,
               log' # log
        PROVE  \E e \in EventId :
                 TookTombstone(e) /\ args[e].by = args[log'[Len(log')]].by
    <3>1. head.version = m.ver /\ m.by \in EventId /\ log' = Append(log, m.by)
      BY <2>1 DEF VaultTakesHead
    <3>2. args[m.by].base = head /\ Started(m.by)
      BY <3>1, CommitAccepted
    <3>3. log'[Len(log')] = m.by
      BY <3>1, LogGrows
    <3>4. WasGivenTombstone(args[m.by].by)
      BY <1>1, <2>1, <3>1, <3>2 DEF Whole, Owned, TombstonesAreGiven
    <3> QED BY <3>3, <3>4 DEF WasGivenTombstone
  <2>2. CASE UNCHANGED log
    BY <2>2
  <2>3. ASSUME NEW m \in eventPuts, VaultTakesEvent(m) PROVE UNCHANGED log
    BY <2>3 DEF VaultTakesEvent, historyVars
  <2> QED
    BY <1>1, <2>1, <2>2, <2>3, OtherSteps, CallerChanges, CrashChanges
    DEF Next, CallerActs, vars, vaultVars, historyVars
<1>2. Whole /\ Whole' /\ [Next]_vars => [Final]_vars
  <2>1. Whole' => TypeInv'
    BY DEF Whole, All, Inv
  <2> QED BY <1>1, <2>1
<1> QED BY <1>2, WholeInvariant, PTL DEF Spec, TombstoneIsFinal

-----------------------------------------------------------------------------
(* Checkpoint implements SessionLog.                                       *)

\* The answer of an append, by the phase of its task.
LEMMA Answers ==
  ASSUME NEW e \in EventId
  PROVE  /\ phase[e] = "new" => AbstractAnswer(e) = "new"
         /\ phase[e] \in Active => AbstractAnswer(e) = "pending"
         /\ phase[e] = "committed" => AbstractAnswer(e) = "committed"
         /\ phase[e] \in {"stale", "unavailable", "dead"} =>
              AbstractAnswer(e) = "failed"
BY DEF AbstractAnswer, Active

\* Answers change only with phases.
LEMMA SameAnswer ==
  ASSUME NEW e \in EventId, phase'[e] = phase[e]
  PROVE  AbstractAnswer(e)' = AbstractAnswer(e)
BY DEF AbstractAnswer, Active

Sent == [e \in EventId |-> args[e].seen]
Answered == [e \in EventId |-> AbstractAnswer(e)]

\* A step that commits, registers and ends nothing is a stutter.
LEMMA Stutters ==
  ASSUME UNCHANGED <<head, log, args, Answered>>
  PROVE  UNCHANGED Abstract!vars
BY DEF Abstract!vars, Answered

\* The steps of the vault: a commit, a create, a delete or nothing.
LEMMA VaultImplements ==
  ASSUME All, TypeInv',
         \/ \E m \in eventPuts : VaultTakesEvent(m)
         \/ \E m \in headPuts : VaultTakesHead(m)
  PROVE  Abstract!Next \/ UNCHANGED Abstract!vars
<1>1. UNCHANGED <<phase, args>> /\ Answered' = Answered /\ Sent' = Sent
  <2>1. UNCHANGED <<phase, args>>
    BY DEF VaultTakesEvent, VaultTakesHead
  <2> QED BY <2>1, SameAnswer DEF Answered, Sent
<1>2. CASE UNCHANGED <<head, log>>
  BY <1>1, <1>2, Stutters
<1>3. ASSUME NEW m \in headPuts, m.by \in EventId,
             log' = Append(log, m.by), Started(m.by),
             args[m.by].seen = log, head.version # 0,
             head'.version = head.version + 1, head'.deleted = head.deleted
      PROVE  Abstract!Commit(m.by)
  <2>1. AbstractAnswer(m.by) # "new"
    BY <1>3, Answers DEF Started, AbstractAnswer, Active
  <2>2. head'.version # 0
    BY <1>3, Types DEF All, Inv, Snapshot
  <2> QED BY <1>1, <1>3, <2>1, <2>2 DEF Abstract!Commit, Answered, Sent
<1>4. CASE /\ log' = log /\ head.version = 0
           /\ head'.version = head.version + 1 /\ ~head'.deleted
  BY <1>1, <1>4 DEF Abstract!Next, Abstract!Create, Answered, Sent
<1>5. CASE /\ log' = log /\ head.version # 0
           /\ head'.version = head.version + 1 /\ head'.deleted
  <2>1. head'.version # 0
    BY <1>5, Types DEF All, Inv, Snapshot
  <2>2. CASE head.deleted
    BY <1>1, <1>5, <2>1, <2>2 DEF Abstract!vars, Answered
  <2>3. CASE ~head.deleted
    BY <1>1, <1>5, <2>1, <2>3
    DEF Abstract!Next, Abstract!Delete, Answered, Sent
  <2> QED BY <2>2, <2>3
<1>6. CASE \E m \in eventPuts : VaultTakesEvent(m)
  BY <1>2, <1>6 DEF VaultTakesEvent, historyVars
<1>7. CASE \E m \in headPuts : VaultTakesHead(m)
  <2>1. PICK m \in headPuts : VaultTakesHead(m)
    BY <1>7
  <2> QED
    BY <1>2, <1>3, <1>4, <1>5, <2>1, HeadChanges DEF Abstract!Next
<1> QED BY <1>6, <1>7

\* The steps of a commit task: it goes on, it is answered, or it fails.
LEMMA TaskImplements ==
  ASSUME All, All', NEW e \in EventId, TaskStep(e)
  PROVE  Abstract!Next \/ UNCHANGED Abstract!vars
<1> TypeInv
  BY DEF All, Inv
<1>1. /\ UNCHANGED <<head, log, args>> /\ Sent' = Sent
      /\ phase[e] \in Active /\ AbstractAnswer(e) = "pending"
      /\ \A f \in EventId \ {e} : AbstractAnswer(f)' = AbstractAnswer(f)
  BY OtherSteps, TaskChanges, Answers, SameAnswer DEF Sent
<1>2. /\ phase'[e] \in Active => AbstractAnswer(e)' = "pending"
      /\ phase'[e] = "committed" => AbstractAnswer(e)' = "committed"
      /\ phase'[e] \in {"stale", "unavailable"} =>
           AbstractAnswer(e)' = "failed"
  BY DEF AbstractAnswer, Active
<1>3. CASE phase'[e] \in Active
  <2>1. Answered' = Answered
    BY <1>1, <1>2, <1>3 DEF Answered
  <2> QED BY <1>1, <2>1, Stutters
<1>4. CASE phase'[e] = "committed"
  <2>1. Answered' = [Answered EXCEPT ![e] = "committed"]
    BY <1>1, <1>2, <1>4 DEF Answered
  <2>2. e \in {log[i] : i \in DOMAIN log}
    BY <1>1, <1>4 DEF All, Inv, IInv, TasksAreWhereTheyAre
  <2>3. Abstract!Acknowledge(e)
    BY <1>1, <2>1, <2>2
    DEF Abstract!Acknowledge, Abstract!ToSet, Answered, Sent
  <2> QED BY <2>3 DEF Abstract!Next
<1>5. CASE phase'[e] \in {"stale", "unavailable"}
  <2>1. Answered' = [f \in EventId |->
                       IF f \in {e} THEN "failed" ELSE Answered[f]]
    BY <1>1, <1>2, <1>5 DEF Answered
  <2>2. Abstract!Fail({e})
    BY <1>1, <2>1 DEF Abstract!Fail, Answered, Sent
  <2> QED BY <2>2 DEF Abstract!Next
<1> QED BY <1>3, <1>4, <1>5, TaskChanges

\* Registering an append submits it, on what its caller has seen.
LEMMA RegisterImplements ==
  ASSUME All, TypeInv', NEW c \in Caller, Registers(c),
         UNCHANGED <<head, log, versions>>
  PROVE  Abstract!Next
<1> TypeInv /\ Inv
  BY DEF All, Inv
<1>0. PICK e \in EventId : \E snap : Registering(c, e, snap)
  BY DEF Registers
<1>1. PICK snap : Registering(c, e, snap)
  BY <1>0
<1>2. /\ phase'[e] = "event_put"
      /\ args'[e].seen = Upto(snap.count) /\ snap.count \in 0..Len(log)
      /\ \A f \in EventId \ {e} : phase'[f] = phase[f] /\ args'[f] = args[f]
  BY <1>1, ContentRegisters
<1>3. /\ AbstractAnswer(e)' = "pending" /\ AbstractAnswer(e) # "pending"
      /\ AbstractAnswer(e) # "new" => Started(e)
  BY <1>1, <1>2, Types
  DEF AbstractAnswer, Active, Registering, Started, Phase
<1>4. Answered' = [Answered EXCEPT ![e] = "pending"]
  BY <1>2, <1>3, SameAnswer DEF Answered
<1>5. Sent' = [Sent EXCEPT ![e] = SubSeq(log, 1, snap.count)]
  BY <1>2 DEF Sent, Upto
<1>6. AbstractAnswer(e) # "new" =>
        SubSeq(log, 1, snap.count) = args[e].seen
  <2>1. Started(e) => args[e].base.version = copy[c].marker
                      /\ Genuine(args[e].base)
    BY <1>1 DEF Registering, Inv, IInv, SnapshotsAreGenuine
  <2>2. snap = HeadAt(copy[c].marker)
    BY <1>1 DEF Registering, Genuine
  <2>3. Started(e) => args[e].base = snap
    BY <2>1, <2>2 DEF Genuine
  <2> QED BY <1>3, <2>3 DEF All, Content, CopiesAreHistory, Upto
<1>7. head.version # 0
  <2>1. snap.version # 0 /\ snap.version \in 0..Len(versions)
    BY <1>1 DEF Registering, Genuine
  <2> QED BY <2>1, CurrentHead
<1>8. Abstract!Submit(e)
  BY <1>2, <1>3, <1>4, <1>5, <1>6, <1>7
  DEF Abstract!Submit, Answered, Sent
<1> QED BY <1>8 DEF Abstract!Next

\* A crash fails what was pending in the process, all at once.
LEMMA CrashImplements ==
  ASSUME All, NEW s \in Service, Crash(s)
  PROVE  Abstract!Next \/ UNCHANGED Abstract!vars
<1> DEFINE Dying == {e \in EventId : phase[e] \in Active
                                     /\ phase'[e] = "dead"}
<1>1. /\ UNCHANGED <<head, log, args>> /\ Sent' = Sent
      /\ \A e \in EventId :
           \/ phase'[e] = phase[e]
           \/ /\ phase'[e] = "dead"
              /\ phase[e] \in Active \cup {"unavailable"}
  BY CrashChanges DEF Sent, All, Inv
<1>2. \A e \in Dying : /\ AbstractAnswer(e) = "pending"
                       /\ AbstractAnswer(e)' = "failed"
  BY DEF AbstractAnswer, Active
<1>3. \A e \in EventId \ Dying : AbstractAnswer(e)' = AbstractAnswer(e)
  BY <1>1 DEF AbstractAnswer, Active
<1> HIDE DEF Dying
<1>4. Dying \subseteq EventId
  BY DEF Dying
<1>5. Answered' = [e \in EventId |->
                     IF e \in Dying THEN "failed" ELSE Answered[e]]
  BY <1>2, <1>3, <1>4 DEF Answered
<1>6. Abstract!Fail(Dying)
  BY <1>1, <1>2, <1>4, <1>5 DEF Abstract!Fail, Answered, Sent
<1> QED BY <1>4, <1>6 DEF Abstract!Next

\* The durable session service is as good as the log of one session with
\* optimistic concurrency: an append takes effect at most once, at one
\* instant, and only on top of what its caller had seen, whatever is lost,
\* resent, cancelled or crashes.
THEOREM Implements ==
  ASSUME AppendListed = FALSE
  PROVE  Spec => ImplementsSessionLog
<1>1. Init => Abstract!Init
  <2> SUFFICES ASSUME Init PROVE Abstract!Init
    OBVIOUS
  <2>1. \A e \in EventId : AbstractAnswer(e) = "new"
    BY Answers DEF Init
  <2> QED
    BY <2>1 DEF Init, Abstract!Init, NoHead, FirstHead, AtVersion
<1>2. All /\ All' /\ [Next]_vars => [Abstract!Next]_(Abstract!vars)
  <2> SUFFICES ASSUME All, All', [Next]_vars
               PROVE  Abstract!Next \/ UNCHANGED Abstract!vars
    OBVIOUS
  <2> TypeInv'
    BY DEF All, Inv
  <2>1. CASE UNCHANGED vars
    <3>1. UNCHANGED <<head, log, args, phase>>
      BY <2>1 DEF vars, vaultVars, taskVars, historyVars
    <3> QED BY <3>1, SameAnswer, Stutters DEF Answered
  <2>2. ASSUME NEW c \in Caller, CallerActs(c)
        PROVE  Abstract!Next \/ UNCHANGED Abstract!vars
    <3>1. /\ Registers(c) \/ Quiet(c)
          /\ UNCHANGED <<head, log, versions>>
      BY <2>2, CallerChanges
    <3>2. CASE Quiet(c)
      BY <3>1, <3>2, SameAnswer, Stutters DEF Quiet, Answered
    <3> QED BY <3>1, <3>2, RegisterImplements
  <2> QED
    BY <2>1, <2>2, VaultImplements, TaskImplements, CrashImplements
    DEF Next, CallerActs
<1> QED
  BY <1>1, <1>2, AllInvariant, PTL DEF Spec, ImplementsSessionLog,
     Abstract!Spec
=============================================================================
