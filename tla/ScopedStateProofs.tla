-------------------------- MODULE ScopedStateProofs --------------------------
(***************************************************************************)
(* ScopedState keeps its three properties for any number of mergers,       *)
(* events, keys and attempts, and whatever keys the deltas share.          *)
(***************************************************************************)
EXTENDS ScopedState, TLAPS

USE DEF scopedVars, merger, stored

Value == ScopedEvent \cup {NoEvent}
Put == [by: Merger, event: ScopedEvent, scope: Scope, send: Nat, try: Nat,
        ifVersion: Nat, state: [ScopedKey -> Value]]

ScopedType ==
  /\ scopeVersion \in [Scope -> Nat]
  /\ scopeState \in [Scope -> [ScopedKey -> Value]]
  /\ lastEvent \in [ScopedSession -> Value]
  /\ mergeAt \in [Merger -> MergeRunning \cup
                              {"idle", "done", "stopped", "contended"}]
  /\ mergeEvent \in [Merger -> Value]
  /\ mergeScope \in [Merger -> Scope]
  /\ mergeTry \in [Merger -> Nat]
  /\ mergeFirst \in [Merger -> Nat]
  /\ mergePut \in [Merger -> Put \cup {NoEvent}]
  /\ scopedPuts \in SUBSET Put

\* A PUT is of the record's past, or it overlays the record as it is now.
Safe(p) ==
  /\ p.ifVersion <= scopeVersion[p.scope]
  /\ p.ifVersion = scopeVersion[p.scope] =>
       p.state = Overlay(scopeState[p.scope], p.event, p.scope)

\* Where a merger is, and what it has behind it.
MergerIsRight(m) ==
  /\ mergeAt[m] \in MergeRunning =>
       /\ mergeEvent[m] \in ScopedEvent
       /\ mergeScope[m] = "user" /\ Touches[mergeEvent[m]]["app"] # {} =>
            <<m, "app">> \in mergedInto
  /\ mergeAt[m] \in {"read", "put", "contended"} =>
       mergeTry[m] + mergeFirst[m] <= scopeVersion[mergeScope[m]]
  /\ mergeAt[m] = "put" =>
       /\ mergePut[m] \in Put
       /\ mergePut[m].by = m
       /\ mergePut[m].event = mergeEvent[m]
       /\ mergePut[m].scope = mergeScope[m]
       /\ mergeTry[m] + mergeFirst[m] <= mergePut[m].ifVersion
       /\ Safe(mergePut[m])
  /\ mergeAt[m] = "done" =>
       \A sc \in Scope : Touches[mergeEvent[m]][sc] # {} =>
         <<m, sc>> \in mergedInto

ScopedInv ==
  /\ ScopedType
  /\ \A p \in scopedPuts : Safe(p)
  /\ \A m \in Merger : MergerIsRight(m)

-----------------------------------------------------------------------------
\* A step of the server, or none: no version falls, and a record whose version
\* stays is the same record.
Grows ==
  /\ scopeVersion' \in [Scope -> Nat]
  /\ \A sc \in Scope :
       /\ scopeVersion[sc] <= scopeVersion'[sc]
       /\ scopeVersion'[sc] = scopeVersion[sc] =>
            scopeState'[sc] = scopeState[sc]
  /\ mergedInto \subseteq mergedInto'

\* Safe, after the step.
SafeThen(p) ==
  /\ p.ifVersion <= scopeVersion'[p.scope]
  /\ p.ifVersion = scopeVersion'[p.scope] =>
       p.state = Overlay(scopeState'[p.scope], p.event, p.scope)

\* The memory of a merger is as it was.
Rests(n) ==
  /\ mergeAt'[n] = mergeAt[n] /\ mergeEvent'[n] = mergeEvent[n]
  /\ mergeScope'[n] = mergeScope[n] /\ mergeTry'[n] = mergeTry[n]
  /\ mergeFirst'[n] = mergeFirst[n] /\ mergePut'[n] = mergePut[n]

\* A PUT of the past stays one.
LEMMA SafeStays ==
  ASSUME ScopedType, Grows
  PROVE  \A p \in Put : Safe(p) => SafeThen(p)
<1> SUFFICES ASSUME NEW p \in Put, Safe(p) PROVE SafeThen(p)
  OBVIOUS
<1>1. p.scope \in Scope /\ p.ifVersion \in Nat
  BY DEF Put
<1>2. /\ scopeVersion[p.scope] \in Nat /\ scopeVersion'[p.scope] \in Nat
      /\ scopeVersion[p.scope] <= scopeVersion'[p.scope]
      /\ scopeVersion'[p.scope] = scopeVersion[p.scope] =>
           scopeState'[p.scope] = scopeState[p.scope]
  BY <1>1 DEF ScopedType, Grows
<1>3. p.ifVersion <= scopeVersion'[p.scope]
  BY <1>1, <1>2 DEF Safe
<1>4. p.ifVersion = scopeVersion'[p.scope] =>
        p.ifVersion = scopeVersion[p.scope]
  BY <1>1, <1>2 DEF Safe
<1> QED
  BY <1>2, <1>3, <1>4 DEF Safe, SafeThen

\* What a merger remembers stays right while others move.
LEMMA RestStaysRight ==
  ASSUME ScopedInv, Grows, NEW n \in Merger, Rests(n)
  PROVE  MergerIsRight(n)'
<1>1. MergerIsRight(n) /\ ScopedType
  BY DEF ScopedInv
<1>2. /\ mergeScope[n] \in Scope /\ mergeTry[n] \in Nat
      /\ mergeFirst[n] \in Nat
      /\ scopeVersion[mergeScope[n]] \in Nat
      /\ scopeVersion'[mergeScope[n]] \in Nat
      /\ scopeVersion[mergeScope[n]] <= scopeVersion'[mergeScope[n]]
  BY <1>1 DEF ScopedType, Grows
<1>3. mergeAt[n] \in {"read", "put", "contended"} =>
        mergeTry[n] + mergeFirst[n] <= scopeVersion'[mergeScope[n]]
  BY <1>1, <1>2 DEF MergerIsRight
<1>4. mergeAt[n] = "put" => SafeThen(mergePut[n])
  BY <1>1, SafeStays DEF MergerIsRight
<1>5. mergeAt'[n] = "put" => Safe(mergePut[n])'
  BY <1>4 DEF Rests, Safe, SafeThen, Overlay
<1> QED
  BY <1>1, <1>3, <1>5 DEF MergerIsRight, Rests, Grows

\* So a step that leaves a record, or moves it on, is about one merger.
LEMMA OneMerger ==
  ASSUME ScopedInv, Grows, ScopedType', NEW m \in Merger,
         \A n \in Merger \ {m} : Rests(n), MergerIsRight(m)',
         \A p \in scopedPuts' : p \in scopedPuts \/ SafeThen(p)
  PROVE  ScopedInv'
<1>1. \A n \in Merger : MergerIsRight(n)'
  BY RestStaysRight
<1>2. \A p \in scopedPuts' : SafeThen(p)
  BY SafeStays DEF ScopedInv, ScopedType
<1>3. (\A p \in scopedPuts : Safe(p))'
  BY <1>2 DEF Safe, SafeThen, Overlay
<1> QED
  BY <1>1, <1>3 DEF ScopedInv

-----------------------------------------------------------------------------
\* What EnterScope does to the merger and to no other.
Enters(m, e, done) ==
  /\ mergeAt' \in [Merger -> MergeRunning \cup
                               {"idle", "done", "stopped", "contended"}]
  /\ mergeEvent' \in [Merger -> Value] /\ mergeScope' \in [Merger -> Scope]
  /\ mergeTry' \in [Merger -> Nat] /\ mergeFirst' \in [Merger -> Nat]
  /\ mergePut' \in [Merger -> Put \cup {NoEvent}]
  /\ mergeEvent'[m] = e /\ mergeTry'[m] = 0
  /\ \/ NextScope(e, done) = "none" /\ mergeAt'[m] = "done"
     \/ /\ NextScope(e, done) \in Scope /\ mergeAt'[m] = "read"
        /\ mergeScope'[m] = NextScope(e, done)
        /\ mergeFirst'[m] = scopeVersion[NextScope(e, done)]
  /\ \A n \in Merger \ {m} : Rests(n)

LEMMA EnterScopeEnters ==
  ASSUME ScopedType, NEW m \in Merger, NEW e \in ScopedEvent, NEW done,
         EnterScope(m, e, done)
  PROVE  Enters(m, e, done)
<1>1. NextScope(e, done) \in Scope \cup {"none"} /\ "none" \notin Scope
  BY DEF NextScope, Scope
<1>2. CASE NextScope(e, done) = "none"
  BY <1>2 DEF ScopedType, EnterScope, Enters, Rests, Value, MergeRunning
<1>3. CASE NextScope(e, done) \in Scope
  BY <1>1, <1>3 DEF ScopedType, EnterScope, Enters, Rests, Value, MergeRunning
<1> QED
  BY <1>1, <1>2, <1>3

\* A merger that enters a scope has merged the ones before it.
LEMMA EnteredIsRight ==
  ASSUME ScopedType, ScopedType', NEW m \in Merger, NEW e \in ScopedEvent,
         NEW done \in SUBSET Scope, Enters(m, e, done), Grows,
         done \in {{}, {"app"}, Scope},
         \A sc \in done : Touches[e][sc] # {} => <<m, sc>> \in mergedInto'
  PROVE  MergerIsRight(m)'
<1>1. CASE NextScope(e, done) = "none"
  <2>1. mergeAt'[m] = "done"
    BY <1>1 DEF Enters, Scope
  <2>2. \A sc \in Scope : Touches[e][sc] # {} => sc \in done
    BY <1>1 DEF NextScope, Scope
  <2> QED
    BY <2>1, <2>2 DEF MergerIsRight, Enters, MergeRunning
<1>2. CASE NextScope(e, done) \in Scope
  <2>1. /\ mergeAt'[m] = "read" /\ mergeScope'[m] = NextScope(e, done)
        /\ mergeFirst'[m] = scopeVersion[NextScope(e, done)]
        /\ mergeEvent'[m] = e /\ mergeTry'[m] = 0
    BY <1>2 DEF Enters, Scope
  <2>2. NextScope(e, done) = "user" /\ Touches[e]["app"] # {} => "app" \in done
    BY DEF NextScope
  <2>3. /\ scopeVersion[NextScope(e, done)] \in Nat
        /\ scopeVersion'[NextScope(e, done)] \in Nat
        /\ scopeVersion[NextScope(e, done)] <=
             scopeVersion'[NextScope(e, done)]
    BY <1>2 DEF ScopedType, Grows
  <2>4. mergeTry'[m] + mergeFirst'[m] <= scopeVersion'[mergeScope'[m]]
    BY <2>1, <2>3
  <2> QED
    BY <2>1, <2>2, <2>4 DEF MergerIsRight
<1> QED
  BY <1>1, <1>2 DEF Enters

-----------------------------------------------------------------------------
LEMMA ScopedInitInv == ScopedInit => ScopedInv
<1> SUFFICES ASSUME ScopedInit PROVE ScopedInv
  OBVIOUS
<1>1. ScopedType
  BY DEF ScopedInit, ScopedType, Value, Scope, MergeRunning
<1> QED
  BY <1>1 DEF ScopedInit, ScopedInv, MergerIsRight, MergeRunning

\* A merge that begins, from a commit, a create or a repair.
LEMMA BeginKeeps ==
  ASSUME ScopedInv, NEW m \in Merger, NEW e \in ScopedEvent,
         EnterScope(m, e, {}), lastEvent' \in [ScopedSession -> Value],
         UNCHANGED <<stored, scopedPuts>>
  PROVE  ScopedInv'
<1>1. Enters(m, e, {})
  BY EnterScopeEnters DEF ScopedInv
<1>2. ScopedType'
  BY <1>1 DEF Enters, ScopedInv, ScopedType
<1>3. Grows
  BY DEF Grows, ScopedInv, ScopedType
<1>4. MergerIsRight(m)'
  BY <1>1, <1>2, <1>3, EnteredIsRight DEF ScopedInv
<1>5. \A n \in Merger \ {m} : Rests(n)
  BY <1>1 DEF Enters
<1> QED
  BY <1>2, <1>3, <1>4, <1>5, OneMerger

LEMMA BeginsKeep ==
  ASSUME ScopedInv, NEW m \in Merger,
         \/ \E e \in ScopedEvent : AppendCommits(m, e) \/ CreateMerges(m, e)
         \/ \E s \in ScopedSession : Repair(m, s)
  PROVE  ScopedInv'
<1>0. lastEvent \in [ScopedSession -> Value]
  BY DEF ScopedInv, ScopedType
<1>1. CASE \E e \in ScopedEvent : AppendCommits(m, e) \/ CreateMerges(m, e)
  <2>1. PICK e \in ScopedEvent : AppendCommits(m, e) \/ CreateMerges(m, e)
    BY <1>1
  <2>2. lastEvent' \in [ScopedSession -> Value]
    BY <1>0, <2>1 DEF AppendCommits, CreateMerges, Value
  <2>3. EnterScope(m, e, {}) /\ UNCHANGED <<stored, scopedPuts>>
    BY <2>1 DEF AppendCommits, CreateMerges
  <2> QED
    BY <2>2, <2>3, BeginKeeps
<1>2. CASE \E s \in ScopedSession : Repair(m, s)
  <2>1. PICK s \in ScopedSession : Repair(m, s)
    BY <1>2
  <2>2. lastEvent[s] \in ScopedEvent
    BY <1>0, <2>1 DEF Repair, Value
  <2>3. EnterScope(m, lastEvent[s], {})
        /\ UNCHANGED <<stored, scopedPuts, lastEvent>>
    BY <2>1 DEF Repair
  <2>4. ASSUME NEW e \in ScopedEvent, EnterScope(m, e, {})
        PROVE  ScopedInv'
    BY <1>0, <2>3, <2>4, BeginKeeps
  <2> QED
    BY <2>2, <2>3, <2>4
<1> QED
  BY <1>1, <1>2

\* The merged record has the type of a record.
LEMMA OverlayType ==
  ASSUME NEW state \in [ScopedKey -> Value], NEW e \in ScopedEvent,
         NEW sc \in Scope
  PROVE  Overlay(state, e, sc) \in [ScopedKey -> Value]
BY DEF Overlay, Value

LEMMA ReadAndPutKeeps ==
  ASSUME ScopedInv, NEW m \in Merger, ReadAndPut(m)
  PROVE  ScopedInv'
<1> DEFINE e == mergeEvent[m]
           sc == mergeScope[m]
           p == [by |-> m, event |-> e, scope |-> sc, send |-> 1,
                 try |-> mergeTry[m], ifVersion |-> ReadVersion(m),
                 state |-> Overlay(scopeState[sc], e, sc)]
<1>1. e \in ScopedEvent /\ sc \in Scope /\ mergeAt[m] = "read"
  BY DEF ReadAndPut, ScopedInv, ScopedType, MergerIsRight, MergeRunning
<1>2. /\ scopeVersion[sc] \in Nat /\ mergeTry[m] \in Nat
      /\ Overlay(scopeState[sc], e, sc) \in [ScopedKey -> Value]
  BY <1>1, OverlayType DEF ScopedInv, ScopedType
<1>3. /\ p \in Put /\ p.by = m /\ p.event = e /\ p.scope = sc
      /\ p.ifVersion = scopeVersion[sc]
      /\ p.state = Overlay(scopeState[sc], e, sc)
  BY <1>1, <1>2 DEF Put, ReadVersion
<1>4. /\ mergeAt' = [mergeAt EXCEPT ![m] = "put"]
      /\ mergePut' = [mergePut EXCEPT ![m] = p]
      /\ scopedPuts' = scopedPuts \cup {p}
      /\ UNCHANGED <<stored, lastEvent, mergeEvent, mergeScope, mergeTry,
                     mergeFirst>>
  BY DEF ReadAndPut
<1> HIDE DEF p
<1>5. ScopedType' /\ Grows /\ \A n \in Merger \ {m} : Rests(n)
  BY <1>3, <1>4 DEF ScopedInv, ScopedType, MergeRunning, Grows, Rests
<1>6. SafeThen(p)
  BY <1>1, <1>2, <1>3, <1>4 DEF SafeThen
<1>7. MergerIsRight(m)'
  <2>1. mergePut'[m] = p /\ mergeAt'[m] = "put"
    BY <1>4 DEF ScopedInv, ScopedType
  <2>2. Safe(mergePut[m])'
    BY <1>6, <2>1 DEF Safe, SafeThen, Overlay
  <2> QED
    BY <1>1, <1>3, <1>4, <2>1, <2>2
    DEF ScopedInv, MergerIsRight, MergeRunning
<1> QED
  BY <1>4, <1>5, <1>6, <1>7, OneMerger

LEMMA ResendKeeps ==
  ASSUME ScopedInv, NEW m \in Merger, Resend(m)
  PROVE  ScopedInv'
<1> DEFINE q == mergePut[m]
           p == [by |-> m, event |-> q.event, scope |-> q.scope,
                 send |-> q.send + 1, try |-> q.try,
                 ifVersion |-> q.ifVersion, state |-> q.state]
<1>1. /\ q \in Put /\ q.by = m /\ q.event = mergeEvent[m]
      /\ q.scope = mergeScope[m] /\ Safe(q) /\ mergeAt[m] = "put"
      /\ mergeTry[m] + mergeFirst[m] <= q.ifVersion
  BY DEF Resend, ScopedInv, MergerIsRight
<1>2. /\ p \in Put /\ p.by = m /\ p.event = q.event /\ p.scope = q.scope
      /\ p.ifVersion = q.ifVersion /\ p.state = q.state
  BY <1>1 DEF Put
<1>3. /\ mergePut' = [mergePut EXCEPT ![m] = p]
      /\ scopedPuts' = scopedPuts \cup {p}
      /\ UNCHANGED <<scopeVersion, scopeState, mergedInto, lastEvent,
                     mergeAt, mergeEvent, mergeScope, mergeTry, mergeFirst>>
  BY DEF Resend
<1> HIDE DEF p, q
<1>4. ScopedType' /\ Grows /\ \A n \in Merger \ {m} : Rests(n)
  BY <1>2, <1>3 DEF ScopedInv, ScopedType, MergeRunning, Grows, Rests
<1>5. SafeThen(p)
  BY <1>1, <1>2, <1>3 DEF Safe, SafeThen
<1>6. MergerIsRight(m)'
  <2>1. mergePut'[m] = p
    BY <1>3 DEF ScopedInv, ScopedType
  <2>2. Safe(mergePut[m])'
    BY <1>5, <2>1 DEF Safe, SafeThen, Overlay
  <2> QED
    BY <1>1, <1>2, <1>3, <2>1, <2>2
    DEF ScopedInv, MergerIsRight, MergeRunning
<1> QED
  BY <1>3, <1>4, <1>5, <1>6, OneMerger

LEMMA MergeStopsKeeps ==
  ASSUME ScopedInv, NEW m \in Merger, MergeStops(m)
  PROVE  ScopedInv'
<1>1. ScopedType' /\ Grows /\ \A n \in Merger \ {m} : Rests(n)
  BY DEF MergeStops, ScopedInv, ScopedType, MergeRunning, Grows, Rests
<1>2. MergerIsRight(m)'
  BY DEF MergeStops, ScopedInv, ScopedType, MergerIsRight, MergeRunning
<1> QED
  BY <1>1, <1>2, OneMerger DEF MergeStops

-----------------------------------------------------------------------------
\* A record that the server writes is the overlay of one delta: the invariant
\* is what the precondition is worth.
LEMMA PutAppliedOverlays ==
  ASSUME ScopedInv, NEW p \in scopedPuts, PutApplied(p)
  PROVE  /\ p \in Put
         /\ scopeState' =
              [scopeState EXCEPT ![p.scope] =
                 Overlay(scopeState[p.scope], p.event, p.scope)]
         /\ scopeVersion' =
              [scopeVersion EXCEPT ![p.scope] = scopeVersion[p.scope] + 1]
<1>1. p \in Put /\ Safe(p) /\ Matches(p)
  BY DEF ScopedInv, ScopedType, PutApplied
<1>2. p.state = Overlay(scopeState[p.scope], p.event, p.scope)
  BY <1>1 DEF Safe, Matches
<1> QED
  BY <1>1, <1>2 DEF PutApplied

LEMMA PutAppliedKeeps ==
  ASSUME ScopedInv, NEW p \in scopedPuts, PutApplied(p)
  PROVE  ScopedInv'
<1>1. p \in Put /\ p.by \in Merger /\ p.event \in ScopedEvent
      /\ p.scope \in Scope
  BY PutAppliedOverlays DEF Put
<1>2. /\ scopeVersion' \in [Scope -> Nat]
      /\ scopeState' \in [Scope -> [ScopedKey -> Value]]
  BY <1>1, PutAppliedOverlays, OverlayType DEF ScopedInv, ScopedType
<1>3. Grows
  BY <1>1, <1>2, PutAppliedOverlays
  DEF Grows, ScopedInv, ScopedType, PutApplied
<1>4. scopedPuts' \subseteq scopedPuts /\ UNCHANGED lastEvent
  BY DEF PutApplied
<1>5. CASE ~Awaited(p)
  <2>1. UNCHANGED <<mergeAt, merger>>
    BY <1>5 DEF PutApplied
  <2>2. ScopedType' /\ \A n \in Merger : Rests(n)
    BY <1>2, <1>4, <2>1 DEF ScopedInv, ScopedType, Rests
  <2>3. MergerIsRight(p.by)'
    BY <1>1, <1>3, <2>2, RestStaysRight
  <2> QED
    BY <1>1, <1>3, <1>4, <2>2, <2>3, OneMerger
<1>6. CASE Awaited(p)
  <2> DEFINE m == p.by
             done == IF p.scope = "app" THEN {"app"} ELSE Scope
  <2>1. EnterScope(m, p.event, done)
    BY <1>6 DEF PutApplied
  <2>2. Enters(m, p.event, done)
    BY <1>1, <2>1, EnterScopeEnters DEF ScopedInv
  <2>3. ScopedType' /\ \A n \in Merger \ {m} : Rests(n)
    BY <1>2, <1>4, <2>2 DEF ScopedInv, ScopedType, Enters
  <2>4. /\ mergePut[m] = p /\ mergeAt[m] = "put"
        /\ p.event = mergeEvent[m] /\ p.scope = mergeScope[m]
        /\ p.scope = "user" /\ Touches[p.event]["app"] # {} =>
             <<m, "app">> \in mergedInto
    BY <1>1, <1>6 DEF Awaited, ScopedInv, MergerIsRight, MergeRunning
  <2>5. \A sc \in done : Touches[p.event][sc] # {} =>
          <<m, sc>> \in mergedInto'
    BY <1>1, <2>4 DEF PutApplied, Scope
  <2>6. MergerIsRight(m)'
    BY <1>1, <1>3, <2>2, <2>3, <2>5, EnteredIsRight DEF Scope, ScopedInv
  <2> QED
    BY <1>1, <1>3, <1>4, <2>3, <2>6, OneMerger
<1> QED
  BY <1>5, <1>6

LEMMA PutRefusedKeeps ==
  ASSUME ScopedInv, NEW p \in scopedPuts, PutRefused(p)
  PROVE  ScopedInv'
<1>1. /\ p \in Put /\ p.by \in Merger /\ p.scope \in Scope
      /\ p.ifVersion \in Nat /\ scopeVersion[p.scope] \in Nat
      /\ p.ifVersion < scopeVersion[p.scope]
  <2>1. p \in Put /\ Safe(p) /\ ~Matches(p)
    BY DEF PutRefused, ScopedInv, ScopedType
  <2>2. p.by \in Merger /\ p.scope \in Scope /\ p.ifVersion \in Nat
    BY <2>1 DEF Put
  <2>3. scopeVersion[p.scope] \in Nat
    BY <2>2 DEF ScopedInv, ScopedType
  <2> QED
    BY <2>1, <2>2, <2>3 DEF Safe, Matches
<1>2. Grows /\ scopedPuts' \subseteq scopedPuts
  BY DEF PutRefused, ScopedInv, ScopedType, Grows
<1>3. CASE ~Awaited(p)
  <2>1. ScopedType' /\ \A n \in Merger : Rests(n)
    BY <1>3 DEF PutRefused, ScopedInv, ScopedType, Rests
  <2>2. MergerIsRight(p.by)'
    BY <1>1, <1>2, <2>1, RestStaysRight
  <2> QED
    BY <1>1, <1>2, <2>1, <2>2, OneMerger
<1>4. CASE Awaited(p)
  <2> DEFINE m == p.by
  <2>1. /\ mergePut[m] = p /\ mergeAt[m] = "put"
        /\ mergeTry[m] \in Nat /\ mergeFirst[m] \in Nat
        /\ mergeTry[m] + mergeFirst[m] <= p.ifVersion
        /\ p.scope = mergeScope[m]
    BY <1>1, <1>4 DEF Awaited, ScopedInv, ScopedType, MergerIsRight
  <2>2. /\ mergeTry' = [mergeTry EXCEPT ![m] = mergeTry[m] + 1]
        /\ mergeAt' = [mergeAt EXCEPT ![m] = AfterRefusal(m)]
        /\ UNCHANGED <<mergeEvent, mergeScope, mergeFirst, mergePut,
                       stored, lastEvent>>
    BY <1>4 DEF PutRefused
  <2>3. AfterRefusal(m) \in {"read", "contended"}
    BY DEF AfterRefusal
  <2>4. ScopedType' /\ \A n \in Merger \ {m} : Rests(n)
    BY <1>1, <1>2, <2>1, <2>2, <2>3
    DEF ScopedInv, ScopedType, MergeRunning, Rests
  <2>5. mergeTry'[m] + mergeFirst'[m] <= scopeVersion'[mergeScope'[m]]
    BY <1>1, <2>1, <2>2 DEF ScopedInv, ScopedType
  <2>6. mergeAt'[m] \in {"read", "contended"}
    BY <1>1, <2>2, <2>3 DEF ScopedInv, ScopedType
  <2>7. MergerIsRight(m)
    BY <1>1 DEF ScopedInv
  <2>8. MergerIsRight(m)'
    BY <2>1, <2>2, <2>5, <2>6, <2>7 DEF MergerIsRight, MergeRunning
  <2> QED
    BY <1>1, <1>2, <2>4, <2>8, OneMerger
<1> QED
  BY <1>3, <1>4

-----------------------------------------------------------------------------
LEMMA ScopedNextInv == ScopedInv /\ [ScopedNext]_scopedVars => ScopedInv'
<1> SUFFICES ASSUME ScopedInv, [ScopedNext]_scopedVars PROVE ScopedInv'
  OBVIOUS
<1>1. CASE \E m \in Merger, e \in ScopedEvent :
             AppendCommits(m, e) \/ CreateMerges(m, e)
  BY <1>1, BeginsKeep
<1>2. CASE \E m \in Merger, s \in ScopedSession : Repair(m, s)
  BY <1>2, BeginsKeep
<1>3. CASE \E m \in Merger : ReadAndPut(m) \/ Resend(m) \/ MergeStops(m)
  BY <1>3, ReadAndPutKeeps, ResendKeeps, MergeStopsKeeps
<1>4. CASE \E p \in scopedPuts : PutApplied(p) \/ PutRefused(p)
  BY <1>4, PutAppliedKeeps, PutRefusedKeeps
<1>5. CASE UNCHANGED scopedVars
  BY <1>5 DEF ScopedInv, ScopedType, MergerIsRight, Safe, Overlay
<1> QED
  BY <1>1, <1>2, <1>3, <1>4, <1>5, Zenon DEF ScopedNext

\* Every merge of every session of the user keeps the invariant.
THEOREM ScopedInvariant == ScopedSpec => []ScopedInv
BY ScopedInitInv, ScopedNextInv, PTL DEF ScopedSpec

\* merge_scoped replaces the whole record, yet changes only the keys of its
\* own delta, for any number of writers, resends and late PUTs
\* (adk/_store.py:386-409).
THEOREM OnlyTheirKeys == ScopedSpec => MergesTouchOnlyTheirKeys
<1> DEFINE Step == \A sc \in Scope : scopeState'[sc] # scopeState[sc] =>
                     \E e \in ScopedEvent :
                       scopeState'[sc] = Overlay(scopeState[sc], e, sc)
<1>1. ScopedInv /\ [ScopedNext]_scopedVars => [Step]_scopedVars
  <2> SUFFICES ASSUME ScopedInv, ScopedNext PROVE Step
    OBVIOUS
  <2>1. CASE \E p \in scopedPuts : PutApplied(p)
    <3>1. PICK p \in scopedPuts : PutApplied(p)
      BY <2>1
    <3>2. p.scope \in Scope /\ p.event \in ScopedEvent
      BY <3>1, PutAppliedOverlays DEF Put
    <3> QED
      BY <3>1, <3>2, PutAppliedOverlays DEF ScopedInv, ScopedType
  <2>2. CASE UNCHANGED scopeState
    BY <2>2
  <2> QED
    BY <2>1, <2>2 DEF ScopedNext, AppendCommits, CreateMerges, Repair,
      ReadAndPut, Resend, MergeStops, PutRefused
<1> QED
  BY <1>1, ScopedInvariant, PTL DEF ScopedSpec, MergesTouchOnlyTheirKeys

\* A merge that returns has merged every scope of its event, whatever resends
\* and other writers it met (adk/session_service.py:133-136).
THEOREM ReturnsMerged == ScopedSpec => []ReturnedMeansMerged
<1>1. ScopedInv => ReturnedMeansMerged
  BY DEF ScopedInv, MergerIsRight, ReturnedMeansMerged
<1> QED
  BY <1>1, ScopedInvariant, PTL

\* A merge that gives up as contended has met as many writes as attempts
\* (adk/_store.py:402-409).
THEOREM RefusalsAreWrites == ScopedSpec => []EveryRefusalIsAWrite
<1>1. ASSUME ScopedInv PROVE EveryRefusalIsAWrite
  <2> SUFFICES ASSUME NEW m \in Merger,
                      mergeAt[m] \in {"read", "put", "contended"}
               PROVE  mergeTry[m] <= scopeVersion[mergeScope[m]]
                                       - mergeFirst[m]
    BY DEF EveryRefusalIsAWrite
  <2>1. /\ mergeTry[m] \in Nat /\ mergeFirst[m] \in Nat
        /\ mergeScope[m] \in Scope /\ scopeVersion[mergeScope[m]] \in Nat
    BY <1>1 DEF ScopedInv, ScopedType
  <2>2. mergeTry[m] + mergeFirst[m] <= scopeVersion[mergeScope[m]]
    BY <1>1 DEF ScopedInv, MergerIsRight
  <2> QED
    BY <2>1, <2>2
<1> QED
  BY <1>1, ScopedInvariant, PTL
=============================================================================
