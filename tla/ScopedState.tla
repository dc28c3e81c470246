----------------------------- MODULE ScopedState -----------------------------
(***************************************************************************)
(* The app: and user: state of the sessions of one user of one app         *)
(* (merge_scoped in adk/_store.py, and its three callers in                *)
(* adk/session_service.py).                                                *)
(*                                                                         *)
(* Each scope is one vault record that all these sessions share.  A merge  *)
(* reads the record, overlays its own keys and puts the WHOLE record back  *)
(* on the condition that its version is the one read; a refused PUT starts *)
(* again from a fresh read.  The transport resends a PUT whose connection  *)
(* broke (base_client.py), so a merge may be refused by its own first      *)
(* send, and a PUT may be served long after its sender has given up.       *)
(***************************************************************************)
EXTENDS Naturals

CONSTANTS
  Merger,        \* coroutines that merge, of any process
  ScopedEvent,   \* events that carry app: or user: deltas
  ScopedSession, ScopedKey,
  SessionOfEvent,  \* the session that an event is appended to
  Touches,       \* Touches[e][sc]: the keys that the delta of e sets in sc
  MergeAttempts, \* _SCOPED_MERGE_ATTEMPTS
  MaxMergeSends, \* sends of one PUT (base_client: three in all)
  MaxMergeFaults,  \* bound on resends and stops together
  NoEvent

Scope == {"app", "user"}

VARIABLES
  scopeVersion,  \* version of each scope's record, 0 while there is none
  scopeState,    \* the event whose value each key of each record holds
  lastEvent,     \* last committed event of each session
  mergeAt,       \* where each merger is
  mergeEvent,    \* the event whose deltas it merges
  mergeScope,    \* the scope it is at
  mergeTry,      \* attempts at that scope whose PUT was refused
  mergeFirst,    \* version of the record when it began at that scope
  mergePut,      \* its last PUT
  scopedPuts,    \* PUTs on their way to the server
  mergeFaults,   \* resends and stops so far
  mergedInto     \* history: <<merger, scope>> whose delta was applied

scopedVars == <<scopeVersion, scopeState, lastEvent, mergeAt, mergeEvent,
                mergeScope, mergeTry, mergeFirst, mergePut, scopedPuts,
                mergeFaults, mergedInto>>
merger == <<mergeEvent, mergeScope, mergeTry, mergeFirst, mergePut>>
stored == <<scopeVersion, scopeState, mergedInto, mergeFaults>>
MergeFault ==
  mergeFaults < MaxMergeFaults /\ mergeFaults' = mergeFaults + 1

MergeRunning == {"read", "put"}

ScopedInit ==
  /\ scopeVersion = [sc \in Scope |-> 0]
  /\ scopeState = [sc \in Scope |-> [k \in ScopedKey |-> NoEvent]]
  /\ lastEvent = [s \in ScopedSession |-> NoEvent]
  /\ mergeAt = [m \in Merger |-> "idle"]
  /\ mergeEvent = [m \in Merger |-> NoEvent]
  /\ mergeScope = [m \in Merger |-> "app"]
  /\ mergeTry = [m \in Merger |-> 0]
  /\ mergeFirst = [m \in Merger |-> 0]
  /\ mergePut = [m \in Merger |-> NoEvent]
  /\ scopedPuts = {}
  /\ mergeFaults = 0
  /\ mergedInto = {}

\* The record that a merge of event e writes over the one it read.
Overlay(state, e, sc) ==
  [k \in ScopedKey |-> IF k \in Touches[e][sc] THEN e ELSE state[k]]

\* _merge_scopes: app first, then user; a scope without a delta is skipped.
NextScope(e, done) ==
  IF "app" \notin done /\ Touches[e]["app"] # {} THEN "app"
  ELSE IF "user" \notin done /\ Touches[e]["user"] # {} THEN "user"
  ELSE "none"

EnterScope(m, e, done) ==
  /\ mergeEvent' = [mergeEvent EXCEPT ![m] = e]
  /\ mergeTry' = [mergeTry EXCEPT ![m] = 0]
  /\ mergePut' = [mergePut EXCEPT ![m] = NoEvent]
  /\ LET sc == NextScope(e, done)
     IN  IF sc = "none"
         THEN mergeAt' = [mergeAt EXCEPT ![m] = "done"]
              /\ UNCHANGED <<mergeScope, mergeFirst>>
         ELSE /\ mergeAt' = [mergeAt EXCEPT ![m] = "read"]
              /\ mergeScope' = [mergeScope EXCEPT ![m] = sc]
              /\ mergeFirst' = [mergeFirst EXCEPT ![m] = scopeVersion[sc]]

----------------------------------------------------------------------------
\* append_event: the head PUT has committed e; its deltas are merged next.
AppendCommits(m, e) ==
  /\ mergeAt[m] = "idle"
  /\ \A n \in Merger : mergeEvent[n] # e
  /\ lastEvent' = [lastEvent EXCEPT ![SessionOfEvent[e]] = e]
  /\ EnterScope(m, e, {})
  /\ UNCHANGED <<stored, scopedPuts>>

\* create_session: the initial state has deltas too, but no event carries
\* them, so no repair finds them again.
CreateMerges(m, e) ==
  /\ mergeAt[m] = "idle"
  /\ \A n \in Merger : mergeEvent[n] # e
  /\ lastEvent[SessionOfEvent[e]] = NoEvent
  /\ EnterScope(m, e, {})
  /\ UNCHANGED <<stored, scopedPuts, lastEvent>>

\* repair_scoped_state: the last committed event, whoever appended it.
Repair(m, s) ==
  /\ mergeAt[m] = "idle"
  /\ lastEvent[s] # NoEvent
  /\ EnterScope(m, lastEvent[s], {})
  /\ UNCHANGED <<stored, scopedPuts, lastEvent>>

\* The version that merge_scoped has just read, the precondition of its PUT;
\* mutant: the one from before the loop.
ReadVersionOnce(m) == mergeFirst[m]
ReadVersion(m) == scopeVersion[mergeScope[m]]

\* merge_scoped: read the record, then send the overlaid record.
ReadAndPut(m) ==
  LET e  == mergeEvent[m]
      sc == mergeScope[m]
      p  == [by |-> m, event |-> e, scope |-> sc, send |-> 1,
             try |-> mergeTry[m], ifVersion |-> ReadVersion(m),
             state |-> Overlay(scopeState[sc], e, sc)]
  IN  /\ mergeAt[m] = "read"
      /\ mergeAt' = [mergeAt EXCEPT ![m] = "put"]
      /\ mergePut' = [mergePut EXCEPT ![m] = p]
      /\ scopedPuts' = scopedPuts \cup {p}
      /\ UNCHANGED <<stored, lastEvent, mergeEvent, mergeScope, mergeTry,
                     mergeFirst>>

\* The connection broke, before or after the server served the PUT.
Resend(m) ==
  LET p == [by |-> m, event |-> mergePut[m].event,
            scope |-> mergePut[m].scope, send |-> mergePut[m].send + 1,
            try |-> mergePut[m].try, ifVersion |-> mergePut[m].ifVersion,
            state |-> mergePut[m].state]
  IN  /\ mergeAt[m] = "put"
      /\ mergePut[m].send < MaxMergeSends
      /\ mergePut' = [mergePut EXCEPT ![m] = p]
      /\ scopedPuts' = scopedPuts \cup {p}
      /\ MergeFault
      /\ UNCHANGED <<scopeVersion, scopeState, mergedInto, lastEvent, mergeAt,
                     mergeEvent, mergeScope, mergeTry, mergeFirst>>

\* A request that timed out, another error of the vault, or the process died.
MergeStops(m) ==
  /\ mergeAt[m] \in MergeRunning
  /\ mergeAt' = [mergeAt EXCEPT ![m] = "stopped"]
  /\ MergeFault
  /\ UNCHANGED <<scopeVersion, scopeState, mergedInto, lastEvent, merger,
                 scopedPuts>>

\* The answer reaches the merger if the PUT is the one it waits for.  (A lost
\* answer is a resend, or a stop, that comes before the PUT is served.)
Awaited(p) == mergeAt[p.by] = "put" /\ mergePut[p.by] = p

\* vault.set with if_version (if_absent when nothing was found); mutant: with
\* if_absent alone.
MatchesIfAbsent(p) == p.ifVersion = 0 => scopeVersion[p.scope] = 0
Matches(p) == p.ifVersion = scopeVersion[p.scope]

PutApplied(p) ==
  /\ Matches(p)
  /\ scopedPuts' = scopedPuts \ {p}
  /\ scopeVersion' = [scopeVersion EXCEPT ![p.scope] = @ + 1]
  /\ scopeState' = [scopeState EXCEPT ![p.scope] = p.state]
  /\ mergedInto' = mergedInto \cup {<<p.by, p.scope>>}
  /\ \/ /\ Awaited(p)
        /\ EnterScope(p.by, p.event,
                      IF p.scope = "app" THEN {"app"} ELSE Scope)
     \/ ~Awaited(p) /\ UNCHANGED <<mergeAt, merger>>
  /\ UNCHANGED <<lastEvent, mergeFaults>>

\* ConditionalWriteFailed: continue, or give up after the last attempt; mutant:
\* a resend that is refused counts as its first send's success.
AfterRefusalDone(m) ==
  CASE mergePut[m].send > 1             -> "done"
    [] mergeTry[m] + 1 < MergeAttempts  -> "read"
    [] OTHER                            -> "contended"
AfterRefusal(m) ==
  IF mergeTry[m] + 1 < MergeAttempts THEN "read" ELSE "contended"

PutRefused(p) ==
  /\ ~Matches(p)
  /\ scopedPuts' = scopedPuts \ {p}
  /\ \/ /\ Awaited(p)
        /\ mergeTry' = [mergeTry EXCEPT ![p.by] = @ + 1]
        /\ mergeAt' = [mergeAt EXCEPT ![p.by] = AfterRefusal(p.by)]
        /\ UNCHANGED <<mergeEvent, mergeScope, mergeFirst, mergePut>>
     \/ ~Awaited(p) /\ UNCHANGED <<mergeAt, merger>>
  /\ UNCHANGED <<stored, lastEvent>>

ScopedNext ==
  \/ \E m \in Merger, e \in ScopedEvent :
       AppendCommits(m, e) \/ CreateMerges(m, e)
  \/ \E m \in Merger, s \in ScopedSession : Repair(m, s)
  \/ \E m \in Merger : ReadAndPut(m) \/ Resend(m) \/ MergeStops(m)
  \/ \E p \in scopedPuts : PutApplied(p) \/ PutRefused(p)

ScopedSpec == ScopedInit /\ [][ScopedNext]_scopedVars

----------------------------------------------------------------------------
\* A record changes only by the overlay of one delta: whatever a writer read,
\* however late its PUT is served and however often it is sent, the keys that
\* its event does not set keep the value they have at that moment.  (The PUT
\* carries the whole record; only if_version stands between it and the keys
\* of the other sessions.)
MergesTouchOnlyTheirKeys ==
  [][\A sc \in Scope : scopeState'[sc] # scopeState[sc] =>
       \E e \in ScopedEvent : scopeState'[sc] =
                                Overlay(scopeState[sc], e, sc)]_scopedVars

\* A call that returned without an error has merged every delta of its event
\* into its record at least once: a refusal met by a resend, another writer
\* or a repair under way is not mistaken for the merge itself.
ReturnedMeansMerged ==
  \A m \in Merger : mergeAt[m] = "done" =>
    \A sc \in Scope : Touches[mergeEvent[m]][sc] # {} =>
      <<m, sc>> \in mergedInto

\* "stayed contended" is never a false alarm: every refused attempt is
\* matched by a write of the record since the merge began at it.
EveryRefusalIsAWrite ==
  \A m \in Merger : mergeAt[m] \in {"read", "put", "contended"} =>
    mergeTry[m] <= scopeVersion[mergeScope[m]] - mergeFirst[m]
==============================================================================
