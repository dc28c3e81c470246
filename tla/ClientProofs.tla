---------------------------- MODULE ClientProofs -----------------------------
(***************************************************************************)
(* What the client keeps for itself: its instance caches, its token, its   *)
(* telemetry providers.  Each part stands on its own.                      *)
(***************************************************************************)
EXTENDS ClientCaches, TokenCache, Telemetry, TLAPS

-----------------------------------------------------------------------------
(***************************************************************************)
(* The double-checked caches of AgencyClient implement GetOrBuild, for any *)
(* number of threads, organisations and calls.                             *)
(*                                                                         *)
(* The point that needs the invariant is the write: a thread that builds   *)
(* looked under the lock some steps earlier, and its slot must still be    *)
(* empty when it stores.                                                   *)
(***************************************************************************)

USE DEF cacheVars, Promise!buildVars

Leg == {"idle", "look", "lock", "locked", "build"}
Locks == {"gateway", "observability"}

CacheType ==
  /\ cache \in [Identity -> Nat]
  /\ cacheLock \in [Locks -> BOOLEAN]
  /\ wants \in [Thread -> Identity \cup {Nothing}]
  /\ at \in [Thread -> Leg]
  /\ gave \in [Thread -> Nat]
  /\ made \in Nat

Holds(t) == at[t] \in {"locked", "build"}

\* Where a thread is, it asks; where it holds a lock, the lock is taken; where
\* it builds, there is nothing yet.
ThreadIsRight(t) ==
  /\ IF at[t] = "idle" THEN wants[t] = Nothing ELSE wants[t] \in Identity
  /\ Holds(t) => cacheLock[LockOf(wants[t])]
  /\ at[t] = "build" => cache[wants[t]] = 0

OneHolderEach ==
  \A t, u \in Thread :
    Holds(t) /\ Holds(u) /\ t # u => LockOf(wants[t]) # LockOf(wants[u])

CacheInv ==
  /\ CacheType
  /\ \A t \in Thread : ThreadIsRight(t)
  /\ OneHolderEach

\* The abstract step that a step of the caches is.
Step == [Promise!BuildNext]_<<cache, wants, gave, made>>

LEMMA LockType == \A i : LockOf(i) \in Locks
BY DEF LockOf, Locks

-----------------------------------------------------------------------------
\* A step of thread t that leaves the others as they were.
Alone(t) ==
  \A u \in Thread \ {t} : at'[u] = at[u] /\ wants'[u] = wants[u]

\* The others stay right if the lock they hold stays taken and the identity
\* they build for stays empty.
LEMMA OthersStayRight ==
  ASSUME CacheInv, CacheType', NEW t \in Thread, Alone(t), ThreadIsRight(t)',
         \A u \in Thread \ {t} :
           Holds(u) => cacheLock'[LockOf(wants[u])],
         \A u \in Thread \ {t} :
           at[u] = "build" => cache'[wants[u]] = cache[wants[u]],
         Holds(t)' => \A u \in Thread \ {t} :
           Holds(u) => LockOf(wants[u]) # LockOf(wants'[t])
  PROVE  CacheInv'
<1>1. ASSUME NEW u \in Thread \ {t} PROVE ThreadIsRight(u)'
  BY <1>1 DEF CacheInv, ThreadIsRight, Holds, Alone, LockOf, Observability
<1>2. OneHolderEach'
  BY DEF CacheInv, OneHolderEach, Holds, Alone, LockOf, Observability
<1> QED
  BY <1>1, <1>2 DEF CacheInv

\* A thread asks for an identity.
LEMMA AskKeeps ==
  ASSUME CacheInv, NEW t \in Thread, NEW i \in Identity, AskForInstance(t, i)
  PROVE  CacheInv' /\ Step
<1>1. /\ at[t] = "idle" /\ wants[t] = Nothing
      /\ wants' = [wants EXCEPT ![t] = i] /\ at' = [at EXCEPT ![t] = "look"]
      /\ UNCHANGED <<cache, cacheLock, gave, made>>
  BY DEF AskForInstance, Go, CacheInv, ThreadIsRight
<1>2. CacheType' /\ Alone(t)
  BY <1>1 DEF CacheInv, CacheType, Alone, Leg
<1>3. wants'[t] = i /\ at'[t] = "look"
  BY <1>1 DEF CacheInv, CacheType
<1>4. ThreadIsRight(t)' /\ ~Holds(t)'
  BY <1>3 DEF ThreadIsRight, Holds
<1>5. CacheInv'
  BY <1>1, <1>2, <1>4, OthersStayRight DEF CacheInv, ThreadIsRight
<1>6. Promise!AskFor(t, i)
  BY <1>1 DEF Promise!AskFor
<1> QED
  BY <1>5, <1>6 DEF Step, Promise!BuildNext

\* Both keys are identities.
LEMMA AskingKeeps ==
  ASSUME CacheInv, NEW t \in Thread, AskGateway(t) \/ AskObservability(t)
  PROVE  CacheInv' /\ Step
<1>1. PICK i \in Identity : AskForInstance(t, i)
  BY DEF AskGateway, AskObservability, Identity
<1> QED
  BY <1>1, AskKeeps

\* What Give does when it hands over n.
LEMMA GiveIs ==
  ASSUME CacheType, NEW t \in Thread, NEW n \in Nat, Give(t, n)
  PROVE  /\ gave' = [gave EXCEPT ![t] = n]
         /\ wants' = [wants EXCEPT ![t] = Nothing]
         /\ gave' \in [Thread -> Nat]
         /\ wants' \in [Thread -> Identity \cup {Nothing}]
         /\ at' \in [Thread -> Leg]
         /\ wants'[t] = Nothing /\ at'[t] = "idle" /\ Alone(t)
BY DEF Give, Go, CacheType, Alone, Leg

\* Taking or giving back a lock.
LEMMA Held ==
  ASSUME CacheType, NEW l \in Locks, NEW b \in BOOLEAN, Hold(l, b)
  PROVE  /\ cacheLock' \in [Locks -> BOOLEAN] /\ cacheLock'[l] = b
         /\ \A k \in Locks \ {l} : cacheLock'[k] = cacheLock[k]
BY DEF Hold, CacheType

LEMMA LookUnlockedKeeps ==
  ASSUME CacheInv, NEW t \in Thread, LookUnlocked(t)
  PROVE  CacheInv' /\ Step
<1>1. /\ CacheType /\ wants[t] \in Identity /\ at[t] = "look"
      /\ cache[wants[t]] \in Nat /\ UNCHANGED <<cache, cacheLock, made>>
  BY DEF LookUnlocked, CacheInv, CacheType, ThreadIsRight
<1>2. CASE cache[wants[t]] # 0
  <2>1. Give(t, cache[wants[t]])
    BY <1>2 DEF LookUnlocked
  <2>2. CacheType' /\ Alone(t) /\ ThreadIsRight(t)' /\ ~Holds(t)'
    BY <1>1, <2>1, GiveIs DEF CacheType, ThreadIsRight, Holds
  <2>3. CacheInv'
    BY <1>1, <2>2, OthersStayRight DEF CacheInv, ThreadIsRight
  <2>4. Promise!Reuse(t, wants[t])
    BY <1>1, <1>2, <2>1, GiveIs DEF Promise!Reuse, Promise!Answer
  <2> QED
    BY <1>1, <2>3, <2>4 DEF Step, Promise!BuildNext
<1>3. CASE cache[wants[t]] = 0
  <2>1. at' = [at EXCEPT ![t] = "lock"] /\ UNCHANGED <<gave, wants>>
    BY <1>3 DEF LookUnlocked, Go
  <2>2. CacheType' /\ Alone(t) /\ ThreadIsRight(t)' /\ ~Holds(t)'
    BY <1>1, <2>1 DEF CacheType, Leg, Alone, ThreadIsRight, Holds
  <2>3. CacheInv'
    BY <1>1, <2>2, OthersStayRight DEF CacheInv, ThreadIsRight
  <2> QED
    BY <1>1, <2>1, <2>3 DEF Step
<1> QED
  BY <1>2, <1>3

LEMMA LockKeeps ==
  ASSUME CacheInv, NEW t \in Thread, Lock(t)
  PROVE  CacheInv' /\ Step
<1>1. /\ CacheType /\ wants[t] \in Identity /\ ~cacheLock[LockOf(wants[t])]
      /\ at' = [at EXCEPT ![t] = "locked"]
      /\ Hold(LockOf(wants[t]), TRUE)
      /\ UNCHANGED <<cache, wants, gave, made>>
  BY DEF Lock, Go, CacheInv, CacheType, ThreadIsRight
<1>2. /\ cacheLock' \in [Locks -> BOOLEAN] /\ cacheLock'[LockOf(wants[t])]
      /\ \A k \in Locks \ {LockOf(wants[t])} : cacheLock'[k] = cacheLock[k]
  BY <1>1, LockType, Held
<1>3. CacheType' /\ Alone(t) /\ at'[t] = "locked"
  BY <1>1, <1>2 DEF CacheType, Leg, Alone
<1>4. ThreadIsRight(t)'
  BY <1>1, <1>2, <1>3 DEF ThreadIsRight, Holds, LockOf, Observability
<1>5. \A u \in Thread \ {t} :
        Holds(u) => LockOf(wants[u]) # LockOf(wants[t])
  BY <1>1 DEF CacheInv, ThreadIsRight
<1>6. \A u \in Thread \ {t} : Holds(u) => cacheLock'[LockOf(wants[u])]
  BY <1>2, <1>5, LockType DEF CacheInv, ThreadIsRight
<1>7. CacheInv'
  BY <1>1, <1>3, <1>4, <1>5, <1>6, OthersStayRight
<1> QED
  BY <1>1, <1>7 DEF Step

-----------------------------------------------------------------------------
\* No other thread holds the lock of a thread that does.
LEMMA OthersElsewhere ==
  ASSUME CacheInv, NEW t \in Thread, Holds(t)
  PROVE  \A u \in Thread \ {t} :
           Holds(u) => /\ LockOf(wants[u]) # LockOf(wants[t])
                       /\ wants[u] # wants[t]
BY DEF CacheInv, OneHolderEach

\* A thread answers and gives its lock back; at most its own slot changes.
LEMMA ReleaseKeeps ==
  ASSUME CacheInv, NEW t \in Thread, Holds(t), NEW n \in Nat, Give(t, n),
         Hold(LockOf(wants[t]), FALSE),
         cache' \in [Identity -> Nat], made' \in Nat,
         \A i \in Identity \ {wants[t]} : cache'[i] = cache[i]
  PROVE  CacheInv'
<1>1. /\ cacheLock' \in [Locks -> BOOLEAN]
      /\ \A k \in Locks \ {LockOf(wants[t])} : cacheLock'[k] = cacheLock[k]
  BY LockType, Held DEF CacheInv
<1>2. CacheType' /\ Alone(t) /\ ThreadIsRight(t)' /\ ~Holds(t)'
  BY <1>1, GiveIs DEF CacheInv, CacheType, ThreadIsRight, Holds
<1>3. \A u \in Thread \ {t} : Holds(u) => cacheLock'[LockOf(wants[u])]
  BY <1>1, OthersElsewhere, LockType DEF CacheInv, ThreadIsRight
<1>4. \A u \in Thread \ {t} :
        at[u] = "build" => cache'[wants[u]] = cache[wants[u]]
  BY OthersElsewhere DEF CacheInv, ThreadIsRight, Holds
<1> QED
  BY <1>2, <1>3, <1>4, OthersStayRight

LEMMA LookLockedKeeps ==
  ASSUME CacheInv, NEW t \in Thread, LookLocked(t)
  PROVE  CacheInv' /\ Step
<1>1. /\ CacheType /\ wants[t] \in Identity /\ Holds(t)
      /\ cache[wants[t]] \in Nat /\ UNCHANGED <<cache, made>>
  BY DEF LookLocked, CacheInv, CacheType, ThreadIsRight, Holds
<1>2. CASE StillAbsent(wants[t])
  <2>1. /\ at' = [at EXCEPT ![t] = "build"]
        /\ UNCHANGED <<cacheLock, gave, wants>>
    BY <1>2 DEF LookLocked, Go
  <2>2. CacheType' /\ Alone(t) /\ at'[t] = "build"
    BY <1>1, <2>1 DEF CacheType, Leg, Alone
  <2>3. ThreadIsRight(t)'
    BY <1>1, <1>2, <2>1, <2>2
    DEF CacheInv, ThreadIsRight, Holds, StillAbsent, LockOf, Observability
  <2>4. CacheInv'
    BY <1>1, <2>1, <2>2, <2>3, OthersElsewhere, OthersStayRight
    DEF CacheInv, ThreadIsRight
  <2> QED
    BY <1>1, <2>1, <2>4 DEF Step
<1>3. CASE ~StillAbsent(wants[t])
  <2>1. /\ Give(t, cache[wants[t]]) /\ Hold(LockOf(wants[t]), FALSE)
        /\ cache[wants[t]] # 0
    BY <1>3 DEF LookLocked, StillAbsent
  <2>2. CacheInv'
    BY <1>1, <2>1, ReleaseKeeps DEF CacheType
  <2>3. Promise!Reuse(t, wants[t])
    BY <1>1, <2>1, GiveIs DEF Promise!Reuse, Promise!Answer
  <2> QED
    BY <1>1, <2>2, <2>3 DEF Step, Promise!BuildNext
<1> QED
  BY <1>2, <1>3

\* The slot is still empty when the instance is stored.
LEMMA BuildInstanceKeeps ==
  ASSUME CacheInv, NEW t \in Thread, BuildInstance(t)
  PROVE  CacheInv' /\ Step
<1>1. /\ CacheType /\ wants[t] \in Identity /\ Holds(t)
      /\ cache[wants[t]] = 0 /\ made' = made + 1
      /\ cache' = [cache EXCEPT ![wants[t]] = made + 1]
      /\ Give(t, made + 1) /\ Hold(LockOf(wants[t]), FALSE)
  BY DEF BuildInstance, CacheInv, ThreadIsRight, Holds
<1>2. made + 1 \in Nat
  BY <1>1 DEF CacheType
<1>3. CacheInv'
  <2>1. cache' \in [Identity -> Nat]
    BY <1>1, <1>2 DEF CacheType
  <2>2. \A i \in Identity \ {wants[t]} : cache'[i] = cache[i]
    BY <1>1 DEF CacheType
  <2> QED
    BY <1>1, <1>2, <2>1, <2>2, ReleaseKeeps
<1>4. Promise!Build(t, wants[t])
  BY <1>1, <1>2, GiveIs DEF Promise!Build, Promise!Answer
<1> QED
  BY <1>1, <1>3, <1>4 DEF Step, Promise!BuildNext

LEMMA BuildRaisesKeeps ==
  ASSUME CacheInv, NEW t \in Thread, BuildRaises(t)
  PROVE  CacheInv' /\ Step
<1>1. /\ CacheType /\ wants[t] \in Identity /\ Holds(t)
      /\ cache[wants[t]] = 0 /\ UNCHANGED <<cache, made>>
      /\ Give(t, 0) /\ Hold(LockOf(wants[t]), FALSE)
  BY DEF BuildRaises, CacheInv, ThreadIsRight, Holds
<1>2. CacheInv'
  BY <1>1, ReleaseKeeps DEF CacheType
<1>3. Promise!Fail(t, wants[t])
  BY <1>1, GiveIs DEF Promise!Fail, Promise!Answer
<1> QED
  BY <1>1, <1>2, <1>3 DEF Step, Promise!BuildNext

-----------------------------------------------------------------------------
LEMMA CacheInitInv == CacheInit => CacheInv /\ Promise!BuildInit
<1> SUFFICES ASSUME CacheInit PROVE CacheInv /\ Promise!BuildInit
  OBVIOUS
<1>1. CacheType
  BY DEF CacheInit, CacheType, Leg, Locks
<1>2. \A t \in Thread : at[t] = "idle" /\ wants[t] = Nothing
  BY DEF CacheInit
<1> QED
  BY <1>1, <1>2 DEF CacheInit, CacheInv, ThreadIsRight, Holds, OneHolderEach,
    Promise!BuildInit

LEMMA CacheNextInv ==
  CacheInv /\ [CacheNext]_cacheVars => CacheInv' /\ Step
<1> SUFFICES ASSUME CacheInv, [CacheNext]_cacheVars PROVE CacheInv' /\ Step
  OBVIOUS
<1>1. CASE CacheNext
  BY <1>1, AskingKeeps, LookUnlockedKeeps, LockKeeps, LookLockedKeeps,
    BuildInstanceKeeps, BuildRaisesKeeps, Zenon DEF CacheNext
<1>2. CASE UNCHANGED cacheVars
  BY <1>2 DEF CacheInv, CacheType, ThreadIsRight, Holds, OneHolderEach, LockOf,
    Observability, Step
<1> QED
  BY <1>1, <1>2

\* Whoever builds, builds into an empty slot, alone under the lock
\* (client.py:122-136, 196-218).
THEOREM CacheInvariant == CacheSpec => []CacheInv
BY CacheInitInv, CacheNextInv, PTL DEF CacheSpec

\* gateway() and observability() of any number of threads are as good as the
\* atomic GetOrBuild: one instance per identity, given to all who ask
\* (client.py:122-136, 196-218).
THEOREM CachesImplement == CacheSpec => ImplementsGetOrBuild
BY CacheInitInv, CacheNextInv, PTL
DEF CacheSpec, Step, ImplementsGetOrBuild, Promise!BuildSpec

HIDE DEF cacheVars, Promise!buildVars

-----------------------------------------------------------------------------
(***************************************************************************)
(* The shared token, for any number of threads, any buffer and any         *)
(* lifetimes the auth server chooses: a fetch is shared, and a token that  *)
(* is sent expired has one of the three known reasons.                     *)
(*                                                                         *)
(* The argument is about the gap between the unlocked look and the read    *)
(* that returns the token.  What the cache holds at the look outlives the  *)
(* buffer; a thread that replaces it in the gap started to fetch after the *)
(* look, so its token is younger than the question.                        *)
(***************************************************************************)

USE TokenAssumption
USE DEF tokenVars

Token == [minted: Nat, exp: Nat]
TokenLeg == {"idle", "look", "take", "lock", "fetch", "store", "use"}
Asking == [leg: TokenLeg, kind: TokenKinds, since: Nat, token: Token,
           resends: Nat, refused: BOOLEAN]

TokenType ==
  /\ clock \in Nat \ {0}
  /\ cachedToken \in Token
  /\ asking \in [Caller -> Asking]
  /\ seedToken \in Token

Fetching(r) == r.leg \in {"fetch", "store"}

\* The token was good for longer than the buffer when it was asked for, or it
\* never was.
GoodSince(token, since) ==
  /\ token # NoToken
  /\ \/ token.exp > since + Buffer
     \/ token.exp <= token.minted + Buffer

CallIsRight(c) ==
  /\ asking[c].since <= clock
  /\ Fetching(asking[c]) => refreshLock = c /\ Expired(cachedToken)
  /\ asking[c].leg = "take" => GoodSince(cachedToken, asking[c].since)
  /\ asking[c].leg = "store" => GoodSince(asking[c].token, asking[c].since)
  /\ asking[c].leg = "use" =>
       asking[c].refused \/ GoodSince(asking[c].token, asking[c].since)

\* What is about to be cached is younger than the question of a thread that
\* is about to read the cache.
YoungerThanTheGap(c, d) ==
  asking[c].leg = "take" /\ asking[d].leg = "store" =>
    /\ asking[c].since <= asking[d].token.minted
    /\ asking[d].token # NoToken

TokenInv ==
  /\ TokenType
  /\ \A c \in Caller : CallIsRight(c)
  /\ \A c, d \in Caller : YoungerThanTheGap(c, d)

-----------------------------------------------------------------------------
\* The records that the steps make of the record of a thread.
LEMMA AskingAtLeg ==
  ASSUME NEW a \in Asking, NEW leg \in TokenLeg
  PROVE  LET r == [a EXCEPT !.leg = leg]
         IN  /\ r \in Asking /\ r.leg = leg /\ r.since = a.since
             /\ r.token = a.token /\ r.refused = a.refused
BY DEF Asking

LEMMA UnaskedType ==
  /\ Unasked \in Asking /\ Unasked.leg = "idle" /\ Unasked.since = 0
  /\ NoToken \in Token
BY DEF Unasked, NoToken, Token, Asking, TokenLeg, TokenKinds

\* The record of c becomes r, the others and the clock stay.
Becomes(c, r) ==
  /\ asking' \in [Caller -> Asking] /\ asking'[c] = r
  /\ \A d \in Caller \ {c} : asking'[d] = asking[d]
  /\ clock' = clock

LEMMA AskBecomes ==
  ASSUME TokenType, NEW c \in Caller, NEW r \in Asking, Ask(c, r),
         UNCHANGED clock
  PROVE  Becomes(c, r)
BY DEF TokenType, Ask, Becomes

\* A step of one thread that leaves the cache.
LEMMA CacheStays ==
  ASSUME TokenInv, TokenType', NEW c \in Caller, NEW r \in Asking,
         Becomes(c, r), UNCHANGED cachedToken,
         \A d \in Caller \ {c} : Fetching(asking[d]) => refreshLock' = d,
         CallIsRight(c)',
         r.leg = "take" =>
           \A d \in Caller \ {c} : asking[d].leg # "store",
         r.leg = "store" =>
           /\ r.token # NoToken
           /\ \A d \in Caller \ {c} : asking[d].since <= r.token.minted
  PROVE  TokenInv'
<1>1. ASSUME NEW d \in Caller \ {c} PROVE CallIsRight(d)'
  BY <1>1 DEF TokenInv, CallIsRight, Becomes, Fetching, Expired, GoodSince
<1>2. \A d, x \in Caller : YoungerThanTheGap(d, x)'
  BY DEF TokenInv, YoungerThanTheGap, Becomes
<1> QED
  BY <1>1, <1>2 DEF TokenInv

\* A thread that neither fetches nor reads next cannot disturb anything.
LEMMA HarmlessKeeps ==
  ASSUME TokenInv, TokenType', NEW c \in Caller, NEW r \in Asking,
         Becomes(c, r), UNCHANGED <<cachedToken, refreshLock>>,
         r.since <= clock, r.leg \in {"idle", "look", "lock", "use"},
         r.leg = "use" => r.refused \/ GoodSince(r.token, r.since)
  PROVE  TokenInv'
<1>1. CallIsRight(c)'
  BY DEF CallIsRight, Becomes, Fetching, GoodSince
<1>2. \A d \in Caller : Fetching(asking[d]) => refreshLock' = d
  BY DEF TokenInv, CallIsRight
<1> QED
  BY <1>1, <1>2, CacheStays

-----------------------------------------------------------------------------
LEMMA AskTokenKeeps ==
  ASSUME TokenInv, NEW c \in Caller, NEW kind \in TokenKinds,
         AskToken(c, kind)
  PROVE  TokenInv'
<1> DEFINE r == [Unasked EXCEPT !.leg = "look", !.kind = kind,
                                !.since = clock]
<1>1. r \in Asking /\ r.leg = "look" /\ r.since = clock
  BY DEF TokenInv, TokenType, Unasked, NoToken, Token, Asking, TokenLeg,
    TokenKinds
<1>2. Ask(c, r) /\ UNCHANGED <<clock, cachedToken, refreshLock, seedToken,
                               hasExporter>>
  BY DEF AskToken
<1> HIDE DEF r
<1>3. Becomes(c, r)
  BY <1>1, <1>2, AskBecomes DEF TokenInv
<1>4. TokenType'
  BY <1>2, <1>3 DEF TokenInv, TokenType, Becomes
<1>5. r.since <= clock
  BY <1>1 DEF TokenInv, TokenType
<1> QED
  BY <1>1, <1>2, <1>3, <1>4, <1>5, HarmlessKeeps

LEMMA LookAtTokenKeeps ==
  ASSUME TokenInv, NEW c \in Caller, LookAtToken(c)
  PROVE  TokenInv'
<1> DEFINE leg == IF Expired(cachedToken) THEN "lock" ELSE "take"
           r == [asking[c] EXCEPT !.leg = leg]
<1>1. asking[c] \in Asking /\ leg \in TokenLeg
  BY DEF TokenInv, TokenType, TokenLeg
<1>2. r \in Asking /\ r.leg = leg /\ r.since = asking[c].since
  BY <1>1, AskingAtLeg
<1>3. Ask(c, r) /\ UNCHANGED <<clock, cachedToken, refreshLock, seedToken,
                               hasExporter>>
  BY DEF LookAtToken
<1> HIDE DEF r
<1>4. Becomes(c, r)
  BY <1>2, <1>3, AskBecomes DEF TokenInv
<1>5. TokenType'
  BY <1>3, <1>4 DEF TokenInv, TokenType, Becomes
<1>6. r.since <= clock /\ r.since \in Nat
  BY <1>1, <1>2 DEF TokenInv, CallIsRight, Asking
<1>7. CASE Expired(cachedToken)
  BY <1>2, <1>3, <1>4, <1>5, <1>6, <1>7, HarmlessKeeps
<1>8. CASE ~Expired(cachedToken)
  <2>1. r.leg = "take"
    BY <1>2, <1>8
  <2>2. \A d \in Caller : ~Fetching(asking[d])
    BY <1>8 DEF TokenInv, CallIsRight
  <2>3. GoodSince(cachedToken, r.since)
    <3>1. cachedToken.exp \in Nat /\ cachedToken.exp > clock + Buffer
      BY <1>8 DEF TokenInv, TokenType, Token, Expired
    <3>2. clock \in Nat
      BY DEF TokenInv, TokenType
    <3>3. cachedToken.exp > r.since + Buffer /\ cachedToken.exp # 0
      BY <1>6, <3>1, <3>2
    <3> QED
      BY <3>3 DEF GoodSince, NoToken
  <2>4. CallIsRight(c)'
    BY <1>3, <1>4, <1>6, <2>1, <2>3
    DEF CallIsRight, Becomes, Fetching, GoodSince
  <2> QED
    BY <1>2, <1>3, <1>4, <1>5, <2>1, <2>2, <2>4, CacheStays DEF Fetching
<1> QED
  BY <1>7, <1>8

\* A thread that is given a token that is good for its question.
LEMMA GivenKeeps ==
  ASSUME TokenInv, NEW c \in Caller, NEW token \in Token, Given(c, token),
         GoodSince(token, asking[c].since),
         UNCHANGED <<clock, cachedToken, refreshLock, seedToken, hasExporter>>
  PROVE  TokenInv'
<1> DEFINE r == [asking[c] EXCEPT !.leg = "use", !.token = token]
<1>1. asking[c] \in Asking /\ "use" \in TokenLeg
  BY DEF TokenInv, TokenType, TokenLeg
<1>2. /\ r \in Asking /\ r.leg = "use" /\ r.since = asking[c].since
      /\ r.token = token
  BY <1>1 DEF Asking
<1>3. Ask(c, r)
  BY DEF Given
<1> HIDE DEF r
<1>4. Becomes(c, r)
  BY <1>2, <1>3, AskBecomes DEF TokenInv
<1>5. TokenType'
  BY <1>4 DEF TokenInv, TokenType, Becomes
<1>6. r.since <= clock
  BY <1>2 DEF TokenInv, CallIsRight
<1> QED
  BY <1>2, <1>4, <1>5, <1>6, HarmlessKeeps

LEMMA TakeTokenKeeps ==
  ASSUME TokenInv, NEW c \in Caller, TakeToken(c)
  PROVE  TokenInv'
<1>1. cachedToken \in Token /\ GoodSince(cachedToken, asking[c].since)
  BY DEF TakeToken, TokenInv, TokenType, CallIsRight
<1> QED
  BY <1>1, GivenKeeps DEF TakeToken

LEMMA LookAgainKeeps ==
  ASSUME TokenInv, NEW c \in Caller, LookAgain(c)
  PROVE  TokenInv'
<1>1. /\ asking[c] \in Asking /\ asking[c].since \in Nat
      /\ asking[c].since <= clock /\ clock \in Nat
      /\ cachedToken \in Token /\ cachedToken.exp \in Nat
  BY DEF TokenInv, TokenType, CallIsRight, Asking, Token
<1>2. CASE ~StillExpired
  <2>1. cachedToken.exp > asking[c].since + Buffer /\ cachedToken.exp # 0
    BY <1>1, <1>2 DEF StillExpired, Expired
  <2>2. GoodSince(cachedToken, asking[c].since)
    BY <2>1 DEF GoodSince, NoToken
  <2> QED
    BY <1>1, <1>2, <2>2, GivenKeeps DEF LookAgain
<1>3. CASE StillExpired
  <2> DEFINE r == [asking[c] EXCEPT !.leg = "fetch"]
  <2>1. r \in Asking /\ r.leg = "fetch" /\ r.since = asking[c].since
    BY <1>1, AskingAtLeg DEF TokenLeg
  <2>2. /\ Ask(c, r) /\ refreshLock = NoOwner /\ refreshLock' = c
        /\ UNCHANGED <<clock, cachedToken, seedToken, hasExporter>>
    BY <1>3 DEF LookAgain
  <2> HIDE DEF r
  <2>3. Becomes(c, r)
    BY <2>1, <2>2, AskBecomes DEF TokenInv
  <2>4. TokenType'
    BY <2>2, <2>3 DEF TokenInv, TokenType, Becomes
  <2>5. \A d \in Caller : ~Fetching(asking[d])
    BY <2>2 DEF TokenInv, CallIsRight
  <2>6. CallIsRight(c)'
    BY <1>1, <1>3, <2>1, <2>2, <2>3
    DEF CallIsRight, Becomes, Fetching, StillExpired, Expired
  <2> QED
    BY <2>1, <2>2, <2>3, <2>4, <2>5, <2>6, CacheStays
<1> QED
  BY <1>2, <1>3

LEMMA MintTokenKeeps ==
  ASSUME TokenInv, NEW c \in Caller, MintToken(c)
  PROVE  TokenInv'
<1>1. PICK life \in Lifetimes :
        Ask(c, [asking[c] EXCEPT !.leg = "store",
                  !.token = [minted |-> clock, exp |-> clock + life]])
  BY DEF MintToken
<1> DEFINE token == [minted |-> clock, exp |-> clock + life]
           r == [asking[c] EXCEPT !.leg = "store", !.token = token]
<1>2. clock \in Nat \ {0} /\ life \in Nat /\ asking[c] \in Asking
  BY DEF TokenInv, TokenType
<1>3. /\ token \in Token /\ token.minted = clock
      /\ token.exp = clock + life /\ token # NoToken
  BY <1>2 DEF Token, NoToken
<1>4. /\ r \in Asking /\ r.leg = "store" /\ r.since = asking[c].since
      /\ r.token = token
  BY <1>2, <1>3 DEF Asking, TokenLeg
<1>5. Ask(c, r) /\ UNCHANGED <<clock, cachedToken, refreshLock, seedToken,
                               hasExporter>> /\ asking[c].leg = "fetch"
  BY <1>1 DEF MintToken
<1> HIDE DEF token, r
<1>6. Becomes(c, r)
  BY <1>4, <1>5, AskBecomes DEF TokenInv
<1>7. TokenType'
  BY <1>5, <1>6 DEF TokenInv, TokenType, Becomes
<1>8. \A d \in Caller :
        asking[d].since \in Nat /\ asking[d].since <= token.minted
  BY <1>3 DEF TokenInv, TokenType, CallIsRight, Asking
<1>9. GoodSince(token, r.since)
  <2>1. r.since \in Nat /\ r.since <= clock
    BY <1>3, <1>4, <1>8
  <2>2. token.exp > r.since + Buffer \/ token.exp <= clock + Buffer
    BY <1>2, <1>3, <2>1
  <2> QED
    BY <1>3, <2>2 DEF GoodSince
<1>10. CallIsRight(c)'
  BY <1>4, <1>5, <1>6, <1>9
  DEF TokenInv, CallIsRight, Becomes, Fetching, Expired, GoodSince
<1>11. \A d \in Caller \ {c} : Fetching(asking[d]) => refreshLock' = d
  BY <1>5 DEF TokenInv, CallIsRight
<1> QED
  BY <1>3, <1>4, <1>5, <1>6, <1>7, <1>8, <1>10, <1>11, CacheStays

\* The one step that changes the cache.
LEMMA StoreTokenKeeps ==
  ASSUME TokenInv, NEW c \in Caller, StoreToken(c)
  PROVE  TokenInv'
<1> DEFINE token == asking[c].token
           r == [asking[c] EXCEPT !.leg = "use", !.token = token]
<1>1. /\ asking[c] \in Asking /\ token \in Token /\ token.minted \in Nat
      /\ token.exp \in Nat
  BY DEF TokenInv, TokenType, Asking, Token
<1>2. /\ r \in Asking /\ r.leg = "use" /\ r.since = asking[c].since
      /\ r.token = token
  BY <1>1 DEF Asking, TokenLeg
<1>3. /\ Ask(c, r) /\ cachedToken' = token /\ asking[c].leg = "store"
      /\ UNCHANGED <<clock, seedToken, hasExporter>>
  BY DEF StoreToken, Given
<1>4. GoodSince(token, asking[c].since) /\ refreshLock = c
  BY <1>3 DEF TokenInv, CallIsRight, Fetching
<1> HIDE DEF token, r
<1>5. Becomes(c, r)
  BY <1>2, <1>3, AskBecomes DEF TokenInv
<1>6. TokenType'
  BY <1>1, <1>3, <1>5 DEF TokenInv, TokenType, Becomes
<1>7. CallIsRight(c)'
  BY <1>2, <1>3, <1>4, <1>5 DEF TokenInv, CallIsRight, Becomes, Fetching,
    GoodSince
<1>8. ASSUME NEW d \in Caller \ {c} PROVE CallIsRight(d)'
  <2>1. ~Fetching(asking[d]) /\ asking[d].since \in Nat
    BY <1>4, <1>8 DEF TokenInv, TokenType, CallIsRight, Asking
  <2>2. asking[d].leg = "take" => GoodSince(token, asking[d].since)
    <3> SUFFICES ASSUME asking[d].leg = "take"
                 PROVE  GoodSince(token, asking[d].since)
      OBVIOUS
    <3>1. asking[d].since <= token.minted /\ token # NoToken
      BY <1>3, <1>8 DEF TokenInv, YoungerThanTheGap, token
    <3>2. \/ token.exp > asking[d].since + Buffer
          \/ token.exp <= token.minted + Buffer
      BY <1>1, <2>1, <3>1
    <3> QED
      BY <3>1, <3>2 DEF GoodSince
  <2>3. CallIsRight(d)
    BY <1>8 DEF TokenInv
  <2> QED
    BY <1>3, <1>5, <1>8, <2>1, <2>2, <2>3
    DEF CallIsRight, Becomes, Fetching, GoodSince
<1>9. \A d \in Caller : asking'[d].leg # "store"
  BY <1>2, <1>4, <1>5 DEF TokenInv, CallIsRight, Fetching, Becomes
<1> QED
  BY <1>6, <1>7, <1>8, <1>9 DEF TokenInv, YoungerThanTheGap

LEMMA FetchFailsKeeps ==
  ASSUME TokenInv, NEW c \in Caller, FetchFails(c)
  PROVE  TokenInv'
<1> DEFINE r == IF asking[c].kind = "request" THEN Unasked
                ELSE [asking[c] EXCEPT !.leg = "use", !.token = NoToken,
                                       !.refused = TRUE]
<1>1. asking[c] \in Asking /\ asking[c].since <= clock /\ clock \in Nat
  BY DEF TokenInv, TokenType, CallIsRight
<1>2. /\ r \in Asking /\ r.leg \in {"idle", "use"} /\ r.since <= clock
      /\ r.leg = "use" => r.refused
  <2>1. CASE asking[c].kind = "request"
    BY <1>1, <2>1, UnaskedType
  <2>2. CASE asking[c].kind # "request"
    BY <1>1, <2>2, UnaskedType DEF Asking, TokenLeg
  <2> QED
    BY <2>1, <2>2
<1>3. /\ Ask(c, r) /\ Fetching(asking[c])
      /\ UNCHANGED <<clock, cachedToken, seedToken, hasExporter>>
  BY DEF FetchFails, Fetching
<1> HIDE DEF r
<1>4. Becomes(c, r)
  BY <1>2, <1>3, AskBecomes DEF TokenInv
<1>5. TokenType'
  BY <1>3, <1>4 DEF TokenInv, TokenType, Becomes
<1>6. CallIsRight(c)'
  BY <1>2, <1>4 DEF CallIsRight, Becomes, Fetching
<1>7. \A d \in Caller \ {c} : ~Fetching(asking[d])
  BY <1>3 DEF TokenInv, CallIsRight
<1> QED
  BY <1>2, <1>3, <1>4, <1>5, <1>6, <1>7, CacheStays

\* A thread that has used its token.
LEMMA DoneKeeps ==
  ASSUME TokenInv, NEW c \in Caller, Ask(c, Unasked), seedToken' \in Token,
         UNCHANGED <<clock, cachedToken, refreshLock>>
  PROVE  TokenInv'
<1>1. Becomes(c, Unasked)
  BY UnaskedType, AskBecomes DEF TokenInv
<1>2. TokenType' /\ 0 <= clock
  BY <1>1 DEF TokenInv, TokenType, Becomes
<1> QED
  BY <1>1, <1>2, UnaskedType, HarmlessKeeps

LEMMA BuildExporterKeeps ==
  ASSUME TokenInv, NEW c \in Caller, BuildExporter(c)
  PROVE  TokenInv'
<1>1. asking[c].token \in Token
  BY DEF TokenInv, TokenType, Asking
<1> QED
  BY <1>1, DoneKeeps DEF BuildExporter

LEMMA SendWithTokenKeeps ==
  ASSUME TokenInv, NEW c \in Caller, SendWithToken(c)
  PROVE  TokenInv'
<1>1. CASE Ask(c, Unasked)
  BY <1>1, DoneKeeps DEF SendWithToken, TokenInv, TokenType
<1>2. CASE Ask(c, [asking[c] EXCEPT !.resends = @ + 1])
  <2> DEFINE a == asking[c]
             r == [a EXCEPT !.resends = @ + 1]
  <2>1. a \in Asking /\ a.leg = "use" /\ CallIsRight(c)
    BY DEF SendWithToken, TokenInv, TokenType
  <2>2. /\ r \in Asking /\ r.leg = a.leg /\ r.since = a.since
        /\ r.token = a.token /\ r.refused = a.refused
    BY <2>1 DEF Asking
  <2>3. Ask(c, r) /\ UNCHANGED <<clock, cachedToken, refreshLock, seedToken,
                                 hasExporter>>
    BY <1>2 DEF SendWithToken
  <2> HIDE DEF r
  <2>4. Becomes(c, r)
    BY <2>2, <2>3, AskBecomes DEF TokenInv
  <2>5. TokenType'
    BY <2>3, <2>4 DEF TokenInv, TokenType, Becomes
  <2> QED
    BY <2>1, <2>2, <2>3, <2>4, <2>5, HarmlessKeeps DEF CallIsRight
<1> QED
  BY <1>1, <1>2 DEF SendWithToken

LEMMA TickKeeps ==
  ASSUME TokenInv, Tick
  PROVE  TokenInv'
<1>1. /\ clock \in Nat \ {0} /\ clock' = clock + 1
      /\ UNCHANGED <<cachedToken, refreshLock, asking, seedToken,
                     hasExporter>>
  BY DEF Tick, TokenInv, TokenType
<1>2. TokenType'
  BY <1>1 DEF TokenInv, TokenType
<1>3. Expired(cachedToken) => Expired(cachedToken)'
  BY <1>1 DEF TokenInv, TokenType, Token, Expired
<1>4. ASSUME NEW c \in Caller PROVE CallIsRight(c)'
  <2>1. asking[c].since \in Nat /\ CallIsRight(c)
    BY DEF TokenInv, TokenType, Asking
  <2>2. asking[c].since <= clock'
    BY <1>1, <2>1 DEF CallIsRight
  <2> QED
    BY <1>1, <1>3, <2>1, <2>2 DEF CallIsRight, GoodSince
<1>5. \A c, d \in Caller : YoungerThanTheGap(c, d)'
  BY <1>1 DEF TokenInv, YoungerThanTheGap
<1> QED
  BY <1>2, <1>4, <1>5 DEF TokenInv

-----------------------------------------------------------------------------
LEMMA TokenInitInv == TokenInit => TokenInv
<1> SUFFICES ASSUME TokenInit PROVE TokenInv
  OBVIOUS
<1>1. TokenType
  BY UnaskedType, SMT DEF TokenInit, TokenType
<1>2. \A c \in Caller : asking[c] = Unasked /\ clock = 1
  BY DEF TokenInit
<1>3. \A c \in Caller : CallIsRight(c)
  <2> SUFFICES ASSUME NEW c \in Caller PROVE CallIsRight(c)
    OBVIOUS
  <2>1. asking[c].leg = "idle" /\ asking[c].since = 0 /\ clock = 1
    BY <1>2, UnaskedType
  <2> QED
    BY <2>1 DEF CallIsRight, Fetching
<1>4. \A c, d \in Caller : YoungerThanTheGap(c, d)
  BY UnaskedType DEF TokenInit, YoungerThanTheGap
<1> QED
  BY <1>1, <1>3, <1>4 DEF TokenInv

LEMMA TokenNextInv == TokenInv /\ [TokenNext]_tokenVars => TokenInv'
<1> SUFFICES ASSUME TokenInv, [TokenNext]_tokenVars PROVE TokenInv'
  OBVIOUS
<1>1. CASE TokenNext
  BY <1>1, AskTokenKeeps, LookAtTokenKeeps, TakeTokenKeeps, LookAgainKeeps,
    MintTokenKeeps, StoreTokenKeeps, FetchFailsKeeps, BuildExporterKeeps,
    SendWithTokenKeeps, TickKeeps, Zenon DEF TokenNext
<1>2. CASE UNCHANGED tokenVars
  BY <1>2 DEF TokenInv, TokenType, CallIsRight, YoungerThanTheGap, Expired
<1> QED
  BY <1>1, <1>2

\* Every thread keeps the invariant of the shared token.
THEOREM TokenInvariant == TokenSpec => []TokenInv
BY TokenInitInv, TokenNextInv, PTL DEF TokenSpec

\* bearer_token fetches only while the cache has nothing to offer, one thread
\* at a time (credentials.py:37-42).
THEOREM OneFetchAtATime == TokenSpec => []FetchIsShared
<1>1. TokenInv => FetchIsShared
  BY DEF TokenInv, CallIsRight, Fetching, FetchIsShared
<1> QED
  BY <1>1, TokenInvariant, PTL

\* A token that goes out expired was held up for longer than the buffer, never
\* lived as long as the buffer, or is the seed of an exporter whose refresh
\* failed (credentials.py:37-42, auth_hooks.py:34-38).
THEOREM ExpiryIsExplained == TokenSpec => ExpiredTokensAreExplained
<1> DEFINE Explained ==
             \A c \in Caller :
               LET token == Carried(c)
               IN  SendWithToken(c) /\ token # NoToken /\ token.exp <= clock =>
                     \/ clock > asking[c].since + Buffer
                     \/ token.exp <= token.minted + Buffer
                     \/ asking[c].refused
<1>1. TokenInv => Explained
  <2> SUFFICES ASSUME TokenInv, NEW c \in Caller, SendWithToken(c),
                      Carried(c) # NoToken, Carried(c).exp <= clock,
                      ~asking[c].refused
               PROVE  \/ clock > asking[c].since + Buffer
                      \/ Carried(c).exp <= Carried(c).minted + Buffer
    OBVIOUS
  <2>1. asking[c].leg = "use" /\ asking[c] \in Asking /\ clock \in Nat
    BY DEF SendWithToken, TokenInv, TokenType
  <2>2. GoodSince(asking[c].token, asking[c].since)
    BY <2>1 DEF TokenInv, CallIsRight
  <2>3. Carried(c) = asking[c].token
    BY <2>2 DEF Carried, GoodSince
  <2>4. asking[c].since \in Nat /\ Carried(c).exp \in Nat
    BY <2>1, <2>3 DEF Asking, Token
  <2> QED
    BY <2>1, <2>2, <2>3, <2>4 DEF GoodSince
<1>2. TokenInv /\ [TokenNext]_tokenVars => [Explained]_tokenVars
  BY <1>1
<1> QED
  BY <1>2, TokenInvariant, PTL DEF TokenSpec, ExpiredTokensAreExplained

HIDE TokenAssumption
HIDE DEF tokenVars

-----------------------------------------------------------------------------
(***************************************************************************)
(* The life of an Observability instance, for any number of inits,         *)
(* shutdowns and steps that raise.                                         *)
(***************************************************************************)

USE TelemetryAssumption
USE DEF telemetryVars

Kinds == {"log", "trace"}
Closing == {"no", "detach", "log", "trace", "untrace"}

TelemetryType ==
  /\ inits \in 0 .. MaxInits
  /\ providers \in SUBSET Provider
  /\ held \in [Kinds -> 0 .. inits]
  /\ handler \in 0 .. inits /\ tracer \in 0 .. inits
  /\ hooks \in Nat /\ mishaps \in Nat
  /\ closing \in Closing /\ cutShort \in BOOLEAN
  /\ closed \in [Provider -> Nat]

\* A provider that is held was closed only by a shutdown() of it that raised,
\* and one that is not made yet never.
HeldAreOpen ==
  /\ \A p \in Provider : closed[p] > 1 => p \in troubled
  /\ \A p \in Provider :
       p[2] = held[p[1]] /\ closed[p] > 0 => p \in troubled
  /\ \A p \in Provider : inits < p[2] => closed[p] = 0

\* So is the tracer's, but for the step between the two of shutdown.
TracerUntilDropped ==
  closing # "untrace" /\ tracer # 0 /\ closed[<<"trace", tracer>>] > 0 =>
    <<"trace", tracer>> \in troubled

\* What exists is held, closed or an orphan; what is held has a hook to come,
\* the shutdown that runs still before it, or lost it to a raise.
NothingForgotten ==
  /\ \A p \in Provider : p \in providers /\ closed[p] = 0 =>
       p \in orphans \/ p[2] = held[p[1]]
  /\ \A h \in attached : <<"handler", h>> \in orphans \/ h = handler
  /\ closing = "no" =>
       \/ hooks > 0 \/ cutShort
       \/ handler = 0 /\ held["log"] = 0 /\ held["trace"] = 0
  /\ closing \in {"log", "trace", "untrace"} => handler = 0
  /\ closing \in {"trace", "untrace"} => held["log"] = 0
  /\ closing = "untrace" => held["trace"] = 0
  /\ 0 \notin attached

TelemetryInv ==
  /\ TelemetryType /\ HeldAreOpen /\ TracerUntilDropped /\ NothingForgotten

LEMMA ProviderParts ==
  /\ \A p \in Provider : /\ p[1] \in Kinds /\ p[2] \in 1 .. MaxInits
                         /\ p = <<p[1], p[2]>>
  /\ \A k \in Kinds, n \in 1 .. MaxInits :
       <<k, n>> \in Provider /\ <<k, n>>[1] = k /\ <<k, n>>[2] = n
BY DEF Provider, Kinds

\* The providers of the next init are new.
LEMMA NewProviders ==
  ASSUME TelemetryInv, inits < MaxInits
  PROVE  /\ ProvidersOf(inits + 1) \subseteq Provider
         /\ \A p \in Provider :
              p \in ProvidersOf(inits + 1) <=> p[2] = inits + 1
         /\ \A p \in ProvidersOf(inits + 1) : closed[p] = 0
<1>1. inits + 1 \in 1 .. MaxInits /\ inits < inits + 1
  BY DEF TelemetryInv, TelemetryType
<1>2. ProvidersOf(inits + 1) \subseteq Provider
  BY <1>1 DEF ProvidersOf, Provider
<1>3. \A p \in Provider : p \in ProvidersOf(inits + 1) <=> p[2] = inits + 1
  BY <1>1, ProviderParts DEF ProvidersOf, Kinds
<1> QED
  BY <1>1, <1>2, <1>3 DEF TelemetryInv, HeldAreOpen

LEMMA TelemetryInitInv == TelemetryInit => TelemetryInv
<1> SUFFICES ASSUME TelemetryInit PROVE TelemetryInv
  OBVIOUS
<1>1. closed \in [Provider -> Nat] /\ held \in [Kinds -> 0 .. inits]
  BY DEF TelemetryInit, Kinds
<1>2. providers \in SUBSET Provider /\ cutShort \in BOOLEAN
      /\ closing \in Closing
  BY Zenon DEF TelemetryInit, Closing
<1>3. inits \in 0 .. MaxInits /\ hooks \in Nat /\ mishaps \in Nat
      /\ handler \in 0 .. inits /\ tracer \in 0 .. inits
  BY DEF TelemetryInit
<1>4. TelemetryType
  BY <1>1, <1>2, <1>3 DEF TelemetryType
<1> QED
  BY <1>4, ProviderParts DEF TelemetryInit, TelemetryInv, HeldAreOpen,
    TracerUntilDropped, NothingForgotten, Kinds

-----------------------------------------------------------------------------
LEMMA InitFailsKeeps ==
  ASSUME TelemetryInv, InitFails
  PROVE  TelemetryInv'
<1>1. /\ inits < MaxInits /\ inits' = inits + 1 /\ mishaps' = mishaps + 1
      /\ UNCHANGED <<held, handler, tracer, attached, hooks, closing,
                     cutShort, closed, troubled>>
  BY DEF InitFails, Raises
<1>2. PICK left \in {{}, {<<"log", inits + 1>>}, ProvidersOf(inits + 1)} :
        providers' = providers \cup left /\ orphans' = orphans \cup left
  BY DEF InitFails
<1>3. left \subseteq Provider
  <2>1. left \subseteq ProvidersOf(inits + 1)
    BY <1>2 DEF ProvidersOf
  <2> QED
    BY <1>1, <2>1, NewProviders
<1>4. TelemetryType'
  BY <1>1, <1>2, <1>3 DEF TelemetryInv, TelemetryType
<1>5. HeldAreOpen' /\ TracerUntilDropped'
  BY <1>1, ProviderParts
  DEF TelemetryInv, TelemetryType, HeldAreOpen, TracerUntilDropped
<1>6. NothingForgotten'
  BY <1>1, <1>2 DEF TelemetryInv, NothingForgotten
<1> QED
  BY <1>4, <1>5, <1>6 DEF TelemetryInv

LEMMA InitTelemetryKeeps ==
  ASSUME TelemetryInv, InitTelemetry
  PROVE  TelemetryInv'
<1> DEFINE replaced == {<<"log", held["log"]>>, <<"trace", held["trace"]>>}
<1>1. /\ inits < MaxInits /\ inits' = inits + 1 /\ closing = "no"
      /\ providers' = providers \cup ProvidersOf(inits + 1)
      /\ held' = [k \in {"log", "trace"} |-> inits + 1]
      /\ hooks' = hooks + 1
      /\ UNCHANGED <<closing, cutShort, closed, troubled>>
  BY DEF InitTelemetry, Registered
<1>2. /\ replaced \subseteq orphans'
      /\ orphans \subseteq orphans'
      /\ \/ UNCHANGED <<handler, attached>>
         \/ /\ handler' = inits + 1 /\ attached' = attached \cup {inits + 1}
            /\ <<"handler", handler>> \in orphans'
      /\ tracer' \in {tracer, inits + 1}
      /\ mishaps' \in {mishaps, mishaps + 1}
  BY DEF InitTelemetry, Raises
<1> HIDE DEF replaced
<1>3. /\ inits \in Nat /\ inits + 1 \in 1 .. MaxInits
      /\ handler \in 0 .. inits /\ tracer \in 0 .. inits
  BY <1>1 DEF TelemetryInv, TelemetryType
<1>4. TelemetryType'
  <2>1. providers' \in SUBSET Provider
    BY <1>1, NewProviders DEF TelemetryInv, TelemetryType
  <2> QED
    BY <1>1, <1>2, <1>3, <2>1 DEF TelemetryInv, TelemetryType, Kinds
<1>5. \A p \in Provider : held'[p[1]] = inits + 1
  BY <1>1, ProviderParts DEF Kinds
<1>6. HeldAreOpen'
  BY <1>1, <1>3, <1>5, ProviderParts, NewProviders
  DEF TelemetryInv, HeldAreOpen
<1>7. TracerUntilDropped'
  <2>1. closed[<<"trace", inits + 1>>] = 0
    BY <1>1, NewProviders DEF ProvidersOf
  <2> QED
    BY <1>1, <1>2, <2>1 DEF TelemetryInv, TracerUntilDropped
<1>8. NothingForgotten'
  <2>1. ASSUME NEW p \in Provider, p \in providers', closed'[p] = 0
        PROVE  p \in orphans' \/ p[2] = held'[p[1]]
    <3>1. p[1] \in Kinds /\ p = <<p[1], p[2]>>
      BY ProviderParts
    <3>2. CASE p \in ProvidersOf(inits + 1)
      BY <1>1, <1>5, <3>2, NewProviders
    <3>3. CASE p \in providers /\ p \in orphans
      BY <1>2, <3>3
    <3>4. CASE p \in providers /\ p[2] = held[p[1]]
      <4>1. p \in replaced
        BY <3>1, <3>4 DEF replaced, Kinds
      <4> QED
        BY <1>2, <4>1
    <3> QED
      BY <1>1, <2>1, <3>2, <3>3, <3>4 DEF TelemetryInv, NothingForgotten
  <2>2. 0 \notin attached'
        /\ \A h \in attached' : <<"handler", h>> \in orphans' \/ h = handler'
    BY <1>1, <1>2, <1>3 DEF TelemetryInv, NothingForgotten
  <2>3. hooks' > 0 /\ closing' = "no"
    BY <1>1 DEF TelemetryInv, TelemetryType
  <2> QED
    BY <2>1, <2>2, <2>3 DEF NothingForgotten
<1> QED
  BY <1>4, <1>6, <1>7, <1>8 DEF TelemetryInv

\* The steps that close nothing.
LEMMA QuietStepsKeep ==
  ASSUME TelemetryInv,
         Shutdown \/ DetachHandler \/ DropTracer \/ ExitProcess \/ RunHook
  PROVE  TelemetryInv'
<1>1. UNCHANGED <<inits, providers, held, closed, troubled, orphans, mishaps>>
  BY DEF Shutdown, DetachHandler, DropTracer, ExitProcess, RunHook,
    KeepsProviders
<1>2. TelemetryType'
  <2>1. cutShort' \in BOOLEAN
    BY Zenon DEF TelemetryInv, TelemetryType, Shutdown, DetachHandler,
      DropTracer, ExitProcess, RunHook
  <2>2. /\ handler' \in {handler, 0} /\ tracer' \in {tracer, 0}
        /\ \/ hooks' = hooks
           \/ hooks > 0 /\ hooks' = hooks - 1
        /\ closing' \in Closing
    BY DEF TelemetryInv, TelemetryType, Closing, Shutdown, DetachHandler,
      DropTracer, ExitProcess, RunHook
  <2> QED
    BY <1>1, <2>1, <2>2 DEF TelemetryInv, TelemetryType
<1>3. HeldAreOpen'
  BY <1>1 DEF TelemetryInv, HeldAreOpen
<1>4. TracerUntilDropped'
  BY <1>1 DEF TelemetryInv, TracerUntilDropped, Shutdown, DetachHandler,
    DropTracer, ExitProcess, RunHook
<1>5. NothingForgotten'
  BY <1>1 DEF TelemetryInv, NothingForgotten, Shutdown, DetachHandler,
    DropTracer, ExitProcess, RunHook
<1> QED
  BY <1>2, <1>3, <1>4, <1>5 DEF TelemetryInv

\* One more closing of a provider.
LEMMA ClosedIs ==
  ASSUME TelemetryInv, NEW q \in Provider
  PROVE  /\ Closed(q) \in [Provider -> Nat]
         /\ Closed(q)[q] = closed[q] + 1
         /\ \A p \in Provider \ {q} : Closed(q)[p] = closed[p]
BY DEF TelemetryInv, TelemetryType, Closed

LEMMA CloseProviderKeeps ==
  ASSUME TelemetryInv, NEW kind \in Kinds, CloseProvider(kind)
  PROVE  TelemetryInv'
<1> DEFINE q == <<kind, held[kind]>>
<1>1. /\ closing = kind
      /\ UNCHANGED <<inits, providers, handler, tracer, attached, hooks,
                     orphans>>
      /\ After(kind) \in {"trace", "untrace"}
      /\ After(kind) = "untrace" => kind = "trace"
      /\ After(kind) = "trace" => kind = "log"
      /\ held[kind] \in 0 .. inits /\ inits \in Nat
  BY DEF CloseProvider, After, Kinds, TelemetryInv, TelemetryType
<1>2. CASE /\ held[kind] = 0 /\ closing' = After(kind)
           /\ UNCHANGED <<held, closed, troubled, cutShort, mishaps>>
  BY <1>1, <1>2 DEF TelemetryInv, TelemetryType, HeldAreOpen,
    TracerUntilDropped, NothingForgotten, Closing, Kinds
<1>3. ASSUME held[kind] # 0
      PROVE  /\ q \in Provider /\ q[1] = kind /\ q[2] = held[kind]
             /\ \A p \in Provider : p[1] = kind /\ p[2] = held[kind] => p = q
             /\ \A p \in Provider : p[1] \in Kinds /\ p[2] # 0
             /\ tracer # 0 => /\ <<"trace", tracer>> \in Provider
                              /\ <<"trace", tracer>>[1] = "trace"
  BY <1>1, <1>3, ProviderParts DEF TelemetryInv, TelemetryType, Kinds
<1>4. CASE /\ held[kind] # 0 /\ closing' = After(kind)
           /\ closed' = Closed(q) /\ held' = Cleared(kind)
           /\ UNCHANGED <<troubled, cutShort, mishaps>>
  <2> HIDE DEF q
  <2>1. /\ closed' \in [Provider -> Nat] /\ closed'[q] = closed[q] + 1
        /\ \A p \in Provider \ {q} : closed'[p] = closed[p]
        /\ closed[q] \in Nat /\ closed'[q] > 0
    BY <1>3, <1>4, ClosedIs DEF TelemetryInv, TelemetryType
  <2>2. /\ held' \in [Kinds -> 0 .. inits] /\ held'[kind] = 0
        /\ \A k \in Kinds \ {kind} : held'[k] = held[k]
    BY <1>1, <1>4 DEF TelemetryInv, TelemetryType, Cleared
  <2>3. TelemetryType'
    BY <1>1, <1>4, <2>1, <2>2 DEF TelemetryInv, TelemetryType, Closing
  <2>4. HeldAreOpen'
    <3>1. closed[q] > 0 => q \in troubled
      BY <1>3, <1>4 DEF TelemetryInv, HeldAreOpen
    <3> QED
      BY <1>1, <1>3, <1>4, <2>1, <2>2, <3>1 DEF TelemetryInv, HeldAreOpen
  <2>5. TracerUntilDropped'
    <3>1. CASE kind = "trace"
      BY <1>1, <1>4, <3>1 DEF TracerUntilDropped, After
    <3>2. CASE kind = "log"
      BY <1>1, <1>3, <1>4, <2>1, <3>2 DEF TelemetryInv, TracerUntilDropped
    <3> QED
      BY <3>1, <3>2 DEF Kinds
  <2>6. NothingForgotten'
    <3>1. ASSUME NEW p \in Provider, p \in providers', closed'[p] = 0
          PROVE  p \in orphans' \/ p[2] = held'[p[1]]
      <4>1. p # q /\ closed[p] = 0
        BY <2>1, <3>1
      <4>2. p \in orphans \/ p[2] = held[p[1]]
        BY <1>1, <3>1, <4>1 DEF TelemetryInv, NothingForgotten
      <4> QED
        BY <1>1, <1>3, <1>4, <2>2, <4>1, <4>2
    <3> QED
      BY <1>1, <1>4, <2>2, <3>1 DEF TelemetryInv, NothingForgotten, Kinds
  <2> QED
    BY <2>3, <2>4, <2>5, <2>6 DEF TelemetryInv
<1>5. CASE /\ held[kind] # 0 /\ closing' = "no" /\ cutShort' = TRUE /\ Raises
           /\ closed' \in {closed, Closed(q)} /\ UNCHANGED held
           /\ troubled' = troubled \cup {q}
  <2> HIDE DEF q
  <2>1. /\ closed' \in [Provider -> Nat]
        /\ closed'[q] \in {closed[q], closed[q] + 1}
        /\ \A p \in Provider \ {q} : closed'[p] = closed[p]
        /\ closed[q] \in Nat
    BY <1>3, <1>5, ClosedIs DEF TelemetryInv, TelemetryType
  <2>2. TelemetryType'
    BY <1>1, <1>5, <2>1 DEF TelemetryInv, TelemetryType, Closing, Raises
  <2>3. HeldAreOpen'
    BY <1>1, <1>3, <1>5, <2>1 DEF TelemetryInv, HeldAreOpen
  <2>4. TracerUntilDropped'
    BY <1>1, <1>3, <1>5, <2>1 DEF TelemetryInv, TracerUntilDropped, Kinds
  <2>5. NothingForgotten'
    BY <1>1, <1>3, <1>5, <2>1 DEF TelemetryInv, NothingForgotten
  <2> QED
    BY <2>2, <2>3, <2>4, <2>5 DEF TelemetryInv
<1> QED
  BY <1>2, <1>4, <1>5 DEF CloseProvider

LEMMA TelemetryNextInv ==
  TelemetryInv /\ [TelemetryNext]_telemetryVars => TelemetryInv'
<1> SUFFICES ASSUME TelemetryInv, [TelemetryNext]_telemetryVars
             PROVE  TelemetryInv'
  OBVIOUS
<1>1. CASE TelemetryNext
  BY <1>1, InitFailsKeeps, InitTelemetryKeeps, QuietStepsKeep,
    CloseProviderKeeps, Zenon DEF TelemetryNext, Kinds
<1>2. CASE UNCHANGED telemetryVars
  BY <1>2 DEF TelemetryInv, TelemetryType, HeldAreOpen, TracerUntilDropped,
    NothingForgotten
<1> QED
  BY <1>1, <1>2

\* Every init, shutdown and exit keeps the invariant.
THEOREM TelemetryInvariant == TelemetrySpec => []TelemetryInv
BY TelemetryInitInv, TelemetryNextInv, PTL DEF TelemetrySpec

\* A provider is closed a second time only after its own shutdown() raised, for
\* any number of inits, shutdowns, raises before or after the effect and exit
\* hooks (observability/bootstrap.py:328-344).
THEOREM NeverClosedTwice == TelemetrySpec => []ClosedAgainOnlyAfterARaise
<1>1. TelemetryInv => ClosedAgainOnlyAfterARaise
  BY DEF TelemetryInv, HeldAreOpen, ClosedAgainOnlyAfterARaise
<1> QED
  BY <1>1, TelemetryInvariant, PTL

\* Between shutdowns the tracer is that of a closed provider only where the
\* shutdown() of that provider raised (observability/bootstrap.py:328-344).
THEOREM TracersAreOpen == TelemetrySpec => []TracerIsOpen
<1>1. TelemetryInv => TracerIsOpen
  BY DEF TelemetryInv, TracerUntilDropped, TracerIsOpen
<1> QED
  BY <1>1, TelemetryInvariant, PTL

\* After an exit whose last shutdown got to its end, only what no reference
\* was left to is still open or attached (observability/bootstrap.py:225-344).
THEOREM ExitIsClean == TelemetrySpec => []ExitLeavesOnlyOrphans
<1>1. ASSUME TelemetryInv, Exited, ~cutShort
      PROVE  /\ \A p \in providers : closed[p] = 0 => p \in orphans
             /\ \A h \in attached : <<"handler", h>> \in orphans
  <2>1. handler = 0 /\ held["log"] = 0 /\ held["trace"] = 0
    BY <1>1 DEF TelemetryInv, TelemetryType, NothingForgotten, Exited
  <2>2. \A p \in providers : p \in Provider /\ held[p[1]] = 0 /\ p[2] # 0
    BY <1>1, <2>1, ProviderParts DEF Kinds, TelemetryInv, TelemetryType
  <2> QED
    BY <1>1, <2>1, <2>2 DEF TelemetryInv, NothingForgotten
<1>2. TelemetryInv => ExitLeavesOnlyOrphans
  BY <1>1 DEF ExitLeavesOnlyOrphans
<1> QED
  BY <1>2, TelemetryInvariant, PTL
==============================================================================
