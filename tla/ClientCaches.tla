---------------------------- MODULE ClientCaches ----------------------------
(***************************************************************************)
(* AgencyClient.gateway() and AgencyClient.observability(): two caches     *)
(* with double-checked locking, used by several threads.                   *)
(*                                                                         *)
(* A thread looks without the lock, then takes the lock of the cache,      *)
(* looks again, builds and stores.  Building a gateway without a URL asks  *)
(* the control plane for it, which may raise at any point; the lock is     *)
(* released either way.                                                    *)
(***************************************************************************)
EXTENDS Naturals

CONSTANTS
  Thread, Org,
  MaxAsked  \* calls, at most

NoUrl == "none"
NoEnv == "none"
Urls == {NoUrl, "", "host", "host/"}
Environments == {NoEnv, "production", "test", "staging"}

\* The key of a gateway: its URL without trailing slashes, or its environment.
\* The empty URL has a key of its own.
ByUrl(org, url) == <<org, "url", IF url = "host/" THEN "host" ELSE url>>
ByEnvironment(org, env) ==
  <<org, "environment", IF env = NoEnv THEN "production" ELSE env>>
GatewayKey(org, url, env) ==
  IF url # NoUrl THEN ByUrl(org, url) ELSE ByEnvironment(org, env)

\* observability() has one instance, whatever its arguments.
Observability == <<"any", "observability", "any">>
Identity ==
  {GatewayKey(o, u, e) : o \in Org, u \in Urls, e \in Environments}
    \cup {Observability}

VARIABLES
  cache,      \* _gateway_clients and _observability, 0 when absent
  cacheLock,  \* _gateway_lock and _observability_lock: free or held
  wants,      \* the identity each thread asks for
  at,         \* and how far it is
  gave,       \* the instance it was given last, 0 when it raised
  made,       \* instances made so far
  askedFor    \* calls so far

cacheVars == <<cache, cacheLock, wants, at, gave, made, askedFor>>

Nothing == <<"none", "none", "none">>
LockOf(i) == IF i = Observability THEN "observability" ELSE "gateway"

CacheInit ==
  /\ cache = [i \in Identity |-> 0]
  /\ cacheLock = [l \in {"gateway", "observability"} |-> FALSE]
  /\ wants = [t \in Thread |-> Nothing]
  /\ at = [t \in Thread |-> "idle"]
  /\ gave = [t \in Thread |-> 0]
  /\ made = 0 /\ askedFor = 0

Go(t, leg) == at' = [at EXCEPT ![t] = leg]
Give(t, n) ==
  /\ gave' = [gave EXCEPT ![t] = n]
  /\ wants' = [wants EXCEPT ![t] = Nothing]
  /\ Go(t, "idle")
Hold(l, held) == cacheLock' = [cacheLock EXCEPT ![l] = held]

AskForInstance(t, i) ==
  /\ at[t] = "idle"
  /\ askedFor < MaxAsked /\ askedFor' = askedFor + 1
  /\ wants' = [wants EXCEPT ![t] = i]
  /\ Go(t, "look")
  /\ UNCHANGED <<cache, cacheLock, gave, made>>

\* A URL and an environment together are refused before the cache is read.
AskGateway(t) ==
  \E o \in Org, u \in Urls, e \in Environments :
    /\ u = NoUrl \/ e = NoEnv
    /\ AskForInstance(t, GatewayKey(o, u, e))

AskObservability(t) == AskForInstance(t, Observability)

LookUnlocked(t) ==
  LET i == wants[t]
  IN  /\ at[t] = "look"
      /\ IF cache[i] # 0 THEN Give(t, cache[i])
         ELSE Go(t, "lock") /\ UNCHANGED <<gave, wants>>
      /\ UNCHANGED <<cache, cacheLock, made, askedFor>>

Lock(t) ==
  /\ at[t] = "lock" /\ ~cacheLock[LockOf(wants[t])]
  /\ Hold(LockOf(wants[t]), TRUE)
  /\ Go(t, "locked")
  /\ UNCHANGED <<cache, wants, gave, made, askedFor>>

\* mutant: no second look.
AlwaysAbsent(i) == TRUE
StillAbsent(i) == cache[i] = 0

LookLocked(t) ==
  LET i == wants[t]
  IN  /\ at[t] = "locked"
      /\ IF StillAbsent(i)
         THEN Go(t, "build") /\ UNCHANGED <<cacheLock, gave, wants>>
         ELSE Give(t, cache[i]) /\ Hold(LockOf(i), FALSE)
      /\ UNCHANGED <<cache, made, askedFor>>

\* _discover_gateway_url knows two environments; it alone raises.  It is asked
\* for the empty URL too, which is no URL once the gateway is built.
Buildable(i) == i[3] # "staging"
Discovered(i) == i[2] = "environment" \/ i[3] = ""

BuildInstance(t) ==
  LET i == wants[t]
  IN  /\ at[t] = "build" /\ Buildable(i)
      /\ made' = made + 1
      /\ cache' = [cache EXCEPT ![i] = made + 1]
      /\ Give(t, made + 1) /\ Hold(LockOf(i), FALSE)
      /\ UNCHANGED askedFor

BuildRaises(t) ==
  /\ at[t] = "build" /\ Discovered(wants[t])
  /\ Give(t, 0) /\ Hold(LockOf(wants[t]), FALSE)
  /\ UNCHANGED <<cache, made, askedFor>>

CacheNext ==
  \E t \in Thread :
    \/ AskGateway(t) \/ AskObservability(t)
    \/ LookUnlocked(t) \/ Lock(t) \/ LookLocked(t)
    \/ BuildInstance(t) \/ BuildRaises(t)

CacheSpec == CacheInit /\ [][CacheNext]_cacheVars

----------------------------------------------------------------------------
Promise == INSTANCE GetOrBuild WITH instance <- cache, asked <- wants,
                                    answer <- gave

\* Every call of gateway() and observability() behaves as one atomic step:
\* an instance per identity, given to all who ask for it.
ImplementsGetOrBuild == Promise!BuildSpec
==============================================================================
