----------------------------- MODULE TokenCache -----------------------------
(***************************************************************************)
(* The bearer token that every client of a process shares                  *)
(* (credentials.py), and the requests that carry it.                       *)
(*                                                                         *)
(* bearer_token looks at the cache, takes the refresh lock, looks again    *)
(* and fetches.  The cache is read once to decide and once more to return; *)
(* time passes between any two steps.  A delegate's request keeps the      *)
(* header it was built with over its resends; an openai client asks for    *)
(* the token at every request and sends it once; an exporter asks at every *)
(* export and, when the answer is None, sends the header it was built      *)
(* with.                                                                   *)
(***************************************************************************)
EXTENDS Naturals

CONSTANTS
  Caller,       \* threads
  Buffer,       \* refresh_buffer
  Lifetimes,    \* lifetimes the auth server may choose
  MaxTime, MaxTokenCalls, MaxAuthFails

TokenKinds == {"request", "build", "export"}
NoToken == [minted |-> 0, exp |-> 0]
NoOwner == "none"

ASSUME TokenAssumption ==
  Buffer \in Nat /\ Lifetimes \subseteq Nat /\ NoOwner \notin Caller

VARIABLES
  clock,
  cachedToken,  \* _cached_token
  refreshLock,  \* _refresh_lock
  asking,       \* each thread: what it asks the token for and how far it is
  seedToken,    \* the static header of the exporter; it is built once
  hasExporter,
  tokenCalls, authFails

tokenVars == <<clock, cachedToken, refreshLock, asking, seedToken,
               hasExporter, tokenCalls, authFails>>

Unasked == [leg |-> "idle", kind |-> "request", since |-> 0,
            token |-> NoToken, resends |-> 0, refused |-> FALSE]

TokenInit ==
  /\ clock = 1
  /\ cachedToken = NoToken /\ refreshLock = NoOwner
  /\ asking = [c \in Caller |-> Unasked]
  /\ seedToken = NoToken /\ hasExporter = FALSE
  /\ tokenCalls = 0 /\ authFails = 0

\* _is_token_expired: the buffer counts as expired, no token as well; mutant:
\* without the buffer.
ExpiredNow(token) == token.exp <= clock
Expired(token) == token.exp <= clock + Buffer

Ask(c, r) == asking' = [asking EXCEPT ![c] = r]
\* The token is there: what the thread asked it for goes on.
Given(c, token) == Ask(c, [asking[c] EXCEPT !.leg = "use", !.token = token])

AskToken(c, kind) ==
  /\ asking[c].leg = "idle"
  /\ tokenCalls < MaxTokenCalls /\ tokenCalls' = tokenCalls + 1
  /\ kind = "build" => ~hasExporter
  /\ kind = "export" => hasExporter
  /\ Ask(c, [Unasked EXCEPT !.leg = "look", !.kind = kind, !.since = clock])
  /\ UNCHANGED <<clock, cachedToken, refreshLock, seedToken, hasExporter,
                 authFails>>

LookAtToken(c) ==
  /\ asking[c].leg = "look"
  /\ Ask(c, [asking[c] EXCEPT
               !.leg = IF Expired(cachedToken) THEN "lock" ELSE "take"])
  /\ UNCHANGED <<clock, cachedToken, refreshLock, seedToken, hasExporter,
                 tokenCalls, authFails>>

TakeToken(c) ==
  /\ asking[c].leg = "take"
  /\ Given(c, cachedToken)
  /\ UNCHANGED <<clock, cachedToken, refreshLock, seedToken, hasExporter,
                 tokenCalls, authFails>>

\* Under the lock, the second look; mutant: there is none.
NoSecondLook == TRUE
StillExpired == Expired(cachedToken)

LookAgain(c) ==
  /\ asking[c].leg = "lock" /\ refreshLock = NoOwner
  /\ IF StillExpired
     THEN /\ Ask(c, [asking[c] EXCEPT !.leg = "fetch"])
          /\ refreshLock' = c
     ELSE Given(c, cachedToken) /\ UNCHANGED refreshLock
  /\ UNCHANGED <<clock, cachedToken, seedToken, hasExporter, tokenCalls,
                 authFails>>

\* _fetch_token: the server mints a token, and later it is cached.
MintToken(c) ==
  /\ asking[c].leg = "fetch"
  /\ \E life \in Lifetimes :
       Ask(c, [asking[c] EXCEPT !.leg = "store",
                 !.token = [minted |-> clock, exp |-> clock + life]])
  /\ UNCHANGED <<clock, cachedToken, refreshLock, seedToken, hasExporter,
                 tokenCalls, authFails>>

StoreToken(c) ==
  /\ asking[c].leg = "store"
  /\ cachedToken' = asking[c].token /\ refreshLock' = NoOwner
  /\ Given(c, asking[c].token)
  /\ UNCHANGED <<clock, seedToken, hasExporter, tokenCalls, authFails>>

\* The fetch raises: so does a request; _safe_token makes it None.
FetchFails(c) ==
  /\ asking[c].leg \in {"fetch", "store"}
  /\ authFails < MaxAuthFails /\ authFails' = authFails + 1
  /\ refreshLock' = NoOwner
  /\ Ask(c, IF asking[c].kind = "request" THEN Unasked
            ELSE [asking[c] EXCEPT !.leg = "use", !.token = NoToken,
                                   !.refused = TRUE])
  /\ UNCHANGED <<clock, cachedToken, seedToken, hasExporter, tokenCalls>>

\* build_headers: the seed of the exporter's static header.
BuildExporter(c) ==
  /\ asking[c].leg = "use" /\ asking[c].kind = "build"
  /\ seedToken' = asking[c].token /\ hasExporter' = TRUE
  /\ Ask(c, Unasked)
  /\ UNCHANGED <<clock, cachedToken, refreshLock, tokenCalls, authFails>>

\* What goes over the wire: the hook overwrites the seed only with a token.
Carried(c) == IF asking[c].token = NoToken THEN seedToken
              ELSE asking[c].token

\* A request is answered; or the connection fails, and a read is sent again
\* with the same header, twice at most.
SendWithToken(c) ==
  /\ asking[c].leg = "use" /\ asking[c].kind # "build"
  /\ \/ Ask(c, Unasked)
     \/ /\ asking[c].kind = "request" /\ asking[c].resends < 2
        /\ Ask(c, [asking[c] EXCEPT !.resends = @ + 1])
  /\ UNCHANGED <<clock, cachedToken, refreshLock, seedToken, hasExporter,
                 tokenCalls, authFails>>

Tick ==
  /\ clock < MaxTime /\ clock' = clock + 1
  /\ UNCHANGED <<cachedToken, refreshLock, asking, seedToken, hasExporter,
                 tokenCalls, authFails>>

TokenNext ==
  \/ \E c \in Caller :
       \/ \E kind \in TokenKinds : AskToken(c, kind)
       \/ LookAtToken(c) \/ TakeToken(c) \/ LookAgain(c) \/ MintToken(c)
       \/ StoreToken(c) \/ FetchFails(c) \/ BuildExporter(c)
       \/ SendWithToken(c)
  \/ Tick

TokenSpec == TokenInit /\ [][TokenNext]_tokenVars

----------------------------------------------------------------------------
\* Threads that find the token expired together share one fetch: while one
\* fetches, the cache holds nothing that the others could have used.
FetchIsShared ==
  \A c \in Caller :
    asking[c].leg \in {"fetch", "store"} =>
      /\ Expired(cachedToken)
      /\ \A d \in Caller \ {c} : asking[d].leg \notin {"fetch", "store"}

\* An expired token is sent only for one of three reasons: the call was held
\* up for longer than the buffer, the server's token never lived longer than
\* the buffer, or an exporter's refresh failed and its seed header went out.
ExpiredTokensAreExplained ==
  [][\A c \in Caller :
       LET token == Carried(c)
       IN  SendWithToken(c) /\ token # NoToken /\ token.exp <= clock =>
             \/ clock > asking[c].since + Buffer
             \/ token.exp <= token.minted + Buffer
             \/ asking[c].refused]_tokenVars
==============================================================================
