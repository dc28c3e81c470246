------------------------------ MODULE Telemetry ------------------------------
(***************************************************************************)
(* The life of an Observability instance (observability/bootstrap.py):     *)
(* init builds providers and attaches a log handler, shutdown detaches and *)
(* closes them, the interpreter's exit runs every registered hook.  init   *)
(* may be called again, with or without a shutdown in between; every step  *)
(* of it may raise, and so may the shutdown() of a provider, before or     *)
(* after it took effect.                                                   *)
(***************************************************************************)
EXTENDS Naturals

CONSTANTS
  MaxInits,   \* calls of init, at most
  MaxMishaps  \* steps that raise, at most

ASSUME TelemetryAssumption == MaxInits \in Nat /\ MaxMishaps \in Nat

Provider == {"log", "trace"} \X (1 .. MaxInits)
ProvidersOf(n) == {<<"log", n>>, <<"trace", n>>}

VARIABLES
  inits,      \* calls of init so far; a provider is named by its call
  providers,  \* the providers that exist
  held,       \* _logger_provider and _tracer_provider, 0 when None
  handler,    \* _log_handler, 0 when None
  tracer,     \* _tracer, 0 when None
  attached,   \* handlers on the root logger
  hooks,      \* atexit hooks still to run
  closing,    \* where the running shutdown is, or "no"
  cutShort,   \* the last shutdown ended with a raise
  exiting,    \* the interpreter is running its hooks
  closed,     \* how often each provider was closed
  troubled,   \* the providers whose shutdown() raised
  orphans,    \* providers and handlers that a later init replaced, and the
              \* providers of an init that failed
  mishaps

telemetryVars == <<inits, providers, held, handler, tracer, attached, hooks,
  closing, cutShort, exiting, closed, troubled, orphans, mishaps>>

TelemetryInit ==
  /\ inits = 0 /\ handler = 0 /\ tracer = 0 /\ hooks = 0 /\ mishaps = 0
  /\ held = [k \in {"log", "trace"} |-> 0]
  /\ providers = {} /\ attached = {} /\ troubled = {} /\ orphans = {}
  /\ closing = "no" /\ cutShort = FALSE /\ exiting = FALSE
  /\ closed = [p \in Provider |-> 0]

Raises == mishaps < MaxMishaps /\ mishaps' = mishaps + 1

\* init, when the exporters or the providers fail: the providers made by then
\* stay open, without a reference.
InitFails ==
  /\ closing = "no" /\ ~exiting /\ inits < MaxInits /\ Raises
  /\ inits' = inits + 1
  /\ \E left \in {{}, {<<"log", inits + 1>>}, ProvidersOf(inits + 1)} :
       providers' = providers \cup left /\ orphans' = orphans \cup left
  /\ UNCHANGED <<held, handler, tracer, attached, hooks, closing, cutShort,
                 exiting, closed, troubled>>

\* atexit.register; mutant: forgotten.
NotRegistered == hooks
Registered == hooks + 1

\* init: the providers are kept and the hook is registered; then the
\* instrumentation may raise, before the handler is attached, or get_tracer,
\* after it.
InitTelemetry ==
  /\ closing = "no" /\ ~exiting /\ inits < MaxInits
  /\ inits' = inits + 1
  /\ providers' = providers \cup ProvidersOf(inits + 1)
  /\ held' = [k \in {"log", "trace"} |-> inits + 1]
  /\ hooks' = Registered
  /\ LET replaced == {<<"log", held["log"]>>, <<"trace", held["trace"]>>}
     IN \/ /\ Raises /\ UNCHANGED <<handler, attached, tracer>>
           /\ orphans' = orphans \cup replaced
        \/ /\ handler' = inits + 1 /\ attached' = attached \cup {inits + 1}
           /\ orphans' = orphans \cup replaced \cup {<<"handler", handler>>}
           /\ \/ tracer' = inits + 1 /\ UNCHANGED mishaps
              \/ Raises /\ UNCHANGED tracer
  /\ UNCHANGED <<closing, cutShort, exiting, closed, troubled>>

\* What the steps of a shutdown, or of the exit, leave alone.
KeepsProviders ==
  UNCHANGED <<inits, providers, closed, troubled, orphans, mishaps>>

Shutdown ==
  /\ closing = "no" /\ ~exiting
  /\ closing' = "detach" /\ KeepsProviders
  /\ UNCHANGED <<held, handler, tracer, attached, hooks, cutShort, exiting>>

\* The steps of shutdown, in the order of the code.
DetachHandler ==
  /\ closing = "detach" /\ closing' = "log"
  /\ attached' = attached \ {handler} /\ handler' = 0 /\ KeepsProviders
  /\ UNCHANGED <<held, tracer, hooks, cutShort, exiting>>

After(kind) == IF kind = "log" THEN "trace" ELSE "untrace"

\* The reference is cleared once its provider is closed; mutant: kept.
KeptReference(kind) == held
Cleared(kind) == [held EXCEPT ![kind] = 0]

Closed(p) == [closed EXCEPT ![p] = @ + 1]

\* A shutdown() that raises ends the whole shutdown with the reference kept,
\* whether the provider was closed by then or not.
CloseProvider(kind) ==
  /\ closing = kind
  /\ LET p == <<kind, held[kind]>>
     IN \/ /\ held[kind] = 0 /\ closing' = After(kind)
           /\ UNCHANGED <<held, closed, troubled, cutShort, mishaps>>
        \/ /\ held[kind] # 0 /\ closing' = After(kind)
           /\ closed' = Closed(p) /\ held' = Cleared(kind)
           /\ UNCHANGED <<troubled, cutShort, mishaps>>
        \/ /\ held[kind] # 0 /\ closing' = "no" /\ cutShort' = TRUE /\ Raises
           /\ closed' \in {closed, Closed(p)} /\ UNCHANGED held
           /\ troubled' = troubled \cup {p}
  /\ UNCHANGED <<inits, providers, handler, tracer, attached, hooks, exiting,
                 orphans>>

\* mutant: the tracer is kept.
KeepTracer ==
  /\ closing = "untrace" /\ closing' = "no"
  /\ cutShort' = FALSE /\ KeepsProviders
  /\ UNCHANGED <<held, handler, tracer, attached, hooks, exiting>>
DropTracer ==
  /\ closing = "untrace" /\ closing' = "no"
  /\ tracer' = 0 /\ cutShort' = FALSE /\ KeepsProviders
  /\ UNCHANGED <<held, handler, attached, hooks, exiting>>

\* The interpreter exits: every hook is a shutdown of its own.
ExitProcess ==
  /\ closing = "no" /\ ~exiting /\ exiting' = TRUE /\ KeepsProviders
  /\ UNCHANGED <<held, handler, tracer, attached, hooks, closing, cutShort>>

RunHook ==
  /\ exiting /\ closing = "no" /\ hooks > 0
  /\ hooks' = hooks - 1 /\ closing' = "detach" /\ KeepsProviders
  /\ UNCHANGED <<held, handler, tracer, attached, cutShort, exiting>>

TelemetryNext ==
  \/ InitFails \/ InitTelemetry \/ Shutdown \/ DetachHandler
  \/ \E kind \in {"log", "trace"} : CloseProvider(kind)
  \/ DropTracer \/ ExitProcess \/ RunHook

TelemetrySpec == TelemetryInit /\ [][TelemetryNext]_telemetryVars

----------------------------------------------------------------------------
Exited == exiting /\ closing = "no" /\ hooks = 0

\* A provider is closed again only where its own shutdown() raised: explicit
\* shutdowns, repeated inits, inits that fail, raises of the other provider
\* and exit hooks never close one twice.
ClosedAgainOnlyAfterARaise ==
  \A p \in Provider : closed[p] > 1 => p \in troubled

\* When the last shutdown of a process that has exited got to its end, what is
\* left open or attached is only what no reference was left to: earlier
\* shutdowns that raised, and inits that failed half-way, were made good.
ExitLeavesOnlyOrphans ==
  Exited /\ ~cutShort =>
    /\ \A p \in providers : closed[p] = 0 => p \in orphans
    /\ \A h \in attached : <<"handler", h>> \in orphans

\* Between shutdowns a span is opened on a closed provider only where the
\* shutdown() of that provider raised, which leaves its tracer in place.
TracerIsOpen ==
  closing = "no" /\ tracer # 0 /\ closed[<<"trace", tracer>>] > 0 =>
    <<"trace", tracer>> \in troubled
==============================================================================
