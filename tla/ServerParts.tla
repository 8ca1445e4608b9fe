---------------------------- MODULE ServerParts ----------------------------
(***************************************************************************)
(* What the server does beside the operations of the client: one REST      *)
(* exchange (RestExchange), the discovery of Thread routers on a websocket *)
(* (ThreadRouters) and the process from start to exit (Lifecycle), with    *)
(* what makes each of them correct under one name.                         *)
(***************************************************************************)
EXTENDS Integers

CONSTANTS
    MaxResponse,                            \* RestExchange
    Keys, Data, MaxRouters, RouterChanges,  \* ThreadRouters
    Requests, MaxTicks                      \* Lifecycle

VARIABLES
    call, status, body, exchange, read, finished, outcomes, erred, returned, whole,
    network, listening, asked, inbox, routers, discovery, moved, final, peak,
    main, exports, shut, agent, watch, cleanup, requests, active, counted

Rest == INSTANCE RestExchange WITH pc <- exchange, answer <- returned
Thread == INSTANCE ThreadRouters WITH
    None <- 0, MaxChanges <- RouterChanges, pc <- discovery, changes <- moved
Life == INSTANCE Lifecycle WITH recorded <- counted

ASSUME ServerAssumption ==
    /\ Rest!ConstantsAssumption /\ Life!TicksAssumption
    /\ Thread!DataAssumption /\ Thread!LimitsAssumption

-----------------------------------------------------------------------------

\* Data that a REST call answers has been read to its end; no body above
\* MAX_RESPONSE_BYTES is held and none below it is refused; the span of a request has one
\* outcome, the one its caller is told of (http_client.rs).
RestIsTrue == Rest!BodyIsWhole /\ Rest!BodyBounded /\ Rest!SpanIsTrue

\* A discovery that succeeds returns the routers known when the subscription ended,
\* whatever events came, and MAX_THREAD_ITEMS is reported as exceeded exactly if it was
\* (discover_thread_routers).
DiscoveryIsTrue == Thread!TypeOK /\ Thread!DiscoveryIsExact /\ Thread!LimitIsExact

\* Whichever way main ends, every HTTP request is counted once and none is active when
\* the meter is shut down, the cleanup task has ended before profiling and telemetry are
\* shut down, and each provider is shut down once, the meter first (main.rs, app.rs).
ShutdownIsOrderly == Life!RequestsCounted /\ Life!CleanupStopsFirst /\ Life!ProvidersShutOnce

=============================================================================
