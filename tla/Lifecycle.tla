------------------------------ MODULE Lifecycle ------------------------------
(***************************************************************************)
(* The server process from start to exit: main.rs with the request         *)
(* instrumentation of app.rs and the telemetry guards of observability.rs  *)
(* and profiling.rs.                                                       *)
(*                                                                         *)
(* main starts the parts in order, serves, and on SIGTERM or Ctrl-C stops  *)
(* accepting, waits for the requests under way, waits for the database     *)
(* cleanup task and then stops the profiler and the exporters.  Requests,  *)
(* the cleanup task and the profiler's stopping thread run beside it.  A   *)
(* clean-up of the database and the profiler may hang for ever.            *)
(***************************************************************************)
EXTENDS Naturals, Integers, Sequences, FiniteSets

CONSTANTS
    Requests,  \* HTTP requests other than the probes
    MaxTicks   \* bound on the rounds of the cleanup task

TicksAssumption == MaxTicks \in Nat

VARIABLES
    main,      \* how far main has come
    exports,   \* exports[p]: the guard holds a provider for p
    shut,      \* shut[p]: how often the provider of p was shut down
    agent,     \* the profiler
    watch,     \* the shutdown flag and how often it was sent
    cleanup,   \* the cleanup task, and the version of the flag it has seen
    requests,  \* requests[r]: where the request is
    active,    \* the active requests counter
    recorded   \* recorded[r]: the outcomes counted for the request

vars == <<main, exports, shut, agent, watch, cleanup, requests, active, recorded>>

serving == <<requests, active, recorded>>
telemetry == <<exports, shut, agent>>

-----------------------------------------------------------------------------

Providers == {"meter", "tracer"}

\* What main awaits or calls, in order; "listening" and after it all are up.
Stages == <<"telemetry_config", "observability", "profiling", "config", "services",
            "oauth", "router", "bind", "listening">>

Starting == {Stages[i] : i \in 1..(Len(Stages) - 1)}

\* A failed start drops what is up, the last first.
Stopping == {"await_cleanup", "stop_profiler", "await_profiler", "stop_meter", "stop_tracer"}

Outcomes == {"success", "error", "cancelled"}

Init ==
    /\ main = Stages[1]
    /\ exports = [p \in Providers |-> FALSE]
    /\ shut = [p \in Providers |-> 0]
    /\ agent = "off"
    /\ watch = [stop |-> FALSE, version |-> 0]
    /\ cleanup = [at |-> "none", seen |-> 0, rounds |-> 0]
    /\ requests = [r \in Requests |-> "idle"]
    /\ active = 0
    /\ recorded = [r \in Requests |-> <<>>]

-----------------------------------------------------------------------------
(* Start *)

\* Both providers are up or, without OTLP endpoints, none.
InitObservability == exports' \in {exports, [p \in Providers |-> TRUE]}

\* The profiler runs when it has a URL.
InitProfiling == agent' \in {"off", "running"}

\* One stage succeeds.
StartStage(i) ==
    /\ i \in 1..(Len(Stages) - 1) /\ main = Stages[i]
    /\ main' = Stages[i + 1]
    /\ IF main = "observability" THEN InitObservability ELSE UNCHANGED exports
    /\ IF main = "profiling" THEN InitProfiling ELSE UNCHANGED agent
    \* the cleanup task is spawned once the listener is bound
    /\ cleanup' = IF main = "bind" THEN [cleanup EXCEPT !.at = "top"] ELSE cleanup
    /\ UNCHANGED <<shut, watch, serving>>

\* The providers a guard still holds are taken and shut down.
ShutDown(ps) ==
    /\ shut' = [p \in Providers |-> IF p \in ps /\ exports[p] THEN shut[p] + 1 ELSE shut[p]]
    /\ exports' = [p \in Providers |-> exports[p] /\ p \notin ps]

\* A stage fails: main returns, and its guards are dropped: the profiler is
\* stopped by a thread of its own, the providers here.
StartFails ==
    /\ main \in Starting
    /\ main' = "exited"
    /\ agent' = IF agent = "running" THEN "stopping" ELSE agent
    /\ ShutDown(Providers)
    /\ UNCHANGED <<watch, cleanup, serving>>

-----------------------------------------------------------------------------
(* Requests *)

\* RequestMetricsGuard::finish counts once, whoever calls it.
Finish(g, outcome) ==
    IF g.finished THEN g
    ELSE [finished |-> TRUE, active |-> g.active - 1, recorded |-> Append(g.recorded, outcome)]

Guard(r) == [finished |-> FALSE, active |-> active, recorded |-> recorded[r]]

\* The guard is dropped with the future that holds it.
DropUnchecked(g) == [finished |-> TRUE, active |-> g.active - 1,
                     recorded |-> Append(g.recorded, "cancelled")]

Drop(g) == Finish(g, "cancelled")

Arrive(r) ==
    /\ main = "listening"
    /\ requests[r] = "idle"
    /\ requests' = [requests EXCEPT ![r] = "running"]
    /\ active' = active + 1
    /\ UNCHANGED <<main, telemetry, watch, cleanup, recorded>>

Over(r, g) ==
    /\ requests[r] = "running"
    /\ requests' = [requests EXCEPT ![r] = "over"]
    /\ active' = g.active
    /\ recorded' = [recorded EXCEPT ![r] = g.recorded]
    /\ UNCHANGED <<main, telemetry, watch, cleanup>>

\* The handler has answered: complete, and the guard goes out of scope.
Respond(r, outcome) == Over(r, Drop(Finish(Guard(r), outcome)))

\* The client is gone and the future is dropped where it awaits.
Disconnect(r) == Over(r, Drop(Guard(r)))

-----------------------------------------------------------------------------
(* The cleanup task *)

Changed == cleanup.seen # watch.version

\* The head of the loop.
LoopHead ==
    /\ cleanup.at = "top"
    /\ cleanup' = [cleanup EXCEPT !.at = IF watch.stop THEN "ended" ELSE "waiting"]
    /\ UNCHANGED <<main, telemetry, watch, serving>>

\* Shutdown is looked at while it waits for its turn and not while it cleans.
SeeShutdownWaiting ==
    /\ cleanup.at = "waiting" /\ Changed
    /\ cleanup' = [cleanup EXCEPT !.seen = watch.version,
                                  !.at = IF watch.stop THEN "ended" ELSE "top"]
    /\ UNCHANGED <<main, telemetry, watch, serving>>

\* Both selects are biased: a change of the flag goes first, and drops the
\* clean-up under way.
SeeShutdown ==
    /\ cleanup.at \in {"waiting", "cleaning"} /\ Changed
    /\ cleanup' = [cleanup EXCEPT !.seen = watch.version,
                                  !.at = IF watch.stop THEN "ended" ELSE "top"]
    /\ UNCHANGED <<main, telemetry, watch, serving>>

Tick ==
    /\ cleanup.at = "waiting" /\ ~Changed
    /\ cleanup.rounds < MaxTicks
    /\ cleanup' = [cleanup EXCEPT !.at = "cleaning", !.rounds = @ + 1]
    /\ UNCHANGED <<main, telemetry, watch, serving>>

Cleaned ==
    /\ cleanup.at = "cleaning" /\ ~Changed
    /\ cleanup' = [cleanup EXCEPT !.at = "top"]
    /\ UNCHANGED <<main, telemetry, watch, serving>>

-----------------------------------------------------------------------------
(* Shutdown *)

SendStop == watch' = [stop |-> TRUE, version |-> watch.version + 1]

\* No request is accepted any more.
Signal ==
    /\ main = "listening"
    /\ main' = "draining"
    /\ SendStop
    /\ UNCHANGED <<telemetry, cleanup, serving>>

\* serve returns when the last request is over.
Drained ==
    /\ main = "draining"
    /\ \A r \in Requests : requests[r] # "running"
    /\ main' = "await_cleanup"
    /\ SendStop
    /\ UNCHANGED <<telemetry, cleanup, serving>>

\* The task is told to stop and left to itself.
CleanupLeft ==
    /\ main = "await_cleanup"
    /\ main' = "stop_profiler"
    /\ UNCHANGED <<telemetry, watch, cleanup, serving>>

CleanupJoined ==
    /\ main = "await_cleanup"
    /\ cleanup.at = "ended"
    /\ main' = "stop_profiler"
    /\ UNCHANGED <<telemetry, watch, cleanup, serving>>

\* ProfilingGuard::shutdown: a thread stops the agent.  Without a thread to
\* be had the agent is dropped as it is.
StopProfiler ==
    /\ main = "stop_profiler"
    /\ \/ agent = "off" /\ main' = "stop_meter" /\ UNCHANGED agent
       \/ agent = "running" /\ main' = "await_profiler" /\ agent' = "stopping"
       \/ agent = "running" /\ main' = "stop_meter" /\ agent' = "dropped"
    /\ UNCHANGED <<exports, shut, watch, cleanup, serving>>

ProfilerStops ==
    /\ agent = "stopping"
    /\ main # "exited"
    /\ agent' \in {"stopped", "failed"}
    /\ UNCHANGED <<main, exports, shut, watch, cleanup, serving>>

\* recv_timeout: the thread's answer, or no longer than ten seconds.
ProfilerAwaited ==
    /\ main = "await_profiler"
    /\ agent \in {"stopped", "failed"}
    /\ main' = "stop_meter"
    /\ UNCHANGED <<telemetry, watch, cleanup, serving>>

ProfilerTimeout ==
    /\ main = "await_profiler"
    /\ agent = "stopping"
    /\ main' = "stop_meter"
    /\ UNCHANGED <<telemetry, watch, cleanup, serving>>

\* ObservabilityGuard::shutdown, the meter and then the tracer, each taken
\* out of the guard, so that the guard's drop finds neither.
StopMeterKept ==
    /\ main = "stop_meter"
    /\ main' = "stop_tracer"
    /\ shut' = [shut EXCEPT !["meter"] = IF exports["meter"] THEN @ + 1 ELSE @]
    /\ UNCHANGED <<exports, agent, watch, cleanup, serving>>

StopMeter ==
    /\ main = "stop_meter"
    /\ main' = "stop_tracer"
    /\ ShutDown({"meter"})
    /\ UNCHANGED <<agent, watch, cleanup, serving>>

\* The guard is dropped at the end of shutdown: what it still held goes too.
StopTracer ==
    /\ main = "stop_tracer"
    /\ main' = "exited"
    /\ ShutDown(Providers)
    /\ UNCHANGED <<agent, watch, cleanup, serving>>

Loop == LoopHead \/ SeeShutdown \/ Tick \/ Cleaned
Stop == Drained \/ CleanupJoined \/ StopProfiler \/ ProfilerAwaited \/ ProfilerTimeout
           \/ StopMeter \/ StopTracer
Serve == \E r \in Requests :
            Arrive(r) \/ Disconnect(r) \/ \E o \in {"success", "error"} : Respond(r, o)

Next ==
    \/ \E i \in 1..Len(Stages) : StartStage(i)
    \/ StartFails \/ Serve \/ Loop \/ Signal \/ ProfilerStops \/ Stop

Spec == Init /\ [][Next]_vars

\* main and the loop run when they can, and a handler ends by its deadline.
\* Nothing is assumed of the clean-up of the database or of the profiler.
FairSpec ==
    /\ Spec
    /\ WF_vars(Stop) /\ WF_vars(LoopHead) /\ WF_vars(SeeShutdown)
    /\ \A r \in Requests : WF_vars(\E o \in {"success", "error"} : Respond(r, o))

-----------------------------------------------------------------------------
(* Properties *)

\* Every request is counted once, with one outcome, and the active counter is
\* the requests under way; when the exporters are shut down nothing is left to
\* count (observability.md: guards "finalize HTTP ... operations as cancelled
\* and restore active counters").
RequestsCounted ==
    /\ active = Cardinality({r \in Requests : requests[r] = "running"})
    /\ \A r \in Requests : Len(recorded[r]) = (IF requests[r] = "over" THEN 1 ELSE 0)
    /\ shut["meter"] > 0 => active = 0

\* observability.md: "Cleanup stops before bounded Pyroscope and OpenTelemetry
\* shutdown", also when the signal comes in the middle of a clean-up.
CleanupStopsFirst ==
    main \in Stopping \ {"await_cleanup"} => cleanup.at = "ended"

\* Whichever way the process ends, a provider that was up is shut down exactly
\* once, and the tracer never before the meter.
ProvidersShutOnce ==
    /\ \A p \in Providers : shut[p] <= 1
    /\ main = "exited" => \A p \in Providers : ~exports[p] /\ shut["meter"] = shut["tracer"]
    /\ shut["tracer"] <= shut["meter"]

\* A signal ends the process although a clean-up of the database or the
\* profiler hangs.
ShutdownEnds == main = "draining" ~> main = "exited"

=============================================================================
