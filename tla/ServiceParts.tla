---------------------------- MODULE ServiceParts ----------------------------
(***************************************************************************)
(* The operations of the client that make Home Assistant call a service    *)
(* (ServiceCalls), beside its other operations (ClientOperations), with    *)
(* what makes them correct.                                                *)
(***************************************************************************)
EXTENDS Naturals

CONSTANTS
    Invokers, CallPermits, Revisions, CallChanges

VARIABLES
    reachable, revision, matching, permits, service, expected, progress, dispatched,
    response, sent, verdict, ran, authorized, altered

Calls == INSTANCE ServiceCalls WITH
    Callers <- Invokers, Permits <- CallPermits, MaxChanges <- CallChanges,
    exposed <- reachable, matches <- matching, free <- permits, op <- service,
    pc <- progress, reply <- response, wire <- sent, outcome <- verdict,
    valid <- authorized, changes <- altered

ASSUME CallsAssumption == Calls!LimitsAssumption

-----------------------------------------------------------------------------

\* A trigger that is answered by anything but an acknowledgment or an unknown outcome
\* was not sent and never will be: calling again cannot run the automation twice,
\* whenever the deadline or the cancellation came (trigger_automation).
TriggerRetryIsSafe == Calls!TriggerRetryIsSafe

\* Nothing is carried out on an authority that was not good at some moment of the call
\* itself: exposure and revision are never taken from before it.  Between the check and
\* the request, which are two requests to Home Assistant, it may end.
AuthorityIsFresh == Calls!AuthorityIsFresh

\* A permit is out exactly while its operation is under way, however that ended:
\* cancelled and timed-out operations return theirs, and none is returned twice (admit).
PermitsBalance == Calls!PermitsBalance

=============================================================================
