-------------------------- MODULE ClientOperations --------------------------
(***************************************************************************)
(* The operations of HomeAssistantClient (home_assistant/client.rs).       *)
(*                                                                         *)
(* An operation takes a permit or is refused, opens a metrics guard and    *)
(* then makes its requests one after the other: its plan.  A plan reads    *)
(* whatever authority it needs before the request it is about, and changes *)
(* Home Assistant, if at all, with its last request.  The deadline or the  *)
(* caller may end it at any point; a change that was sent may be carried   *)
(* out later.                                                              *)
(*                                                                         *)
(* Simplifications: what a read returns is in DeviceList and Listings;     *)
(* router discovery is in ThreadRouters and controls are in ServiceCalls;  *)
(* a read is one step, taken when Home Assistant answers it, since nothing *)
(* happens between that moment and its receipt but what can happen after.  *)
(* URLs too long for check_url do not arise: the arguments are bounded.    *)
(***************************************************************************)
EXTENDS Integers, Sequences, FiniteSets

CONSTANTS
    Callers,    \* invocations, one operation each
    Permits,    \* MAX_CONCURRENT_QUERIES
    Ops,        \* the operations that are called
    MaxChanges  \* bound on the changes others make in Home Assistant

VARIABLES
    exposed,   \* the entity asked for is exposed to Assist
    matter,    \* registry entries of the device asked for: "none", "one" (with a
               \* matter identifier), "other" (without), "two"
    configured,\* the component has its config entry
    free,      \* permits left
    inFlight,  \* the up-down counter of metrics guards
    op,        \* op[c]: what c does
    pc,        \* pc[c]: idle, running, waiting for the answer to its change, or over
    at,        \* at[c]: the request of its plan c is about to make
    late,      \* late[c]: the deadline of c has passed
    wire,      \* calls whose change is sent and not settled
    reply,     \* reply[c]: Home Assistant's answer to that change
    answer,    \* answer[c]: what c is answered
    recorded,  \* recorded[c]: the outcomes the metrics of c were given
    applied,   \* history: Home Assistant carried out the change of c
    valid,     \* history: during c its authority has been good
    changes    \* changes others have made

world == <<exposed, matter, configured>>
calls == <<op, pc, at, late, answer, recorded>>
vars == <<world, free, inFlight, calls, wire, reply, applied, valid, changes>>

-----------------------------------------------------------------------------
(* Plans *)

Exposure == <<"open", "exposure">>

ListEntities == Exposure \o <<"get">>
ListDevices == Exposure \o <<"get", "command", "command", "command">>
GetStates == Exposure \o <<"get", "get">>
GetHistory == Exposure \o <<"get">>
CameraSnapshot == Exposure \o <<"get", "complete">>
ListThreadNetworks == <<"open", "command">>
FixedWebsocketAck == <<"open", "change_socket">>
MatterDevices == <<"open", "command", "command">>
MatterDeviceQuery == <<"open", "registry", "command">>
InterviewMatterDevice == <<"open", "registry", "change_socket">>
UpsertConfig == <<"change_rest">>
GetConfig == <<"get">>
FixedWebsocketQuery == <<"open", "command">>
AutomationFromBlueprint == <<"open", "command", "change_rest">>
SetupSmarthomeMcp == <<"open", "entries", "change_rest">>
FixedRestAck == <<"change_accept">>

Plan ==
    [entity_list |-> ListEntities, device_list |-> ListDevices, state_get |-> GetStates,
     history_get |-> GetHistory, camera_snapshot |-> CameraSnapshot,
     network_list |-> ListThreadNetworks, set_preferred |-> FixedWebsocketAck,
     matter_list |-> MatterDevices, matter_query |-> MatterDeviceQuery,
     interview |-> InterviewMatterDevice, upsert |-> UpsertConfig,
     config_get |-> GetConfig, blueprint_get |-> FixedWebsocketQuery,
     from_blueprint |-> AutomationFromBlueprint, setup |-> SetupSmarthomeMcp,
     restart |-> FixedRestAck]

ASSUME ConstantsAssumption ==
    /\ Permits \in Nat \ {0} /\ MaxChanges \in Nat
    /\ Ops \subseteq DOMAIN Plan

Step(c) == Plan[op[c]][at[c]]
ChangeSteps == {"change_socket", "change_rest", "change_accept"}

EntityTargeted(c) == op[c] \in {"state_get", "history_get", "camera_snapshot"}
MatterTargeted(c) == op[c] \in {"matter_query", "interview"}

\* What must hold of Home Assistant for c to have its answer or its effect.
Authority(c, isExposed, device, isConfigured) ==
    CASE EntityTargeted(c) -> isExposed
      [] MatterTargeted(c) -> device = "one"
      [] op[c] = "setup"   -> isConfigured
      [] OTHER             -> TRUE

-----------------------------------------------------------------------------
(* Errors *)

\* websocket_json: what reading an answer from the socket may come to.
SocketErrors == {"upstream_unavailable", "response_too_large", "invalid_response"}

\* websocket_command: as well, an answer without success.
CommandErrors == SocketErrors \cup {"request_rejected"}

\* post_json_acceptance: the status of the response.
StatusErrors == {"unauthorized", "not_found", "capacity_exhausted", "request_rejected",
                 "upstream_unavailable"}

\* read_body and the decoding after it.
RestErrors == StatusErrors \cup {"response_too_large", "invalid_response"}

\* The ends of a config flow.
Flow == {"create_entry", "already_configured", "abort"}

Errors == RestErrors \cup {"not_allowed", "not_matter_device", "timeout"}

\* get_config: a missing configuration has its own code.
ErrorCode(c, e) == IF op[c] = "config_get" /\ e = "not_found" THEN "config_not_found" ELSE e

Answers == Errors \cup {"none", "ok", "config_not_found", "cancelled"}

\* request_outcome and metric_outcome.
Outcome(a) ==
    CASE a = "ok" -> "success"
      [] a = "config_not_found" -> "not_found"
      [] OTHER -> a

Labels == {Outcome(a) : a \in Answers}

TypeOK ==
    /\ exposed \in BOOLEAN
    /\ matter \in {"none", "one", "other", "two"}
    /\ configured \in BOOLEAN
    /\ free \in 0..Permits
    /\ inFlight \in Int
    /\ op \in [Callers -> Ops]
    /\ pc \in [Callers -> {"idle", "running", "waiting", "over"}]
    /\ at \in [Callers -> 1..6]
    /\ late \in [Callers -> BOOLEAN]
    /\ wire \subseteq Callers
    /\ reply \in [Callers -> Errors \cup Flow \cup {"none", "ok"}]
    /\ answer \in [Callers -> Answers]
    /\ recorded \in [Callers -> Seq(Labels)]
    /\ applied \in [Callers -> BOOLEAN]
    /\ valid \in [Callers -> BOOLEAN]
    /\ changes \in 0..MaxChanges

Admitted(c) == pc[c] \in {"running", "waiting"}

-----------------------------------------------------------------------------
(* The life of an operation *)

\* MetricsGuard::finish, also called by its drop.
Finish(c, a) ==
    /\ inFlight' = inFlight - 1
    /\ recorded' = [recorded EXCEPT ![c] = Append(@, Outcome(a))]

\* The timer and the connection of c are dropped.
Forget(c) == late' = [late EXCEPT ![c] = FALSE] /\ reply' = [reply EXCEPT ![c] = "none"]

\* Mutant of End: the permit is given back by hand and again by its drop.
EndFreesTwice(c, a) ==
    /\ pc' = [pc EXCEPT ![c] = "over"]
    /\ answer' = [answer EXCEPT ![c] = a]
    /\ free' = free + 2
    /\ Finish(c, a)
    /\ Forget(c)
    /\ UNCHANGED <<world, op, at, wire, applied, valid, changes>>

\* The result is recorded and the permit dropped, whichever way c ends.
End(c, a) ==
    /\ pc' = [pc EXCEPT ![c] = "over"]
    /\ answer' = [answer EXCEPT ![c] = a]
    /\ free' = free + 1
    /\ Finish(c, a)
    /\ Forget(c)
    /\ UNCHANGED <<world, op, at, wire, applied, valid, changes>>

\* The next request of the plan, or success after the last.
Advance(c) ==
    IF at[c] = Len(Plan[op[c]])
    THEN End(c, "ok")
    ELSE /\ at' = [at EXCEPT ![c] = @ + 1]
         /\ UNCHANGED <<world, free, inFlight, op, pc, late, answer, recorded, wire, reply,
                        applied, valid, changes>>

\* Mutant of Call: the guard is opened before the permit is sought.
CallGuardFirst(c) ==
    /\ pc[c] = "idle"
    /\ inFlight' = inFlight + 1
    /\ IF free = 0
       THEN /\ pc' = [pc EXCEPT ![c] = "over"]
            /\ answer' = [answer EXCEPT ![c] = "capacity_exhausted"]
            /\ UNCHANGED <<free, valid>>
       ELSE /\ pc' = [pc EXCEPT ![c] = "running"]
            /\ free' = free - 1
            /\ valid' = [valid EXCEPT ![c] = Authority(c, exposed, matter, configured)]
            /\ UNCHANGED answer
    /\ UNCHANGED <<world, op, at, late, recorded, wire, reply, applied, changes>>

\* admit, then MetricsGuard::new.
Call(c) ==
    /\ pc[c] = "idle"
    /\ IF free = 0
       THEN /\ pc' = [pc EXCEPT ![c] = "over"]
            /\ answer' = [answer EXCEPT ![c] = "capacity_exhausted"]
            /\ UNCHANGED <<free, inFlight, valid>>
       ELSE /\ pc' = [pc EXCEPT ![c] = "running"]
            /\ free' = free - 1
            /\ inFlight' = inFlight + 1
            /\ valid' = [valid EXCEPT ![c] = Authority(c, exposed, matter, configured)]
            /\ UNCHANGED answer
    /\ UNCHANGED <<world, op, at, late, recorded, wire, reply, applied, changes>>

\* c is about to make a request of this kind.
Makes(c, kind) == pc[c] = "running" /\ Step(c) = kind

\* open_websocket: connect, auth_required, auth, auth_ok.
OpenWebsocket(c) ==
    /\ Makes(c, "open")
    /\ Advance(c) \/ \E e \in SocketErrors \cup {"unauthorized"} : End(c, e)

\* Mutant of ExposedEntities: the list is read and not consulted.
ExposedEntitiesIgnored(c) ==
    /\ Makes(c, "exposure")
    /\ Advance(c) \/ \E e \in SocketErrors : End(c, e)

\* exposed_entities_on and, in the same step, authorize: any answer but a plain
\* success is invalid, and a plan that names an entity goes on only if it is exposed.
ExposedEntities(c) ==
    /\ Makes(c, "exposure")
    /\ \/ \E e \in SocketErrors : End(c, e)
       \/ IF EntityTargeted(c) /\ ~exposed THEN End(c, "not_allowed") ELSE Advance(c)

\* authorize_matter_device: exactly one entry, and it has a matter identifier.
AuthorizeMatterDevice(c) ==
    /\ Makes(c, "registry")
    /\ \/ \E e \in CommandErrors : End(c, e)
       \/ CASE matter \in {"none", "other"} -> End(c, "not_matter_device")
            [] matter = "two"               -> End(c, "invalid_response")
            [] OTHER                        -> Advance(c)

\* setup_smarthome_mcp: with an entry there is nothing left to do.
ConfigEntries(c) ==
    /\ Makes(c, "entries")
    /\ \/ \E e \in CommandErrors : End(c, e)
       \/ IF configured THEN End(c, "ok") ELSE Advance(c)

\* websocket_command for data.
WebsocketCommand(c) ==
    /\ Makes(c, "command")
    /\ Advance(c) \/ \E e \in CommandErrors : End(c, e)

\* get_json and get_image.
GetJson(c) ==
    /\ Makes(c, "get")
    /\ Advance(c) \/ \E e \in RestErrors : End(c, ErrorCode(c, e))

\* Mutant of Complete: the finished answer goes out however late it is.
CompleteLate(c) == Makes(c, "complete") /\ Advance(c)

\* camera_snapshot_with: after its completion it yields and looks at the clock again.
Complete(c) ==
    /\ Makes(c, "complete")
    /\ IF late[c] THEN End(c, "timeout") ELSE Advance(c)

\* The request that changes something leaves the process.
Send(c) ==
    /\ pc[c] = "running" /\ Step(c) \in ChangeSteps
    /\ pc' = [pc EXCEPT ![c] = "waiting"]
    /\ wire' = wire \cup {c}
    /\ UNCHANGED <<world, free, inFlight, op, at, late, answer, recorded, reply, applied,
                   valid, changes>>

\* Mutant of FlowAnswer: a flow that was aborted for whatever reason is done.
FlowAnswerAnyAbort(r) == IF r \in Flow THEN "ok" ELSE r

\* What setup_smarthome_mcp makes of the end of the config flow; the other changes
\* are acknowledged or not.
FlowAnswer(r) ==
    CASE r \in {"create_entry", "already_configured"} -> "ok"
      [] r = "abort" -> "request_rejected"
      [] OTHER -> r

\* The answer to that request, or the end of the connection.
Receive(c) ==
    /\ pc[c] = "waiting"
    /\ \/ reply[c] # "none" /\ End(c, FlowAnswer(reply[c]))
       \/ End(c, "upstream_unavailable")

DeadlinePasses(c) ==
    /\ Admitted(c) /\ ~late[c]
    /\ late' = [late EXCEPT ![c] = TRUE]
    /\ UNCHANGED <<world, free, inFlight, op, pc, at, answer, recorded, wire, reply,
                   applied, valid, changes>>

\* Mutant of Timeout: the server being slow is taken for its being full.
TimeoutAsCapacity(c) == Admitted(c) /\ late[c] /\ End(c, "capacity_exhausted")

\* Mutant of Timeout: the wait for the answer to a change is outside the timeout.
TimeoutReadsOnly(c) == pc[c] = "running" /\ late[c] /\ End(c, "timeout")

\* tokio::time::timeout: the operation is polled first, so it may still win.
Timeout(c) == Admitted(c) /\ late[c] /\ End(c, "timeout")

\* The future is dropped and its guards with it.
Cancel(c) == Admitted(c) /\ End(c, "cancelled")

-----------------------------------------------------------------------------
(* Home Assistant *)

Settle(c, r) ==
    /\ wire' = wire \ {c}
    /\ reply' = IF pc[c] = "waiting" THEN [reply EXCEPT ![c] = r] ELSE reply
    /\ UNCHANGED <<exposed, matter, free, inFlight, calls, changes>>

\* Who has seen its authority good so far.
Seen(isExposed, device, isConfigured) ==
    [c \in Callers |-> valid[c] \/ (Admitted(c) /\ Authority(c, isExposed, device, isConfigured))]

\* The errors that may be answered although the change was made.
AfterTheFact(kind) ==
    IF kind = "change_socket" THEN CommandErrors
    ELSE {"upstream_unavailable", "invalid_response", "response_too_large"}

\* Carried out.  A config flow makes the entry unless there is one.
Apply(c) ==
    /\ c \in wire
    /\ applied' = [applied EXCEPT ![c] = TRUE]
    /\ configured' = (configured \/ op[c] = "setup")
    /\ valid' = Seen(exposed, matter, configured')
    /\ \E r \in AfterTheFact(Step(c)) \cup
                {IF op[c] # "setup" THEN "ok"
                 ELSE IF configured THEN "already_configured" ELSE "create_entry"} :
          Settle(c, r)

\* Not carried out: a client error, a flow aborted for another reason, or never arrived.
Refuse(c) ==
    /\ c \in wire
    /\ \E e \in (IF op[c] = "setup" THEN {"abort"} ELSE {}) \cup
                CASE Step(c) = "change_socket" -> CommandErrors
                  [] Step(c) = "change_accept" -> StatusErrors
                  [] OTHER                     -> RestErrors :
          Settle(c, e)
    /\ UNCHANGED <<configured, applied, valid>>

\* Somebody changes exposure, the registry or the config entries.
Change ==
    /\ changes < MaxChanges /\ changes' = changes + 1
    /\ \/ exposed' = ~exposed /\ UNCHANGED <<matter, configured>>
       \/ matter' \in {"none", "one", "other", "two"} \ {matter} /\ UNCHANGED <<exposed, configured>>
       \/ configured' = ~configured /\ UNCHANGED <<exposed, matter>>
    /\ valid' = Seen(exposed', matter', configured')
    /\ UNCHANGED <<free, inFlight, calls, wire, reply, applied>>

-----------------------------------------------------------------------------

Init ==
    /\ exposed \in BOOLEAN /\ matter \in {"none", "one", "other", "two"}
    /\ configured \in BOOLEAN
    /\ free = Permits /\ inFlight = 0
    /\ op \in [Callers -> Ops]
    /\ pc = [c \in Callers |-> "idle"]
    /\ at = [c \in Callers |-> 1]
    /\ late = [c \in Callers |-> FALSE]
    /\ wire = {}
    /\ reply = [c \in Callers |-> "none"]
    /\ answer = [c \in Callers |-> "none"]
    /\ recorded = [c \in Callers |-> <<>>]
    /\ applied = [c \in Callers |-> FALSE]
    /\ valid = [c \in Callers |-> FALSE]
    /\ changes = 0

Request(c) ==
    \/ OpenWebsocket(c) \/ ExposedEntities(c) \/ AuthorizeMatterDevice(c)
    \/ ConfigEntries(c) \/ WebsocketCommand(c) \/ GetJson(c) \/ Complete(c)
    \/ Send(c) \/ Receive(c)

Next ==
    \/ \E c \in Callers :
          \/ Call(c) \/ Request(c) \/ DeadlinePasses(c) \/ Timeout(c) \/ Cancel(c)
          \/ Apply(c) \/ Refuse(c)
    \/ Change

Spec == Init /\ [][Next]_vars

\* Time passes, and a timer that has run out is acted upon.
FairSpec == Spec /\ \A c \in Callers : WF_vars(DeadlinePasses(c)) /\ WF_vars(Timeout(c))

-----------------------------------------------------------------------------
(* Properties *)

\* Whatever a call about an entity or a Matter device returns or does, it does on an
\* authority that was good at some moment of the call itself, although exposure and
\* registry may change at any time (authorize, authorize_matter_device).
FreshAuthority ==
    \A c \in Callers :
        EntityTargeted(c) \/ MatterTargeted(c)
            => (answer[c] = "ok" \/ applied[c] => valid[c])

\* An answer that denies the operation is final: its change was not made and is not
\* on its way.  Of the retryable errors this holds of capacity_exhausted alone.
DenialIsFinal ==
    \A c \in Callers :
        answer[c] \in {"not_allowed", "not_matter_device", "not_found", "unauthorized",
                      "capacity_exhausted"}
            => ~applied[c] /\ c \notin wire

\* Setups that race each other, or a user in the front end, agree: the one answered
\* that the component is configured has had an entry during its call.
SetupIsTrue == \A c \in Callers : op[c] = "setup" /\ answer[c] = "ok" => valid[c]

\* An answer that denies a command is final, and a setup that reports success found or
\* made the entry (execute_command, setup of the component).
AnswersAreTrue == TypeOK /\ DenialIsFinal /\ SetupIsTrue

\* The metrics are those of the operations: the counter is the number of operations
\* under way, and each that was admitted is recorded once, as what it was answered.
MetricsBalance ==
    /\ inFlight = Cardinality({c \in Callers : Admitted(c)})
    /\ \A c \in Callers :
          recorded[c] = IF pc[c] = "over" /\ recorded[c] # <<>>
                        THEN <<Outcome(answer[c])>> ELSE <<>>
    /\ \A c \in Callers :
          pc[c] = "over" /\ recorded[c] = <<>> => answer[c] = "capacity_exhausted"

\* No image leaves after the deadline, although the timeout itself lets an operation
\* that is ready win (the check at the end of camera_snapshot_with).
NoLateSnapshot ==
    [][\A c \in Callers :
          op[c] = "camera_snapshot" /\ answer[c] # "ok" /\ answer'[c] = "ok" => ~late[c]]_vars

\* Every operation that was admitted ends and returns its permit, whatever Home
\* Assistant does or fails to do.
CallsEnd == \A c \in Callers : Admitted(c) ~> pc[c] = "over"

=============================================================================
