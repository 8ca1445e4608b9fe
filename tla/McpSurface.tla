----------------------------- MODULE McpSurface -----------------------------
(***************************************************************************)
(* The public MCP surface (mcp.rs): which requests of a client reach which *)
(* operation.                                                              *)
(*                                                                         *)
(* SmarthomeMcp has six tools with an action per operation, kept private.  *)
(* ResourceFirstMcp, which clients see, has the tools query, execute,      *)
(* create and edit and the smarthome:// resources, and finds the private   *)
(* action of a request in its tables.                                      *)
(*                                                                         *)
(* An action name is a pair: the prefix ("thread", "matter" or none) that  *)
(* the public names carry and the private ones do not, and the rest.       *)
(* Inputs are valid or not; their bounds are in ActionInputs, their JSON   *)
(* schemas are left out.  What an operation then does is in                *)
(* ClientOperations, ServiceCalls, Authoring and DeployService.            *)
(***************************************************************************)
EXTENDS Naturals, FiniteSets

VARIABLES
    request,   \* what the client sends
    phase,     \* received, running, or answered
    handler,   \* the private tool and action that serve it
    started,   \* the operations that were started for it
    answer

vars == <<request, phase, handler, started, answer>>

-----------------------------------------------------------------------------
(* Private handlers, by tool *)

Handlers(tool, actions) == {[tool |-> tool, action |-> a] : a \in actions}

BlueprintReads == {"blueprint.list", "blueprint.get"}
BlueprintWrites == {"blueprint.save", "automation.from_blueprint"}
Lifecycle == {"smarthome_mcp.setup", "smarthome_mcp.deploy", "home_assistant.restart"}
ConfigReads == {"scene.list", "scene.get", "automation.list", "automation.get"}
ConfigWrites == {"scene.upsert", "automation.upsert"}
AutomationEvidence == {"automation.validate", "automation.traces"}
EntityReads == {"device.list", "entity.list", "state.get", "history.get", "camera.snapshot"}
ThreadReads == {"network.list", "router.discover", "readiness.get"}
ThreadCommands == {"network.set_preferred", "router.set_preferred"}
MatterReads == {"readiness.get", "device.list", "device.diagnostics", "device.ping"}
MatterCommands == {"device.interview"}
SceneLightSwitch ==
    {"scene.activate", "light.turn_on", "light.turn_off", "switch.turn_on", "switch.turn_off"}
FanCover ==
    {"fan.turn_on", "fan.turn_off", "fan.set_percentage",
     "cover.open", "cover.close", "cover.stop", "cover.set_position"}
ClimateMedia ==
    {"climate.turn_on", "climate.turn_off", "climate.set_temperature",
     "media_player.turn_on", "media_player.turn_off", "media_player.play",
     "media_player.pause", "media_player.stop", "media_player.volume_set"}
LocksAndTrigger == {"lock.lock", "lock.unlock", "automation.trigger"}

Controls == SceneLightSwitch \cup FanCover \cup ClimateMedia \cup LocksAndTrigger

Reads ==
    Handlers("home_assistant_query",
             BlueprintReads \cup ConfigReads \cup AutomationEvidence \cup EntityReads)
        \cup Handlers("thread_query", ThreadReads)
        \cup Handlers("matter_query", MatterReads)

Writers == Handlers("home_assistant_exec", BlueprintWrites \cup ConfigWrites)

Commands ==
    Handlers("home_assistant_exec", Lifecycle \cup Controls)
        \cup Handlers("thread_exec", ThreadCommands)
        \cup Handlers("matter_exec", MatterCommands)

AllHandlers == Reads \cup Writers \cup Commands

\* The handlers whose input has nothing to validate.
Unvalidated ==
    Handlers("home_assistant_exec", {"smarthome_mcp.setup"})
        \cup Handlers("thread_query", {"network.list", "readiness.get"})
        \cup Handlers("matter_query", {"readiness.get"})

-----------------------------------------------------------------------------
(* The public tables *)

\* A row: a private tool and action, the public tool and the public name.
Row(tool, a, name, prefix) == [tool |-> tool, action |-> a, name |-> name, public |-> <<prefix, a>>]

QueryRows ==
    {Row("home_assistant_query", a, "query", "") : a \in {"history.get", "automation.validate"}}
        \cup {Row("thread_query", a, "query", "thread") : a \in {"router.discover", "readiness.get"}}
        \cup {Row("matter_query", a, "query", "matter") :
                 a \in {"readiness.get", "device.diagnostics", "device.ping"}}

\* Mutant of ExecuteRows: a writer is left in the table.
ExecuteRowsUpsert ==
    {Row("home_assistant_exec", a, "execute", "") : a \in Lifecycle \cup Controls \cup ConfigWrites}
        \cup {Row("thread_exec", a, "execute", "thread") : a \in ThreadCommands}
        \cup {Row("matter_exec", a, "execute", "matter") : a \in MatterCommands}

ExecuteRows ==
    {Row("home_assistant_exec", a, "execute", "") : a \in Lifecycle \cup Controls}
        \cup {Row("thread_exec", a, "execute", "thread") : a \in ThreadCommands}
        \cup {Row("matter_exec", a, "execute", "matter") : a \in MatterCommands}

PublicActions == QueryRows \cup ExecuteRows

\* public_action: the rows for a private action; the first is taken.
PublicAction(tool, a) == {r \in PublicActions : r.tool = tool /\ r.action = a}

\* RESOURCE_CATALOGS: a catalog and the listing behind it.
ResourceCatalogs ==
    [entities |-> [tool |-> "home_assistant_query", action |-> "entity.list"],
     devices |-> [tool |-> "home_assistant_query", action |-> "device.list"],
     scenes |-> [tool |-> "home_assistant_query", action |-> "scene.list"],
     automations |-> [tool |-> "home_assistant_query", action |-> "automation.list"],
     blueprints |-> [tool |-> "home_assistant_query", action |-> "blueprint.list"],
     thread_networks |-> [tool |-> "thread_query", action |-> "network.list"],
     matter_devices |-> [tool |-> "matter_query", action |-> "device.list"]]

Tools == {"home_assistant_query", "home_assistant_exec", "thread_query", "thread_exec",
          "matter_query", "matter_exec"}

-----------------------------------------------------------------------------
(* Dispatch *)

\* The action as the private tool calls it: Thread and Matter tools want their prefix
\* and drop it, the others take the name as it is.
PrivateAction(tool, public) ==
    LET wanted == CASE tool \in {"thread_query", "thread_exec"} -> "thread"
                    [] tool \in {"matter_query", "matter_exec"} -> "matter"
                    [] OTHER -> ""
    IN IF public[1] = wanted THEN public[2] ELSE "none"

\* Mutant of Dispatch: the public tool that was called is not compared.
DispatchAnyTool(name, public) ==
    {[tool |-> t, action |-> PrivateAction(t, public)] :
        t \in {u \in Tools : \E r \in PublicAction(u, PrivateAction(u, public)) : r.public = public}}

\* Mutant of Dispatch: the prefix is dropped and not asked for again.
DispatchUnprefixed(name, public) ==
    {[tool |-> t, action |-> public[2]] :
        t \in {u \in Tools : \E r \in PublicAction(u, public[2]) : r.name = name}}

\* call_tool: the private tools whose row has both the public tool and the name.
Dispatch(name, public) ==
    {[tool |-> t, action |-> PrivateAction(t, public)] :
        t \in {u \in Tools : \E r \in PublicAction(u, PrivateAction(u, public)) :
                                r.name = name /\ r.public = public}}

\* list_tools, public_input_schema: the actions a public tool announces, taken from
\* what the private tools have.
Announced(name) ==
    UNION {{r.public : r \in {s \in PublicAction(h.tool, h.action) : s.name = name}} : h \in AllHandlers}

\* authoring::read, preflight and save: what create and edit may start of their own.
AuthoringReads == Handlers("home_assistant_query", {"scene.get", "automation.get", "blueprint.get",
                                                    "blueprint.list"})

\* dynamic_resource: what a URI under a catalog reads.  Scenes, automations and
\* blueprints are read by the authoring module, traces of an automation after its
\* membership in the catalog, as are devices, networks and Matter devices.
ItemReads(catalog) ==
    CASE catalog \in {"entities", "states"} -> Handlers("home_assistant_query", {"state.get"})
      [] catalog = "cameras" -> Handlers("home_assistant_query", {"camera.snapshot"})
      [] catalog \in {"scenes", "automations", "blueprints"} -> AuthoringReads
      [] catalog = "traces" ->
            {ResourceCatalogs["automations"]} \cup Handlers("home_assistant_query", {"automation.traces"})
      [] OTHER -> {ResourceCatalogs[catalog]}

-----------------------------------------------------------------------------
(* Requests *)

Names == {"query", "execute", "destroy"} \cup Tools
Actions == {"", "thread", "matter"} \X {h.action : h \in AllHandlers}

Requests ==
    [kind : {"tool"}, name : Names, action : Actions, valid : BOOLEAN]
        \cup [kind : {"author"}, name : {"create", "edit"}, valid : BOOLEAN]
        \cup [kind : {"catalog"}, catalog : DOMAIN ResourceCatalogs]
        \cup [kind : {"item"}, catalog : DOMAIN ResourceCatalogs \cup {"states", "cameras", "traces"}]

Answered(a) == phase' = "answered" /\ answer' = a

\* call_tool: one private handler, which validates its input first.
CallTool ==
    /\ phase = "received" /\ request.kind = "tool"
    /\ LET found == Dispatch(request.name, request.action) IN
       IF found = {}
       THEN Answered("invalid_params") /\ UNCHANGED <<handler, started>>
       ELSE /\ handler' \in found
            /\ IF request.valid \/ handler' \in Unvalidated
               THEN phase' = "running" /\ started' = started \cup {handler'} /\ UNCHANGED answer
               ELSE Answered("invalid_arguments") /\ UNCHANGED started
    /\ UNCHANGED request

\* author: its own reads, then one write by the native interface.
Author ==
    /\ phase = "received" /\ request.kind = "author"
    /\ IF request.valid
       THEN phase' = "running" /\ started' = started \cup AuthoringReads /\ UNCHANGED answer
       ELSE Answered("invalid_params") /\ UNCHANGED started
    /\ UNCHANGED <<request, handler>>

\* read_resource: the listing of a catalog, or what an item of it needs.
ReadResource ==
    /\ phase = "received" /\ request.kind \in {"catalog", "item"}
    /\ phase' = "running"
    /\ started' = started \cup
          (IF request.kind = "catalog" THEN {ResourceCatalogs[request.catalog]}
           ELSE ItemReads(request.catalog))
    /\ UNCHANGED <<request, handler, answer>>

\* The operation ends, with a result or a tool error.
Complete ==
    /\ phase = "running"
    /\ \E a \in {"ok", "error"} : Answered(a)
    /\ UNCHANGED <<request, handler, started>>

\* context.cancelled wins the select.
Cancelled ==
    /\ phase = "running"
    /\ Answered("cancelled")
    /\ UNCHANGED <<request, handler, started>>

Init ==
    /\ request \in Requests
    /\ phase = "received"
    /\ handler = [tool |-> "none", action |-> "none"]
    /\ started = {}
    /\ answer = "none"

Next == CallTool \/ Author \/ ReadResource \/ Complete \/ Cancelled

Spec == Init /\ [][Next]_vars

-----------------------------------------------------------------------------
(* Properties *)

\* The hints of the tools are true: query, every resource and the reading half of
\* authoring start reads only; execute starts commands only (list_tools).
HintsAreTrue ==
    IF request.kind = "tool" /\ request.name = "execute"
    THEN started \subseteq Commands
    ELSE started \subseteq Reads

\* The writers of configuration without a revision check stay private: no name and no
\* action of a tool call leads to them ("not public tools or compatibility aliases").
WritersArePrivate == started \cap Writers = {}

\* tools/list announces an action exactly if call_tool serves it, and serves it with
\* one handler that exists, whatever order the private tools are tried in.
AnnouncedIsServed ==
    request.kind = "tool" =>
        LET found == Dispatch(request.name, request.action) IN
        /\ found \subseteq AllHandlers /\ Cardinality(found) <= 1
        /\ (found # {}) = (request.action \in Announced(request.name))
        /\ phase = "answered" /\ answer = "invalid_params" => found = {}

=============================================================================
