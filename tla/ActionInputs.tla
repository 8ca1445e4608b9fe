---------------------------- MODULE ActionInputs ----------------------------
(***************************************************************************)
(* The inputs of the actions and what is asked of Home Assistant for them  *)
(* (home_assistant/actions).                                               *)
(*                                                                         *)
(* A request has passed its JSON schema: the fields are there and have     *)
(* their types.  validate decides on the rest and gives the query or the   *)
(* control that the client runs; what it refuses is never sent.            *)
(*                                                                         *)
(* Entity identifiers are a domain and a number, malformed ones have the   *)
(* domain "none".  Temperatures are in hundredths of a degree, volumes in  *)
(* hundredths; a number that is not finite has the value NotFinite.  Times *)
(* are in ticks, TicksPerSecond of them to a second.  Texts (queries,      *)
(* names, YAML, revisions) and JSON are well formed or not.                *)
(***************************************************************************)
EXTENDS Integers, Sequences, SequencesExt, Functions, FiniteSets

CONSTANTS
    TicksPerSecond,   \* resolution of a time
    MaxRangeSeconds,  \* MAX_RANGE_SECONDS
    MaxEntities,      \* MAX_ENTITIES
    NotFinite,        \* stands for NaN and the infinities
    Requests          \* action and input of the requests

BoundsAssumption == {TicksPerSecond, MaxRangeSeconds, MaxEntities} \subseteq Nat \ {0}

VARIABLES request, pc, query

vars == <<request, pc, query>>

-----------------------------------------------------------------------------
(* Controls *)

S(domain, service) == [domain |-> domain, service |-> service]

\* ControlAction::name and ControlAction::service.
Service(action) ==
    CASE action = "scene.activate"          -> S("scene", "turn_on")
      [] action = "light.turn_on"           -> S("light", "turn_on")
      [] action = "light.turn_off"          -> S("light", "turn_off")
      [] action = "switch.turn_on"          -> S("switch", "turn_on")
      [] action = "switch.turn_off"         -> S("switch", "turn_off")
      [] action = "fan.turn_on"             -> S("fan", "turn_on")
      [] action = "fan.turn_off"            -> S("fan", "turn_off")
      [] action = "fan.set_percentage"      -> S("fan", "set_percentage")
      [] action = "cover.open"              -> S("cover", "open_cover")
      [] action = "cover.close"             -> S("cover", "close_cover")
      [] action = "cover.stop"              -> S("cover", "stop_cover")
      [] action = "cover.set_position"      -> S("cover", "set_cover_position")
      [] action = "climate.turn_on"         -> S("climate", "turn_on")
      [] action = "climate.turn_off"        -> S("climate", "turn_off")
      [] action = "climate.set_temperature" -> S("climate", "set_temperature")
      [] action = "media_player.turn_on"    -> S("media_player", "turn_on")
      [] action = "media_player.turn_off"   -> S("media_player", "turn_off")
      [] action = "media_player.play"       -> S("media_player", "media_play")
      [] action = "media_player.pause"      -> S("media_player", "media_pause")
      [] action = "media_player.stop"       -> S("media_player", "media_stop")
      [] action = "media_player.volume_set" -> S("media_player", "volume_set")
      [] action = "lock.lock"               -> S("lock", "lock")
      [] action = "lock.unlock"             -> S("lock", "unlock")

\* The action of each tool: its domain and what it is called there.
Controls ==
    [scene |-> {"scene.activate"},
     light |-> {"light.turn_on", "light.turn_off"},
     switch |-> {"switch.turn_on", "switch.turn_off"},
     fan |-> {"fan.turn_on", "fan.turn_off", "fan.set_percentage"},
     cover |-> {"cover.open", "cover.close", "cover.stop", "cover.set_position"},
     climate |-> {"climate.turn_on", "climate.turn_off", "climate.set_temperature"},
     media_player |-> {"media_player.turn_on", "media_player.turn_off", "media_player.play",
                       "media_player.pause", "media_player.stop", "media_player.volume_set"},
     lock |-> {"lock.lock", "lock.unlock"}]

ControlActions == UNION {Controls[d] : d \in DOMAIN Controls}

None == [name |-> "none", value |-> 0]

\* The parameter of an action; that of light.turn_on may be left out.
Parameter(action) ==
    CASE action = "light.turn_on"           -> "brightness_pct"
      [] action = "fan.set_percentage"      -> "percentage"
      [] action = "cover.set_position"      -> "position"
      [] action = "climate.set_temperature" -> "temperature"
      [] action = "media_player.volume_set" -> "volume_level"
      [] OTHER                              -> "none"

\* The bounds, each as its own validate has them.
InRange(p) ==
    CASE p.name = "none" -> TRUE
      [] p.name \in {"brightness_pct", "percentage", "position"} -> p.value <= 100
      [] p.name = "temperature" -> p.value # NotFinite /\ p.value \in -27315..100000
      [] p.name = "volume_level" -> p.value # NotFinite /\ p.value \in 0..100

ValidEntityId(e) == e.domain # "none"

Refuse == [kind |-> "invalid_arguments"]

\* Mutant of Control: any entity will do.
ControlAnyEntity(action, entity, parameter) ==
    IF ValidEntityId(entity) /\ InRange(parameter)
    THEN [kind |-> "control", service |-> Service(action), entity |-> entity, data |-> parameter]
    ELSE Refuse

\* validate of the inputs, Control::new and service_data.
Control(action, entity, parameter) ==
    IF /\ ValidEntityId(entity) /\ InRange(parameter)
       /\ entity.domain = Service(action).domain
    THEN [kind |-> "control", service |-> Service(action), entity |-> entity, data |-> parameter]
    ELSE Refuse

-----------------------------------------------------------------------------
(* Queries *)

\* The ways to put a list in order, and the list in order: entity_ids.sort().
Orders(ids) ==
    {p \in Bijection(DOMAIN ids, DOMAIN ids) :
        \A i, j \in DOMAIN ids : i < j => ids[p[i]] <= ids[p[j]]}
Sorted(ids) == LET p == CHOOSE p \in Orders(ids) : TRUE IN [i \in DOMAIN ids |-> ids[p[i]]]

\* Mutant of EntityIds: duplicates are looked for before the list is in order.
EntityIdsUnsorted(ids, max) ==
    IF /\ Len(ids) \in 1..max /\ \A i \in DOMAIN ids : ids[i] # 0
       /\ \A i \in 1..Len(ids) - 1 : ids[i] # ids[i + 1]
    THEN <<Sorted(ids)>> ELSE <<>>

\* GetStatesInput and GetHistoryInput: some identifiers, well formed (not 0), no two
\* alike, in order.
EntityIds(ids, max) ==
    IF /\ Len(ids) \in 1..max /\ \A i \in DOMAIN ids : ids[i] # 0
       /\ \A i \in 1..Len(ids) - 1 : Sorted(ids)[i] # Sorted(ids)[i + 1]
    THEN <<Sorted(ids)>> ELSE <<>>

GetStates(ids) ==
    IF EntityIds(ids, MaxEntities) = <<>> THEN Refuse
    ELSE [kind |-> "entities", ids |-> EntityIds(ids, MaxEntities)[1]]

\* num_seconds: whole seconds, towards zero.
NumSeconds(ticks) ==
    IF ticks < 0 THEN -((-ticks) \div TicksPerSecond) ELSE ticks \div TicksPerSecond

\* Mutant of GetHistory: only the length is limited.
GetHistoryAnyOrder(ids, start, end) ==
    LET duration == NumSeconds(end - start) IN
    IF EntityIds(ids, MaxEntities) = <<>> \/ duration > MaxRangeSeconds
    THEN Refuse
    ELSE [kind |-> "history", ids |-> EntityIds(ids, MaxEntities)[1], start |-> start, end |-> end]

\* GetHistoryInput: the end is the present unless it is given.
GetHistory(ids, start, end) ==
    LET duration == NumSeconds(end - start) IN
    IF EntityIds(ids, MaxEntities) = <<>> \/ duration <= 0 \/ duration > MaxRangeSeconds
    THEN Refuse
    ELSE [kind |-> "history", ids |-> EntityIds(ids, MaxEntities)[1], start |-> start, end |-> end]

\* Default and greatest limit of each listing; router.discover has seconds.
ListEntities == [default |-> 50, max |-> 100]
ListDevices == [default |-> 100, max |-> 100]
ListMatterDevices == [default |-> 50, max |-> 100]
ConfigList == [default |-> 50, max |-> 100]
BlueprintList == [default |-> 50, max |-> 100]
AutomationTraces == [default |-> 10, max |-> 50]
DiscoverRouters == [default |-> 3, max |-> 10]

Limits ==
    [entity_list |-> ListEntities, device_list |-> ListDevices, matter_list |-> ListMatterDevices,
     config_list |-> ConfigList, blueprint_list |-> BlueprintList, traces |-> AutomationTraces,
     router_discover |-> DiscoverRouters]

\* Mutant of Limit: traces with a smaller limit than the resource asks for.
LimitTraces(action, limit, wellFormed) ==
    LET n == IF limit = NotFinite THEN Limits[action].default ELSE limit IN
    IF n \in 1..(IF action = "traces" THEN 20 ELSE Limits[action].max) /\ wellFormed
    THEN [kind |-> "listing", limit |-> n] ELSE Refuse

\* validate of the listings; a limit that is left out is NotFinite.
Limit(action, limit, wellFormed) ==
    LET n == IF limit = NotFinite THEN Limits[action].default ELSE limit IN
    IF n \in 1..Limits[action].max /\ wellFormed THEN [kind |-> "listing", limit |-> n] ELSE Refuse

\* normalize_section: a section in the singular or in the plural, not both; at least
\* one of the three is given.
Validation(sections) ==
    IF (\E s \in DOMAIN sections : sections[s] = {"singular", "plural"} \/ "malformed" \in sections[s])
        \/ \A s \in DOMAIN sections : sections[s] = {}
    THEN Refuse
    ELSE [kind |-> "sections", sections |-> {s \in DOMAIN sections : sections[s] # {}}]

-----------------------------------------------------------------------------
(* Inputs of names and texts: each field is good, bad, or absent where it may be *)

Good(f, required) == \A x \in required : f[x] = "good"
NotBad(f, optional) == \A x \in optional : f[x] # "bad"

\* A configuration may carry its key as id, and no other.
ConfigUpsert(f) == Good(f, {"config_key", "config"}) /\ NotBad(f, {"id"})
ConfigGet(f) == Good(f, {"config_key"})
BlueprintGet(f) == Good(f, {"path"})
BlueprintSave(f) == Good(f, {"path", "yaml"})
AutomationFromBlueprint(f) ==
    Good(f, {"config_key", "path", "input"}) /\ NotBad(f, {"alias", "description"})
SetPreferredDataset(f) == Good(f, {"dataset_id"})
SetPreferredRouter(f) ==
    Good(f, {"dataset_id", "extended_address"}) /\ NotBad(f, {"border_agent_id"})
MatterDevice(f) == Good(f, {"device_id"})

\* Also of the right domain.
CameraSnapshot(f) == Good(f, {"entity_id"})

\* Nothing without confirmation.
Confirm(f) == Good(f, {"confirm"})
AutomationTrigger(f) == Good(f, {"confirm", "config_key", "expected_revision"})

Named(input, f) ==
    IF CASE input = "config_upsert" -> ConfigUpsert(f)
         [] input = "config_get" -> ConfigGet(f)
         [] input = "blueprint_get" -> BlueprintGet(f)
         [] input = "blueprint_save" -> BlueprintSave(f)
         [] input = "from_blueprint" -> AutomationFromBlueprint(f)
         [] input = "preferred_dataset" -> SetPreferredDataset(f)
         [] input = "preferred_router" -> SetPreferredRouter(f)
         [] input = "matter_device" -> MatterDevice(f)
         [] input = "camera" -> CameraSnapshot(f)
         [] input = "confirm" -> Confirm(f)
         [] input = "trigger" -> AutomationTrigger(f)
    THEN [kind |-> "named", fields |-> f] ELSE Refuse

-----------------------------------------------------------------------------

\* Whatever has passed a schema: the actions are those of the tool, the fields have
\* their types.
SchemaAssumption ==
    \A r \in Requests :
        /\ r.kind = "control" => r.action \in ControlActions
        /\ r.kind \in {"entities", "history"} => r.ids \in Seq(Nat)
        /\ r.kind = "history" => {r.start, r.end} \subseteq Int
        /\ r.kind = "listing" => r.action \in DOMAIN Limits

Kind(k) == pc = "received" /\ request.kind = k
Give(q) == pc' = "validated" /\ query' = q /\ UNCHANGED request

Validate ==
    \/ Kind("control") /\ Give(Control(request.action, request.entity, request.parameter))
    \/ Kind("entities") /\ Give(GetStates(request.ids))
    \/ Kind("history") /\ Give(GetHistory(request.ids, request.start, request.end))
    \/ Kind("listing") /\ Give(Limit(request.action, request.limit, request.wellFormed))
    \/ Kind("sections") /\ Give(Validation(request.sections))
    \/ Kind("named") /\ Give(Named(request.input, request.fields))

Init == request \in Requests /\ pc = "received" /\ query = Refuse

Next == Validate

Spec == Init /\ [][Next]_vars

-----------------------------------------------------------------------------
(* Properties *)

Accepted(kind) == pc = "validated" /\ query.kind = kind

\* What is done is what was asked: the service is one of the action's own domain, on an
\* entity of that domain, and no other action of the tools leads to the same service.
ControlIsTheAction ==
    Accepted("control") =>
        /\ request.action \in Controls[query.service.domain]
        /\ query.entity = request.entity /\ query.entity.domain = query.service.domain
        /\ \A other \in ControlActions : Service(other) = query.service => other = request.action
        /\ query.data = request.parameter

\* The lists that go to Home Assistant have each entity once, which the check for
\* duplicate groups in get_history counts on, and are the entities asked for.
EntitiesOnce ==
    Accepted("entities") \/ Accepted("history") =>
        /\ ToSet(query.ids) = ToSet(request.ids) /\ Len(query.ids) = Len(request.ids)
        /\ \A i, j \in DOMAIN query.ids : i < j => query.ids[i] < query.ids[j]

\* The requests that the server makes to itself pass: catalog_value asks each listing
\* for 100 entries, the traces of an automation are asked for as 50.
OwnRequestsPass ==
    pc = "validated" /\ request.kind = "listing" /\ request.wellFormed =>
        /\ request.limit = 100 /\ request.action \notin {"traces", "router_discover"} => Accepted("listing")
        /\ request.limit = 50 /\ request.action = "traces" => Accepted("listing")

\* Whatever the rounding to whole seconds, an interval that runs backwards is never asked
\* for, and one that is asked for exceeds the documented range, if it does, by less than a
\* second (GetHistoryInput::validate).
HistoryForward ==
    Accepted("history") =>
        query.end > query.start /\ query.end - query.start < TicksPerSecond * (MaxRangeSeconds + 1)

\* What docs/home-assistant/spec/get-history.md:3 says: "The interval must be positive and
\* no longer than 24 hours."  The code does not keep it: validate compares whole seconds,
\* so that it lets an interval of 24 hours and a fraction of a second pass.
IntervalWithinRange ==
    Accepted("history") =>
        query.end - query.start \in 1..TicksPerSecond * MaxRangeSeconds

=============================================================================
