----------------------------- MODULE MCRequests -----------------------------
(***************************************************************************)
(* What an MCP request goes through, for TLC, one part of it at a time,    *)
(* chosen at the start: names to handlers (McpSurface), resource URIs      *)
(* (ResourceUri), inputs (ActionInputs) and what is made of the answers of *)
(* Home Assistant (DeviceList, in a quiet Home Assistant and in a smaller  *)
(* one that changes, and Listings).                                        *)
(***************************************************************************)
EXTENDS RequestParts, Sequences, FiniteSets

\* The same modules without requests, for the definitions from which requests are made.
UriForms == INSTANCE ResourceUri WITH
    Limit <- CatalogLimit, MaxChanges <- 0, Items <- {}, Requested <- {}
InputTables == INSTANCE ActionInputs WITH Requests <- {}

\* The names are in another order than the identifiers, and one device has only the
\* name that its user gave it.
MCDeviceNames == <<[name |-> 0, name_by_user |-> 5], [name |-> 7, name_by_user |-> 0]>>
MCAreaNames == <<8, 7>>

UpTo(n, S) == UNION {[1..m -> S] : m \in 0..n}

-----------------------------------------------------------------------------
(* Items and URIs *)

Item(c, id, rank) == [catalog |-> c, id |-> id, rank |-> rank]

\* Three of each of the catalogs that are read again, one more than the limit.
MCItems ==
    {Item("entities", <<"light.", "a">>, 1), Item("entities", <<"camera.", "b">>, 2),
     Item("devices", <<"light.", "a">>, 1), Item("devices", <<"camera.", "b">>, 2),
     Item("devices", <<"light.", "b">>, 3),
     Item("scenes", <<"traces">>, 1),
     Item("automations", <<"a">>, 1), Item("automations", <<"traces">>, 2),
     Item("automations", <<"b">>, 3),
     Item("blueprints", <<"a", "/", ".yaml">>, 1), Item("blueprints", <<"traces", "/", ".yaml">>, 2),
     Item("thread_networks", <<":", "/", ":">>, 1), Item("thread_networks", <<":">>, 2),
     Item("matter_devices", <<"a">>, 1), Item("matter_devices", <<"a", ":", "b">>, 2),
     Item("matter_devices", <<"b">>, 3)}

Raw(b) == UriForms!Raw(b)
Upper(b) == UriForms!Upper(b)

Tokens ==
    {Raw("a"), Raw("traces"), Raw("/"), Raw(":"), Raw(".yaml"), Upper("a"), Upper(":"),
     UriForms!Other(":"), Upper("/"), Upper("control"), UriForms!Broken}

Encodings == UpTo(2, Tokens)
Starts == {UriForms!CatalogPath(c) : c \in UriForms!PlainCatalogs \cup UriForms!NestedCatalogs}
              \cup {<<Raw("states")>>, <<Raw("cameras")>>, <<Raw("traces")>>}

MCRequested ==
    {s \o <<UriForms!Slash>> \o e : s \in Starts, e \in Encodings}
        \cup {<<Raw(c), UriForms!Slash>> \o e \o <<UriForms!Slash, Raw("traces")>> :
                 c \in {"automations", "scenes"}, e \in Encodings}

-----------------------------------------------------------------------------
(* Inputs of actions *)

MCNotFinite == 1000000

Values ==
    [none |-> {0}, brightness_pct |-> {0, 100, 101, 255}, percentage |-> {0, 100, 101, 255},
     position |-> {0, 100, 101, 255},
     temperature |-> {-27316, -27315, 0, 100000, 100001, MCNotFinite},
     volume_level |-> {-1, 0, 50, 100, 101, MCNotFinite}]

Entities == [domain : DOMAIN InputTables!Controls \cup {"none", "sensor"}, id : 1..2]

ControlRequests ==
    UNION {[kind : {"control"}, action : {a}, entity : Entities,
            parameter : [name : {InputTables!Parameter(a)}, value : Values[InputTables!Parameter(a)]]
                            \cup (IF a = "light.turn_on" THEN {InputTables!None} ELSE {})] :
              a \in InputTables!ControlActions}

Fields ==
    [config_upsert |-> [required |-> {"config_key", "config"}, optional |-> {"id"}],
     config_get |-> [required |-> {"config_key"}, optional |-> {}],
     blueprint_get |-> [required |-> {"path"}, optional |-> {}],
     blueprint_save |-> [required |-> {"path", "yaml"}, optional |-> {}],
     from_blueprint |-> [required |-> {"config_key", "path", "input"},
                         optional |-> {"alias", "description"}],
     preferred_dataset |-> [required |-> {"dataset_id"}, optional |-> {}],
     preferred_router |-> [required |-> {"dataset_id", "extended_address"},
                           optional |-> {"border_agent_id"}],
     matter_device |-> [required |-> {"device_id"}, optional |-> {}],
     camera |-> [required |-> {"entity_id"}, optional |-> {}],
     confirm |-> [required |-> {"confirm"}, optional |-> {}],
     trigger |-> [required |-> {"confirm", "config_key", "expected_revision"}, optional |-> {}]]

Filled(fields) ==
    {f \in [fields.required \cup fields.optional -> {"good", "bad", "absent"}] :
        \A x \in fields.required : f[x] # "absent"}

NamedRequests ==
    UNION {[kind : {"named"}, input : {i}, fields : Filled(Fields[i])] : i \in DOMAIN Fields}

MCInputs ==
    ControlRequests
        \cup [kind : {"entities"}, ids : UpTo(4, 0..3)]
        \cup [kind : {"history"}, ids : UpTo(2, 0..2), start : {10}, end : 0..20]
        \cup [kind : {"listing"}, action : DOMAIN InputTables!Limits, wellFormed : BOOLEAN,
              limit : {MCNotFinite, 0, 1, 10, 11, 50, 51, 100, 101}]
        \cup [kind : {"sections"}, sections : [{"triggers", "conditions", "actions"} ->
                                                   SUBSET {"singular", "plural", "malformed"}]]
        \cup NamedRequests

-----------------------------------------------------------------------------
(* Answers of Home Assistant *)

Entries == [id : 1..2, name : 0..2, ours : BOOLEAN, good : BOOLEAN]
Rows == [id : 1..4, name : {1}, ours : {TRUE}, good : BOOLEAN]
Object(s) == \A i, j \in DOMAIN s : i # j => s[i].id # s[j].id

Configs == [kind : {"config.list"}, raw : UpTo(3, Entries), limit : 1..2, needle : 0..1]
Matter == [kind : {"matter.device.list"}, limit : 1..2, needle : {0},
           raw : UpTo(3, [id : 1..3, name : {1}, ours : BOOLEAN, good : BOOLEAN])]
Traces == [kind : {"automation.traces"}, limit : 1..2, needle : {0},
           raw : UpTo(3, [id : {1}, name : 1..3, ours : BOOLEAN, good : BOOLEAN])]
Blueprints ==
    {q \in [kind : {"blueprint.list"}, limit : 1..2, needle : 0..1,
            raw : UpTo(3, [id : 1..3, name : 0..2, ours : BOOLEAN, good : BOOLEAN])] :
        Object(q.raw)}
Plainly == [kind : {"network.list", "device.diagnostics"}, raw : UpTo(3, Rows)]
Pings == {q \in [kind : {"device.ping"}, raw : UpTo(3, Rows)] : Object(q.raw)}
States == [kind : {"state.get"}, asked : {<<1, 2>>}, raw : [1..2 -> [id : 1..2, good : BOOLEAN]]]

Points == [entity : 0..2, good : BOOLEAN]
Histories ==
    [kind : {"history.get"}, asked : {{1, 2}, {1}}, raw : UpTo(3, UpTo(2, Points))]

Networks == [id : 1..2, preferred : BOOLEAN, pan : 1..2, name : 0..2]
Readiness ==
    {q \in [kind : {"readiness.get"}, raw : UpTo(2, Networks),
            routers : {r \in SUBSET [pan : 1..2, name : 0..1] : Cardinality(r) <= 2}] : Object(q.raw)}

Sections == {"triggers", "conditions", "actions"}
Verdicts == UNION {[s -> [valid : BOOLEAN, error : {"null", "text", "other"}]] : s \in SUBSET Sections}
Validations == [kind : {"automation.validate"}, asked : (SUBSET Sections) \ {{}}, raw : Verdicts]

MCAnswers ==
    Configs \cup Matter \cup Traces \cup Blueprints \cup Plainly \cup Pings \cup States
        \cup Histories \cup Readiness \cup Validations

-----------------------------------------------------------------------------

surfaceVars == <<phase, handler, started>>
deviceVars == <<exposed, registry, devices, areas, got, shown>>
uriVars == <<given, uri, target, seen>>
homeVars == <<present, changes>>

\* The variables that a part does not have stay off.
Off(x) == x = "off"

NoSurface == Off(phase) /\ Off(handler) /\ Off(started)
NoDevices == Off(exposed) /\ Off(registry) /\ Off(devices) /\ Off(areas) /\ Off(got) /\ Off(shown)
NoUri == Off(given) /\ Off(uri) /\ Off(target) /\ Off(seen)
NoHome == Off(present) /\ Off(changes)

\* The listing of entities does not look at devices and areas: in the quiet part one
\* choice of them will do for it.  In the busy part the entities
\* 1 and 2 change, with a device and an area; the third entity stays, alone.
Small(entries, known, places, visible) ==
    /\ entries[3] = [known |-> FALSE, device |-> 0, area |-> 0] /\ 3 \in visible
    /\ \A e \in 1..2 : entries[e].device <= 1 /\ entries[e].area <= 1
    /\ known[1].area <= 1 /\ known[2] = [known |-> FALSE, area |-> 0]
    /\ places \subseteq {1}

AllInit ==
    \/ /\ part = "surface" /\ Surface!Init
       /\ Off(pc) /\ Off(query) /\ NoDevices /\ NoUri /\ NoHome
    \/ /\ part = "uri" /\ Uri!Init
       /\ Off(request) /\ Off(query) /\ NoSurface /\ NoDevices
    \/ /\ part = "inputs" /\ Input!Init
       /\ Off(answer) /\ NoSurface /\ NoDevices /\ NoUri /\ NoHome
    \/ /\ part = "listings" /\ Listing!Init
       /\ Off(query) /\ NoSurface /\ NoDevices /\ NoUri /\ NoHome
    \/ /\ part \in {"quiet", "busy"} /\ Home!Init
       /\ part = "busy" => Small(registry, devices, areas, present)
       /\ Off(request) /\ NoSurface /\ NoUri

AllNext ==
    /\ UNCHANGED part
    /\ \/ /\ part = "surface" /\ Surface!Next
          /\ UNCHANGED <<pc, query, deviceVars, uriVars, homeVars>>
       \/ /\ part = "uri" /\ Uri!Next
          /\ UNCHANGED <<request, query, surfaceVars, deviceVars>>
       \/ /\ part = "inputs" /\ Input!Next
          /\ UNCHANGED <<answer, surfaceVars, deviceVars, uriVars, homeVars>>
       \/ /\ part = "listings" /\ Listing!Next
          /\ UNCHANGED <<query, surfaceVars, deviceVars, uriVars, homeVars>>
       \/ /\ part \in {"quiet", "busy"} /\ Home!Next
          /\ part = "quiet" =>
                /\ changes' = 0
                /\ query'.action = "entity.list" => areas = {} /\ \A d \in 1..2 : ~devices[d].known
          /\ part = "busy" => Small(registry', devices', areas', present' \cap exposed')
          /\ UNCHANGED <<request, surfaceVars, uriVars>>

allVars == <<part, request, pc, query, answer, surfaceVars, deviceVars, uriVars, homeVars>>

AllSpec == AllInit /\ [][AllNext]_allVars

\* Inputs only, for the claim about the interval of a history.
InputSpec == (part = "inputs" /\ AllInit) /\ [][AllNext]_allVars

=============================================================================
