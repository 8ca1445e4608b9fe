----------------------------- MODULE DeviceList -----------------------------
(***************************************************************************)
(* list_entities and list_devices (home_assistant/client.rs).              *)
(*                                                                         *)
(* A listing of devices joins five reads of Home Assistant: exposure,      *)
(* states, entity registry, device registry, area registry.  Each is taken *)
(* at its own moment and Home Assistant may change in between, so that a   *)
(* reference in one need not lead anywhere in the next.                    *)
(*                                                                         *)
(* Identifiers and names are numbers, in the order the code sorts them; 0  *)
(* is None, which sorts first.  The search of an entity listing is the set *)
(* of entities it admits.  Failures of requests and the deadline are in    *)
(* ClientOperations; Home Assistant's answers are well formed here.        *)
(***************************************************************************)
EXTENDS Naturals, Sequences, SequencesExt, FiniteSets

CONSTANTS
    NumEntities, NumDevices, NumAreas,
    DeviceNames,   \* the name and the user's name of each device
    AreaNames,     \* the name of each area
    Limits,        \* the limits that are asked for
    MaxChanges     \* bound on the changes in Home Assistant

Entities == 1..NumEntities
Devices == 1..NumDevices
Areas == 1..NumAreas
None == 0

ConstantsAssumption ==
    /\ {NumEntities, NumDevices, NumAreas, MaxChanges} \subseteq Nat
    /\ DeviceNames \in [Devices -> [name : Nat, name_by_user : Nat]]
    /\ AreaNames \in [Areas -> Nat \ {0}]
    /\ Limits \subseteq Nat \ {0}

VARIABLES
    exposed,   \* entities exposed to Assist
    present,   \* entities that have a state
    registry,  \* registry[e]: device and area of e, if it is registered
    devices,   \* devices[d]: the area of d, if it is registered
    areas,     \* the areas that exist
    query,     \* what is asked
    pc,        \* the next read
    got,       \* what the reads have returned so far
    answer,    \* the groups that are returned
    changes,   \* changes before the call, then during it
    shown      \* history: the entities exposed at some moment of the call

world == <<exposed, present, registry, devices, areas>>
vars == <<world, query, pc, got, answer, changes, shown>>

Registered == [known : {TRUE}, device : Devices \cup {None}, area : Areas \cup {None}]
EntityEntries == Registered \cup {[known |-> FALSE, device |-> None, area |-> None]}
DeviceEntries == [known : {TRUE}, area : Areas \cup {None}] \cup {[known |-> FALSE, area |-> None]}
Queries ==
    [action : {"device.list"}, admits : {Entities}, limit : Limits]
        \cup [action : {"entity.list"}, admits : SUBSET Entities, limit : Limits]

Nothing ==
    [exposed |-> {}, entities |-> <<>>, truncated |-> FALSE,
     registry |-> <<>>, devices |-> <<>>]

-----------------------------------------------------------------------------
(* What is made of the reads *)

\* The states that are exposed and asked for, sorted, and cut at the limit.
Sorted(numbers) ==
    CHOOSE s \in [1..Cardinality(numbers) -> numbers] :
        \A i, j \in DOMAIN s : i < j => s[i] < s[j]
Cut(entities) == SubSeq(entities, 1, IF Len(entities) < query.limit THEN Len(entities) ELSE query.limit)

\* device_registry: the user's name, if there is one, goes before the device's.
DeviceName(d) ==
    IF DeviceNames[d].name_by_user # None
    THEN DeviceNames[d].name_by_user ELSE DeviceNames[d].name

\* group_devices: the device of e as far as the device registry still has it, the
\* area of e or else of its device, and the key of its group.
Found(e, entries, found) ==
    LET d == entries[e].device IN
    IF d = None THEN [known |-> FALSE, area |-> None] ELSE found[d]

AreaOf(e, entries, found) ==
    IF entries[e].area # None THEN entries[e].area ELSE Found(e, entries, found).area

\* Mutant of Key: a device is one group, wherever its entities are.
KeyDeviceOnly(e, entries, found) ==
    IF entries[e].device # None THEN <<"device", entries[e].device, None>>
    ELSE <<"standalone", e, None>>

Key(e, entries, found) ==
    IF entries[e].device # None
    THEN <<"device", entries[e].device, AreaOf(e, entries, found)>>
    ELSE <<"standalone", e, None>>

\* Groups go by area, name and first entity.
Before(g, h) ==
    \/ g.area < h.area
    \/ g.area = h.area /\ g.name < h.name
    \/ g.area = h.area /\ g.name = h.name /\ g.entities[1] < h.entities[1]

InOrder(groups) ==
    CHOOSE s \in [1..Cardinality(groups) -> groups] :
        \A i, j \in DOMAIN s : i < j => Before(s[i], s[j])

\* The entities of a group stay in their order.
Group(key, entities, entries, found, known) ==
    LET at == Sorted({i \in DOMAIN entities : Key(entities[i], entries, found) = key})
        members == [i \in DOMAIN at |-> entities[at[i]]]
        e == members[1]
        area == AreaOf(e, entries, found)
    IN [name |-> IF Found(e, entries, found).known THEN DeviceName(entries[e].device) ELSE None,
        area |-> IF area \in known THEN AreaNames[area] ELSE None,
        entities |-> members]

\* Mutant of GroupDevices: entities the registry does not know are passed over.
GroupDevicesRegistered(entities, entries, found, known) ==
    LET keys == {Key(e, entries, found) : e \in {f \in ToSet(entities) : entries[f].known}}
    IN InOrder({Group(k, entities, entries, found, known) : k \in keys})

GroupDevices(entities, entries, found, known) ==
    LET keys == {Key(e, entries, found) : e \in ToSet(entities)}
    IN InOrder({Group(k, entities, entries, found, known) : k \in keys})

-----------------------------------------------------------------------------
(* The call *)

Call ==
    /\ pc = "idle" /\ pc' = "exposure"
    /\ query' \in Queries
    /\ changes' = 0
    /\ shown' = exposed
    /\ got' = Nothing /\ answer' = <<>>
    /\ UNCHANGED world

\* exposed_entities_on
ReadExposure ==
    /\ pc = "exposure" /\ pc' = "states"
    /\ got' = [got EXCEPT !.exposed = exposed]
    /\ UNCHANGED <<world, query, answer, changes, shown>>

Finish(groups) == pc' = "answered" /\ answer' = groups

\* Mutant of ReadStates: all that has a state is listed.
ReadStatesUnfiltered ==
    LET visible == Sorted(present \cap query.admits) IN
    /\ pc = "states"
    /\ got' = [got EXCEPT !.entities = Cut(visible), !.truncated = Len(visible) > query.limit]
    /\ IF query.action = "entity.list" \/ visible = <<>>
       THEN Finish(<<>>)
       ELSE pc' = "entity_registry" /\ UNCHANGED answer
    /\ UNCHANGED <<world, query, changes, shown>>

\* api/states; an entity listing ends here, and so does a device listing of nothing.
ReadStates ==
    LET visible == Sorted(present \cap got.exposed \cap query.admits) IN
    /\ pc = "states"
    /\ got' = [got EXCEPT !.entities = Cut(visible), !.truncated = Len(visible) > query.limit]
    /\ IF query.action = "entity.list" \/ visible = <<>>
       THEN Finish(<<>>)
       ELSE pc' = "entity_registry" /\ UNCHANGED answer
    /\ UNCHANGED <<world, query, changes, shown>>

\* config/entity_registry/get_entries: an entry for each that is asked for, null for
\* those that are not registered.
GetEntries(entities) == [e \in entities |-> registry[e]]

\* entity_registry: the answer must be about just these entities.
ReadEntityRegistry ==
    LET entries == GetEntries(ToSet(got.entities)) IN
    /\ pc = "entity_registry"
    /\ IF DOMAIN entries = ToSet(got.entities)
       THEN pc' = "device_registry" /\ got' = [got EXCEPT !.registry = entries]
       ELSE pc' = "invalid_response" /\ UNCHANGED got
    /\ UNCHANGED <<world, query, answer, changes, shown>>

\* device_registry keeps the devices that were referred to.
ReadDeviceRegistry ==
    /\ pc = "device_registry" /\ pc' = "area_registry"
    /\ got' = [got EXCEPT !.devices =
                 [d \in {got.registry[e].device : e \in ToSet(got.entities)} \ {None} |-> devices[d]]]
    /\ UNCHANGED <<world, query, answer, changes, shown>>

\* Mutant of ReadAreaRegistry: a device that is gone makes the answer invalid.
ReadAreaRegistryStrict ==
    /\ pc = "area_registry"
    /\ IF \A d \in DOMAIN got.devices : got.devices[d].known
       THEN Finish(GroupDevices(got.entities, got.registry, got.devices, areas))
       ELSE pc' = "invalid_response" /\ UNCHANGED answer
    /\ UNCHANGED <<world, query, got, changes, shown>>

\* area_registry, which looks only for the areas that were referred to, and
\* group_devices, which uses up the entries one by one and wants none left.
ReadAreaRegistry ==
    /\ pc = "area_registry"
    /\ IF DOMAIN got.registry = ToSet(got.entities)
       THEN Finish(GroupDevices(got.entities, got.registry, got.devices, areas))
       ELSE pc' = "invalid_response" /\ UNCHANGED answer
    /\ UNCHANGED <<world, query, got, changes, shown>>

-----------------------------------------------------------------------------
(* Home Assistant *)

Toggle(set, x) == IF x \in set THEN set \ {x} ELSE set \cup {x}

Change ==
    /\ pc # "answered" /\ changes < MaxChanges /\ changes' = changes + 1
    /\ \/ /\ \E e \in Entities : exposed' = Toggle(exposed, e)
          /\ UNCHANGED <<present, registry, devices, areas>>
       \/ /\ \E e \in Entities : present' = Toggle(present, e)
          /\ UNCHANGED <<exposed, registry, devices, areas>>
       \/ /\ \E e \in Entities, r \in EntityEntries : registry' = [registry EXCEPT ![e] = r]
          /\ UNCHANGED <<exposed, present, devices, areas>>
       \/ /\ \E d \in Devices, r \in DeviceEntries : devices' = [devices EXCEPT ![d] = r]
          /\ UNCHANGED <<exposed, present, registry, areas>>
       \/ /\ \E a \in Areas : areas' = Toggle(areas, a)
          /\ UNCHANGED <<exposed, present, registry, devices>>
    /\ shown' = shown \cup exposed'
    /\ UNCHANGED <<query, pc, got, answer>>

-----------------------------------------------------------------------------

Init ==
    /\ exposed = Entities /\ present = Entities
    /\ registry \in [Entities -> EntityEntries]
    /\ devices \in [Devices -> DeviceEntries]
    /\ areas \in SUBSET Areas
    /\ query = [action |-> "device.list", admits |-> {}, limit |-> 1]
    /\ pc = "idle"
    /\ got = Nothing /\ answer = <<>>
    /\ changes = 0 /\ shown = {}

Next ==
    \/ Call \/ ReadExposure \/ ReadStates
    \/ ReadEntityRegistry \/ ReadDeviceRegistry \/ ReadAreaRegistry
    \/ Change

Spec == Init /\ [][Next]_vars

-----------------------------------------------------------------------------
(* Properties *)

Answered == pc = "answered"
Members(g) == ToSet(g.entities)

\* Whatever is listed was exposed at some moment of the call, and stays within the
\* limit, though exposure, states and registries change between the reads.
OnlyExposed ==
    Answered => ToSet(got.entities) \subseteq shown /\ Len(got.entities) <= query.limit

\* Each entity that passed the limit is in one group, once, whatever the registries
\* said when their turn came (group_devices).
EachOnce ==
    Answered /\ query.action = "device.list" =>
        /\ UNION {Members(answer[i]) : i \in DOMAIN answer} = ToSet(got.entities)
        /\ \A i, j \in DOMAIN answer : i # j => Members(answer[i]) \cap Members(answer[j]) = {}
        /\ \A i \in DOMAIN answer : IsInjective(answer[i].entities)

\* A device, an area or an entity that goes away between two reads does not make the
\* listing fail.
RacesNeverFail == pc # "invalid_response"

\* The reference, in terms of Home Assistant: two entities are together when they
\* belong to one device and are in the same place.
Place(e) ==
    IF registry[e].area # None THEN registry[e].area
    ELSE IF registry[e].device # None THEN devices[registry[e].device].area ELSE None

Together(e, f) ==
    e = f \/ (registry[e].device # None /\ registry[e].device = registry[f].device
              /\ Place(e) = Place(f))

\* When nothing changed during the call the answer is the listing of Home Assistant as
\* it is: the first entities up to the limit, truncated exactly if there are more,
\* grouped by device and place, each group under the names of both, in order.
ListingIsExact ==
    Answered /\ changes = 0 =>
        LET visible == {e \in exposed \cap present : e \in query.admits}
            listed == {e \in visible : Cardinality({f \in visible : f <= e}) <= query.limit}
        IN
        /\ ToSet(got.entities) = listed
        /\ got.truncated = (listed # visible)
        /\ query.action = "device.list" =>
              /\ {Members(answer[i]) : i \in DOMAIN answer}
                    = {{f \in listed : Together(e, f)} : e \in listed}
              /\ \A i \in DOMAIN answer : \A e \in Members(answer[i]) :
                    /\ answer[i].area = IF Place(e) \in areas THEN AreaNames[Place(e)] ELSE None
                    /\ answer[i].name =
                          IF registry[e].device # None /\ devices[registry[e].device].known
                          THEN DeviceName(registry[e].device) ELSE None
              /\ \A i, j \in DOMAIN answer : i < j => Before(answer[i], answer[j])

=============================================================================
