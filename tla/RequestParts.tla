---------------------------- MODULE RequestParts ----------------------------
(***************************************************************************)
(* What an MCP request goes through: from its name to a handler            *)
(* (McpSurface), from a resource URI to an item (ResourceUri), from its    *)
(* input to what Home Assistant is asked (ActionInputs), and from the      *)
(* answers of Home Assistant to a listing (DeviceList, Listings), with     *)
(* what makes each of them correct under one name.  They share the         *)
(* variables that they have in common; part says which of them a           *)
(* behaviour is about.                                                     *)
(***************************************************************************)
EXTENDS Integers

CONSTANTS
    MaxIdBytes, MaxEncoded, CatalogLimit, Items, Requested, ItemChanges, \* ResourceUri
    TicksPerSecond, MaxRangeSeconds, MaxEntities, NotFinite, Inputs,     \* ActionInputs
    NumEntities, NumDevices, NumAreas, DeviceNames, AreaNames,           \* DeviceList
    ListLimits, HomeChanges,
    MaxEntries, MaxPoints, RawAnswers                                    \* Listings

VARIABLES
    part, request, pc, query, answer, phase, handler, started,
    present, given, uri, target, seen, changes,
    exposed, registry, devices, areas, got, shown

Surface == INSTANCE McpSurface
Uri == INSTANCE ResourceUri WITH Limit <- CatalogLimit, MaxChanges <- ItemChanges
Input == INSTANCE ActionInputs WITH Requests <- Inputs
Home == INSTANCE DeviceList WITH Limits <- ListLimits, MaxChanges <- HomeChanges
Listing == INSTANCE Listings WITH Requests <- RawAnswers

ASSUME UriAssumption ==
    /\ Uri!LimitsAssumption /\ Uri!ItemsAssumption
    /\ Uri!RequestedAssumption /\ Uri!KeysAssumption

ASSUME InputsAssumption == Input!BoundsAssumption /\ Input!SchemaAssumption

ASSUME HomeAssumption == Home!ConstantsAssumption

ASSUME AnswersAssumption == Listing!AnswersAssumption

-----------------------------------------------------------------------------

\* tools/list announces an action exactly if call_tool serves it, with one handler; query,
\* the resources and the reading half of authoring start reads and execute starts
\* commands, as the hints of list_tools say; and no tool call reaches the writers that
\* do not check a revision.
SurfaceIsTrue ==
    part = "surface" =>
        Surface!AnnouncedIsServed /\ Surface!HintsAreTrue /\ Surface!WritersArePrivate

\* A URI that a catalog hands out names the item it was handed out for, in no second
\* spelling; a read returns the item of its URI, as of the time of the read, and what a
\* catalog lists can be read as long as nothing changes (item_uri, decode_item_id,
\* read_resource, catalog_value).
UrisAreTrue ==
    part = "uri" =>
        Uri!GivenIsUnderstood /\ Uri!OneUri /\ Uri!ReadsItsItem /\ Uri!ListedIsReadable

\* A control calls the service of its own action on an entity of its domain; Home
\* Assistant is asked for each entity of the caller once, and never for an interval that
\* runs backwards or exceeds the range by a second (it may by less: HistoryWithinRange);
\* and the listings that the server asks of itself are within the limits of the actions
\* (controls.rs, states, get_history.rs, mcp.rs).
InputsAreTrue ==
    part = "inputs" =>
        /\ Input!ControlIsTheAction /\ Input!EntitiesOnce
        /\ Input!HistoryForward /\ Input!OwnRequestsPass

\* What docs/home-assistant/spec/get-history.md:3 says of the interval of a history, "The
\* interval must be positive and no longer than 24 hours.", and get_history.rs:49 does not
\* keep.
HistoryWithinRange == part = "inputs" => Input!IntervalWithinRange

\* If Home Assistant stays as it is during the call the device listing is the one the
\* reference definition gives.  If it changes whatever is listed was exposed during the
\* call and is within the limit, each entity is in one group, once, and entries that go
\* away between the reads do not make the listing fail (device_list, group_devices).
DevicesAreTrue ==
    part \in {"quiet", "busy"} =>
        /\ Home!ListingIsExact
        /\ Home!OnlyExposed /\ Home!EachOnce /\ Home!RacesNeverFail

\* A page tells the total of what was wanted and whether it was cut, search before limit;
\* an answer that stands for a whole is refused if a part is malformed, foreign or double;
\* the history is the beginning of what Home Assistant gave, each point under its entity;
\* and readiness has no issues exactly if the preferred network has a router.
ListingsAreTrue ==
    part = "listings" =>
        /\ Listing!PageIsTrue /\ Listing!AllOrNothing
        /\ Listing!HistoryIsPrefix /\ Listing!ReadyIsReady

=============================================================================
