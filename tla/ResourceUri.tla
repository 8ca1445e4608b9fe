----------------------------- MODULE ResourceUri -----------------------------
(***************************************************************************)
(* The smarthome:// URIs of catalogs and items (mcp.rs): how a catalog     *)
(* names its items, and how a read finds the item of a URI.                *)
(*                                                                         *)
(* A listing and a read of one of its items are two requests, and Home     *)
(* Assistant may change in between; a read fetches the catalog again.      *)
(*                                                                         *)
(* An identifier is a sequence of bytes, and a URI after smarthome:// a    *)
(* sequence of tokens: a byte as it is, or escaped with upper-case or      *)
(* other hexadecimal digits.  A byte stands for its class; "traces", the   *)
(* names of catalogs and the domains of entities are words of plain bytes. *)
(* The bounds on the size of a text and on the segments of a blueprint     *)
(* path are left out.                                                      *)
(***************************************************************************)
EXTENDS Naturals, Sequences, SequencesExt, FiniteSets

CONSTANTS
    MaxIdBytes,     \* MAX_REGISTRY_ID_BYTES, the longest identifier that needs escapes
    MaxEncoded,     \* the longest encoded identifier
    Limit,          \* the entries of a catalog
    Items,          \* the items that may exist: catalog and identifier
    Requested,      \* the URIs that clients make up
    MaxChanges      \* bound on the changes in Home Assistant

PlainCatalogs == {"entities", "devices", "scenes", "automations", "blueprints"}
Nested == [thread_networks |-> <<"thread", "networks">>, matter_devices |-> <<"matter", "devices">>]
NestedCatalogs == DOMAIN Nested

\* The classes of bytes.
Plain == {"a", "b", "-", ".yaml", "light.", "camera.", "traces", "networks", "devices"}
Reserved == {":", "/"}
Control == {"control"}

Bytes == Plain \cup Reserved \cup Control

\* The words of paths, beside those that are classes of bytes as well.
Words == PlainCatalogs \cup {"thread", "matter", "states", "cameras"}

Raw(b) == [how |-> "raw", byte |-> b]
Upper(b) == [how |-> "upper", byte |-> b]
Other(b) == [how |-> "other", byte |-> b]
Broken == [how |-> "broken", byte |-> "a"]
Slash == Raw("/")

Tokens == [how : {"raw", "upper", "other", "broken"}, byte : Bytes \cup Words]

LimitsAssumption ==
    /\ {MaxIdBytes, MaxEncoded, Limit, MaxChanges} \subseteq Nat
    /\ 3 * MaxIdBytes <= MaxEncoded

\* No two items of a catalog have the same place in its order.
ItemsAssumption ==
    /\ IsFiniteSet(Items)
    /\ \A i \in Items :
          /\ i.catalog \in PlainCatalogs \cup NestedCatalogs /\ i.rank \in Nat
          /\ i.id \in Seq(Bytes \ Control) /\ Len(i.id) \in 1..MaxIdBytes
    /\ \A i, j \in Items : i.catalog = j.catalog /\ i.rank = j.rank => i = j

RequestedAssumption == Requested \subseteq Seq(Tokens)

VARIABLES
    present,   \* the items that exist
    given,     \* the URIs of the last listing, each with its item
    uri,       \* the URI that is read
    pc,        \* idle, parsed, or answered
    target,    \* the item that the URI names, and whether its traces are asked for
    answer,    \* refused, not_found, or the item that was read
    seen,      \* history: the items that existed during the read
    changes

vars == <<present, given, uri, pc, target, answer, seen, changes>>

-----------------------------------------------------------------------------
(* Encoding *)

\* item_uri: plain bytes as they are, all others escaped.
ItemUri(catalog, id) ==
    catalog \o <<Slash>> \o [i \in DOMAIN id |-> IF id[i] \in Plain THEN Raw(id[i]) ELSE Upper(id[i])]

Size(encoded) ==
    Len(encoded) + 2 * Cardinality({i \in DOMAIN encoded : encoded[i].how # "raw"})

\* Mutant of DecodeItemId: the limit is that of the identifier.
DecodeItemIdShort(encoded) ==
    IF Size(encoded) \in 1..MaxIdBytes
        /\ \A i \in DOMAIN encoded : encoded[i].how # "broken" /\ encoded[i].byte \notin Control
    THEN <<[i \in DOMAIN encoded |-> encoded[i].byte]>>
    ELSE <<>>

\* decode_item_id: the identifier, or none.
DecodeItemId(encoded) ==
    IF Size(encoded) \in 1..MaxEncoded
        /\ \A i \in DOMAIN encoded : encoded[i].how # "broken" /\ encoded[i].byte \notin Control
    THEN <<[i \in DOMAIN encoded |-> encoded[i].byte]>>
    ELSE <<>>

\* valid_config_key and validate_blueprint_path.
ValidKey(catalog, id) ==
    IF catalog = <<Raw("blueprints")>>
    THEN /\ Last(id) = ".yaml" /\ Head(id) # "/" /\ ":" \notin ToSet(id)
         /\ \A i \in 1..Len(id) - 1 : <<id[i], id[i + 1]>> # <<"/", "/">>
    ELSE ToSet(id) \subseteq {"a", "b", "traces", "networks", "devices"}

-----------------------------------------------------------------------------
(* Parsing *)

\* The catalog of an item as tokens.
CatalogPath(c) ==
    IF c \in NestedCatalogs THEN <<Raw(Nested[c][1]), Slash, Raw(Nested[c][2])>> ELSE <<Raw(c)>>

Authored == {<<Raw(c)>> : c \in {"scenes", "automations", "blueprints"}}
Listed == {CatalogPath(c) : c \in {"devices"} \cup NestedCatalogs}

\* What can be authored has a valid key (list_configs, valid_blueprint_response_path).
KeysAssumption ==
    \A i \in Items : CatalogPath(i.catalog) \in Authored => ValidKey(CatalogPath(i.catalog), i.id)

StartsWith(path, prefix) == Len(path) > Len(prefix) /\ SubSeq(path, 1, Len(prefix)) = prefix
After(path, prefix) == SubSeq(path, Len(prefix) + 1, Len(path))

\* The catalog, the encoded identifier and whether it is about traces.
Split(path) ==
    LET automations == <<Raw("automations"), Slash>>
        nested == {c \in NestedCatalogs : StartsWith(path, CatalogPath(c) \o <<Slash>>)}
        slashes == {i \in DOMAIN path : path[i] = Slash}
    IN IF /\ Len(path) >= 4 /\ SubSeq(path, 1, 2) = automations
          /\ SubSeq(path, Len(path) - 1, Len(path)) = <<Slash, Raw("traces")>>
       THEN {[catalog |-> <<Raw("automations")>>, encoded |-> SubSeq(path, 3, Len(path) - 2),
              traces |-> TRUE]}
       ELSE IF nested # {}
       THEN {[catalog |-> CatalogPath(c), encoded |-> After(path, CatalogPath(c) \o <<Slash>>),
              traces |-> FALSE] : c \in nested}
       ELSE {[catalog |-> SubSeq(path, 1, i - 1), encoded |-> SubSeq(path, i + 1, Len(path)),
              traces |-> FALSE] : i \in {j \in slashes : \A k \in slashes : j <= k}}

\* Mutant of Parse: what decodes is good enough.
ParseAnyForm(path) ==
    {[catalog |-> s.catalog, id |-> DecodeItemId(s.encoded)[1], traces |-> s.traces] :
        s \in {t \in Split(path) : DecodeItemId(t.encoded) # <<>>}}

\* dynamic_resource and target: the item of a URI, if it is the URI that item_uri
\* gives it; keys of what can be authored must be valid as well.
Parse(path) ==
    {p \in ParseAnyForm(path) :
        /\ ItemUri(p.catalog, p.id) = IF p.traces THEN SubSeq(path, 1, Len(path) - 2) ELSE path
        /\ p.catalog \in Authored /\ ~p.traces => ValidKey(p.catalog, p.id)}

-----------------------------------------------------------------------------
(* Catalogs *)

InOrder(items) ==
    CHOOSE s \in [1..Cardinality(items) -> items] :
        \A i, j \in 1..Cardinality(items) : i < j => s[i].rank < s[j].rank

\* A catalog in its order, cut to its limit.
Catalog(c) ==
    LET all == InOrder({i \in present : i.catalog = c})
    IN SubSeq(all, 1, IF Len(all) < Limit THEN Len(all) ELSE Limit)

\* The URIs of an entry: entities also have a state and perhaps a camera, automations
\* have traces.
Uris(c, i) ==
    LET path == CatalogPath(c)
        at(where, traces) ==
            [uri |-> ItemUri(where, i.id) \o (IF traces THEN <<Slash, Raw("traces")>> ELSE <<>>),
             item |-> i, traces |-> traces]
    IN {at(path, FALSE)}
          \cup (IF c = "entities" THEN {at(<<Raw("states")>>, FALSE)} ELSE {})
          \cup (IF c = "entities" /\ Head(i.id) = "camera." THEN {at(<<Raw("cameras")>>, FALSE)} ELSE {})
          \cup (IF c = "automations" THEN {at(path, TRUE)} ELSE {})

\* Mutant of CatalogValue: the listing is asked for without the limit of a read.
CatalogValueUncut(c) == UNION {Uris(c, i) : i \in {j \in present : j.catalog = c}}

\* catalog_value: the entries with their URIs.
CatalogValue(c) == UNION {Uris(c, i) : i \in ToSet(Catalog(c))}

\* A client reads a catalog.
List(c) ==
    /\ pc = "idle"
    /\ given' = CatalogValue(c)
    /\ UNCHANGED <<present, uri, pc, target, answer, seen, changes>>

\* dynamic_resource: a URI that names nothing is refused before anything is read.
ReadResource ==
    /\ pc = "idle"
    /\ \E path \in Requested \cup {g.uri : g \in given} :
          /\ uri' = path
          /\ \/ Parse(path) = {} /\ pc' = "answered" /\ answer' = <<"refused">> /\ UNCHANGED target
             \/ pc' = "parsed" /\ target' \in Parse(path) /\ UNCHANGED answer
    /\ seen' = present
    /\ UNCHANGED <<present, given, changes>>

\* Mutant of Found: an entry of the catalog, whatever its URI is.
FoundFirst(t) == {i \in present : CatalogPath(i.catalog) = t.catalog}

\* What the read of an item comes to: its entry of the catalog read again, or, for
\* an entity, a camera and what can be authored, a read by its identifier.
Found(t) ==
    IF t.catalog \in Listed \/ t.traces
    THEN {i \in UNION {ToSet(Catalog(c)) : c \in {"devices", "automations"} \cup NestedCatalogs} :
              ItemUri(CatalogPath(i.catalog), i.id) = ItemUri(t.catalog, t.id)}
    ELSE LET from == IF t.catalog \in {<<Raw("states")>>, <<Raw("cameras")>>}
                     THEN <<Raw("entities")>> ELSE t.catalog
         IN {i \in present : /\ CatalogPath(i.catalog) = from /\ i.id = t.id
                             /\ t.catalog = <<Raw("cameras")>> => Head(i.id) = "camera."}

Fetch ==
    /\ pc = "parsed"
    /\ pc' = "answered"
    /\ IF Found(target) = {}
       THEN answer' = <<"not_found">>
       ELSE \E i \in Found(target) : answer' = <<"item", i>>
    /\ UNCHANGED <<present, given, uri, target, seen, changes>>

\* An item appears or goes.  After the answer nothing depends on it any more.
Change ==
    /\ pc # "answered"
    /\ changes < MaxChanges /\ changes' = changes + 1
    /\ \E i \in Items : present' = IF i \in present THEN present \ {i} ELSE present \cup {i}
    /\ seen' = IF pc = "parsed" THEN seen \cup present' ELSE seen
    /\ UNCHANGED <<given, uri, pc, target, answer>>

Init ==
    /\ present = Items
    /\ given = {}
    /\ uri = <<>>
    /\ pc = "idle"
    /\ target = [catalog |-> <<>>, id |-> <<>>, traces |-> FALSE]
    /\ answer = <<"none">>
    /\ seen = {}
    /\ changes = 0

Next ==
    \/ \E c \in PlainCatalogs \cup NestedCatalogs : List(c)
    \/ ReadResource
    \/ Fetch
    \/ Change

Spec == Init /\ [][Next]_vars

-----------------------------------------------------------------------------
(* Properties *)

\* Every URI that a catalog hands out names the item it was handed out for: none is
\* refused, however long the identifier is and whatever it has to escape.
GivenIsUnderstood ==
    \A g \in given : \E p \in Parse(g.uri) : p.id = g.item.id /\ p.traces = g.traces

\* An item has one URI: no other spelling of it is answered.
OneUri ==
    \A g \in given :
        pc = "answered" /\ answer[1] = "item"
            /\ answer[2] = g.item /\ Head(uri) = Head(g.uri) /\ target.traces = g.traces
        => uri = g.uri

\* A read returns the item that its URI names, one that existed during the read,
\* although the catalog was read again and may have changed since it was listed.
ReadsItsItem ==
    answer[1] = "item" =>
        /\ answer[2] \in seen
        /\ answer[2].id = target.id
        /\ \/ target.catalog = CatalogPath(answer[2].catalog)
           \/ target.catalog \in {<<Raw("states")>>, <<Raw("cameras")>>}
                    /\ answer[2].catalog = "entities"

\* As long as nothing changes, what a catalog lists can be read.
ListedIsReadable ==
    changes = 0 /\ pc = "answered" /\ (\E g \in given : uri = g.uri)
        => answer[1] = "item"

=============================================================================
