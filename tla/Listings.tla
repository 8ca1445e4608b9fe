------------------------------ MODULE Listings ------------------------------
(***************************************************************************)
(* What the client makes of Home Assistant's answers (client.rs): the      *)
(* listings of Thread networks, Matter devices, stored configurations,     *)
(* blueprints and traces, the history of entities, the states of entities, *)
(* the addresses of a Matter node, the Thread readiness and the verdicts   *)
(* on an automation.                                                       *)
(*                                                                         *)
(* An entry has an identifier and a name (numbers, in the order the code   *)
(* sorts them), belongs to what is listed or not (ours), and is well       *)
(* formed or not: whether its strings, times and enumerations pass their   *)
(* checks is one bit.  The limits are small numbers.  The size of the      *)
(* output as a whole (bounded_output) is left out.                         *)
(***************************************************************************)
EXTENDS Integers, Sequences, SequencesExt, FiniteSets

CONSTANTS
    MaxEntries,    \* the most entries an answer may have (100, 1000, 10000, 16)
    MaxPoints,     \* MAX_HISTORY_POINTS
    Requests       \* what is asked and what Home Assistant answers

VARIABLES
    request,   \* the kind of request, its arguments and the raw answer
    pc,        \* asked or answered
    answer

vars == <<request, pc, answer>>

\* What Home Assistant may answer: entries with numbers for identifiers and names; an
\* answer for each entity that is asked for; datasets that thread_datasets let pass.
AnswersAssumption ==
    /\ MaxEntries \in Nat /\ MaxPoints \in Nat
    /\ \A q \in Requests :
          CASE q.kind = "history.get" -> q.raw \in Seq(Seq([entity : Nat, good : BOOLEAN]))
            [] q.kind = "state.get" -> q.asked \in Seq(Nat) /\ Len(q.raw) = Len(q.asked)
                                          /\ q.raw \in Seq([id : Nat, good : BOOLEAN])
            [] q.kind = "readiness.get" ->
                  /\ q.raw \in Seq([id : Nat, preferred : BOOLEAN, pan : Nat, name : Nat])
                  /\ \A i, j \in DOMAIN q.raw : i # j => q.raw[i].id # q.raw[j].id
                  /\ q.routers \subseteq [pan : Nat, name : Nat]
            [] q.kind = "automation.validate" ->
                  \A s \in DOMAIN q.raw : q.raw[s].valid \in BOOLEAN
            [] OTHER -> /\ q.raw \in Seq([id : Nat, name : Nat, ours : BOOLEAN, good : BOOLEAN])
                        /\ q.kind \in {"matter.device.list", "config.list", "blueprint.list",
                                       "automation.traces"} => q.limit \in Nat

-----------------------------------------------------------------------------

Fail(error) == [status |-> error]
InvalidResponse == Fail("invalid_response")
ResponseTooLarge == Fail("response_too_large")

\* The entries at some positions, ordered by key and else as they were.
Arranged(entries, positions, key) ==
    LET order == CHOOSE s \in [1..Cardinality(positions) -> positions] :
                    \A i, j \in DOMAIN s :
                        i < j => \/ key[s[i]] < key[s[j]]
                                 \/ key[s[i]] = key[s[j]] /\ s[i] < s[j]
    IN [i \in 1..Cardinality(positions) |-> entries[order[i]]]

Kept(entries, positions) == Arranged(entries, positions, [i \in DOMAIN entries |-> 0])
ById(entries, positions) == Arranged(entries, positions, [i \in DOMAIN entries |-> entries[i].id])
\* The place of the i-th entry by name, then by identifier.
Place(entries, i) ==
    Cardinality({j \in DOMAIN entries :
                    \/ entries[j].name < entries[i].name
                    \/ entries[j].name = entries[i].name /\ entries[j].id < entries[i].id})

ByName(entries, positions) ==
    Arranged(entries, positions, [i \in DOMAIN entries |-> Place(entries, i)])
Newest(entries) ==
    Arranged(entries, DOMAIN entries, [i \in DOMAIN entries |-> -entries[i].name])

AllGood(entries) == \A i \in DOMAIN entries : entries[i].good

Duplicate(entries) == \E i, j \in DOMAIN entries : i < j /\ entries[i].id = entries[j].id

Cut(entries, n) == SubSeq(entries, 1, IF Len(entries) < n THEN Len(entries) ELSE n)

Page(entries, limit) ==
    [status |-> "ok", entries |-> Cut(entries, limit), total |-> Len(entries),
     truncated |-> Len(entries) > limit]

\* The needle of a search: none, or what an identifier or a name has in it.
Matches(e, needle) == needle = 0 \/ e.id = needle \/ e.name = needle

OursAndGood(e) == e.ours /\ e.good

-----------------------------------------------------------------------------
(* Listings *)

\* normalize_dataset: identifiers, names and channel within their bounds.
NormalizeDataset(e) == e.good

\* thread_datasets: all of them, each well formed, no two alike.
ThreadDatasets(raw) ==
    IF Len(raw) > MaxEntries THEN ResponseTooLarge
    ELSE IF (\E i \in DOMAIN raw : ~NormalizeDataset(raw[i])) \/ Duplicate(raw) THEN InvalidResponse
    ELSE Page(ById(raw, DOMAIN raw), MaxEntries)

\* Mutant of MatterDevices: a device that is not well formed is skipped.
MatterDevicesLenient(raw, limit) ==
    LET devices == ById(raw, {i \in DOMAIN raw : OursAndGood(raw[i])})
    IN IF Duplicate(devices) THEN InvalidResponse
       ELSE IF Len(devices) > MaxEntries THEN ResponseTooLarge
       ELSE Page(devices, limit)

\* matter_devices: devices of other integrations are skipped, whatever they look like.
MatterDevices(raw, limit) ==
    LET devices == ById(raw, {i \in DOMAIN raw : raw[i].ours})
    IN IF ~AllGood(devices) \/ Duplicate(devices) THEN InvalidResponse
       ELSE IF Len(devices) > MaxEntries THEN ResponseTooLarge
       ELSE Page(devices, limit)

\* normalize_stored_config: a name that cannot be shown gives way to the key.
NormalizeStoredConfig(e) == [e EXCEPT !.name = IF @ = 0 THEN e.id ELSE @]

Stored(raw) == [i \in DOMAIN raw |-> NormalizeStoredConfig(raw[i])]

\* Mutant of ListConfigs: cut before the search.
ListConfigsCutFirst(raw, limit, needle) ==
    LET cut == Cut(ByName(Stored(raw), {i \in DOMAIN raw : OursAndGood(raw[i])}), limit)
    IN Page(Kept(cut, {i \in DOMAIN cut : Matches(cut[i], needle)}), limit)

\* list_configs: what is not a stored configuration with a usable key is skipped.
ListConfigs(raw, limit, needle) ==
    Page(ByName(Stored(raw),
                {i \in DOMAIN raw : OursAndGood(raw[i]) /\ Matches(Stored(raw)[i], needle)}), limit)

\* normalize_blueprint and valid_blueprint_response_path: one without a name will not do.
NormalizeBlueprint(e) == OursAndGood(e) /\ e.name # 0

\* list_blueprints: a blueprint that will not do is skipped.
ListBlueprints(raw, limit, needle) ==
    IF Len(raw) > MaxEntries THEN ResponseTooLarge
    ELSE Page(ByName(raw, {i \in DOMAIN raw : NormalizeBlueprint(raw[i]) /\ Matches(raw[i], needle)}),
              limit)

\* normalize_traces: one foreign or malformed trace spoils all.
NormalizeTraces(raw) == \A i \in DOMAIN raw : OursAndGood(raw[i])

\* automation_traces: the latest first; the name is the time of the start.
AutomationTraces(raw, limit) ==
    IF Len(raw) > MaxEntries THEN ResponseTooLarge
    ELSE IF ~NormalizeTraces(raw) THEN InvalidResponse
    ELSE Page(Newest(raw), limit)

\* normalize_ping: addresses in order.
NormalizePing(raw) ==
    IF Len(raw) > MaxEntries THEN ResponseTooLarge
    ELSE IF ~AllGood(raw) THEN InvalidResponse
    ELSE Page(ById(raw, DOMAIN raw), MaxEntries)

\* normalize_diagnostics: the addresses, with everything else about the node, must
\* be well formed; they stay in their order.
NormalizeDiagnostics(raw) ==
    IF Len(raw) > MaxEntries THEN ResponseTooLarge
    ELSE IF ~AllGood(raw) THEN InvalidResponse
    ELSE Page(raw, MaxEntries)

\* get_states: one read for each entity asked for, in turn; the answer must be about
\* that entity.
GetStates(asked, raw) ==
    IF \E i \in DOMAIN asked : ~raw[i].good \/ raw[i].id # asked[i]
    THEN InvalidResponse
    ELSE Page(raw, Len(asked))

-----------------------------------------------------------------------------
(* History *)

\* A group of points is that of its first one; the others say so too or say nothing.
GroupEntity(group) == group[1].entity
GroupValid(group, asked) ==
    /\ GroupEntity(group) \in asked
    /\ \A i \in DOMAIN group : group[i].entity \in {0, GroupEntity(group)} /\ group[i].good

Nonempty(raw) == Kept(raw, {i \in DOMAIN raw : raw[i] # <<>>})

\* The points of the first n groups.
Points(groups) ==
    LET points[n \in 0..Len(groups)] == IF n = 0 THEN 0 ELSE points[n - 1] + Len(groups[n])
    IN points

\* How many points the groups before the n-th leave for it.
Remaining(groups, n) ==
    IF Points(groups)[n - 1] < MaxPoints THEN MaxPoints - Points(groups)[n - 1] ELSE 0

\* Mutant of GetHistory: the limit is for each entity.
GetHistoryEach(asked, raw) ==
    LET groups == Nonempty(raw) IN
    IF (\E i \in DOMAIN groups : ~GroupValid(groups[i], asked))
        \/ (\E i, j \in DOMAIN groups : i < j /\ GroupEntity(groups[i]) = GroupEntity(groups[j]))
    THEN InvalidResponse
    ELSE [status |-> "ok",
          history |-> [i \in DOMAIN groups |-> [entity |-> GroupEntity(groups[i]),
                                                states |-> Cut(groups[i], MaxPoints)]],
          truncated |-> \E i \in DOMAIN groups : Len(groups[i]) > MaxPoints]

\* get_history: groups in their order share the points; one that gets none is left out.
GetHistory(asked, raw) ==
    LET groups == Nonempty(raw)
        taken == [i \in DOMAIN groups |-> [entity |-> GroupEntity(groups[i]),
                                           states |-> Cut(groups[i], Remaining(groups, i))]]
    IN IF (\E i \in DOMAIN groups : ~GroupValid(groups[i], asked))
           \/ (\E i, j \in DOMAIN groups : i < j /\ GroupEntity(groups[i]) = GroupEntity(groups[j]))
       THEN InvalidResponse
       ELSE [status |-> "ok",
             history |-> Kept(taken, {i \in DOMAIN taken : taken[i].states # <<>>}),
             truncated |-> Points(groups)[Len(groups)] > MaxPoints]

-----------------------------------------------------------------------------
(* Readiness and verdicts *)

Preferred(datasets) == Kept(datasets, {i \in DOMAIN datasets : datasets[i].preferred})

\* Mutant of RouterMatches: two networks without a name are the same.
RouterMatchesNameless(r, d) == r.pan = d.pan \/ d.name = r.name

\* A router of the network: the same extended PAN identifier, or the same name.
RouterMatches(r, d) == r.pan = d.pan \/ (d.name # 0 /\ d.name = r.name)

\* thread_readiness: datasets by identifier; only the first preferred one is compared.
ThreadReadiness(raw, routers) ==
    LET datasets == ById(raw, DOMAIN raw)
        preferred == Preferred(datasets)
    IN [status |-> "ok",
        issues |->
            {i \in {"no_datasets", "no_preferred_dataset", "multiple_preferred_datasets",
                    "no_routers_discovered", "no_router_matches_preferred_network"} :
                CASE i = "no_datasets" -> datasets = <<>>
                  [] i = "no_preferred_dataset" -> preferred = <<>>
                  [] i = "multiple_preferred_datasets" -> Len(preferred) > 1
                  [] i = "no_routers_discovered" -> routers = {}
                  [] OTHER -> /\ preferred # <<>>
                              /\ \A r \in routers : ~RouterMatches(r, preferred[1])}]

\* normalize_validation_result: a verdict for each section asked for and no other, of
\* which either says that it is valid or has an error text.
NormalizeValidationResult(asked, raw) ==
    IF DOMAIN raw # asked
        \/ \E s \in DOMAIN raw : \/ raw[s].error \notin {"null", "text"}
                                 \/ raw[s].valid = (raw[s].error = "text")
    THEN InvalidResponse
    ELSE [status |-> "ok", verdicts |-> [s \in asked |-> raw[s].valid]]

-----------------------------------------------------------------------------

Kind(k) == pc = "asked" /\ request.kind = k
Answer(a) == pc' = "answered" /\ answer' = a /\ UNCHANGED request

Serve ==
    \/ Kind("network.list") /\ Answer(ThreadDatasets(request.raw))
    \/ Kind("matter.device.list") /\ Answer(MatterDevices(request.raw, request.limit))
    \/ Kind("config.list") /\ Answer(ListConfigs(request.raw, request.limit, request.needle))
    \/ Kind("blueprint.list") /\ Answer(ListBlueprints(request.raw, request.limit, request.needle))
    \/ Kind("automation.traces") /\ Answer(AutomationTraces(request.raw, request.limit))
    \/ Kind("device.ping") /\ Answer(NormalizePing(request.raw))
    \/ Kind("device.diagnostics") /\ Answer(NormalizeDiagnostics(request.raw))
    \/ Kind("state.get") /\ Answer(GetStates(request.asked, request.raw))
    \/ Kind("history.get") /\ Answer(GetHistory(request.asked, request.raw))
    \/ Kind("readiness.get") /\ Answer(ThreadReadiness(request.raw, request.routers))
    \/ Kind("automation.validate") /\ Answer(NormalizeValidationResult(request.asked, request.raw))

Init == request \in Requests /\ pc = "asked" /\ answer = Fail("none")

Next == Serve

Spec == Init /\ [][Next]_vars

-----------------------------------------------------------------------------
(* Properties *)

Done(kinds) == pc = "answered" /\ request.kind \in kinds /\ answer.status = "ok"

\* The entries a listing is about, by their positions in the raw answer.
Wanted(i) ==
    LET e == request.raw[i] IN
    CASE request.kind = "matter.device.list" -> e.ours
      [] request.kind = "config.list" -> OursAndGood(e) /\ Matches(NormalizeStoredConfig(e), request.needle)
      [] request.kind = "blueprint.list" -> OursAndGood(e) /\ e.name # 0 /\ Matches(e, request.needle)
      [] OTHER -> TRUE

Pages == {"matter.device.list", "config.list", "blueprint.list", "automation.traces"}

\* A page tells the truth about what it leaves out: as many entries as were wanted or
\* as the limit allows, the total of all that were wanted, and truncated exactly if
\* the two differ.  The search comes before the limit.
PageIsTrue ==
    Done(Pages) =>
        LET wanted == Cardinality({i \in DOMAIN request.raw : Wanted(i)}) IN
        /\ answer.total = wanted
        /\ Len(answer.entries) = IF wanted < request.limit THEN wanted ELSE request.limit
        /\ answer.truncated = (Len(answer.entries) < wanted)

\* The answers that stand for the whole of something (networks, Matter devices, traces,
\* the addresses of a node) are given only if every part could be read: nothing that
\* was malformed, foreign or there twice has been left out in silence, and no section
\* of an automation goes without its verdict.
AllOrNothing ==
    /\ Done({"automation.validate"}) =>
        \A s \in request.asked : answer.verdicts[s] <=> request.raw[s].error = "null"
    /\ Done({"network.list", "matter.device.list", "automation.traces", "device.ping",
          "device.diagnostics", "state.get"}) =>
        /\ \A i \in DOMAIN request.raw : Wanted(i) => request.raw[i].good
        /\ request.kind \in {"network.list", "matter.device.list"} =>
              \A i, j \in DOMAIN request.raw :
                  i # j /\ Wanted(i) /\ Wanted(j) => request.raw[i].id # request.raw[j].id
        /\ request.kind = "automation.traces" => \A i \in DOMAIN request.raw : request.raw[i].ours

Joined(groups) ==
    LET joined[n \in 0..Len(groups)] == IF n = 0 THEN <<>> ELSE joined[n - 1] \o groups[n]
    IN joined[Len(groups)]

\* The history is the beginning of what Home Assistant gave, point by point, under the
\* entities asked for and each under its own; it is truncated exactly if there is more.
HistoryIsPrefix ==
    Done({"history.get"}) =>
        LET all == Joined(request.raw)
            mine == Joined([i \in DOMAIN answer.history |-> answer.history[i].states])
        IN /\ mine = Cut(all, MaxPoints)
           /\ answer.truncated = (Len(all) > Len(mine))
           /\ \A i \in DOMAIN answer.history :
                 /\ answer.history[i].entity \in request.asked
                 /\ \A n \in DOMAIN answer.history[i].states :
                       answer.history[i].states[n].entity \in {0, answer.history[i].entity}

\* Without issues the Thread network can be used: there is one preferred dataset and a
\* router that carries it, by identifier or by a name that both have.
ReadyIsReady ==
    Done({"readiness.get"}) =>
        (answer.issues = {}
            <=> \E d \in ToSet(request.raw) :
                   /\ \A e \in ToSet(request.raw) : e.preferred <=> e = d
                   /\ \E r \in request.routers : r.pan = d.pan \/ (r.name = d.name /\ d.name # 0))

=============================================================================
