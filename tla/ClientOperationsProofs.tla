----------------------- MODULE ClientOperationsProofs -----------------------
(***************************************************************************)
(* For any number of callers and permits, any of the sixteen operations    *)
(* and any changes in Home Assistant: ClientOperations is type correct,    *)
(* what a call returns or does rests on an authority that was good during  *)
(* it, a denial is final, the metrics are those of the operations, and no  *)
(* image leaves after its deadline.                                        *)
(*                                                                         *)
(* The proof follows a call along its plan: PlanShape says where a plan    *)
(* reads its authority and where it changes something, Authorized what the *)
(* call has read when it has come that far, and Sent what has become of    *)
(* its change.                                                             *)
(*                                                                         *)
(* At the end the parts of ServerParts, each from an invariant of its own: *)
(* a REST exchange tells the truth, a process stops in order, and a        *)
(* discovery of Thread routers that succeeds returns the routers known     *)
(* when its subscription ended.                                            *)
(***************************************************************************)
EXTENDS ClientOperations, ServerParts, FiniteSetTheorems, SequenceTheorems, TLAPS

Targeted(c) == EntityTargeted(c) \/ MatterTargeted(c)

\* The answers that deny an operation.
Denials == {"not_allowed", "not_matter_device", "not_found", "unauthorized",
            "capacity_exhausted"}

\* Where a call is in its plan.
Placed(c) ==
    /\ at[c] \in 1..Len(Plan[op[c]])
    /\ pc[c] = "idle" => at[c] = 1
    /\ pc[c] = "waiting" => Step(c) \in ChangeSteps

\* What a call has read by then.
Authorized(c) ==
    /\ Admitted(c) /\ Authority(c, exposed, matter, configured) => valid[c]
    /\ Targeted(c) /\ Admitted(c) /\ at[c] >= 3 => valid[c]
    /\ Targeted(c) /\ (c \in wire \/ applied[c]) => valid[c]
    /\ op[c] = "setup" /\ reply[c] \in {"ok", "create_entry", "already_configured"}
         => valid[c]
    /\ (Targeted(c) \/ op[c] = "setup") /\ answer[c] = "ok" => valid[c]

\* What has become of its change.
Sent(c) ==
    /\ pc[c] \in {"idle", "running"} => c \notin wire /\ ~applied[c]
    /\ pc[c] # "waiting" => reply[c] = "none"
    /\ reply[c] # "none" => c \notin wire
    /\ c \in wire => ~applied[c]
    /\ reply[c] \in Denials => ~applied[c]
    /\ answer[c] # "none" => pc[c] = "over"
    /\ answer[c] \in Denials => ~applied[c] /\ c \notin wire

\* What the metrics were told of it.
Recorded(c) ==
    IF pc[c] = "over"
    THEN \/ recorded[c] = <<Outcome(answer[c])>>
         \/ recorded[c] = <<>> /\ answer[c] = "capacity_exhausted"
    ELSE recorded[c] = <<>>

Traced == \A c \in Callers : Placed(c) /\ Authorized(c) /\ Sent(c) /\ Recorded(c)

UnderWay == {c \in Callers : Admitted(c)}

\* Permits and metrics guards are out for the operations under way.
Balanced ==
    /\ IsFiniteSet(UnderWay)
    /\ free + Cardinality(UnderWay) = Permits
    /\ inFlight = Cardinality(UnderWay)

Inv == TypeOK /\ Balanced /\ Traced

-----------------------------------------------------------------------------
(* Plans *)

\* The plans that begin with the exposure of entities.
LEMMA ExposurePlans ==
    /\ Len(ListEntities) = 3
    /\ Len(ListDevices) = 6
    /\ /\ Len(GetStates) = 4 /\ GetStates[1] = "open" /\ GetStates[2] = "exposure"
       /\ GetStates[3] = "get" /\ GetStates[4] = "get"
    /\ /\ Len(GetHistory) = 3 /\ GetHistory[1] = "open" /\ GetHistory[2] = "exposure"
       /\ GetHistory[3] = "get"
    /\ /\ Len(CameraSnapshot) = 4 /\ CameraSnapshot[1] = "open"
       /\ CameraSnapshot[2] = "exposure" /\ CameraSnapshot[3] = "get"
       /\ CameraSnapshot[4] = "complete"
  BY DEF ListEntities, ListDevices, GetStates, GetHistory, CameraSnapshot, Exposure

\* A plan has one to six requests.
LEMMA PlanLength ==
    ASSUME NEW o \in DOMAIN Plan
    PROVE  Len(Plan[o]) \in 1..6
  BY ExposurePlans DEF Plan, ListThreadNetworks, FixedWebsocketAck, MatterDevices,
     MatterDeviceQuery, InterviewMatterDevice, UpsertConfig, GetConfig,
     FixedWebsocketQuery, AutomationFromBlueprint, SetupSmarthomeMcp, FixedRestAck

\* A place in a plan that is not its last has a next one, and every plan has a first.
LEMMA NextPlace ==
    /\ \A n \in 1..6 : 1 \in 1..n
    /\ \A n \in 1..6 : \A i \in 1..n : i # n => i + 1 \in 1..n /\ i + 1 \in 1..6
  OBVIOUS

\* An operation on an entity reads the exposure with its second request and changes
\* nothing; a snapshot ends with a look at the clock.
LEMMA EntityPlan ==
    ASSUME NEW o \in {"state_get", "history_get", "camera_snapshot"}
    PROVE  /\ Len(Plan[o]) \in 3..4
           /\ Plan[o][1] = "open" /\ Plan[o][2] = "exposure"
           /\ \A i \in 3..Len(Plan[o]) : Plan[o][i] \in {"get", "complete"}
           /\ o = "camera_snapshot" => Len(Plan[o]) = 4 /\ Plan[o][4] = "complete"
  <1>1. /\ Plan["state_get"] = GetStates /\ Plan["history_get"] = GetHistory
        /\ Plan["camera_snapshot"] = CameraSnapshot
    BY DEF Plan
  <1>2. \A i \in 3..4 : i = 3 \/ i = 4
    OBVIOUS
  <1>3. \A i \in 3..3 : i = 3
    OBVIOUS
  <1>4. CASE o = "state_get"
    BY <1>1, <1>2, <1>4, ExposurePlans
  <1>5. CASE o = "history_get"
    BY <1>1, <1>3, <1>5, ExposurePlans
  <1>6. CASE o = "camera_snapshot"
    BY <1>1, <1>2, <1>6, ExposurePlans
  <1>7. QED
    BY <1>4, <1>5, <1>6

\* One on a Matter device reads the registry with its second request of three.
LEMMA MatterPlan ==
    ASSUME NEW o \in {"matter_query", "interview"}
    PROVE  /\ Len(Plan[o]) = 3
           /\ Plan[o][1] = "open" /\ Plan[o][2] = "registry"
           /\ Plan[o][3] \in {"command", "change_socket"}
  BY DEF Plan, MatterDeviceQuery, InterviewMatterDevice

\* A setup looks for the entry with its second request and makes it with its third.
LEMMA SetupPlan ==
    /\ Len(Plan["setup"]) = 3
    /\ Plan["setup"][1] = "open" /\ Plan["setup"][2] = "entries"
    /\ Plan["setup"][3] = "change_rest"
  BY DEF Plan, SetupSmarthomeMcp

\* What a request says of the place in the plan.
LEMMA PlanShape ==
    ASSUME Inv, NEW c \in Callers
    PROVE  /\ op[c] \in DOMAIN Plan /\ Len(Plan[op[c]]) \in 1..6
           /\ at[c] \in 1..Len(Plan[op[c]])
           /\ Targeted(c) => Len(Plan[op[c]]) >= 3
           /\ Targeted(c) /\ at[c] = 2 =>
                  Step(c) = (IF EntityTargeted(c) THEN "exposure" ELSE "registry")
           /\ Targeted(c) => Step(c) # "entries"
           /\ EntityTargeted(c) => Step(c) \notin ChangeSteps
           /\ Targeted(c) /\ Step(c) \in ChangeSteps => at[c] = 3
           /\ op[c] = "setup" /\ Step(c) \notin ChangeSteps => at[c] # Len(Plan[op[c]])
           /\ op[c] = "camera_snapshot" /\ at[c] = Len(Plan[op[c]]) => Step(c) = "complete"
  <1>1. op[c] \in DOMAIN Plan /\ at[c] \in 1..Len(Plan[op[c]])
    BY ConstantsAssumption DEF Inv, TypeOK, Traced, Placed
  <1>2. Len(Plan[op[c]]) \in 1..6
    BY <1>1, PlanLength
  <1>3. CASE EntityTargeted(c)
    <2>1. /\ Len(Plan[op[c]]) \in 3..4
          /\ Plan[op[c]][1] = "open" /\ Plan[op[c]][2] = "exposure"
          /\ \A i \in 3..Len(Plan[op[c]]) : Plan[op[c]][i] \in {"get", "complete"}
          /\ op[c] = "camera_snapshot" => Len(Plan[op[c]]) = 4 /\ Plan[op[c]][4] = "complete"
      BY <1>3, EntityPlan DEF EntityTargeted
    <2>2. Step(c) \in {"open", "exposure", "get", "complete"}
      <3>1. at[c] = 1 \/ at[c] = 2 \/ at[c] \in 3..Len(Plan[op[c]])
        BY <1>1, <1>2
      <3>2. QED
        BY <2>1, <3>1 DEF Step
    <2>3. op[c] # "setup"
      BY <1>3 DEF EntityTargeted
    <2>4. op[c] = "camera_snapshot" /\ at[c] = Len(Plan[op[c]]) => Step(c) = "complete"
      BY <2>1 DEF Step
    <2>5. at[c] = 2 => Step(c) = (IF EntityTargeted(c) THEN "exposure" ELSE "registry")
      BY <1>3, <2>1 DEF Step
    <2>6. Step(c) \notin ChangeSteps /\ Step(c) # "entries"
      BY <2>2 DEF ChangeSteps
    <2>7. Len(Plan[op[c]]) >= 3
      <3>1. Len(Plan[op[c]]) \in 3..4
        BY <2>1, Zenon
      <3>2. QED
        BY <3>1
    <2>8. QED
      BY <1>1, <1>2, <2>3, <2>4, <2>5, <2>6, <2>7, Zenon
  <1>4. CASE ~EntityTargeted(c) /\ MatterTargeted(c)
    <2>1. /\ Len(Plan[op[c]]) = 3
          /\ Plan[op[c]][1] = "open" /\ Plan[op[c]][2] = "registry"
          /\ Plan[op[c]][3] \in {"command", "change_socket"}
      BY <1>4, MatterPlan DEF MatterTargeted
    <2>2. at[c] = 1 \/ at[c] = 2 \/ at[c] = 3
      BY <1>1, <2>1
    <2>3. op[c] # "setup" /\ op[c] # "camera_snapshot"
      BY <1>4 DEF MatterTargeted
    <2>4. QED
      BY <1>1, <1>2, <1>4, <2>1, <2>2, <2>3 DEF Step, ChangeSteps
  <1>5. CASE ~Targeted(c)
    <2>1. ~EntityTargeted(c) /\ op[c] # "camera_snapshot"
      BY <1>5 DEF Targeted, EntityTargeted
    <2>2. op[c] = "setup" => Len(Plan[op[c]]) = 3 /\ Plan[op[c]][3] = "change_rest"
      BY SetupPlan
    <2>3. QED
      BY <1>1, <1>2, <1>5, <2>1, <2>2 DEF Step, ChangeSteps
  <1>6. QED
    BY <1>3, <1>4, <1>5 DEF Targeted

-----------------------------------------------------------------------------
(* Permits *)

\* An operation that ends leaves the balance ...
LEMMA EndBalances ==
    ASSUME TypeOK, Balanced, NEW c \in Callers, Admitted(c),
           pc' = [pc EXCEPT ![c] = "over"], free' = free + 1, inFlight' = inFlight - 1
    PROVE  Balanced' /\ free' \in 0..Permits
  <1>1. UnderWay' = UnderWay \ {c}
    BY DEF UnderWay, Admitted, TypeOK
  <1>2. c \in UnderWay
    BY DEF UnderWay
  <1>3. IsFiniteSet(UnderWay') /\ Cardinality(UnderWay') = Cardinality(UnderWay) - 1
    BY <1>1, <1>2, FS_RemoveElement DEF Balanced
  <1>4. Cardinality(UnderWay) \in Nat /\ Cardinality(UnderWay') \in Nat
    BY <1>3, FS_CardinalityType DEF Balanced
  <1>5. QED
    BY <1>3, <1>4, ConstantsAssumption DEF Balanced, TypeOK

\* ... one that is admitted joins it ...
LEMMA AdmitBalances ==
    ASSUME TypeOK, Balanced, NEW c \in Callers, ~Admitted(c), free # 0,
           pc' = [pc EXCEPT ![c] = "running"], free' = free - 1, inFlight' = inFlight + 1
    PROVE  Balanced' /\ free' \in 0..Permits
  <1>1. UnderWay' = UnderWay \cup {c}
    BY DEF UnderWay, Admitted, TypeOK
  <1>2. c \notin UnderWay
    BY DEF UnderWay
  <1>3. IsFiniteSet(UnderWay') /\ Cardinality(UnderWay') = Cardinality(UnderWay) + 1
    BY <1>1, <1>2, FS_AddElement DEF Balanced
  <1>4. Cardinality(UnderWay) \in Nat
    BY FS_CardinalityType DEF Balanced
  <1>5. QED
    BY <1>3, <1>4, ConstantsAssumption DEF Balanced, TypeOK

\* ... and every other step leaves it alone.
LEMMA SameBalance ==
    ASSUME Balanced, free' = free, inFlight' = inFlight,
           \A c \in Callers : Admitted(c)' <=> Admitted(c)
    PROVE  Balanced'
  <1>1. UnderWay' = UnderWay
    BY DEF UnderWay
  <1>2. QED
    BY <1>1 DEF Balanced

-----------------------------------------------------------------------------
(* The ways a call goes on *)

\* What others do leaves a call where it was.
LEMMA OtherCall ==
    ASSUME NEW b \in Callers, Placed(b), Authorized(b), Sent(b), Recorded(b),
           UNCHANGED <<exposed, matter, configured, op>>,
           pc'[b] = pc[b], at'[b] = at[b], reply'[b] = reply[b], answer'[b] = answer[b],
           recorded'[b] = recorded[b], applied'[b] = applied[b], valid'[b] = valid[b],
           b \in wire' <=> b \in wire
    PROVE  (Placed(b) /\ Authorized(b) /\ Sent(b) /\ Recorded(b))'
  <1>1. /\ Step(b)' = Step(b) /\ Targeted(b)' = Targeted(b) /\ Admitted(b)' = Admitted(b)
        /\ Authority(b, exposed, matter, configured)' = Authority(b, exposed, matter, configured)
    BY DEF Step, Targeted, EntityTargeted, MatterTargeted, Admitted, Authority
  <1>2. QED
    BY <1>1 DEF Placed, Authorized, Sent, Recorded, Outcome

\* A call may end with any answer that is true of it.
LEMMA EndStep ==
    ASSUME Inv, NEW c \in Callers, Admitted(c), NEW a \in Answers \ {"none"}, End(c, a),
           a = "ok" /\ (Targeted(c) \/ op[c] = "setup") => valid[c],
           a \in Denials => ~applied[c] /\ c \notin wire
    PROVE  Inv'
  <1> USE DEF Inv, End, Finish, Forget
  <1>1. Balanced' /\ free' \in 0..Permits
    BY EndBalances
  <1>2. recorded[c] = <<>>
    BY DEF Traced, Recorded, Admitted
  <1>3. Append(recorded[c], Outcome(a)) = <<Outcome(a)>>
    BY <1>2
  <1>4. TypeOK'
    <2>1. Outcome(a) \in Labels
      BY DEF Labels
    <2>2. recorded' \in [Callers -> Seq(Labels)]
      BY <2>1 DEF TypeOK
    <2>3. inFlight' \in Int
      BY DEF TypeOK
    <2>4. QED
      BY <1>1, <2>2, <2>3 DEF TypeOK, world
  <1>5. ASSUME NEW b \in Callers
        PROVE  (Placed(b) /\ Authorized(b) /\ Sent(b) /\ Recorded(b))'
    <2>1. Placed(b) /\ Authorized(b) /\ Sent(b) /\ Recorded(b)
      BY DEF Traced
    <2>2. CASE b = c
      <3>1. /\ pc'[c] = "over" /\ answer'[c] = a /\ reply'[c] = "none"
            /\ recorded'[c] = <<Outcome(a)>> /\ at'[c] = at[c]
            /\ op' = op /\ wire' = wire /\ applied' = applied /\ valid' = valid
        BY <1>3 DEF TypeOK
      <3>2. Targeted(c)' = Targeted(c) /\ ~Admitted(c)'
        BY <3>1 DEF Targeted, EntityTargeted, MatterTargeted, Admitted
      <3>3. QED
        BY <2>1, <2>2, <3>1, <3>2 DEF Placed, Authorized, Sent, Recorded, Outcome
    <2>3. CASE b # c
      BY <2>1, <2>3, OtherCall DEF TypeOK, world
    <2>4. QED
      BY <2>2, <2>3
  <1>6. QED
    BY <1>1, <1>4, <1>5 DEF Traced

\* Before its change was sent a call may be refused.
LEMMA RefuseStep ==
    ASSUME Inv, NEW c \in Callers, pc[c] = "running", NEW a \in Answers \ {"none", "ok"},
           End(c, a)
    PROVE  Inv'
  <1>1. Admitted(c) /\ ~applied[c] /\ c \notin wire
    BY DEF Inv, Traced, Sent, Admitted
  <1>2. QED
    BY <1>1, EndStep

\* A call whose request was answered goes on, or succeeds at the end of its plan.
LEMMA AdvanceStep ==
    ASSUME Inv, NEW c \in Callers, pc[c] = "running", Advance(c),
           Step(c) \notin ChangeSteps, Targeted(c) /\ at[c] = 2 => valid[c]
    PROVE  Inv'
  <1> USE DEF Inv
  <1>1. Admitted(c)
    BY DEF Admitted
  <1>2. CASE at[c] = Len(Plan[op[c]])
    <2>1. End(c, "ok")
      BY <1>2 DEF Advance
    <2>2. Targeted(c) \/ op[c] = "setup" => valid[c]
      BY <1>1, <1>2, PlanShape DEF Traced, Authorized
    <2>3. "ok" \in Answers \ {"none"} /\ "ok" \notin Denials
      BY DEF Answers, Denials
    <2>4. QED
      BY <1>1, <2>1, <2>2, <2>3, EndStep
  <1>3. CASE at[c] # Len(Plan[op[c]])
    <2>1. /\ at' = [at EXCEPT ![c] = @ + 1]
          /\ UNCHANGED <<world, free, inFlight, op, pc, late, answer, recorded, wire, reply,
                         applied, valid, changes>>
      BY <1>3 DEF Advance
    <2>2. at[c] + 1 \in 1..Len(Plan[op[c]]) /\ at[c] + 1 \in 1..6
      <3>1. at[c] \in 1..Len(Plan[op[c]]) /\ Len(Plan[op[c]]) \in 1..6
        BY PlanShape
      <3>2. QED
        BY <1>3, <3>1, NextPlace
    <2>3. TypeOK'
      BY <2>1, <2>2 DEF TypeOK, world
    <2>4. Balanced'
      <3>1. \A b \in Callers : Admitted(b)' <=> Admitted(b)
        BY <2>1 DEF Admitted
      <3>2. QED
        BY <2>1, <3>1, SameBalance
    <2>5. ASSUME NEW b \in Callers
          PROVE  (Placed(b) /\ Authorized(b) /\ Sent(b) /\ Recorded(b))'
      <3>1. Placed(b) /\ Authorized(b) /\ Sent(b) /\ Recorded(b)
        BY DEF Traced
      <3>2. CASE b = c
        <4>1. at'[c] = at[c] + 1 /\ at[c] \in 1..6
          BY <2>1 DEF TypeOK
        <4>2. /\ Targeted(c)' = Targeted(c) /\ Admitted(c)' = Admitted(c)
              /\ Authority(c, exposed, matter, configured)'
                     = Authority(c, exposed, matter, configured)
          BY <2>1 DEF Targeted, EntityTargeted, MatterTargeted, Admitted, Authority, world
        <4>3. Placed(c)'
          BY <2>1, <2>2, <4>1 DEF Placed
        <4>4. Authorized(c)'
          BY <1>1, <2>1, <3>1, <3>2, <4>1, <4>2 DEF Authorized
        <4>5. Sent(c)' /\ Recorded(c)'
          BY <2>1, <3>1, <3>2 DEF Sent, Recorded, Outcome
        <4>6. QED
          BY <3>2, <4>3, <4>4, <4>5
      <3>3. CASE b # c
        BY <2>1, <3>1, <3>3, OtherCall DEF TypeOK, world
      <3>4. QED
        BY <3>2, <3>3
    <2>6. QED
      BY <2>3, <2>4, <2>5 DEF Traced
  <1>4. QED
    BY <1>2, <1>3

-----------------------------------------------------------------------------
(* The actions of a call *)

\* Initially nothing is under way.
LEMMA InitInv == Init => Inv
  <1> SUFFICES ASSUME Init PROVE Inv
    OBVIOUS
  <1>1. TypeOK
    BY ConstantsAssumption DEF Init, TypeOK, Answers
  <1>2. Balanced
    <2>1. UnderWay = {}
      BY DEF Init, UnderWay, Admitted
    <2>2. IsFiniteSet(UnderWay) /\ Cardinality(UnderWay) = 0
      BY <2>1, FS_EmptySet
    <2>3. QED
      BY <2>2, ConstantsAssumption DEF Init, Balanced
  <1>3. ASSUME NEW c \in Callers
        PROVE  Placed(c) /\ Authorized(c) /\ Sent(c) /\ Recorded(c)
    <2>1. op[c] \in DOMAIN Plan
      BY ConstantsAssumption DEF Init
    <2>2. at[c] \in 1..Len(Plan[op[c]])
      <3>1. Len(Plan[op[c]]) \in 1..6 /\ at[c] = 1
        BY <2>1, PlanLength DEF Init
      <3>2. QED
        BY <3>1, NextPlace
    <2>3. QED
      BY <2>2 DEF Init, Placed, Authorized, Sent, Recorded, Denials, Admitted
  <1>4. QED
    BY <1>1, <1>2, <1>3 DEF Inv, Traced

\* A call is refused for lack of a permit, or begins its plan.
LEMMA CallStep ==
    ASSUME Inv, NEW c \in Callers, Call(c)
    PROVE  Inv'
  <1> USE DEF Inv
  <1>1. /\ pc[c] = "idle" /\ ~Admitted(c) /\ answer[c] = "none"
        /\ UNCHANGED <<exposed, matter, configured, op, at, late, recorded, wire, reply,
                       applied, changes>>
    BY DEF Call, Admitted, Traced, Sent, world
  <1>2. Placed(c) /\ Authorized(c) /\ Sent(c) /\ Recorded(c)
    BY DEF Traced
  <1>3. CASE free = 0
    <2>1. /\ pc' = [pc EXCEPT ![c] = "over"]
          /\ answer' = [answer EXCEPT ![c] = "capacity_exhausted"]
          /\ UNCHANGED <<free, inFlight, valid>>
      BY <1>3 DEF Call
    <2>2. TypeOK'
      <3>1. "capacity_exhausted" \in Answers
        BY DEF Answers, Errors, RestErrors, StatusErrors
      <3>2. QED
        BY <1>1, <2>1, <3>1 DEF TypeOK
    <2>3. Balanced'
      <3>1. \A b \in Callers : Admitted(b)' <=> Admitted(b)
        BY <1>1, <2>1 DEF TypeOK, Admitted
      <3>2. QED
        BY <2>1, <3>1, SameBalance
    <2>4. ASSUME NEW b \in Callers
          PROVE  (Placed(b) /\ Authorized(b) /\ Sent(b) /\ Recorded(b))'
      <3>1. CASE b = c
        <4>1. pc'[c] = "over" /\ answer'[c] = "capacity_exhausted"
          BY <2>1 DEF TypeOK
        <4>2. Targeted(c)' = Targeted(c) /\ ~Admitted(c)'
          BY <1>1, <4>1 DEF Targeted, EntityTargeted, MatterTargeted, Admitted
        <4>3. QED
          BY <1>1, <1>2, <2>1, <3>1, <4>1, <4>2 DEF Placed, Authorized, Sent, Recorded
      <3>2. CASE b # c
        BY <1>1, <2>1, <3>2, OtherCall DEF TypeOK, Traced
      <3>3. QED
        BY <3>1, <3>2
    <2>5. QED
      BY <2>2, <2>3, <2>4 DEF Traced
  <1>4. CASE free # 0
    <2>1. /\ pc' = [pc EXCEPT ![c] = "running"]
          /\ free' = free - 1 /\ inFlight' = inFlight + 1
          /\ valid' = [valid EXCEPT ![c] = Authority(c, exposed, matter, configured)]
          /\ UNCHANGED answer
      BY <1>4 DEF Call
    <2>2. Balanced' /\ free' \in 0..Permits
      BY <1>1, <1>4, <2>1, AdmitBalances
    <2>3. TypeOK'
      <3>1. Authority(c, exposed, matter, configured) \in BOOLEAN
        BY DEF TypeOK, Authority
      <3>2. inFlight' \in Int
        BY <2>1 DEF TypeOK
      <3>3. QED
        BY <1>1, <2>1, <2>2, <3>1, <3>2 DEF TypeOK
    <2>4. ASSUME NEW b \in Callers
          PROVE  (Placed(b) /\ Authorized(b) /\ Sent(b) /\ Recorded(b))'
      <3>1. CASE b = c
        <4>1. pc'[c] = "running" /\ valid'[c] = Authority(c, exposed, matter, configured)
          BY <2>1 DEF TypeOK
        <4>2. /\ Targeted(c)' = Targeted(c)
              /\ Authority(c, exposed, matter, configured)'
                     = Authority(c, exposed, matter, configured)
          BY <1>1 DEF Targeted, EntityTargeted, MatterTargeted, Authority
        <4>3. at'[c] = 1 /\ c \notin wire' /\ ~applied'[c] /\ reply'[c] = "none"
          BY <1>1, <1>2 DEF Placed, Sent
        <4>4. QED
          BY <1>1, <1>2, <2>1, <3>1, <4>1, <4>2, <4>3
             DEF Placed, Authorized, Sent, Recorded, Denials
      <3>2. CASE b # c
        BY <1>1, <2>1, <3>2, OtherCall DEF TypeOK, Traced
      <3>3. QED
        BY <3>1, <3>2
    <2>5. QED
      BY <2>2, <2>3, <2>4 DEF Traced
  <1>5. QED
    BY <1>3, <1>4

\* The errors of the requests are answers, and none is success.
LEMMA RequestErrors ==
    /\ SocketErrors \cup {"unauthorized"} \subseteq Answers \ {"none", "ok"}
    /\ CommandErrors \subseteq Answers \ {"none", "ok"}
    /\ RestErrors \subseteq Answers \ {"none", "ok"}
    /\ {"not_allowed", "not_matter_device", "invalid_response", "timeout", "cancelled",
        "config_not_found", "upstream_unavailable", "request_rejected"}
           \subseteq Answers \ {"none", "ok"}
  BY DEF SocketErrors, CommandErrors, RestErrors, StatusErrors, Errors, Answers

\* Requests that read no authority.
LEMMA PlainSteps ==
    ASSUME Inv, NEW c \in Callers,
           OpenWebsocket(c) \/ WebsocketCommand(c) \/ GetJson(c) \/ Complete(c)
    PROVE  Inv'
  <1>1. pc[c] = "running" /\ Step(c) \in {"open", "command", "get", "complete"}
    BY DEF OpenWebsocket, WebsocketCommand, GetJson, Complete, Makes
  <1>2. Step(c) \notin ChangeSteps /\ ~(Targeted(c) /\ at[c] = 2)
    BY <1>1, PlanShape DEF ChangeSteps
  <1>3. Advance(c) \/ \E a \in Answers \ {"none", "ok"} : End(c, a)
    BY RequestErrors DEF OpenWebsocket, WebsocketCommand, GetJson, Complete, ErrorCode
  <1>4. QED
    BY <1>1, <1>2, <1>3, AdvanceStep, RefuseStep

\* The exposure lets a call go on only if it is good now.
LEMMA ExposedStep ==
    ASSUME Inv, NEW c \in Callers, ExposedEntities(c)
    PROVE  Inv'
  <1>1. pc[c] = "running" /\ Step(c) = "exposure" /\ Admitted(c)
    BY DEF ExposedEntities, Makes, Admitted
  <1>2. \/ \E a \in Answers \ {"none", "ok"} : End(c, a)
        \/ (EntityTargeted(c) => exposed) /\ Advance(c)
    BY RequestErrors DEF ExposedEntities
  <1>3. CASE (EntityTargeted(c) => exposed) /\ Advance(c)
    <2>1. Targeted(c) /\ at[c] = 2 => EntityTargeted(c)
      BY <1>1, PlanShape
    <2>2. EntityTargeted(c) => valid[c]
      BY <1>1, <1>3
         DEF Inv, Traced, Authorized, Authority, EntityTargeted, MatterTargeted
    <2>3. Step(c) \notin ChangeSteps
      BY <1>1 DEF ChangeSteps
    <2>4. QED
      BY <1>1, <1>3, <2>1, <2>2, <2>3, AdvanceStep
  <1>4. QED
    BY <1>1, <1>2, <1>3, RefuseStep

\* So does the registry.
LEMMA RegistryStep ==
    ASSUME Inv, NEW c \in Callers, AuthorizeMatterDevice(c)
    PROVE  Inv'
  <1>1. pc[c] = "running" /\ Step(c) = "registry" /\ Admitted(c)
    BY DEF AuthorizeMatterDevice, Makes, Admitted
  <1>2. \/ \E a \in Answers \ {"none", "ok"} : End(c, a)
        \/ matter = "one" /\ Advance(c)
    BY RequestErrors DEF AuthorizeMatterDevice, Inv, TypeOK
  <1>3. CASE matter = "one" /\ Advance(c)
    <2>1. Targeted(c) /\ at[c] = 2 => ~EntityTargeted(c) /\ MatterTargeted(c)
      BY <1>1, PlanShape DEF Targeted
    <2>2. ~EntityTargeted(c) /\ MatterTargeted(c) => valid[c]
      BY <1>1, <1>3
         DEF Inv, Traced, Authorized, Authority, EntityTargeted, MatterTargeted
    <2>3. Step(c) \notin ChangeSteps
      BY <1>1 DEF ChangeSteps
    <2>4. QED
      BY <1>1, <1>3, <2>1, <2>2, <2>3, AdvanceStep
  <1>4. QED
    BY <1>1, <1>2, <1>3, RefuseStep

\* A setup that finds the entry is done.
LEMMA EntriesStep ==
    ASSUME Inv, NEW c \in Callers, ConfigEntries(c)
    PROVE  Inv'
  <1>1. pc[c] = "running" /\ Step(c) = "entries" /\ Admitted(c)
    BY DEF ConfigEntries, Makes, Admitted
  <1>2. ~Targeted(c)
    BY <1>1, PlanShape
  <1>3. \/ \E a \in Answers \ {"none", "ok"} : End(c, a)
        \/ configured /\ End(c, "ok")
        \/ Advance(c)
    BY RequestErrors DEF ConfigEntries
  <1>4. CASE configured /\ End(c, "ok")
    <2>1. op[c] = "setup" => valid[c]
      BY <1>1, <1>2, <1>4 DEF Inv, Traced, Authorized, Authority, Targeted
    <2>2. "ok" \in Answers \ {"none"} /\ "ok" \notin Denials
      BY DEF Answers, Denials
    <2>3. QED
      BY <1>1, <1>2, <1>4, <2>1, <2>2, EndStep
  <1>5. CASE Advance(c)
    <2>1. Step(c) \notin ChangeSteps
      BY <1>1 DEF ChangeSteps
    <2>2. QED
      BY <1>1, <1>2, <1>5, <2>1, AdvanceStep
  <1>6. QED
    BY <1>1, <1>3, <1>4, <1>5, RefuseStep

\* The change leaves the process after the authority was read.
LEMMA SendStep ==
    ASSUME Inv, NEW c \in Callers, Send(c)
    PROVE  Inv'
  <1> USE DEF Inv
  <1>1. /\ pc[c] = "running" /\ Step(c) \in ChangeSteps
        /\ pc' = [pc EXCEPT ![c] = "waiting"] /\ wire' = wire \cup {c}
        /\ UNCHANGED <<exposed, matter, configured, free, inFlight, op, at, late, answer,
                       recorded, reply, applied, valid, changes>>
    BY DEF Send, world
  <1>2. TypeOK'
    BY <1>1 DEF TypeOK
  <1>3. Balanced'
    <2>1. \A b \in Callers : Admitted(b)' <=> Admitted(b)
      BY <1>1 DEF TypeOK, Admitted
    <2>2. QED
      BY <1>1, <2>1, SameBalance
  <1>4. ASSUME NEW b \in Callers
        PROVE  (Placed(b) /\ Authorized(b) /\ Sent(b) /\ Recorded(b))'
    <2>1. Placed(b) /\ Authorized(b) /\ Sent(b) /\ Recorded(b)
      BY DEF Traced
    <2>2. CASE b = c
      <3>1. pc'[c] = "waiting" /\ c \in wire' /\ Admitted(c)
        BY <1>1 DEF TypeOK, Admitted
      <3>2. /\ Step(c)' = Step(c) /\ Targeted(c)' = Targeted(c) /\ Admitted(c)'
            /\ Authority(c, exposed, matter, configured)'
                   = Authority(c, exposed, matter, configured)
        BY <1>1, <3>1 DEF Step, Targeted, EntityTargeted, MatterTargeted, Admitted, Authority
      <3>3. Targeted(c) => valid[c]
        BY <1>1, <2>1, <2>2, <3>1, PlanShape DEF Authorized
      <3>4. answer[c] = "none" /\ reply[c] = "none"
        BY <1>1, <2>1, <2>2 DEF Sent
      <3>5. QED
        BY <1>1, <2>1, <2>2, <3>1, <3>2, <3>3, <3>4
           DEF Placed, Authorized, Sent, Recorded, Denials
    <2>3. CASE b # c
      BY <1>1, <2>1, <2>3, OtherCall DEF TypeOK
    <2>4. QED
      BY <2>2, <2>3
  <1>5. QED
    BY <1>2, <1>3, <1>4 DEF Traced

\* What is made of a reply is true of the change, and a silent connection denies nothing.
LEMMA ReceiveStep ==
    ASSUME Inv, NEW c \in Callers, Receive(c)
    PROVE  Inv'
  <1>1. pc[c] = "waiting" /\ Admitted(c) /\ Sent(c) /\ Authorized(c)
    BY DEF Receive, Admitted, Inv, Traced
  <1>2. CASE End(c, "upstream_unavailable")
    BY <1>1, <1>2, RequestErrors, EndStep DEF Denials
  <1>3. CASE reply[c] # "none" /\ End(c, FlowAnswer(reply[c]))
    <2> DEFINE a == FlowAnswer(reply[c])
    <2>1. reply[c] \in Errors \cup {"create_entry", "already_configured", "abort", "ok"}
      BY <1>3 DEF Inv, TypeOK, Flow
    <2>2. /\ a \in Answers \ {"none"}
          /\ a = "ok" => reply[c] \in {"ok", "create_entry", "already_configured"}
          /\ a \in Denials => reply[c] = a
      BY <2>1 DEF FlowAnswer, Answers, Errors, RestErrors, StatusErrors, Denials
    <2>3. a = "ok" /\ (Targeted(c) \/ op[c] = "setup") => valid[c]
      <3>1. Targeted(c) => valid[c]
        <4>1. Step(c) \in ChangeSteps
          BY <1>1 DEF Inv, Traced, Placed
        <4>2. QED
          BY <1>1, <4>1, PlanShape DEF Authorized
      <3>2. QED
        BY <1>1, <2>2, <3>1 DEF Authorized
    <2>4. a \in Denials => ~applied[c] /\ c \notin wire
      BY <1>1, <1>3, <2>2 DEF Sent
    <2>5. QED
      BY <1>1, <1>3, <2>2, <2>3, <2>4, EndStep
  <1>4. QED
    BY <1>2, <1>3 DEF Receive

\* The deadline and the caller may end a call anywhere.
LEMMA EndSteps ==
    ASSUME Inv, NEW c \in Callers, Timeout(c) \/ Cancel(c)
    PROVE  Inv'
  <1>1. {"timeout", "cancelled"} \subseteq Answers \ {"none"}
    BY DEF Answers, Errors
  <1>2. QED
    BY <1>1, EndStep DEF Timeout, Cancel, Denials

\* A timer that runs out changes nothing yet.
LEMMA DeadlineStep ==
    ASSUME Inv, NEW c \in Callers, DeadlinePasses(c)
    PROVE  Inv'
  <1> USE DEF Inv, DeadlinePasses
  <1>1. TypeOK'
    BY DEF TypeOK, world
  <1>2. Balanced'
    <2>1. \A b \in Callers : Admitted(b)' <=> Admitted(b)
      BY DEF Admitted
    <2>2. QED
      BY <2>1, SameBalance
  <1>3. ASSUME NEW b \in Callers
        PROVE  (Placed(b) /\ Authorized(b) /\ Sent(b) /\ Recorded(b))'
    BY OtherCall DEF Traced, world
  <1>4. QED
    BY <1>1, <1>2, <1>3 DEF Traced

-----------------------------------------------------------------------------
(* Home Assistant *)

\* An authority that has been good stays so, and one that is good now has been.
LEMMA SeenFacts ==
    ASSUME TypeOK, NEW e \in BOOLEAN, NEW m, NEW f \in BOOLEAN, valid' = Seen(e, m, f)
    PROVE  /\ valid' \in [Callers -> BOOLEAN]
           /\ \A c \in Callers : valid[c] => valid'[c]
           /\ \A c \in Callers : Admitted(c) /\ Authority(c, e, m, f) => valid'[c]
  <1>1. \A c \in Callers : valid'[c] = (valid[c] \/ (Admitted(c) /\ Authority(c, e, m, f)))
    BY DEF Seen
  <1>2. \A c \in Callers :
            valid[c] \/ (Admitted(c) /\ Authority(c, e, m, f)) \in BOOLEAN
    BY DEF TypeOK, Admitted, Authority
  <1>3. valid' \in [Callers -> BOOLEAN]
    BY <1>2 DEF Seen, TypeOK, Admitted, Authority
  <1>4. QED
    BY <1>1, <1>3

\* A change that leaves the wire carried out or not, with a reply that says so if its
\* caller still waits.
LEMMA SettleStep ==
    ASSUME Inv, NEW c \in wire, NEW r \in Errors \cup Flow \cup {"ok"}, Settle(c, r),
           configured' \in BOOLEAN,
           \/ applied' = [applied EXCEPT ![c] = TRUE] /\ r \notin Denials
           \/ applied' = applied,
           \/ valid' = Seen(exposed, matter, configured')
           \/ valid' = valid /\ configured' = configured,
           op[c] = "setup" /\ r \in {"ok", "create_entry", "already_configured"} =>
               configured' /\ valid' = Seen(exposed, matter, configured')
    PROVE  Inv'
  <1> USE DEF Inv
  <1>1. /\ c \in Callers
        /\ wire' = wire \ {c}
        /\ reply' = IF pc[c] = "waiting" THEN [reply EXCEPT ![c] = r] ELSE reply
        /\ UNCHANGED <<exposed, matter, free, inFlight, op, pc, at, late, answer, recorded,
                       changes>>
    BY DEF Settle, calls, TypeOK
  <1>2. /\ valid' \in [Callers -> BOOLEAN]
        /\ \A b \in Callers : valid[b] => valid'[b]
        /\ \A b \in Callers :
               Admitted(b) /\ Authority(b, exposed, matter, configured') => valid'[b]
    BY SeenFacts DEF TypeOK, Traced, Authorized
  <1>3. TypeOK'
    BY <1>1, <1>2 DEF TypeOK
  <1>4. Balanced'
    <2>1. \A b \in Callers : Admitted(b)' <=> Admitted(b)
      BY <1>1 DEF Admitted
    <2>2. QED
      BY <1>1, <2>1, SameBalance
  <1>5. ASSUME NEW b \in Callers
        PROVE  (Placed(b) /\ Authorized(b) /\ Sent(b) /\ Recorded(b))'
    <2>1. Placed(b) /\ Authorized(b) /\ Sent(b) /\ Recorded(b)
      BY DEF Traced
    <2>2. /\ Step(b)' = Step(b) /\ Targeted(b)' = Targeted(b) /\ Admitted(b)' = Admitted(b)
          /\ Authority(b, exposed, matter, configured)'
                 = Authority(b, exposed, matter, configured')
      BY <1>1 DEF Step, Targeted, EntityTargeted, MatterTargeted, Admitted, Authority
    <2>3. Placed(b)' /\ Recorded(b)'
      BY <1>1, <2>1, <2>2 DEF Placed, Recorded, Outcome
    <2>4. CASE b = c
      <3>1. reply'[c] = IF pc[c] = "waiting" THEN r ELSE reply[c]
        BY <1>1 DEF TypeOK
      <3>2. /\ answer[c] \notin Denials /\ pc[c] \notin {"idle", "running"}
            /\ c \notin wire'
        BY <1>1, <2>1, <2>4 DEF Sent
      <3>3. Sent(c)'
        BY <1>1, <2>1, <2>4, <3>1, <3>2 DEF Sent, Denials, TypeOK
      <3>4. op[c] = "setup" /\ pc[c] = "waiting"
               /\ r \in {"ok", "create_entry", "already_configured"} => valid'[c]
        BY <1>1, <1>2 DEF Authority, Admitted, EntityTargeted, MatterTargeted
      <3>5. Authorized(c)'
        BY <1>1, <1>2, <2>1, <2>2, <2>4, <3>1, <3>4 DEF Authorized, Sent
      <3>6. QED
        BY <2>3, <2>4, <3>3, <3>5
    <2>5. CASE b # c
      <3>1. reply'[b] = reply[b] /\ applied'[b] = applied[b] /\ (b \in wire' <=> b \in wire)
        BY <1>1, <2>5 DEF TypeOK
      <3>2. Sent(b)'
        BY <1>1, <2>1, <3>1 DEF Sent
      <3>3. Authorized(b)'
        BY <1>1, <1>2, <2>1, <2>2, <3>1 DEF Authorized
      <3>4. QED
        BY <2>3, <3>2, <3>3
    <2>6. QED
      BY <2>4, <2>5
  <1>6. QED
    BY <1>3, <1>4, <1>5 DEF Traced

\* A change that is carried out is never answered by a denial.
LEMMA ApplyStep ==
    ASSUME Inv, NEW c \in Callers, Apply(c)
    PROVE  Inv'
  <1>1. PICK r \in AfterTheFact(Step(c)) \cup
                {IF op[c] # "setup" THEN "ok"
                 ELSE IF configured THEN "already_configured" ELSE "create_entry"} :
            Settle(c, r)
    BY DEF Apply
  <1>2. r \in Errors \cup Flow \cup {"ok"} /\ r \notin Denials
    BY DEF AfterTheFact, CommandErrors, SocketErrors, Errors, RestErrors, StatusErrors,
       Flow, Denials
  <1>3. /\ c \in wire /\ configured' \in BOOLEAN
        /\ applied' = [applied EXCEPT ![c] = TRUE]
        /\ valid' = Seen(exposed, matter, configured')
        /\ op[c] = "setup" => configured'
    BY DEF Apply, Inv, TypeOK
  <1>4. QED
    BY <1>1, <1>2, <1>3, SettleStep

\* A change that is refused is not carried out.
LEMMA RefusedStep ==
    ASSUME Inv, NEW c \in Callers, Refuse(c)
    PROVE  Inv'
  <1>1. PICK e \in (IF op[c] = "setup" THEN {"abort"} ELSE {}) \cup
                   CASE Step(c) = "change_socket" -> CommandErrors
                     [] Step(c) = "change_accept" -> StatusErrors
                     [] OTHER                     -> RestErrors :
            Settle(c, e)
    BY DEF Refuse
  <1>2. /\ e \in Errors \cup Flow \cup {"ok"}
        /\ e \notin {"ok", "create_entry", "already_configured"}
    BY DEF CommandErrors, SocketErrors, Errors, RestErrors, StatusErrors, Flow
  <1>3. /\ c \in wire /\ configured' \in BOOLEAN
        /\ UNCHANGED <<configured, applied, valid>>
    BY DEF Refuse, Inv, TypeOK
  <1>4. QED
    BY <1>1, <1>2, <1>3, SettleStep

\* Others change exposure, the registry or the entries.
LEMMA ChangeStep ==
    ASSUME Inv, Change
    PROVE  Inv'
  <1> USE DEF Inv
  <1>1. /\ exposed' \in BOOLEAN /\ configured' \in BOOLEAN
        /\ matter' \in {"none", "one", "other", "two"}
        /\ valid' = Seen(exposed', matter', configured')
        /\ UNCHANGED <<free, inFlight, op, pc, at, late, answer, recorded, wire, reply,
                       applied>>
    BY DEF Change, calls, TypeOK
  <1>2. changes' \in 0..MaxChanges
    BY ConstantsAssumption DEF Change, TypeOK
  <1>3. /\ valid' \in [Callers -> BOOLEAN]
        /\ \A b \in Callers : valid[b] => valid'[b]
        /\ \A b \in Callers :
               Admitted(b) /\ Authority(b, exposed', matter', configured') => valid'[b]
    BY <1>1, SeenFacts
  <1>4. TypeOK'
    BY <1>1, <1>2, <1>3 DEF TypeOK
  <1>5. Balanced'
    <2>1. \A b \in Callers : Admitted(b)' <=> Admitted(b)
      BY <1>1 DEF Admitted
    <2>2. QED
      BY <1>1, <2>1, SameBalance
  <1>6. ASSUME NEW b \in Callers
        PROVE  (Placed(b) /\ Authorized(b) /\ Sent(b) /\ Recorded(b))'
    <2>1. Placed(b) /\ Authorized(b) /\ Sent(b) /\ Recorded(b)
      BY DEF Traced
    <2>2. /\ Step(b)' = Step(b) /\ Targeted(b)' = Targeted(b) /\ Admitted(b)' = Admitted(b)
          /\ Authority(b, exposed, matter, configured)'
                 = Authority(b, exposed', matter', configured')
      BY <1>1 DEF Step, Targeted, EntityTargeted, MatterTargeted, Admitted, Authority
    <2>3. Placed(b)' /\ Recorded(b)' /\ Sent(b)'
      BY <1>1, <2>1, <2>2 DEF Placed, Recorded, Sent, Outcome
    <2>4. Authorized(b)'
      BY <1>1, <1>3, <2>1, <2>2 DEF Authorized
    <2>5. QED
      BY <2>3, <2>4
  <1>7. QED
    BY <1>4, <1>5, <1>6 DEF Traced

\* Every step keeps the invariant.
LEMMA NextInv == Inv /\ [Next]_vars => Inv'
  <1> SUFFICES ASSUME Inv, [Next]_vars PROVE Inv'
    OBVIOUS
  <1>1. ASSUME NEW c \in Callers, Request(c)
        PROVE  Inv'
    BY <1>1, PlainSteps, ExposedStep, RegistryStep, EntriesStep, SendStep, ReceiveStep
       DEF Request
  <1>2. ASSUME NEW c \in Callers,
               Call(c) \/ DeadlinePasses(c) \/ Timeout(c) \/ Cancel(c) \/ Apply(c) \/ Refuse(c)
        PROVE  Inv'
    BY <1>2, CallStep, DeadlineStep, EndSteps, ApplyStep, RefusedStep
  <1>3. CASE Change
    BY <1>3, ChangeStep
  <1>4. CASE UNCHANGED vars
    <2> USE <1>4 DEF vars, world, calls, Inv
    <2>1. TypeOK'
      BY DEF TypeOK
    <2>2. Balanced'
      BY DEF Balanced, UnderWay, Admitted
    <2>3. Traced'
      BY OtherCall DEF Traced
    <2>4. QED
      BY <2>1, <2>2, <2>3
  <1>5. QED
    BY <1>1, <1>2, <1>3, <1>4 DEF Next

-----------------------------------------------------------------------------
(* Theorems *)

\* The invariant holds throughout.
THEOREM Invariance == Spec => []Inv
  BY InitInv, NextInv, PTL DEF Spec

\* Whatever a call about an entity or a Matter device returns or does, it does on an
\* authority that was good during the call (authorize, authorize_matter_device).
THEOREM AuthorityWasFresh == Spec => []FreshAuthority
  <1>1. Inv => FreshAuthority
    BY DEF Inv, Traced, Authorized, Targeted, FreshAuthority
  <1>2. QED
    BY <1>1, Invariance, PTL

\* Every state is of its type, an answer that denies an operation is final, and a setup
\* that reports success found or made the entry.
THEOREM AnswersTrue == Spec => []AnswersAreTrue
  <1>1. Inv => DenialIsFinal /\ SetupIsTrue
    BY DEF Inv, Traced, Sent, Authorized, Denials, DenialIsFinal, SetupIsTrue
  <1>2. Inv => AnswersAreTrue
    BY <1>1 DEF Inv, AnswersAreTrue
  <1>3. QED
    BY <1>2, Invariance, PTL

\* The counter is the number of operations under way, and each that was admitted is
\* recorded once, as what it was answered (MetricsGuard).
THEOREM MetricsAreBalanced == Spec => []MetricsBalance
  <1>1. ASSUME Inv, NEW c \in Callers
        PROVE  /\ recorded[c] = IF pc[c] = "over" /\ recorded[c] # <<>>
                                THEN <<Outcome(answer[c])>> ELSE <<>>
               /\ pc[c] = "over" /\ recorded[c] = <<>> => answer[c] = "capacity_exhausted"
    <2>1. Recorded(c)
      BY <1>1 DEF Inv, Traced
    <2>2. <<Outcome(answer[c])>> # <<>>
      OBVIOUS
    <2>3. QED
      BY <2>1, <2>2 DEF Recorded
  <1>2. Inv => MetricsBalance
    BY <1>1 DEF Inv, Balanced, UnderWay, MetricsBalance
  <1>3. QED
    BY <1>2, Invariance, PTL

\* No image leaves after the deadline, although an operation that is ready wins over its
\* timeout (camera_snapshot_with looks at the clock again).
THEOREM SnapshotInTime == Spec => NoLateSnapshot
  <1>1. Inv /\ [Next]_vars =>
            [\A c \in Callers :
                op[c] = "camera_snapshot" /\ answer[c] # "ok" /\ answer'[c] = "ok"
                    => ~late[c]]_vars
    <2> SUFFICES ASSUME Inv, Next, NEW c \in Callers, op[c] = "camera_snapshot",
                        answer[c] # "ok", answer'[c] = "ok"
                 PROVE  ~late[c]
      BY DEF vars
    <2>1. ASSUME NEW d \in Callers, NEW a, End(d, a)
          PROVE  d = c /\ a = "ok"
      BY <2>1 DEF End, Inv, TypeOK
    <2>2. EntityTargeted(c) /\ Step(c) \notin ChangeSteps /\ pc[c] # "waiting"
          /\ (at[c] = Len(Plan[op[c]]) => Step(c) = "complete") /\ Step(c) # "entries"
      BY PlanShape DEF EntityTargeted, Targeted, Inv, Traced, Placed
    <2>3. ASSUME NEW d \in Callers, Advance(d)
          PROVE  d = c /\ Step(c) = "complete"
      BY <2>1, <2>2, <2>3 DEF Advance
    <2>4. PICK d \in Callers : Call(d) \/ Request(d) \/ Timeout(d) \/ Cancel(d)
      BY DEF Next, Apply, Refuse, Settle, calls, Change, DeadlinePasses
    <2>5. ~Call(d)
      BY DEF Call, Inv, TypeOK
    <2>6. ~Timeout(d) /\ ~Cancel(d) /\ ~Send(d)
      BY <2>1 DEF Timeout, Cancel, Send
    <2>7. ASSUME Receive(d)
          PROVE  FALSE
      BY <2>1, <2>2, <2>7 DEF Receive
    <2>8. ASSUME ConfigEntries(d)
          PROVE  FALSE
      BY <2>1, <2>2, <2>3, <2>8 DEF ConfigEntries, Makes
    <2>9. Request(d) /\ ~Complete(d) => FALSE
      BY <2>1, <2>2, <2>3, <2>6, <2>7, <2>8, RequestErrors DEF Request, OpenWebsocket, ExposedEntities,
         AuthorizeMatterDevice, WebsocketCommand, GetJson, ErrorCode, Makes
    <2>10. QED
      BY <2>1, <2>3, <2>4, <2>5, <2>6, <2>9 DEF Complete
  <1>2. QED
    BY <1>1, Invariance, PTL DEF Spec, NoLateSnapshot

-----------------------------------------------------------------------------
(* RestExchange *)

RestTypes ==
    /\ call \in Rest!Calls /\ status \in Rest!Statuses /\ body \in Rest!Bodies
    /\ exchange \in {"sending", "head", "reading", "over"}
    /\ read \in Nat
    /\ finished \in BOOLEAN /\ erred \in BOOLEAN /\ whole \in BOOLEAN

\* Until the call is over its span is open and nothing is answered.
RestRuns ==
    exchange # "over" => ~finished /\ outcomes = <<>> /\ ~erred /\ returned = "none" /\ ~whole

\* What has been read is part of the body and fits.
RestReads ==
    /\ read <= MaxResponse
    /\ exchange \in {"sending", "reading"} => status = "success"
    /\ exchange \in {"sending", "head"} => read = 0
    /\ exchange = "reading" => read <= body.size

RestInv == RestTypes /\ RestRuns /\ RestReads /\ RestIsTrue

\* The errors of a status say neither that the call was dropped nor that the body was
\* too large, and are never a success.
LEMMA RestStatusErrors ==
    ASSUME NEW s \in Rest!Statuses, s # "success"
    PROVE  Rest!StatusError[s] \notin {"ok", "none", "dropped", "response_too_large",
                                       "invalid_response"}
  BY DEF Rest!Statuses, Rest!StatusError

\* A call that ends with an outcome and an answer that fit each other.
LEMMA RestEnds ==
    ASSUME RestInv, exchange # "over", NEW o, NEW e \in BOOLEAN, NEW a, Rest!Finish(o, e, a),
           UNCHANGED <<call, status, body, read>>, whole' \in BOOLEAN,
           a = "ok" /\ call # "post_json_acceptance" => whole' /\ read = body.size,
           a = "response_too_large" => body.size > MaxResponse,
           o = "success" => ~e /\ a \in {"ok", "invalid_response"},
           (o = "http_error") <=> (a # "dropped" /\ status # "success"),
           (o = "response_error") <=> (a = "response_too_large"),
           (o = "cancelled") <=> (a = "dropped"),
           o \in {"transport_error", "response_error", "cancelled"} => e
    PROVE  RestInv'
  <1>1. /\ outcomes' = <<o>> /\ erred' = e /\ finished' = TRUE /\ exchange' = "over" /\ returned' = a
    BY DEF Rest!Finish, Rest!Record, RestInv, RestRuns, RestTypes
  <1>2. RestTypes' /\ RestRuns' /\ RestReads'
    BY <1>1 DEF RestInv, RestTypes, RestRuns, RestReads
  <1>3. Rest!BodyIsWhole' /\ Rest!BodyBounded'
    BY <1>1 DEF RestInv, RestReads, Rest!BodyIsWhole, Rest!BodyBounded
  <1>4. Len(outcomes') = 1 /\ outcomes'[1] = o
    BY <1>1
  <1>5. Rest!SpanIsTrue'
    BY <1>1, <1>4 DEF Rest!SpanIsTrue
  <1>6. QED
    BY <1>2, <1>3, <1>5 DEF RestInv, RestIsTrue

\* A request begins with nothing read.
LEMMA RestInit == Rest!Init => RestInv
  <1> SUFFICES ASSUME Rest!Init PROVE RestInv
    OBVIOUS
  <1>1. 0 \in 0..MaxResponse + 2
    BY ServerAssumption DEF Rest!ConstantsAssumption
  <1>2. RestTypes
    BY <1>1 DEF Rest!Init, RestTypes, Rest!Statuses, Rest!Bodies
  <1>3. RestRuns
    BY DEF Rest!Init, RestRuns
  <1>4. RestReads /\ RestIsTrue
    BY ServerAssumption DEF Rest!ConstantsAssumption, Rest!Init, RestReads, RestIsTrue,
       Rest!BodyIsWhole, Rest!BodyBounded, Rest!SpanIsTrue
  <1>5. QED
    BY <1>2, <1>3, <1>4 DEF RestInv

\* Every step of the request, of its response and of its caller.
LEMMA RestNext ==
    ASSUME RestInv, [Rest!Next]_(Rest!vars)
    PROVE  RestInv'
  <1>1. CASE Rest!Unreachable \/ Rest!StreamFails
    BY <1>1, RestEnds DEF Rest!Unreachable, Rest!StreamFails, RestInv, RestTypes, RestReads,
       RestRuns
  <1>2. CASE Rest!Respond
    BY <1>2 DEF Rest!Respond, RestInv, RestTypes, RestRuns, RestReads, RestIsTrue,
       Rest!BodyIsWhole, Rest!BodyBounded, Rest!SpanIsTrue
  <1>3. CASE Rest!Examine
    <2>1. exchange = "head" /\ UNCHANGED <<call, status, body, read, whole>>
      BY <1>3 DEF Rest!Examine
    <2>2. CASE status # "success"
      <3>1. Rest!Finish("http_error", status # "redirect", Rest!StatusError[status])
        BY <1>3, <2>2 DEF Rest!Examine
      <3>2. QED
        BY <2>1, <2>2, <3>1, RestEnds, RestStatusErrors DEF RestInv, RestTypes
    <2>3. CASE status = "success" /\ Rest!Finish("success", FALSE, "ok")
               /\ call = "post_json_acceptance"
      BY <2>1, <2>3, RestEnds DEF RestInv, RestTypes
    <2>4. CASE /\ status = "success" /\ body.size > MaxResponse
               /\ Rest!Finish("response_error", TRUE, "response_too_large")
      BY <2>1, <2>4, RestEnds DEF RestInv, RestTypes
    <2>5. CASE /\ status = "success" /\ exchange' = "reading"
               /\ UNCHANGED <<finished, outcomes, erred, returned>>
      <3>1. body.size \in Nat
        BY ServerAssumption DEF Rest!ConstantsAssumption, RestInv, RestTypes, Rest!Bodies
      <3>2. QED
        BY <2>1, <2>5, <3>1 DEF RestInv, RestTypes, RestRuns, RestReads, RestIsTrue,
           Rest!BodyIsWhole, Rest!BodyBounded, Rest!SpanIsTrue
    <2>6. QED
      BY <1>3, <2>2, <2>3, <2>4, <2>5 DEF Rest!Examine
  <1>4. CASE Rest!Chunk
    <2>1. PICK k \in 1..body.size - read :
             IF Rest!Fits(read + k)
             THEN read' = read + k /\ UNCHANGED <<exchange, finished, outcomes, erred, returned>>
             ELSE /\ Rest!Finish("response_error", TRUE, "response_too_large")
                  /\ UNCHANGED read
      BY <1>4 DEF Rest!Chunk
    <2>2. exchange = "reading" /\ status = "success" /\ UNCHANGED <<call, status, body, whole>>
      BY <1>4 DEF Rest!Chunk, RestInv, RestReads
    <2>3. body.size \in Nat /\ read \in Nat /\ MaxResponse \in Nat
      BY ServerAssumption DEF Rest!ConstantsAssumption, RestInv, RestTypes, Rest!Bodies
    <2>4. CASE Rest!Fits(read + k)
      <3>1. /\ read' \in Nat /\ read' <= MaxResponse /\ read' <= body.size
        BY <2>1, <2>3, <2>4 DEF Rest!Fits
      <3>2. QED
        BY <2>1, <2>2, <2>4, <3>1 DEF RestInv, RestTypes, RestRuns, RestReads,
           RestIsTrue, Rest!BodyIsWhole, Rest!BodyBounded, Rest!SpanIsTrue
    <2>5. CASE ~Rest!Fits(read + k)
      <3>1. body.size > MaxResponse
        BY <2>3, <2>5 DEF Rest!Fits
      <3>2. QED
        BY <2>1, <2>2, <2>5, <3>1, RestEnds DEF RestInv, RestTypes
    <2>6. QED
      BY <2>4, <2>5
  <1>5. CASE Rest!StreamEnds
    <2>1. /\ exchange = "reading" /\ read = body.size /\ whole' = TRUE /\ status = "success"
          /\ UNCHANGED <<call, status, body, read>>
      BY <1>5 DEF Rest!StreamEnds, RestInv, RestReads
    <2>2. Rest!Decode \in {"ok", "invalid_response"}
      BY DEF Rest!Decode
    <2>3. QED
      BY <1>5, <2>1, <2>2, RestEnds DEF Rest!StreamEnds
  <1>6. CASE Rest!Drop
    BY <1>6, RestEnds DEF Rest!Drop, RestInv, RestTypes
  <1>7. CASE UNCHANGED Rest!vars
    BY <1>7 DEF Rest!vars, RestInv, RestTypes, RestRuns, RestReads, RestIsTrue,
       Rest!BodyIsWhole, Rest!BodyBounded, Rest!SpanIsTrue
  <1>8. QED
    BY <1>1, <1>2, <1>3, <1>4, <1>5, <1>6, <1>7 DEF Rest!Next

\* For every limit and bodies up to and above it: data that is answered was read to its end,
\* no more than the limit is held, and the span has the one outcome its caller is told of
\* (get_json, get_image, post_json, read_body, RequestSpan).
THEOREM RestExchangeIsTrue == Rest!Spec => []RestIsTrue
  <1>1. RestInv /\ [Rest!Next]_(Rest!vars) => RestInv'
    BY RestNext
  <1>2. Rest!Init => RestInv
    BY RestInit
  <1>3. RestInv => RestIsTrue
    BY DEF RestInv
  <1>4. QED
    BY <1>1, <1>2, <1>3, PTL DEF Rest!Spec

-----------------------------------------------------------------------------
(* Lifecycle *)

Mains == Life!Starting \cup Life!Stopping \cup {"listening", "draining", "exited"}

RunningOnes == {r \in Requests : requests[r] = "running"}

LifeTypes ==
    /\ main \in Mains
    /\ exports \in [Life!Providers -> BOOLEAN] /\ shut \in [Life!Providers -> 0..1]
    /\ requests \in [Requests -> {"idle", "running", "over"}]
    /\ counted \in [Requests -> Seq(Life!Outcomes)]
    /\ active \in Int
    /\ cleanup \in [at : {"none", "top", "waiting", "cleaning", "ended"}, seen : Nat, rounds : Nat]
    /\ watch \in [stop : BOOLEAN, version : Nat]

\* Requests run only while main serves or drains.
LifeServes ==
    /\ IsFiniteSet(RunningOnes) /\ active = Cardinality(RunningOnes)
    /\ \A r \in Requests : Len(counted[r]) = (IF requests[r] = "over" THEN 1 ELSE 0)
    /\ main \notin {"listening", "draining"} => RunningOnes = {}

\* How far the shutdown has come: both providers are up or none until the meter is taken,
\* and the tracer is then what the meter was.
LifeStops ==
    /\ main \in Life!Stopping \ {"await_cleanup"} => cleanup.at = "ended"
    /\ main \notin {"stop_tracer", "exited"} =>
          exports["meter"] = exports["tracer"] /\ shut["meter"] = 0 /\ shut["tracer"] = 0
    /\ main = "stop_tracer" =>
          /\ ~exports["meter"] /\ shut["tracer"] = 0
          /\ shut["meter"] = (IF exports["tracer"] THEN 1 ELSE 0)
    /\ main = "exited" =>
          ~exports["meter"] /\ ~exports["tracer"] /\ shut["meter"] = shut["tracer"]

LifeInv == LifeTypes /\ LifeServes /\ LifeStops

\* The stages follow each other, up to the listener.
LEMMA StagesAre ==
    /\ Len(Life!Stages) = 9 /\ Life!Stages[1] = "telemetry_config"
    /\ Life!Starting = {"telemetry_config", "observability", "profiling", "config", "services",
                        "oauth", "router", "bind"}
    /\ \A i \in 1..8 : /\ Life!Stages[i] \in Life!Starting
                       /\ Life!Stages[i + 1] \in Life!Starting \cup {"listening"}
  <1>1. Len(Life!Stages) = 9
    BY DEF Life!Stages
  <1>2. Life!Starting = {Life!Stages[i] : i \in 1..8}
    BY <1>1 DEF Life!Starting
  <1>3. /\ Life!Stages[1] = "telemetry_config" /\ Life!Stages[2] = "observability"
        /\ Life!Stages[3] = "profiling" /\ Life!Stages[4] = "config"
        /\ Life!Stages[5] = "services" /\ Life!Stages[6] = "oauth"
        /\ Life!Stages[7] = "router" /\ Life!Stages[8] = "bind"
        /\ Life!Stages[9] = "listening"
    BY DEF Life!Stages
  <1>4. \A i \in 1..8 : i \in {1, 2, 3, 4, 5, 6, 7, 8}
    OBVIOUS
  <1>5. \A i \in {1, 2, 3, 4, 5, 6, 7, 8} : i \in 1..8
    OBVIOUS
  <1>6. Life!Starting = {"telemetry_config", "observability", "profiling", "config", "services",
                         "oauth", "router", "bind"}
    BY <1>2, <1>3, <1>4, <1>5
  <1>7. ASSUME NEW i \in 1..8
        PROVE  Life!Stages[i + 1] \in Life!Starting \cup {"listening"}
    BY <1>3, <1>4, <1>6
  <1>8. QED
    BY <1>1, <1>2, <1>3, <1>6, <1>7

\* A step that leaves the requests and the counter alone.
LEMMA LifeQuiet ==
    ASSUME LifeInv, LifeTypes', LifeStops', UNCHANGED <<requests, active, counted>>,
           main \in {"listening", "draining"} =>
               main' \in {"listening", "draining"} \/ RunningOnes = {}
    PROVE  LifeInv'
  <1>1. RunningOnes' = RunningOnes
    BY DEF RunningOnes
  <1>2. LifeServes'
    BY <1>1 DEF LifeInv, LifeServes
  <1>3. QED
    BY <1>2 DEF LifeInv

\* The process begins with nothing up.
LEMMA LifeInit == Life!Init => LifeInv
  <1> SUFFICES ASSUME Life!Init PROVE LifeInv
    OBVIOUS
  <1>1. LifeTypes
    BY StagesAre DEF Life!Init, LifeTypes, Mains, Life!Providers
  <1>2. LifeServes
    <2>1. RunningOnes = {}
      BY DEF Life!Init, RunningOnes
    <2>2. IsFiniteSet(RunningOnes) /\ Cardinality(RunningOnes) = 0
      BY <2>1, FS_EmptySet
    <2>3. QED
      BY <2>1, <2>2 DEF Life!Init, LifeServes
  <1>3. LifeStops
    BY StagesAre DEF Life!Init, LifeStops, Life!Stopping, Life!Providers
  <1>4. QED
    BY <1>1, <1>2, <1>3 DEF LifeInv

\* A stage succeeds; telemetry comes up as a whole or not at all.
LEMMA StartStep ==
    ASSUME LifeInv, NEW i \in 1..Len(Life!Stages), Life!StartStage(i)
    PROVE  LifeInv'
  <1>1. /\ main \in Life!Starting /\ main' \in Life!Starting \cup {"listening"}
        /\ UNCHANGED <<shut, watch, requests, active, counted>>
    BY StagesAre DEF Life!StartStage, Life!serving
  <1>2. exports' = exports \/ exports' = [q \in Life!Providers |-> TRUE]
    BY DEF Life!StartStage, Life!InitObservability
  <1>3. cleanup' = cleanup \/ cleanup' = [cleanup EXCEPT !.at = "top"]
    BY DEF Life!StartStage
  <1>4. LifeTypes'
    BY <1>1, <1>2, <1>3 DEF LifeInv, LifeTypes, Mains
  <1>5. LifeStops'
    BY <1>1, <1>2, StagesAre DEF LifeInv, LifeStops, Life!Stopping, Life!Providers
  <1>6. QED
    BY <1>1, <1>4, <1>5, StagesAre, LifeQuiet

\* Providers that are taken are shut down if they were up.
LEMMA ShutDownEffect ==
    ASSUME LifeTypes, NEW ps \in SUBSET Life!Providers, Life!ShutDown(ps),
           \A q \in ps : exports[q] => shut[q] = 0
    PROVE  /\ exports' \in [Life!Providers -> BOOLEAN] /\ shut' \in [Life!Providers -> 0..1]
           /\ \A q \in Life!Providers :
                 /\ q \in ps => ~exports'[q] /\ (shut'[q] = IF exports[q] THEN 1 ELSE shut[q])
                 /\ q \notin ps => exports'[q] = exports[q] /\ shut'[q] = shut[q]
  <1>1. /\ exports \in [Life!Providers -> BOOLEAN] /\ shut \in [Life!Providers -> 0..1]
        /\ exports' = [q \in Life!Providers |-> exports[q] /\ q \notin ps]
        /\ shut' = [q \in Life!Providers |->
                       IF q \in ps /\ exports[q] THEN shut[q] + 1 ELSE shut[q]]
    BY DEF LifeTypes, Life!ShutDown
  <1>2. exports' \in [Life!Providers -> BOOLEAN]
    BY <1>1, Zenon
  <1>3. ASSUME NEW q \in Life!Providers
        PROVE  shut'[q] = (IF q \in ps /\ exports[q] THEN 1 ELSE shut[q]) /\ shut[q] \in 0..1
    <2>1. shut'[q] = (IF q \in ps /\ exports[q] THEN shut[q] + 1 ELSE shut[q])
      BY <1>1, Zenon
    <2>2. shut[q] \in 0..1
      BY <1>1
    <2>3. q \in ps /\ exports[q] => shut[q] + 1 = 1
      BY <2>2
    <2>4. QED
      BY <2>1, <2>2, <2>3
  <1>4. shut' \in [Life!Providers -> 0..1]
    <2>1. DOMAIN shut' = Life!Providers /\ shut' = [q \in Life!Providers |-> shut'[q]]
      BY <1>1, Zenon
    <2>2. \A q \in Life!Providers : shut'[q] \in 0..1
      BY <1>3
    <2>3. QED
      BY <2>1, <2>2, Zenon
  <1>5. \A q \in Life!Providers : exports'[q] = (exports[q] /\ q \notin ps)
    BY <1>1, Zenon
  <1>6. ASSUME NEW q \in Life!Providers, q \in ps
        PROVE  ~exports'[q] /\ (shut'[q] = IF exports[q] THEN 1 ELSE shut[q])
    BY <1>3, <1>5, <1>6, Zenon
  <1>7. ASSUME NEW q \in Life!Providers, q \notin ps
        PROVE  exports'[q] = exports[q] /\ shut'[q] = shut[q]
    <2>1. shut'[q] = shut[q]
      BY <1>3, <1>7
    <2>2. exports[q] \in BOOLEAN
      BY <1>1, Zenon
    <2>3. QED
      BY <1>5, <1>7, <2>1, <2>2, Zenon
  <1>8. QED
    BY <1>2, <1>4, <1>6, <1>7, Zenon

\* The ways out: a stage that fails, and the end of the shutdown.
LEMMA ExitSteps ==
    ASSUME LifeInv, Life!StartFails \/ Life!StopTracer
    PROVE  LifeInv'
  <1>1. /\ main \in Life!Starting \cup {"stop_tracer"} /\ main' = "exited"
        /\ Life!ShutDown(Life!Providers)
        /\ UNCHANGED <<watch, cleanup, requests, active, counted>>
    BY DEF Life!StartFails, Life!StopTracer, Life!serving
  <1>2. \A q \in Life!Providers : exports[q] => shut[q] = 0
    BY <1>1, StagesAre DEF LifeInv, LifeStops, Life!Providers
  <1>3. /\ exports' \in [Life!Providers -> BOOLEAN] /\ shut' \in [Life!Providers -> 0..1]
        /\ \A q \in Life!Providers :
              ~exports'[q] /\ (shut'[q] = IF exports[q] THEN 1 ELSE shut[q])
    BY <1>1, <1>2, ShutDownEffect DEF LifeInv
  <1>4. LifeTypes'
    BY <1>1, <1>3 DEF LifeInv, LifeTypes, Mains
  <1>5. shut'["meter"] = shut'["tracer"]
    BY <1>1, <1>3, StagesAre DEF LifeInv, LifeStops, Life!Providers
  <1>6. LifeStops'
    BY <1>1, <1>3, <1>5 DEF LifeStops, Life!Stopping, Life!Providers
  <1>7. QED
    BY <1>1, <1>4, <1>6, StagesAre, LifeQuiet

\* The meter is taken first.
LEMMA MeterStep ==
    ASSUME LifeInv, Life!StopMeter
    PROVE  LifeInv'
  <1>1. /\ main = "stop_meter" /\ main' = "stop_tracer" /\ Life!ShutDown({"meter"})
        /\ UNCHANGED <<watch, cleanup, requests, active, counted>>
    BY DEF Life!StopMeter, Life!serving
  <1>2. /\ exports' \in [Life!Providers -> BOOLEAN] /\ shut' \in [Life!Providers -> 0..1]
        /\ ~exports'["meter"] /\ (shut'["meter"] = IF exports["meter"] THEN 1 ELSE shut["meter"])
        /\ exports'["tracer"] = exports["tracer"] /\ shut'["tracer"] = shut["tracer"]
    BY <1>1, ShutDownEffect DEF LifeInv, LifeStops, Life!Providers
  <1>3. LifeTypes'
    BY <1>1, <1>2 DEF LifeInv, LifeTypes, Mains, Life!Stopping
  <1>4. exports["meter"] = exports["tracer"] /\ shut["meter"] = 0 /\ shut["tracer"] = 0
        /\ cleanup.at = "ended"
    BY <1>1 DEF LifeInv, LifeStops, Life!Stopping
  <1>5. LifeStops'
    BY <1>1, <1>2, <1>4 DEF LifeStops, Life!Stopping
  <1>6. QED
    BY <1>1, <1>3, <1>5, LifeQuiet

\* The cleanup task, which never goes on once it has ended.
LEMMA LoopSteps ==
    ASSUME LifeInv, Life!Loop
    PROVE  LifeInv'
  <1>1. cleanup.at # "ended" /\ UNCHANGED <<main, exports, shut, watch, requests, active, counted>>
    BY DEF Life!Loop, Life!LoopHead, Life!SeeShutdown, Life!Tick, Life!Cleaned, Life!telemetry,
       Life!serving
  <1>2. cleanup' \in [at : {"none", "top", "waiting", "cleaning", "ended"}, seen : Nat, rounds : Nat]
    <2>1. cleanup \in [at : {"none", "top", "waiting", "cleaning", "ended"}, seen : Nat, rounds : Nat]
          /\ watch.version \in Nat
      BY DEF LifeInv, LifeTypes
    <2>2. CASE Life!LoopHead \/ Life!Cleaned
      BY <2>1, <2>2 DEF Life!LoopHead, Life!Cleaned
    <2>3. CASE Life!SeeShutdown
      BY <2>1, <2>3 DEF Life!SeeShutdown
    <2>4. CASE Life!Tick
      <3> DEFINE ticked == [cleanup EXCEPT !.at = "cleaning"]
      <3>1. cleanup' = [ticked EXCEPT !.rounds = cleanup.rounds + 1]
        BY <2>4, Zenon DEF Life!Tick
      <3>2. cleanup.rounds + 1 \in Nat
        BY <2>1
      <3>3. ticked \in [at : {"none", "top", "waiting", "cleaning", "ended"}, seen : Nat, rounds : Nat]
        BY <2>1
      <3> HIDE DEF ticked
      <3>4. QED
        BY <3>1, <3>2, <3>3
    <2>5. QED
      BY <2>2, <2>3, <2>4 DEF Life!Loop
  <1>3. LifeTypes'
    BY <1>1, <1>2 DEF LifeInv, LifeTypes
  <1>4. LifeStops'
    BY <1>1 DEF LifeInv, LifeStops
  <1>5. QED
    BY <1>1, <1>3, <1>4, LifeQuiet

\* The signal, the drain, and what main waits for before telemetry is stopped.
LEMMA WaitSteps ==
    ASSUME LifeInv,
           \/ Life!Signal \/ Life!Drained \/ Life!CleanupJoined \/ Life!StopProfiler
           \/ Life!ProfilerStops \/ Life!ProfilerAwaited \/ Life!ProfilerTimeout
    PROVE  LifeInv'
  <1>1. /\ UNCHANGED <<exports, shut, cleanup, requests, active, counted>>
        /\ \/ main' = main
           \/ main = "listening" /\ main' = "draining"
           \/ main = "draining" /\ main' = "await_cleanup" /\ RunningOnes = {}
           \/ main = "await_cleanup" /\ main' = "stop_profiler" /\ cleanup.at = "ended"
           \/ /\ main \in {"stop_profiler", "await_profiler"}
              /\ main' \in {"await_profiler", "stop_meter"}
    BY DEF Life!Signal, Life!Drained, Life!CleanupJoined, Life!StopProfiler,
       Life!ProfilerStops, Life!ProfilerAwaited, Life!ProfilerTimeout, Life!telemetry,
       Life!serving, RunningOnes
  <1>2. watch' \in [stop : BOOLEAN, version : Nat]
    <2>1. watch \in [stop : BOOLEAN, version : Nat]
      BY DEF LifeInv, LifeTypes
    <2>2. watch' = watch \/ watch' = [stop |-> TRUE, version |-> watch.version + 1]
      BY DEF Life!Signal, Life!Drained, Life!CleanupJoined, Life!StopProfiler,
         Life!ProfilerStops, Life!ProfilerAwaited, Life!ProfilerTimeout, Life!SendStop
    <2>3. watch.version + 1 \in Nat
      BY <2>1
    <2>4. [stop |-> TRUE, version |-> watch.version + 1] \in [stop : BOOLEAN, version : Nat]
      BY <2>3
    <2>5. QED
      BY <2>1, <2>2, <2>4, Zenon
  <1>3. main' \in Mains
    BY <1>1 DEF LifeInv, LifeTypes, Mains, Life!Stopping
  <1>4. LifeTypes'
    BY <1>1, <1>2, <1>3 DEF LifeInv, LifeTypes
  <1>5. LifeStops'
    BY <1>1 DEF LifeInv, LifeStops, Life!Stopping
  <1>6. QED
    BY <1>1, <1>4, <1>5, LifeQuiet

\* A request arrives and is active.
LEMMA ArriveStep ==
    ASSUME LifeInv, NEW r \in Requests, Life!Arrive(r)
    PROVE  LifeInv'
  <1>1. /\ main = "listening" /\ requests[r] = "idle" /\ active' = active + 1
        /\ requests' = [requests EXCEPT ![r] = "running"]
        /\ UNCHANGED <<main, exports, shut, watch, cleanup, counted>>
    BY DEF Life!Arrive, Life!telemetry
  <1>2. LifeTypes'
    BY <1>1 DEF LifeInv, LifeTypes
  <1>3. RunningOnes' = RunningOnes \cup {r} /\ r \notin RunningOnes
    BY <1>1 DEF LifeInv, LifeTypes, RunningOnes
  <1>4. IsFiniteSet(RunningOnes') /\ Cardinality(RunningOnes') = Cardinality(RunningOnes) + 1
    BY <1>3, FS_AddElement DEF LifeInv, LifeServes
  <1>5. LifeServes'
    BY <1>1, <1>4 DEF LifeInv, LifeTypes, LifeServes
  <1>6. LifeStops'
    BY <1>1 DEF LifeInv, LifeStops
  <1>7. QED
    BY <1>2, <1>5, <1>6 DEF LifeInv

\* A request is over, by its answer or by its client: the guard counts it once.
LEMMA OverStep ==
    ASSUME LifeInv, NEW r \in Requests,
           Life!Disconnect(r) \/ \E o \in {"success", "error"} : Life!Respond(r, o)
    PROVE  LifeInv'
  <1>1. PICK o \in Life!Outcomes :
           /\ requests[r] = "running" /\ active' = active - 1
           /\ counted' = [counted EXCEPT ![r] = Append(counted[r], o)]
           /\ requests' = [requests EXCEPT ![r] = "over"]
           /\ UNCHANGED <<main, exports, shut, watch, cleanup>>
    BY DEF Life!Disconnect, Life!Respond, Life!Over, Life!Drop, Life!Finish, Life!Guard,
       Life!telemetry, Life!Outcomes
  <1>2. LifeTypes'
    BY <1>1 DEF LifeInv, LifeTypes
  <1>3. RunningOnes' = RunningOnes \ {r} /\ r \in RunningOnes
    BY <1>1 DEF LifeInv, LifeTypes, RunningOnes
  <1>4. IsFiniteSet(RunningOnes') /\ Cardinality(RunningOnes') = Cardinality(RunningOnes) - 1
    BY <1>3, FS_RemoveElement DEF LifeInv, LifeServes
  <1>5. ASSUME NEW q \in Requests
        PROVE  Len(counted'[q]) = (IF requests'[q] = "over" THEN 1 ELSE 0)
    <2>1. /\ Len(counted[q]) = (IF requests[q] = "over" THEN 1 ELSE 0)
          /\ counted[q] \in Seq(Life!Outcomes)
      BY DEF LifeInv, LifeTypes, LifeServes
    <2>2. CASE q = r
      <3>1. counted'[q] = Append(counted[q], o) /\ requests'[q] = "over"
        BY <1>1, <2>2 DEF LifeInv, LifeTypes
      <3>2. QED
        BY <1>1, <2>1, <2>2, <3>1
    <2>3. CASE q # r
      BY <1>1, <2>1, <2>3 DEF LifeInv, LifeTypes
    <2>4. QED
      BY <2>2, <2>3
  <1>6. LifeServes'
    BY <1>1, <1>3, <1>4, <1>5 DEF LifeInv, LifeTypes, LifeServes
  <1>7. LifeStops'
    BY <1>1 DEF LifeInv, LifeStops
  <1>8. QED
    BY <1>2, <1>6, <1>7 DEF LifeInv

\* Every step of the process.
LEMMA LifeNext ==
    ASSUME LifeInv, [Life!Next]_(Life!vars)
    PROVE  LifeInv'
  <1>1. CASE UNCHANGED Life!vars
    BY <1>1 DEF Life!vars, LifeInv, LifeTypes, LifeServes, LifeStops, RunningOnes
  <1>2. CASE Life!Serve
    BY <1>2, ArriveStep, OverStep DEF Life!Serve
  <1>3. CASE Life!Stop \/ Life!Signal \/ Life!ProfilerStops \/ Life!StartFails
    BY <1>3, WaitSteps, MeterStep, ExitSteps DEF Life!Stop
  <1>4. QED
    BY <1>1, <1>2, <1>3, StartStep, LoopSteps DEF Life!Next

\* For any number of requests and rounds of the cleanup task, and whichever way main ends:
\* every HTTP request is counted once and none is active when the meter is shut down, the
\* cleanup task has ended before profiling and telemetry are, and each provider is shut
\* down once, the meter first.
THEOREM ProcessStopsInOrder == Life!Spec => []ShutdownIsOrderly
  <1>1. LifeInv /\ [Life!Next]_(Life!vars) => LifeInv'
    BY LifeNext
  <1>2. ASSUME LifeInv PROVE ShutdownIsOrderly
    <2>1. shut["meter"] \in 0..1 /\ shut["tracer"] \in 0..1
      BY <1>2 DEF LifeInv, LifeTypes, Life!Providers
    <2>2. Life!RequestsCounted
      <3>1. shut["meter"] > 0 => RunningOnes = {}
        BY <1>2, <2>1 DEF LifeInv, LifeServes, LifeStops
      <3>2. shut["meter"] > 0 => active = 0
        BY <1>2, <3>1, FS_EmptySet DEF LifeInv, LifeServes
      <3>3. active = Cardinality({r \in Requests : requests[r] = "running"})
        BY <1>2 DEF LifeInv, LifeServes, RunningOnes
      <3>4. \A r \in Requests : Len(counted[r]) = (IF requests[r] = "over" THEN 1 ELSE 0)
        BY <1>2 DEF LifeInv, LifeServes
      <3>5. QED
        BY <3>2, <3>3, <3>4 DEF Life!RequestsCounted, Life!Cardinality, Cardinality
    <2>3. Life!CleanupStopsFirst
      BY <1>2 DEF LifeInv, LifeStops, Life!CleanupStopsFirst
    <2>4. Life!ProvidersShutOnce
      BY <1>2, <2>1 DEF LifeInv, LifeStops, Life!ProvidersShutOnce, Life!Providers
    <2>5. QED
      BY <2>2, <2>3, <2>4 DEF ShutdownIsOrderly
  <1>3. QED
    BY <1>1, <1>2, LifeInit, PTL DEF Life!Spec

-----------------------------------------------------------------------------
(***************************************************************************)
(* The discovery of Thread routers.  The invariant foresees: there is a    *)
(* walk from what the client has recorded through the messages on their    *)
(* way to what Home Assistant knows, or knew when the subscription ended,  *)
(* and the walk never holds more routers than were known at a time.  A     *)
(* message received is the walk's first step, a message sent one more.     *)
(***************************************************************************)

\* A state of the routers after one more message.
AfterMessage(r, m) == IF m.type = "event" THEN [r EXCEPT ![m.key] = m.data] ELSE r

\* h[i] is what a client that has recorded r has recorded after i of the messages.
Walk(h, messages, r) ==
    /\ h \in [0..Len(messages) -> Thread!Routers]
    /\ h[0] = r
    /\ \A i \in 1..Len(messages) : h[i] = AfterMessage(h[i - 1], messages[i])

\* It ends at what Home Assistant knows, or knew when the subscription ended.
Arrives(h) ==
    /\ listening => h[Len(inbox)] = network
    /\ discovery = "leaving" /\ ~listening => h[Len(inbox)] = final

\* The most routers at a time are still to come, if they are too many.
Peaks(h, messages, most) ==
    /\ \A i \in 0..Len(messages) : Cardinality(Thread!Known(h[i])) <= most
    /\ most > MaxRouters =>
          \E i \in 0..Len(messages) : Cardinality(Thread!Known(h[i])) > MaxRouters

Foreseen == \E h : Walk(h, inbox, routers) /\ Arrives(h) /\ Peaks(h, inbox, peak)

Only(types) == \A i \in 1..Len(inbox) : inbox[i].type \in types

\* What is on its way in both directions, by the place of the client.
Untouched == ~listening /\ routers = Thread!NoRouters /\ peak = 0
Subscribing ==
    \/ asked = <<"subscribe">> /\ Untouched /\ inbox = <<>>
    \/ asked = <<>> /\ Untouched /\ Only({"rejected"})
    \/ /\ asked = <<>> /\ listening /\ Only({"event", "subscribed"})
       /\ \A i, j \in 1..Len(inbox) :
             inbox[i].type = "subscribed" /\ inbox[j].type = "subscribed" => i = j
Leaving ==
    \/ asked = <<"unsubscribe">> /\ listening /\ Only({"event"})
    \/ asked = <<>> /\ listening /\ Only({"event", "rejected"})
    \/ /\ asked = <<>> /\ ~listening /\ Only({"event", "unsubscribed"})
       /\ \A i \in 1..Len(inbox) : inbox[i].type = "unsubscribed" => i = Len(inbox)
Conversation ==
    /\ discovery = "start" => asked = <<>> /\ inbox = <<>> /\ Untouched
    /\ discovery = "subscribing" => Subscribing
    /\ discovery = "following" => asked = <<>> /\ listening /\ Only({"event"})
    /\ discovery = "leaving" => Leaving
    /\ discovery = "done" => asked = <<>> /\ ~listening

ThreadInv ==
    /\ DiscoveryIsTrue /\ Conversation
    /\ Thread!Running => Foreseen /\ Cardinality(Thread!Known(routers)) <= MaxRouters

Messages == Thread!Events \cup Thread!Results

\* The two modules count alike.
LEMMA SameCardinality == \A S : Thread!Cardinality(S) = Cardinality(S)
  BY DEF Thread!Cardinality, Cardinality

\* What is assumed of keys, routers and data.
LEMMA KeysAreFinite == IsFiniteSet(Keys) /\ MaxRouters \in Nat /\ RouterChanges \in Nat /\ 0 \notin Data
  BY ServerAssumption DEF Thread!LimitsAssumption, Thread!DataAssumption, Thread!IsFiniteSet,
     IsFiniteSet

\* The routers known at a time are counted.
LEMMA KnownIsCounted ==
    ASSUME NEW r
    PROVE  /\ IsFiniteSet(Thread!Known(r))
           /\ Cardinality(Thread!Known(r)) \in 0..Cardinality(Keys)
           /\ Cardinality(Thread!Known(r)) \in Nat /\ Cardinality(Keys) \in Nat
  <1>1. Thread!Known(r) \subseteq Keys
    BY DEF Thread!Known
  <1>2. /\ IsFiniteSet(Thread!Known(r))
        /\ Cardinality(Thread!Known(r)) <= Cardinality(Keys)
    BY <1>1, KeysAreFinite, FS_Subset
  <1>3. Cardinality(Thread!Known(r)) \in Nat /\ Cardinality(Keys) \in Nat
    BY <1>2, KeysAreFinite, FS_CardinalityType
  <1>4. QED
    BY <1>2, <1>3

\* A report has an event for every known router.
LEMMA ReportsAreWhole ==
    ASSUME NEW r \in Thread!Routers, NEW s \in Thread!Reports(r)
    PROVE  /\ s \in Seq(Thread!Events) /\ Len(s) = Cardinality(Thread!Known(r))
           /\ \A i \in 1..Len(s) : \E k \in Thread!Known(r) : s[i] = Thread!Event(k, r[k])
           /\ \A k \in Thread!Known(r) : \E i \in 1..Len(s) : s[i] = Thread!Event(k, r[k])
  <1> DEFINE K == Thread!Known(r)
             n == Cardinality(K)
             E == {Thread!Event(k, r[k]) : k \in K}
  <1>1. IsFiniteSet(K) /\ n \in Nat
    BY KnownIsCounted
  <1>2. s \in [1..n -> E] /\ \A i, j \in DOMAIN s : s[i] = s[j] => i = j
    BY SameCardinality DEF Thread!Reports
  <1>3. E \subseteq Thread!Events
    BY DEF Thread!Events, Thread!Event, Thread!Known, Thread!Routers
  <1>4. s \in Seq(Thread!Events) /\ Len(s) = n
    BY <1>1, <1>2, <1>3
  <1>5. ASSUME NEW k \in K, \A i \in 1..n : s[i] # Thread!Event(k, r[k])
        PROVE  FALSE
    <2> DEFINE others == K \ {k}
               of == [i \in 1..n |-> s[i].key]
    <2>1. IsFiniteSet(others) /\ Cardinality(others) = n - 1
      BY <1>1, FS_RemoveElement
    <2>2. \A i \in 1..n : s[i].key \in K /\ s[i] = Thread!Event(s[i].key, r[s[i].key])
      BY <1>2 DEF Thread!Event
    <2>3. of \in [1..n -> others]
      BY <1>5, <2>2
    <2>4. IsFiniteSet(1..n) /\ Cardinality(1..n) = n
      BY <1>1, FS_Interval
    <2>5. Cardinality(others) < Cardinality(1..n)
      BY <1>1, <2>1, <2>4
    <2>6. PICK x, y \in 1..n : x # y /\ of[x] = of[y]
      <3> HIDE DEF of, others
      <3>1. QED
        BY <2>1, <2>3, <2>4, <2>5, FS_PigeonHole
    <2>7. QED
      BY <1>2, <2>2, <2>6
  <1>6. QED
    BY <1>2, <1>4, <1>5

\* A discovery begins with nothing recorded and nothing on its way.
LEMMA ThreadInit == Thread!Init => ThreadInv
  <1> SUFFICES ASSUME Thread!Init PROVE ThreadInv
    OBVIOUS
  <1>1. Cardinality(Keys) \in Nat /\ Thread!Cardinality(Keys) = Cardinality(Keys)
    BY KeysAreFinite, FS_CardinalityType, SameCardinality
  <1>2. Thread!NoRouters \in Thread!Routers /\ Thread!Known(Thread!NoRouters) = {}
    BY DEF Thread!NoRouters, Thread!Routers, Thread!Known
  <1>3. Thread!TypeOK
    <2>1. 0 \in 0..RouterChanges /\ 0 \in 0..Cardinality(Keys)
      BY <1>1, KeysAreFinite
    <2>2. asked \in Seq({"subscribe", "unsubscribe"}) /\ inbox \in Seq(Messages)
      BY DEF Thread!Init
    <2>3. QED
      BY <1>1, <1>2, <2>1, <2>2 DEF Thread!Init, Thread!TypeOK, Messages
  <1>4. Cardinality(Thread!Known(Thread!NoRouters)) = 0
    BY <1>2, FS_EmptySet
  <1>5. DiscoveryIsTrue
    BY <1>3 DEF Thread!Init, DiscoveryIsTrue, Thread!DiscoveryIsExact, Thread!LimitIsExact
  <1>6. Conversation
    BY DEF Thread!Init, Conversation, Untouched
  <1>7. Foreseen
    <2> DEFINE h == [i \in 0..0 |-> routers]
    <2>1. Len(inbox) = 0 /\ routers = Thread!NoRouters /\ peak = 0
      BY DEF Thread!Init
    <2>2. Walk(h, inbox, routers)
      BY <1>2, <2>1 DEF Walk
    <2>3. Arrives(h)
      BY DEF Arrives, Thread!Init
    <2>4. Peaks(h, inbox, peak)
      BY <1>4, <2>1, KeysAreFinite DEF Peaks
    <2>5. QED
      BY <2>2, <2>3, <2>4 DEF Foreseen
  <1>8. Cardinality(Thread!Known(routers)) <= MaxRouters
    BY <1>4, KeysAreFinite DEF Thread!Init
  <1>9. QED
    BY <1>5, <1>6, <1>7, <1>8 DEF ThreadInv

\* One message less on its way ...
LEMMA WalkOn ==
    ASSUME inbox \in Seq(Messages), inbox # <<>>, NEW h, Walk(h, inbox, routers), Peaks(h, inbox, peak), peak \in Nat,
           Cardinality(Thread!Known(routers)) <= MaxRouters,
           inbox' = Tail(inbox), routers' = AfterMessage(routers, inbox[1]), peak' = peak
    PROVE  /\ \E g : Walk(g, inbox', routers') /\ Peaks(g, inbox', peak') /\ g[Len(inbox')] = h[Len(inbox)]
           /\ routers' \in Thread!Routers /\ Cardinality(Thread!Known(routers')) <= peak
  <1> DEFINE n == Len(inbox)
             g == [i \in 0..n - 1 |-> h[i + 1]]
  <1>1. /\ n \in Nat \ {0} /\ Len(inbox') = n - 1
        /\ \A i \in 1..n - 1 : inbox'[i] = inbox[i + 1]
    OBVIOUS
  <1>2. /\ h[0] = routers /\ \A i \in 0..n : h[i] \in Thread!Routers
        /\ \A i \in 1..n : h[i] = AfterMessage(h[i - 1], inbox[i])
    BY DEF Walk
  <1> HIDE DEF n
  <1>3. h[1] = routers'
    BY <1>1, <1>2
  <1>4. g \in [0..n - 1 -> Thread!Routers] /\ g[0] = routers' /\ g[n - 1] = h[n]
    BY <1>1, <1>2, <1>3
  <1>5. ASSUME NEW i \in 1..n - 1
        PROVE  g[i] = AfterMessage(g[i - 1], inbox'[i])
    <2>1. i + 1 \in 1..n /\ (i + 1) - 1 = i /\ i \in 0..n - 1 /\ i - 1 \in 0..n - 1 /\ (i - 1) + 1 = i
      BY <1>1
    <2>2. h[i + 1] = AfterMessage(h[i], inbox[i + 1])
      BY <1>2, <2>1
    <2>3. QED
      BY <1>1, <2>1, <2>2
  <1>6. Walk(g, inbox', routers')
    BY <1>1, <1>4, <1>5 DEF Walk
  <1>7. Peaks(g, inbox', peak')
    <2>1. \A i \in 0..n - 1 : i + 1 \in 0..n
      BY <1>1
    <2>2. \A i \in 0..n - 1 : Cardinality(Thread!Known(g[i])) <= peak
      BY <2>1 DEF Peaks, n
    <2>3. ASSUME peak > MaxRouters
          PROVE  \E i \in 0..n - 1 : Cardinality(Thread!Known(g[i])) > MaxRouters
      <3>1. PICK i \in 0..n : Cardinality(Thread!Known(h[i])) > MaxRouters
        BY <2>3 DEF Peaks, n
      <3>2. i # 0
        BY <1>2, <3>1, KnownIsCounted, KeysAreFinite
      <3>3. i - 1 \in 0..n - 1 /\ (i - 1) + 1 = i
        BY <1>1, <3>2
      <3>4. QED
        BY <3>1, <3>3
    <2>4. QED
      BY <1>1, <2>2, <2>3 DEF Peaks
  <1>8. Cardinality(Thread!Known(routers')) <= peak
    BY <1>1, <1>3 DEF Peaks, n
  <1>9. routers' \in Thread!Routers
    BY <1>1, <1>2, <1>3
  <1>10. QED
    BY <1>1, <1>4, <1>6, <1>7, <1>8, <1>9 DEF n

\* ... and one more.
LEMMA WalkLonger ==
    ASSUME inbox \in Seq(Messages), NEW m \in Messages, inbox' = Append(inbox, m),
           NEW h, Walk(h, inbox, routers), Peaks(h, inbox, peak), peak \in Nat, peak' \in Nat, routers' = routers, peak <= peak',
           AfterMessage(h[Len(inbox)], m) \in Thread!Routers,
           Cardinality(Thread!Known(AfterMessage(h[Len(inbox)], m))) <= peak',
           peak' = peak \/ peak' = Cardinality(Thread!Known(AfterMessage(h[Len(inbox)], m)))
    PROVE  \E g : /\ Walk(g, inbox', routers') /\ Peaks(g, inbox', peak')
                  /\ g[Len(inbox')] = AfterMessage(h[Len(inbox)], m)
  <1> DEFINE n == Len(inbox)
             last == AfterMessage(h[n], m)
             g == [i \in 0..n + 1 |-> IF i <= n THEN h[i] ELSE last]
  <1>1. /\ n \in Nat /\ Len(inbox') = n + 1 /\ inbox'[n + 1] = m
        /\ \A i \in 1..n : inbox'[i] = inbox[i]
    OBVIOUS
  <1>2. /\ h[0] = routers /\ \A i \in 0..n : h[i] \in Thread!Routers
        /\ \A i \in 1..n : h[i] = AfterMessage(h[i - 1], inbox[i])
        /\ last \in Thread!Routers
    BY DEF Walk
  <1>3. /\ \A i \in 0..n : Cardinality(Thread!Known(h[i])) <= peak
        /\ peak > MaxRouters =>
              \E i \in 0..n : Cardinality(Thread!Known(h[i])) > MaxRouters
        /\ Cardinality(Thread!Known(last)) <= peak'
        /\ peak' = peak \/ peak' = Cardinality(Thread!Known(last))
    BY DEF Peaks
  <1> HIDE DEF n, last
  <1>4. /\ g \in [0..n + 1 -> Thread!Routers] /\ g[0] = routers /\ g[n + 1] = last
        /\ \A i \in 0..n : g[i] = h[i]
    BY <1>1, <1>2
  <1> HIDE DEF g
  <1>5. ASSUME NEW i \in 1..n + 1
        PROVE  g[i] = AfterMessage(g[i - 1], inbox'[i])
    <2>1. CASE i = n + 1
      <3>1. i - 1 = n /\ n \in 0..n
        BY <1>1, <2>1
      <3>2. QED
        BY <1>1, <1>4, <2>1, <3>1 DEF last
    <2>2. CASE i # n + 1
      <3>1. i \in 1..n /\ i \in 0..n /\ i - 1 \in 0..n
        BY <1>1, <2>2
      <3>2. QED
        BY <1>1, <1>2, <1>4, <3>1
    <2>3. QED
      BY <2>1, <2>2
  <1>6. Walk(g, inbox', routers')
    BY <1>1, <1>4, <1>5 DEF Walk
  <1>7. \A i \in 0..n + 1 : i \in 0..n \/ i = n + 1
    BY <1>1
  <1>8. \A i \in 0..n + 1 : Cardinality(Thread!Known(g[i])) <= peak'
    <2>1. ASSUME NEW i \in 0..n PROVE Cardinality(Thread!Known(g[i])) <= peak'
      BY <1>3, <1>4, KnownIsCounted
    <2>2. QED
      BY <1>3, <1>4, <1>7, <2>1
  <1>9. ASSUME peak' > MaxRouters
        PROVE  \E i \in 0..n + 1 : Cardinality(Thread!Known(g[i])) > MaxRouters
    <2>1. CASE peak' = peak
      <3>1. PICK i \in 0..n : Cardinality(Thread!Known(h[i])) > MaxRouters
        BY <1>3, <1>9, <2>1
      <3>2. i \in 0..n + 1 /\ g[i] = h[i]
        BY <1>1, <1>4
      <3>3. QED
        BY <3>1, <3>2
    <2>2. CASE peak' = Cardinality(Thread!Known(last))
      BY <1>1, <1>4, <1>9, <2>2
    <2>3. QED
      BY <1>3, <2>1, <2>2
  <1>10. Peaks(g, inbox', peak')
    BY <1>1, <1>8, <1>9 DEF Peaks
  <1>11. QED
    BY <1>1, <1>4, <1>6, <1>10 DEF n, last

\* What TypeOK says of the messages, the first of them and the rest.
LEMMA MessageTypes ==
    ASSUME Thread!TypeOK
    PROVE  /\ inbox \in Seq(Messages) /\ Len(inbox) \in Nat
           /\ \A i \in 1..Len(inbox) : inbox[i] \in Messages
           /\ \A m \in Messages : m.type = "event" => m.key \in Keys /\ m.data \in Data \cup {0}
           /\ peak \in 0..Cardinality(Keys) /\ peak \in Nat
           /\ inbox # <<>> => /\ Head(inbox) = inbox[1] /\ inbox[1] \in Messages /\ Len(inbox) >= 1
                              /\ Tail(inbox) \in Seq(Messages) /\ Len(Tail(inbox)) = Len(inbox) - 1
                              /\ \A i \in 1..Len(inbox) - 1 : Tail(inbox)[i] = inbox[i + 1]
  <1>1. inbox \in Seq(Messages)
    BY DEF Thread!TypeOK, Messages
  <1>2. \A m \in Messages : m.type = "event" => m.key \in Keys /\ m.data \in Data \cup {0}
    BY DEF Messages, Thread!Events, Thread!Results
  <1>3. Cardinality(Keys) \in Nat /\ Thread!Cardinality(Keys) = Cardinality(Keys)
    BY KeysAreFinite, FS_CardinalityType, SameCardinality
  <1>4. peak \in 0..Cardinality(Keys)
    BY <1>3 DEF Thread!TypeOK
  <1> HIDE DEF Messages
  <1>5. QED
    BY <1>1, <1>2, <1>3, <1>4

\* The client asks for something.
LEMMA ThreadAsks ==
    ASSUME ThreadInv, Thread!Subscribe \/ Thread!Unsubscribe
    PROVE  ThreadInv'
  <1>1. UNCHANGED <<network, listening, inbox, routers, moved, final, peak>> /\ Thread!Running
    BY DEF Thread!Subscribe, Thread!Unsubscribe, Thread!Ask, Thread!Running
  <1>2. /\ asked = <<>>
        /\ \/ discovery = "start" /\ discovery' = "subscribing" /\ asked' = <<"subscribe">>
           \/ discovery = "following" /\ discovery' = "leaving" /\ asked' = <<"unsubscribe">>
    <2>1. \/ /\ discovery = "start" /\ discovery' = "subscribing"
             /\ asked' = Append(asked, "subscribe")
          \/ /\ discovery = "following" /\ discovery' = "leaving"
             /\ asked' = Append(asked, "unsubscribe")
      BY DEF Thread!Subscribe, Thread!Unsubscribe, Thread!Ask
    <2>2. asked = <<>>
      BY <2>1 DEF ThreadInv, Conversation
    <2>3. Append(<<>>, "subscribe") = <<"subscribe">> /\ Append(<<>>, "unsubscribe") = <<"unsubscribe">>
      OBVIOUS
    <2>4. QED
      BY <2>1, <2>2, <2>3
  <1>3. Thread!TypeOK'
    <2>1. /\ <<"subscribe">> \in Seq({"subscribe", "unsubscribe"})
          /\ <<"unsubscribe">> \in Seq({"subscribe", "unsubscribe"})
      OBVIOUS
    <2>2. QED
      BY <1>1, <1>2, <2>1 DEF ThreadInv, DiscoveryIsTrue, Thread!TypeOK
  <1>4. Conversation'
    BY <1>1, <1>2 DEF ThreadInv, Conversation, Subscribing, Leaving, Untouched, Only
  <1>5. Foreseen'
    <2>1. PICK h : Walk(h, inbox, routers) /\ Arrives(h) /\ Peaks(h, inbox, peak)
      BY <1>1 DEF ThreadInv, Foreseen
    <2>2. Walk(h, inbox', routers') /\ Peaks(h, inbox', peak')
      BY <1>1, <2>1
    <2>3. Arrives(h)'
      BY <1>1, <1>2, <2>1 DEF Arrives, ThreadInv, Conversation
    <2>4. QED
      BY <2>2, <2>3 DEF Foreseen
  <1>6. QED
    BY <1>1, <1>2, <1>3, <1>4, <1>5 DEF ThreadInv, DiscoveryIsTrue, Thread!DiscoveryIsExact,
       Thread!LimitIsExact, Thread!Running

\* The connection breaks or the time is over.
LEMMA ThreadAbandons ==
    ASSUME ThreadInv, Thread!Abandon
    PROVE  ThreadInv'
  <1>1. discovery' \in {"UpstreamUnavailable", "Timeout"}
    BY DEF Thread!Abandon
  <1>2. Thread!TypeOK'
    BY <1>1 DEF Thread!Abandon, ThreadInv, DiscoveryIsTrue, Thread!TypeOK
  <1>3. QED
    BY <1>1, <1>2 DEF ThreadInv, DiscoveryIsTrue, Thread!DiscoveryIsExact, Thread!LimitIsExact,
       Thread!Running, Conversation

\* A message that leaves the client where it is.
LEMMA SameConversation ==
    ASSUME Thread!TypeOK, Conversation, inbox # <<>>, inbox' = Tail(inbox), Thread!Running,
           inbox[1].type = "event", UNCHANGED <<discovery, asked, listening, peak>>
    PROVE  Conversation'
  <1>1. /\ Len(inbox) \in Nat /\ Len(inbox) >= 1 /\ Len(inbox') = Len(inbox) - 1
        /\ \A i \in 1..Len(inbox') : inbox'[i] = inbox[i + 1] /\ i + 1 \in 1..Len(inbox)
    BY MessageTypes
  <1>2. \A S : Only(S) => Only(S)'
    BY <1>1 DEF Only
  <1>3. ~(Untouched /\ Only({"rejected"})) /\ discovery # "start"
    BY <1>1 DEF Only, Conversation
  <1>4. ASSUME discovery = "subscribing" PROVE Subscribing'
    <2>1. /\ asked = <<>> /\ listening /\ Only({"event", "subscribed"})
          /\ \A i, j \in 1..Len(inbox) :
                inbox[i].type = "subscribed" /\ inbox[j].type = "subscribed" => i = j
      BY <1>3, <1>4 DEF Conversation, Subscribing
    <2>2. \A i, j \in 1..Len(inbox') :
             inbox'[i].type = "subscribed" /\ inbox'[j].type = "subscribed" => i = j
      <3>1. SUFFICES ASSUME NEW i \in 1..Len(inbox'), NEW j \in 1..Len(inbox'),
                            inbox'[i].type = "subscribed", inbox'[j].type = "subscribed"
                     PROVE  i = j
        OBVIOUS
      <3>2. i + 1 = j + 1
        BY <1>1, <2>1, <3>1
      <3>3. QED
        BY <1>1, <3>2
    <2>3. QED
      BY <1>2, <2>1, <2>2 DEF Subscribing
  <1>5. ASSUME discovery = "leaving" PROVE Leaving'
    <2>1. CASE asked = <<>> /\ ~listening
      <3>1. /\ Only({"event", "unsubscribed"})
            /\ \A i \in 1..Len(inbox) : inbox[i].type = "unsubscribed" => i = Len(inbox)
        BY <1>5, <2>1 DEF Conversation, Leaving
      <3>2. ASSUME NEW i \in 1..Len(inbox'), inbox'[i].type = "unsubscribed"
            PROVE  i = Len(inbox')
        <4>1. i + 1 = Len(inbox)
          BY <1>1, <3>1, <3>2
        <4>2. Len(inbox) \in Nat /\ Len(inbox') = Len(inbox) - 1
          BY <1>1
        <4>3. i \in Int
          BY <4>2
        <4>4. QED
          BY <4>1, <4>2, <4>3
      <3>3. QED
        BY <1>2, <2>1, <3>1, <3>2 DEF Leaving
    <2>2. CASE ~(asked = <<>> /\ ~listening)
      BY <1>2, <1>5, <2>2 DEF Conversation, Leaving
    <2>3. QED
      BY <2>1, <2>2
  <1>6. QED
    BY <1>2, <1>3, <1>4, <1>5 DEF Conversation, Thread!Running

\* The client takes the next message.
LEMMA ThreadReceives ==
    ASSUME ThreadInv, Thread!Receive
    PROVE  ThreadInv'
  <1> DEFINE m == inbox[1]
  <1>1. /\ Thread!TypeOK /\ Conversation /\ Thread!Running /\ inbox # <<>> /\ inbox' = Tail(inbox)
        /\ UNCHANGED <<network, listening, asked, moved, final, peak>>
        /\ Cardinality(Thread!Known(routers)) <= MaxRouters
    BY DEF Thread!Receive, ThreadInv, DiscoveryIsTrue, Thread!Running
  <1>2. /\ inbox \in Seq(Messages) /\ Len(inbox) \in Nat /\ Len(inbox) >= 1 /\ m \in Messages
        /\ Head(inbox) = m /\ inbox' \in Seq(Messages) /\ Len(inbox') = Len(inbox) - 1
        /\ \A i \in 1..Len(inbox') : inbox'[i] = inbox[i + 1] /\ i + 1 \in 1..Len(inbox)
        /\ peak \in Nat
    BY <1>1, MessageTypes
  <1>3. \/ m.type = "event" /\ Thread!Apply(m, discovery)
        \/ m.type = "subscribed" /\ discovery' = "following" /\ UNCHANGED routers
        \/ m.type = "unsubscribed" /\ discovery' = "done" /\ UNCHANGED routers
        \/ m.type = "rejected" /\ discovery' = "RequestRejected" /\ UNCHANGED routers
    BY <1>2 DEF Thread!Receive
  <1>4. PICK h : Walk(h, inbox, routers) /\ Arrives(h) /\ Peaks(h, inbox, peak)
    BY <1>1 DEF ThreadInv, Foreseen
  <1>5. routers' = AfterMessage(routers, m)
    BY <1>3 DEF AfterMessage, Thread!Apply
  <1>6. PICK g : /\ Walk(g, inbox', routers') /\ Peaks(g, inbox', peak')
                 /\ g[Len(inbox')] = h[Len(inbox)]
    BY <1>1, <1>2, <1>4, <1>5, WalkOn
  <1>7. routers' \in Thread!Routers /\ Cardinality(Thread!Known(routers')) <= peak
    BY <1>1, <1>2, <1>4, <1>5, WalkOn
  <1>8. /\ discovery' \in {"subscribing", "following", "leaving", "done", "RequestRejected",
                           "ResponseTooLarge"}
        /\ Thread!TypeOK'
    BY <1>1, <1>2, <1>3, <1>7 DEF Thread!TypeOK, Thread!Apply, Thread!Receive, Messages
  <1> HIDE DEF m
  <1>9. CASE m.type = "event"
    <2>1. Cardinality(Thread!Known(routers')) \in Nat /\ MaxRouters \in Nat
      BY KnownIsCounted, KeysAreFinite
    <2>2. discovery' = (IF Cardinality(Thread!Known(routers')) > MaxRouters
                        THEN "ResponseTooLarge" ELSE discovery)
      BY <1>3, <1>9, SameCardinality DEF Thread!Apply
    <2>3. CASE Cardinality(Thread!Known(routers')) > MaxRouters
      <3>1. discovery' = "ResponseTooLarge" /\ peak' > MaxRouters
        BY <1>1, <1>2, <1>7, <2>1, <2>2, <2>3
      <3>2. QED
        BY <1>8, <3>1 DEF ThreadInv, DiscoveryIsTrue, Thread!DiscoveryIsExact,
           Thread!LimitIsExact, Thread!Running, Conversation
    <2>4. CASE ~(Cardinality(Thread!Known(routers')) > MaxRouters)
      <3>1. discovery' = discovery /\ Cardinality(Thread!Known(routers')) <= MaxRouters
        BY <2>1, <2>2, <2>4
      <3>2. Conversation'
        BY <1>1, <1>9, <3>1, SameConversation DEF m
      <3>3. Arrives(g)'
        BY <1>1, <1>4, <1>6, <3>1 DEF Arrives
      <3>4. Foreseen'
        BY <1>6, <3>3 DEF Foreseen
      <3>5. discovery' \notin {"done", "ResponseTooLarge"}
        BY <1>1, <3>1 DEF Thread!Running
      <3>6. QED
        BY <1>8, <3>1, <3>2, <3>4, <3>5 DEF ThreadInv, DiscoveryIsTrue, Thread!DiscoveryIsExact,
           Thread!LimitIsExact
    <2>5. QED
      BY <2>3, <2>4
  <1>10. CASE m.type = "subscribed"
    <2>1. discovery' = "following" /\ routers' = routers
      BY <1>3, <1>10
    <2>2. /\ asked = <<>> /\ listening /\ Only({"event", "subscribed"})
          /\ \A i, j \in 1..Len(inbox) :
                inbox[i].type = "subscribed" /\ inbox[j].type = "subscribed" => i = j
      <3>1. 1 \in 1..Len(inbox)
        BY <1>2
      <3>2. \A S : Only(S) => m.type \in S
        BY <3>1 DEF Only, m
      <3>3. ~Only({"event"}) /\ ~Only({"rejected"}) /\ ~Only({"event", "rejected"})
            /\ ~Only({"event", "unsubscribed"})
        BY <1>10, <3>2
      <3>4. discovery = "subscribing"
        BY <1>1, <3>3 DEF Conversation, Leaving, Thread!Running
      <3>5. QED
        BY <1>1, <3>3, <3>4 DEF Conversation, Subscribing
    <2>3. ASSUME NEW i \in 1..Len(inbox') PROVE inbox'[i].type = "event"
      <3>1. i + 1 # 1 /\ 1 \in 1..Len(inbox)
        BY <1>2
      <3>2. inbox[i + 1].type # "subscribed"
        BY <1>2, <1>10, <2>2, <3>1 DEF m
      <3>3. QED
        BY <1>2, <2>2, <3>2 DEF Only
    <2>4. Conversation'
      BY <1>1, <2>1, <2>2, <2>3 DEF Conversation, Only
    <2>5. Arrives(g)'
      BY <1>1, <1>4, <1>6, <2>1 DEF Arrives
    <2>6. Foreseen'
      BY <1>6, <2>5 DEF Foreseen
    <2>7. QED
      BY <1>1, <1>8, <2>1, <2>4, <2>6 DEF ThreadInv, DiscoveryIsTrue, Thread!DiscoveryIsExact,
         Thread!LimitIsExact
  <1>11. CASE m.type = "unsubscribed"
    <2>1. discovery' = "done" /\ routers' = routers
      BY <1>3, <1>11
    <2>2. /\ discovery = "leaving" /\ asked = <<>> /\ ~listening
          /\ \A i \in 1..Len(inbox) : inbox[i].type = "unsubscribed" => i = Len(inbox)
      <3>1. 1 \in 1..Len(inbox)
        BY <1>2
      <3>2. \A S : Only(S) => m.type \in S
        BY <3>1 DEF Only, m
      <3>3. ~Only({"event"}) /\ ~Only({"rejected"}) /\ ~Only({"event", "rejected"})
            /\ ~Only({"event", "subscribed"})
        BY <1>11, <3>2
      <3>4. discovery = "leaving"
        BY <1>1, <3>3 DEF Conversation, Subscribing, Thread!Running
      <3>5. QED
        BY <1>1, <3>3, <3>4 DEF Conversation, Leaving
    <2>3. Len(inbox) = 1
      BY <1>2, <1>11, <2>2 DEF m
    <2>4. h[0] = routers /\ h[1] = routers /\ h[1] = final
      BY <1>4, <1>11, <2>2, <2>3 DEF Walk, AfterMessage, Arrives, m
    <2>5. peak <= MaxRouters
      <3>1. ASSUME peak > MaxRouters PROVE FALSE
        <4>1. PICK i \in 0..1 : Cardinality(Thread!Known(h[i])) > MaxRouters
          BY <1>4, <2>3, <3>1 DEF Peaks
        <4>2. h[i] = routers
          BY <2>4
        <4>3. QED
          BY <1>1, <4>1, <4>2, KnownIsCounted, KeysAreFinite
      <3>2. QED
        BY <1>2, <3>1, KeysAreFinite
    <2>6. QED
      BY <1>1, <1>8, <2>1, <2>2, <2>4, <2>5 DEF ThreadInv, DiscoveryIsTrue,
         Thread!DiscoveryIsExact, Thread!LimitIsExact, Thread!Running, Conversation
  <1>12. CASE m.type = "rejected"
    <2>1. discovery' = "RequestRejected"
      BY <1>3, <1>12
    <2>2. QED
      BY <1>8, <2>1 DEF ThreadInv, DiscoveryIsTrue, Thread!DiscoveryIsExact,
         Thread!LimitIsExact, Thread!Running, Conversation
  <1>13. QED
    BY <1>3, <1>9, <1>10, <1>11, <1>12

\* The peak grows with the network.
LEMMA PeakIs ==
    ASSUME peak \in 0..Cardinality(Keys), NEW n
    PROVE  /\ Thread!Peak(n) \in 0..Cardinality(Keys) /\ Thread!Peak(n) \in Nat
           /\ peak <= Thread!Peak(n) /\ Cardinality(Thread!Known(n)) <= Thread!Peak(n)
           /\ Thread!Peak(n) = peak \/ Thread!Peak(n) = Cardinality(Thread!Known(n))
           /\ peak = 0 => Thread!Peak(n) = Cardinality(Thread!Known(n))
  <1>1. /\ Cardinality(Thread!Known(n)) \in 0..Cardinality(Keys)
        /\ Cardinality(Keys) \in Nat
    BY KnownIsCounted
  <1>2. Thread!Peak(n) = IF Cardinality(Thread!Known(n)) > peak
                         THEN Cardinality(Thread!Known(n)) ELSE peak
    BY SameCardinality DEF Thread!Peak
  <1>3. QED
    BY <1>1, <1>2

\* Once the discovery is over nothing that was said of it changes.
LEMMA OverStays ==
    ASSUME ThreadInv, ~Thread!Running, Thread!TypeOK', UNCHANGED <<discovery, routers>>,
           peak <= peak',
           discovery = "done" => UNCHANGED <<asked, listening, final, peak>>
    PROVE  ThreadInv'
  <1>1. MaxRouters \in Nat /\ peak \in Nat /\ peak' \in Nat
    <2>1. Cardinality(Keys) \in Nat /\ Thread!Cardinality(Keys) = Cardinality(Keys)
      BY KeysAreFinite, FS_CardinalityType, SameCardinality
    <2>2. QED
      BY <2>1, KeysAreFinite DEF ThreadInv, DiscoveryIsTrue, Thread!TypeOK
  <1>2. Thread!LimitIsExact'
    BY <1>1 DEF ThreadInv, DiscoveryIsTrue, Thread!LimitIsExact
  <1>3. Thread!DiscoveryIsExact'
    BY DEF ThreadInv, DiscoveryIsTrue, Thread!DiscoveryIsExact
  <1>4. Conversation' /\ ~Thread!Running'
    BY DEF ThreadInv, Conversation, Thread!Running
  <1>5. QED
    BY <1>2, <1>3, <1>4 DEF ThreadInv, DiscoveryIsTrue

\* An answer in the midst of a report.
Interleaves(messages, S, s, n, m) ==
    /\ messages \in Seq(S) /\ Len(messages) = Len(s) + 1
    /\ \A i \in 1..n : messages[i] = s[i]
    /\ messages[n + 1] = m
    /\ \A i \in n + 2..Len(s) + 1 : messages[i] = s[i - 1]

\* There is one such sequence of messages.
LEMMA Interleaved ==
    ASSUME NEW S, NEW s \in Seq(S), NEW n \in 0..Len(s), NEW m \in S, NEW before \in Seq(S)
    PROVE  \E messages :
              /\ before \o SubSeq(s, 1, n) \o <<m>> \o SubSeq(s, n + 1, Len(s))
                    = before \o messages
              /\ Interleaves(messages, S, s, n, m)
  <1> DEFINE a == SubSeq(s, 1, n)
             c == SubSeq(s, n + 1, Len(s))
             b == <<m>>
             messages == a \o b \o c
  <1>1. Len(s) \in Nat /\ \A i \in 1..Len(s) : s[i] \in S
    OBVIOUS
  <1>2. /\ a \in Seq(S) /\ Len(a) = n /\ \A i \in 1..n : a[i] = s[i]
    BY <1>1, SubSeqProperties
  <1>3. /\ c \in Seq(S) /\ Len(c) = Len(s) - n
        /\ \A i \in 1..Len(s) - n : c[i] = s[n + i]
    <2>1. n + 1 \in Int /\ Len(s) \in Int /\ \A i \in n + 1..Len(s) : s[i] \in S
      BY <1>1
    <2>2. /\ c \in Seq(S)
          /\ Len(c) = (IF n + 1 <= Len(s) THEN Len(s) - (n + 1) + 1 ELSE 0)
          /\ \A i \in 1..(Len(s) - (n + 1) + 1) : c[i] = s[(n + 1) + i - 1]
      BY <2>1, SubSeqProperties
    <2>3. \A i \in 1..Len(s) - n : i \in 1..(Len(s) - (n + 1) + 1) /\ (n + 1) + i - 1 = n + i
      BY <1>1
    <2>4. (IF n + 1 <= Len(s) THEN Len(s) - (n + 1) + 1 ELSE 0) = Len(s) - n
      BY <1>1
    <2>5. QED
      BY <2>2, <2>3, <2>4
  <1>4. b \in Seq(S) /\ Len(b) = 1 /\ b[1] = m
    OBVIOUS
  <1> HIDE DEF a, b, c
  <1>5. PICK d \in Seq(S) : /\ d = a \o b /\ Len(d) = n + 1
                            /\ \A i \in 1..n : d[i] = a[i]
                            /\ d[n + 1] = m
    <2>1. /\ a \o b \in Seq(S) /\ Len(a \o b) = Len(a) + Len(b)
          /\ \A i \in 1..Len(a) + Len(b) :
                (a \o b)[i] = IF i <= Len(a) THEN a[i] ELSE b[i - Len(a)]
      BY <1>2, <1>4, ConcatProperties
    <2>2. Len(a) = n /\ Len(b) = 1 /\ n \in Nat
      BY <1>1, <1>2, <1>4
    <2>3. \A i \in 1..n : i \in 1..n + 1 /\ i <= n
      BY <2>2
    <2>4. n + 1 \in 1..n + 1 /\ ~(n + 1 <= n) /\ (n + 1) - n = 1
      BY <2>2
    <2>5. QED
      BY <1>4, <2>1, <2>2, <2>3, <2>4
  <1>6. /\ messages \in Seq(S) /\ Len(messages) = Len(d) + Len(c)
        /\ \A i \in 1..Len(d) + Len(c) :
              messages[i] = IF i <= Len(d) THEN d[i] ELSE c[i - Len(d)]
    <2>1. messages = d \o c
      BY <1>5
    <2> HIDE DEF messages
    <2>2. c \in Seq(S)
      BY <1>3
    <2>3. QED
      BY <2>1, <2>2, ConcatProperties
  <1> HIDE DEF messages
  <1>7. Len(messages) = Len(s) + 1 /\ Len(d) = n + 1 /\ Len(d) + Len(c) = Len(s) + 1
    BY <1>1, <1>3, <1>5, <1>6
  <1>8. ASSUME NEW i \in 1..n PROVE messages[i] = s[i]
    <2>1. i <= n + 1 /\ i \in 1..Len(s) + 1
      BY <1>1
    <2>2. messages[i] = d[i]
      BY <1>6, <1>7, <2>1
    <2>3. QED
      BY <1>2, <1>5, <2>2
  <1>9. messages[n + 1] = m
    <2>1. n + 1 <= n + 1 /\ n + 1 \in 1..Len(s) + 1
      BY <1>1
    <2>2. messages[n + 1] = d[n + 1]
      BY <1>6, <1>7, <2>1
    <2>3. QED
      BY <1>5, <2>2
  <1>10. ASSUME NEW i \in n + 2..Len(s) + 1 PROVE messages[i] = s[i - 1]
    <2>1. /\ ~(i <= n + 1) /\ i \in 1..Len(s) + 1 /\ i - (n + 1) \in 1..Len(s) - n
          /\ n + (i - (n + 1)) = i - 1
      BY <1>1
    <2>2. messages[i] = c[i - (n + 1)]
      BY <1>6, <1>7, <2>1
    <2>3. QED
      BY <1>3, <2>1, <2>2
  <1>11. before \o a \o b \o c = before \o messages
    <2>1. before \o a \o b = before \o d
      BY <1>2, <1>4, <1>5, ConcatAssociative
    <2>2. c \in Seq(S)
      BY <1>3
    <2>3. (before \o d) \o c = before \o (d \o c)
      BY <2>2, ConcatAssociative
    <2>4. QED
      BY <1>5, <2>1, <2>3 DEF messages
  <1>12. QED
    BY <1>6, <1>7, <1>8, <1>9, <1>10, <1>11 DEF a, b, c, Interleaves

\* A report begins the walk, whatever place the answer has in it.
LEMMA ReportWalk ==
    ASSUME NEW r \in Thread!Routers, NEW s \in Thread!Reports(r), NEW n \in 0..Len(s),
           NEW messages \in Seq(Messages), Len(messages) = Len(s) + 1,
           \A i \in 1..n : messages[i] = s[i],
           messages[n + 1] = Thread!Result("subscribed"),
           \A i \in n + 2..Len(s) + 1 : messages[i] = s[i - 1]
    PROVE  /\ \A i \in 1..Len(messages) : messages[i].type \in {"event", "subscribed"}
           /\ \A i \in 1..Len(messages) : messages[i].type = "subscribed" => i = n + 1
           /\ \E h : /\ Walk(h, messages, Thread!NoRouters) /\ h[Len(messages)] = r
                     /\ Peaks(h, messages, Cardinality(Thread!Known(r)))
  <1>1. /\ s \in Seq(Thread!Events) /\ Len(s) = Cardinality(Thread!Known(r)) /\ Len(s) \in Nat
        /\ \A i \in 1..Len(s) : \E k \in Thread!Known(r) : s[i] = Thread!Event(k, r[k])
        /\ \A k \in Thread!Known(r) : \E i \in 1..Len(s) : s[i] = Thread!Event(k, r[k])
    BY ReportsAreWhole
  <1>6. /\ Len(messages) = Len(s) + 1
        /\ \A i \in 1..n : messages[i] = s[i]
        /\ messages[n + 1] = Thread!Result("subscribed")
        /\ \A i \in n + 2..Len(s) + 1 : messages[i] = s[i - 1]
    OBVIOUS
  <1>7. ASSUME NEW i \in 1..Len(messages)
        PROVE  \/ i = n + 1 /\ messages[i] = Thread!Result("subscribed")
               \/ i # n + 1 /\ \E k \in Thread!Known(r) : messages[i] = Thread!Event(k, r[k])
    <2>1. i = n + 1 \/ i \in 1..n \/ (i \in n + 2..Len(s) + 1 /\ i - 1 \in 1..Len(s))
      BY <1>1, <1>6
    <2>2. i \in 1..n => i # n + 1 /\ i \in 1..Len(s)
      BY <1>1
    <2>3. i \in n + 2..Len(s) + 1 => i # n + 1
      BY <1>1
    <2>4. QED
      BY <1>1, <1>6, <2>1, <2>2, <2>3
  <1>8. ASSUME NEW k \in Thread!Known(r)
        PROVE  \E i \in 1..Len(messages) : messages[i] = Thread!Event(k, r[k])
    <2>1. PICK j \in 1..Len(s) : s[j] = Thread!Event(k, r[k])
      BY <1>1
    <2>2. CASE j <= n
      <3>1. j \in 1..n /\ j \in 1..Len(messages)
        BY <1>1, <1>6, <2>2
      <3>2. QED
        BY <1>6, <2>1, <3>1
    <2>3. CASE j > n
      <3>1. j + 1 \in n + 2..Len(s) + 1 /\ (j + 1) - 1 = j /\ j + 1 \in 1..Len(messages)
        BY <1>1, <1>6, <2>3
      <3>2. QED
        BY <1>6, <2>1, <3>1
    <2>4. QED
      BY <1>1, <2>2, <2>3
  <1>9. /\ \A k, d : Thread!Event(k, d).type = "event" /\ Thread!Event(k, d).key = k
                      /\ Thread!Event(k, d).data = d
        /\ Thread!Result("subscribed").type = "subscribed"
    BY DEF Thread!Event, Thread!Result
  <1> DEFINE told(k, i) == \E j \in 1..i : messages[j] = Thread!Event(k, r[k])
             h == [i \in 0..Len(messages) |-> [k \in Keys |-> IF told(k, i) THEN r[k] ELSE 0]]
  <1>10. Len(messages) \in Nat
    BY <1>1, <1>6
  <1>11. Walk(h, messages, Thread!NoRouters)
    <2>1. h \in [0..Len(messages) -> Thread!Routers]
      BY DEF Thread!Routers
    <2>2. h[0] = Thread!NoRouters
      <3>1. 0 \in 0..Len(messages) /\ \A k \in Keys : ~told(k, 0)
        BY <1>10
      <3>2. QED
        BY <3>1 DEF Thread!NoRouters
    <2>3. ASSUME NEW i \in 1..Len(messages)
          PROVE  h[i] = AfterMessage(h[i - 1], messages[i])
      <3>1. i \in 0..Len(messages) /\ i - 1 \in 0..Len(messages)
        BY <1>10
      <3>2. \A j : j \in 1..i <=> (j \in 1..i - 1 \/ j = i)
        BY <1>10
      <3>3. \A k \in Keys : told(k, i) <=> (told(k, i - 1) \/ messages[i] = Thread!Event(k, r[k]))
        BY <3>2
      <3>4. /\ h[i] = [k \in Keys |-> IF told(k, i) THEN r[k] ELSE 0]
            /\ h[i - 1] = [k \in Keys |-> IF told(k, i - 1) THEN r[k] ELSE 0]
        BY <3>1
      <3> HIDE DEF h, told
      <3>5. CASE messages[i] = Thread!Result("subscribed")
        <4>1. \A k \in Keys : messages[i] # Thread!Event(k, r[k])
          BY <1>9, <3>5
        <4>2. AfterMessage(h[i - 1], messages[i]) = h[i - 1]
          BY <1>9, <3>5 DEF AfterMessage
        <4>3. QED
          BY <3>3, <3>4, <4>1, <4>2
      <3>6. ASSUME NEW l \in Thread!Known(r), messages[i] = Thread!Event(l, r[l])
            PROVE  h[i] = AfterMessage(h[i - 1], messages[i])
        <4>1. \A k \in Keys : messages[i] = Thread!Event(k, r[k]) <=> k = l
          BY <1>9, <3>6
        <4>2. AfterMessage(h[i - 1], messages[i]) = [h[i - 1] EXCEPT ![l] = r[l]]
          BY <1>9, <3>6 DEF AfterMessage
        <4>3. QED
          BY <3>3, <3>4, <4>1, <4>2
      <3>7. QED
        BY <1>7, <3>5, <3>6
    <2>4. QED
      BY <2>1, <2>2, <2>3 DEF Walk
  <1>12. h[Len(messages)] = r
    <2>1. Len(messages) \in 0..Len(messages)
      BY <1>10
    <2>2. \A k \in Keys : told(k, Len(messages)) \/ r[k] = 0
      BY <1>8 DEF Thread!Known
    <2>3. h[Len(messages)] = [k \in Keys |-> IF told(k, Len(messages)) THEN r[k] ELSE 0]
      BY <2>1
    <2> HIDE DEF h, told
    <2>4. QED
      BY <2>2, <2>3 DEF Thread!Routers
  <1>13. Peaks(h, messages, Cardinality(Thread!Known(r)))
    <2>1. ASSUME NEW i \in 0..Len(messages)
          PROVE  Cardinality(Thread!Known(h[i])) <= Cardinality(Thread!Known(r))
      <3>1. Thread!Known(h[i]) \subseteq Thread!Known(r)
        BY DEF Thread!Known
      <3>2. QED
        BY <3>1, KnownIsCounted, FS_Subset
    <2>2. Len(messages) \in 0..Len(messages)
      BY <1>10
    <2> HIDE DEF h
    <2>3. QED
      BY <1>12, <2>1, <2>2 DEF Peaks
  <1>14. \A i \in 1..Len(messages) : /\ messages[i].type \in {"event", "subscribed"}
                                     /\ messages[i].type = "subscribed" => i = n + 1
    BY <1>7, <1>9
  <1> HIDE DEF h
  <1>15. QED
    BY <1>6, <1>11, <1>12, <1>13, <1>14

\* What Home Assistant has been asked while the client runs.
LEMMA AskedIs ==
    ASSUME ThreadInv, Thread!Running, asked # <<>>
    PROVE  /\ Tail(asked) = <<>>
           /\ \/ /\ discovery = "subscribing" /\ Head(asked) = "subscribe"
                 /\ Untouched /\ inbox = <<>>
              \/ /\ discovery = "leaving" /\ Head(asked) = "unsubscribe"
                 /\ listening /\ Only({"event"})
  <1>1. \/ /\ discovery = "subscribing" /\ asked = <<"subscribe">>
           /\ Untouched /\ inbox = <<>>
        \/ /\ discovery = "leaving" /\ asked = <<"unsubscribe">>
           /\ listening /\ Only({"event"})
    BY DEF ThreadInv, Conversation, Subscribing, Leaving, Thread!Running
  <1>2. /\ Head(<<"subscribe">>) = "subscribe" /\ Tail(<<"subscribe">>) = <<>>
        /\ Head(<<"unsubscribe">>) = "unsubscribe" /\ Tail(<<"unsubscribe">>) = <<>>
    OBVIOUS
  <1>3. QED
    BY <1>1, <1>2

\* Home Assistant answers the subscription in the midst of its report.
LEMMA ThreadAccepts ==
    ASSUME ThreadInv, Thread!Accept
    PROVE  ThreadInv'
  <1> DEFINE m == Thread!Result("subscribed")
  <1>1. /\ asked # <<>> /\ Head(asked) = "subscribe" /\ asked' = Tail(asked)
        /\ listening' = TRUE /\ peak' = Thread!Peak(network)
        /\ UNCHANGED <<network, routers, discovery, moved, final>>
    BY DEF Thread!Accept
  <1>2. PICK s \in Thread!Reports(network), n \in 0..Cardinality(Thread!Known(network)) :
           inbox' = inbox \o SubSeq(s, 1, n) \o <<m>> \o SubSeq(s, n + 1, Len(s))
    BY SameCardinality DEF Thread!Accept
  <1>3. Thread!TypeOK /\ network \in Thread!Routers
    BY DEF ThreadInv, DiscoveryIsTrue, Thread!TypeOK
  <1>4. /\ s \in Seq(Thread!Events) /\ Len(s) = Cardinality(Thread!Known(network))
        /\ s \in Seq(Messages) /\ n \in 0..Len(s) /\ m \in Messages
    <2>1. s \in Seq(Thread!Events) /\ Len(s) = Cardinality(Thread!Known(network))
      BY <1>3, ReportsAreWhole
    <2>2. m \in Messages
      BY DEF Messages, Thread!Results, Thread!Result
    <2>3. QED
      BY <2>1, <2>2 DEF Messages
  <1>5. PICK messages \in Seq(Messages) :
           /\ Len(messages) = Len(s) + 1
           /\ \A i \in 1..n : messages[i] = s[i]
           /\ messages[n + 1] = m
           /\ \A i \in n + 2..Len(s) + 1 : messages[i] = s[i - 1]
           /\ inbox' = inbox \o messages
    <2> HIDE DEF m
    <2>1. inbox \in Seq(Messages)
      BY <1>3, MessageTypes
    <2>2. s \in Seq(Messages) /\ n \in 0..Len(s) /\ m \in Messages
      BY <1>4
    <2>3. PICK messages :
             /\ inbox \o SubSeq(s, 1, n) \o <<m>> \o SubSeq(s, n + 1, Len(s)) = inbox \o messages
             /\ Interleaves(messages, Messages, s, n, m)
      BY <2>1, <2>2, Interleaved, Zenon
    <2>4. QED
      BY <1>2, <2>3 DEF Interleaves
  <1>7. /\ peak' \in 0..Cardinality(Keys) /\ peak <= peak'
        /\ peak = 0 => peak' = Cardinality(Thread!Known(network))
    BY <1>1, <1>3, PeakIs, MessageTypes
  <1>8. Thread!TypeOK'
    <2>1. inbox' \in Seq(Messages)
      BY <1>3, <1>5, MessageTypes, ConcatProperties
    <2>2. Thread!Cardinality(Keys) = Cardinality(Keys)
      BY SameCardinality
    <2>3. asked' \in Seq({"subscribe", "unsubscribe"})
      BY <1>1, <1>3 DEF Thread!TypeOK
    <2>4. QED
      BY <1>1, <1>3, <1>7, <2>1, <2>2, <2>3 DEF Thread!TypeOK, Messages
  <1>9. CASE ~Thread!Running
    <2>1. discovery # "done"
      BY <1>1 DEF ThreadInv, Conversation
    <2>2. QED
      BY <1>1, <1>7, <1>8, <1>9, <2>1, OverStays
  <1>10. CASE Thread!Running
    <2>1. asked' = <<>> /\ discovery = "subscribing" /\ Untouched /\ inbox = <<>>
      BY <1>1, <1>10, AskedIs
    <2>2. inbox' = messages /\ routers' = Thread!NoRouters
          /\ peak' = Cardinality(Thread!Known(network))
      BY <1>1, <1>5, <1>7, <2>1 DEF Untouched
    <2>3. /\ \A i \in 1..Len(messages) : messages[i].type \in {"event", "subscribed"}
          /\ \A i \in 1..Len(messages) : messages[i].type = "subscribed" => i = n + 1
          /\ \E h : /\ Walk(h, messages, Thread!NoRouters) /\ h[Len(messages)] = network
                    /\ Peaks(h, messages, Cardinality(Thread!Known(network)))
      BY <1>3, <1>4, <1>5, ReportWalk
    <2>4. PICK h : /\ Walk(h, inbox', routers') /\ h[Len(inbox')] = network
                   /\ Peaks(h, inbox', peak')
      BY <2>2, <2>3
    <2>5. Arrives(h)' /\ Foreseen'
      BY <1>1, <2>4 DEF Arrives, Foreseen
    <2>6. Conversation'
      BY <1>1, <2>1, <2>2, <2>3 DEF Conversation, Subscribing, Only
    <2>7. Cardinality(Thread!Known(routers')) <= MaxRouters
      BY <1>1, <1>10 DEF ThreadInv
    <2>8. QED
      BY <1>1, <1>8, <2>1, <2>5, <2>6, <2>7 DEF ThreadInv, DiscoveryIsTrue,
         Thread!DiscoveryIsExact, Thread!LimitIsExact
  <1>11. QED
    BY <1>9, <1>10

\* One message follows the others: what it leads to is foreseen.
LEMMA OneMore ==
    ASSUME ThreadInv, Thread!Running, NEW m \in Messages, inbox' = Append(inbox, m),
           routers' = routers, peak' \in Nat, peak <= peak', NEW h,
           Walk(h, inbox, routers), Peaks(h, inbox, peak),
           AfterMessage(h[Len(inbox)], m) \in Thread!Routers,
           Cardinality(Thread!Known(AfterMessage(h[Len(inbox)], m))) <= peak',
           peak' = peak \/ peak' = Cardinality(Thread!Known(AfterMessage(h[Len(inbox)], m))),
           listening' => AfterMessage(h[Len(inbox)], m) = network',
           discovery' = "leaving" /\ ~listening' => AfterMessage(h[Len(inbox)], m) = final'
    PROVE  Foreseen'
  <1>1. inbox \in Seq(Messages) /\ peak \in Nat
    BY MessageTypes DEF ThreadInv, DiscoveryIsTrue
  <1>2. PICK g : /\ Walk(g, inbox', routers') /\ Peaks(g, inbox', peak')
                 /\ g[Len(inbox')] = AfterMessage(h[Len(inbox)], m)
    BY <1>1, WalkLonger
  <1>3. Arrives(g)'
    BY <1>2 DEF Arrives
  <1>4. QED
    BY <1>2, <1>3 DEF Foreseen

\* One message more of a type that may come.
LEMMA OnlyMore ==
    ASSUME NEW types, Only(types), NEW m \in Messages, inbox \in Seq(Messages),
           inbox' = Append(inbox, m), NEW more, types \subseteq more, m.type \in more
    PROVE  /\ Only(more)' /\ Len(inbox') = Len(inbox) + 1 /\ inbox'[Len(inbox')] = m
           /\ \A i \in 1..Len(inbox) : inbox'[i] = inbox[i]
           /\ \A i \in 1..Len(inbox') : i \in 1..Len(inbox) \/ i = Len(inbox')
  <1>1. /\ Len(inbox) \in Nat /\ Len(inbox') = Len(inbox) + 1 /\ inbox'[Len(inbox')] = m
        /\ \A i \in 1..Len(inbox) : inbox'[i] = inbox[i]
    OBVIOUS
  <1>2. \A i \in 1..Len(inbox') : i \in 1..Len(inbox) \/ i = Len(inbox')
    BY <1>1
  <1>3. QED
    BY <1>1, <1>2 DEF Only

\* Home Assistant refuses.
LEMMA ThreadRejects ==
    ASSUME ThreadInv, Thread!Reject
    PROVE  ThreadInv'
  <1> DEFINE m == Thread!Result("rejected")
  <1>1. /\ asked # <<>> /\ asked' = Tail(asked) /\ inbox' = Append(inbox, m)
        /\ UNCHANGED <<network, listening, routers, discovery, moved, final, peak>>
    BY DEF Thread!Reject
  <1>2. /\ Thread!TypeOK /\ inbox \in Seq(Messages) /\ peak \in Nat
        /\ m \in Messages /\ m.type = "rejected"
    BY MessageTypes DEF ThreadInv, DiscoveryIsTrue, Messages, Thread!Results, Thread!Result
  <1> HIDE DEF m
  <1>3. Thread!TypeOK'
    <2>1. inbox' \in Seq(Messages)
      BY <1>1, <1>2
    <2>2. QED
      BY <1>1, <1>2, <2>1 DEF Thread!TypeOK, Messages
  <1>4. CASE ~Thread!Running
    <2>1. discovery # "done"
      BY <1>1 DEF ThreadInv, Conversation
    <2>2. QED
      BY <1>1, <1>2, <1>3, <1>4, <2>1, OverStays
  <1>5. CASE Thread!Running
    <2>1. /\ asked' = <<>>
          /\ \/ discovery = "subscribing" /\ Untouched /\ inbox = <<>>
             \/ discovery = "leaving" /\ listening /\ Only({"event"})
      BY <1>1, <1>5, AskedIs
    <2>2. PICK h : Walk(h, inbox, routers) /\ Arrives(h) /\ Peaks(h, inbox, peak)
      BY <1>5 DEF ThreadInv, Foreseen
    <2>3. /\ AfterMessage(h[Len(inbox)], m) = h[Len(inbox)]
          /\ h[Len(inbox)] \in Thread!Routers
          /\ Cardinality(Thread!Known(h[Len(inbox)])) <= peak
      <3>1. Len(inbox) \in 0..Len(inbox)
        BY <1>2
      <3>2. QED
        BY <1>2, <2>2, <3>1 DEF AfterMessage, Walk, Peaks
    <2>4. Foreseen'
      BY <1>1, <1>2, <1>5, <2>1, <2>2, <2>3, OneMore DEF Arrives, Untouched
    <2>5. Conversation'
      <3>1. CASE discovery = "subscribing" /\ Untouched /\ inbox = <<>>
        <4>1. Only({})
          BY <3>1 DEF Only
        <4>2. Only({"rejected"})'
          BY <1>1, <1>2, <4>1, OnlyMore
        <4>3. QED
          BY <1>1, <2>1, <3>1, <4>2 DEF Conversation, Subscribing, Untouched
      <3>2. CASE discovery = "leaving" /\ listening /\ Only({"event"})
        <4>1. Only({"event", "rejected"})'
          BY <1>1, <1>2, <3>2, OnlyMore
        <4>2. QED
          BY <1>1, <2>1, <3>2, <4>1 DEF Conversation, Leaving
      <3>3. QED
        BY <2>1, <3>1, <3>2
    <2>6. QED
      BY <1>1, <1>3, <1>5, <2>4, <2>5 DEF ThreadInv, DiscoveryIsTrue,
         Thread!DiscoveryIsExact, Thread!LimitIsExact, Thread!Running
  <1>6. QED
    BY <1>4, <1>5

\* Home Assistant ends the subscription: what it knows now is what the client returns.
LEMMA ThreadReleases ==
    ASSUME ThreadInv, Thread!Release
    PROVE  ThreadInv'
  <1> DEFINE m == Thread!Result("unsubscribed")
  <1>1. /\ asked # <<>> /\ Head(asked) = "unsubscribe" /\ asked' = Tail(asked)
        /\ inbox' = Append(inbox, m) /\ listening' = FALSE /\ final' = network
        /\ UNCHANGED <<network, routers, discovery, moved, peak>>
    BY DEF Thread!Release
  <1>2. /\ Thread!TypeOK /\ inbox \in Seq(Messages) /\ peak \in Nat
        /\ m \in Messages /\ m.type = "unsubscribed"
    BY MessageTypes DEF ThreadInv, DiscoveryIsTrue, Messages, Thread!Results, Thread!Result
  <1> HIDE DEF m
  <1>3. Thread!TypeOK'
    <2>1. inbox' \in Seq(Messages)
      BY <1>1, <1>2
    <2>2. asked' \in Seq({"subscribe", "unsubscribe"})
      BY <1>1, <1>2 DEF Thread!TypeOK
    <2>3. QED
      BY <1>1, <1>2, <2>1, <2>2 DEF Thread!TypeOK, Messages
  <1>4. CASE ~Thread!Running
    <2>1. discovery # "done"
      BY <1>1 DEF ThreadInv, Conversation
    <2>2. QED
      BY <1>1, <1>2, <1>3, <1>4, <2>1, OverStays
  <1>5. CASE Thread!Running
    <2>1. asked' = <<>> /\ discovery = "leaving" /\ listening /\ Only({"event"})
      BY <1>1, <1>5, AskedIs
    <2>2. PICK h : Walk(h, inbox, routers) /\ Arrives(h) /\ Peaks(h, inbox, peak)
      BY <1>5 DEF ThreadInv, Foreseen
    <2>3. /\ AfterMessage(h[Len(inbox)], m) = h[Len(inbox)]
          /\ h[Len(inbox)] \in Thread!Routers /\ h[Len(inbox)] = network
          /\ Cardinality(Thread!Known(h[Len(inbox)])) <= peak
      <3>1. Len(inbox) \in 0..Len(inbox)
        BY <1>2
      <3>2. QED
        BY <1>2, <2>1, <2>2, <3>1 DEF AfterMessage, Walk, Peaks, Arrives
    <2>4. Foreseen'
      BY <1>1, <1>2, <1>5, <2>2, <2>3, OneMore
    <2>5. Conversation'
      <3>1. /\ Only({"event", "unsubscribed"})' /\ Len(inbox') = Len(inbox) + 1
            /\ \A i \in 1..Len(inbox) : inbox'[i] = inbox[i]
            /\ \A i \in 1..Len(inbox') : i \in 1..Len(inbox) \/ i = Len(inbox')
        BY <1>1, <1>2, <2>1, OnlyMore
      <3>2. \A i \in 1..Len(inbox') : inbox'[i].type = "unsubscribed" => i = Len(inbox')
        BY <2>1, <3>1 DEF Only
      <3>3. QED
        BY <1>1, <2>1, <3>1, <3>2 DEF Conversation, Leaving
    <2>6. QED
      BY <1>1, <1>3, <1>5, <2>1, <2>4, <2>5 DEF ThreadInv, DiscoveryIsTrue,
         Thread!DiscoveryIsExact, Thread!LimitIsExact, Thread!Running
  <1>6. QED
    BY <1>4, <1>5

\* The network changes; the client hears of it while the subscription lasts.
LEMMA ThreadChanges ==
    ASSUME ThreadInv, Thread!Change
    PROVE  ThreadInv'
  <1>1. /\ moved < RouterChanges /\ moved' = moved + 1
        /\ peak' = (IF listening THEN Thread!Peak(network') ELSE peak)
        /\ UNCHANGED <<listening, asked, routers, discovery, final>>
    BY DEF Thread!Change
  <1>2. PICK k \in Keys, d \in Data \cup {0} :
           /\ network' = [network EXCEPT ![k] = d]
           /\ inbox' = IF listening THEN Append(inbox, Thread!Event(k, d)) ELSE inbox
    BY DEF Thread!Change
  <1> DEFINE m == Thread!Event(k, d)
  <1>3. /\ Thread!TypeOK /\ inbox \in Seq(Messages) /\ peak \in 0..Cardinality(Keys) /\ peak \in Nat
        /\ m \in Messages /\ m.type = "event" /\ m.key = k /\ m.data = d
    BY MessageTypes DEF ThreadInv, DiscoveryIsTrue, Messages, Thread!Events, Thread!Event
  <1>4. AfterMessage(network, m) = network' /\ network' \in Thread!Routers
    BY <1>2, <1>3 DEF AfterMessage, Thread!TypeOK, Thread!Routers
  <1>5. inbox' = IF listening THEN Append(inbox, m) ELSE inbox
    BY <1>2
  <1> HIDE DEF m
  <1>6. /\ peak' \in 0..Cardinality(Keys) /\ peak' \in Nat /\ peak <= peak'
        /\ listening => /\ Cardinality(Thread!Known(network')) <= peak'
                        /\ peak' = peak \/ peak' = Cardinality(Thread!Known(network'))
    BY <1>1, <1>3, PeakIs
  <1>7. Thread!TypeOK'
    <2>1. inbox' \in Seq(Messages)
      BY <1>3, <1>5
    <2>2. moved' \in 0..RouterChanges
      BY <1>1, <1>3, KeysAreFinite DEF Thread!TypeOK
    <2>3. QED
      BY <1>1, <1>3, <1>4, <1>6, <2>1, <2>2, SameCardinality DEF Thread!TypeOK, Messages
  <1>8. CASE ~Thread!Running
    <2>1. discovery = "done" => ~listening
      BY DEF ThreadInv, Conversation
    <2>2. QED
      BY <1>1, <1>6, <1>7, <1>8, <2>1, OverStays
  <1>9. CASE Thread!Running /\ ~listening
    <2>1. UNCHANGED <<inbox, peak>>
      BY <1>1, <1>5, <1>9
    <2>2. PICK h : Walk(h, inbox, routers) /\ Arrives(h) /\ Peaks(h, inbox, peak)
      BY <1>9 DEF ThreadInv, Foreseen
    <2>3. Arrives(h)'
      BY <1>1, <1>9, <2>1, <2>2 DEF Arrives
    <2>4. Foreseen'
      BY <1>1, <2>1, <2>2, <2>3 DEF Foreseen
    <2>5. Conversation'
      BY <1>1, <2>1 DEF ThreadInv, Conversation, Subscribing, Leaving, Untouched, Only
    <2>6. QED
      BY <1>1, <1>7, <1>9, <2>1, <2>4, <2>5 DEF ThreadInv, DiscoveryIsTrue,
         Thread!DiscoveryIsExact, Thread!LimitIsExact, Thread!Running
  <1>10. CASE Thread!Running /\ listening
    <2>1. PICK h : Walk(h, inbox, routers) /\ Arrives(h) /\ Peaks(h, inbox, peak)
      BY <1>10 DEF ThreadInv, Foreseen
    <2>2. h[Len(inbox)] = network /\ listening' /\ inbox' = Append(inbox, m)
      BY <1>1, <1>5, <1>10, <2>1 DEF Arrives
    <2>3. Foreseen'
      BY <1>1, <1>3, <1>4, <1>6, <1>10, <2>1, <2>2, OneMore
    <2>4. \A types : Only(types) /\ "event" \in types =>
             /\ Only(types)' /\ Len(inbox') = Len(inbox) + 1 /\ inbox'[Len(inbox')] = m
             /\ \A i \in 1..Len(inbox) : inbox'[i] = inbox[i]
             /\ \A i \in 1..Len(inbox') : i \in 1..Len(inbox) \/ i = Len(inbox')
      BY <1>3, <2>2, OnlyMore
    <2>5. Conversation'
      <3>1. CASE discovery = "subscribing"
        <4>1. /\ asked = <<>> /\ Only({"event", "subscribed"})
              /\ \A i, j \in 1..Len(inbox) :
                    inbox[i].type = "subscribed" /\ inbox[j].type = "subscribed" => i = j
          BY <1>10, <3>1 DEF ThreadInv, Conversation, Subscribing, Untouched
        <4>2. /\ Only({"event", "subscribed"})' /\ inbox'[Len(inbox')] = m
              /\ \A i \in 1..Len(inbox) : inbox'[i] = inbox[i]
              /\ \A i \in 1..Len(inbox') : i \in 1..Len(inbox) \/ i = Len(inbox')
          BY <2>4, <4>1
        <4>3. \A i \in 1..Len(inbox') : inbox'[i].type = "subscribed" =>
                 i \in 1..Len(inbox) /\ inbox[i].type = "subscribed"
          BY <1>3, <4>2
        <4>4. \A i, j \in 1..Len(inbox') :
                 inbox'[i].type = "subscribed" /\ inbox'[j].type = "subscribed" => i = j
          BY <4>1, <4>3
        <4>5. QED
          BY <1>1, <2>2, <3>1, <4>1, <4>2, <4>4 DEF Conversation, Subscribing
      <3>2. CASE discovery = "following"
        BY <1>1, <1>10, <2>4, <3>2 DEF ThreadInv, Conversation
      <3>3. CASE discovery = "leaving"
        <4>1. \/ asked = <<"unsubscribe">> /\ Only({"event"})
              \/ asked = <<>> /\ Only({"event", "rejected"})
          BY <1>10, <3>3 DEF ThreadInv, Conversation, Leaving
        <4>2. \/ asked' = <<"unsubscribe">> /\ Only({"event"})'
              \/ asked' = <<>> /\ Only({"event", "rejected"})'
          BY <1>1, <2>4, <4>1
        <4>3. QED
          BY <1>1, <2>2, <3>3, <4>2 DEF Conversation, Leaving
      <3>4. discovery # "start" /\ discovery # "done"
        BY <1>10 DEF ThreadInv, Conversation, Untouched
      <3>5. QED
        BY <1>1, <1>10, <3>1, <3>2, <3>3, <3>4 DEF Thread!Running
    <2>6. QED
      BY <1>1, <1>7, <1>10, <2>3, <2>5 DEF ThreadInv, DiscoveryIsTrue,
         Thread!DiscoveryIsExact, Thread!LimitIsExact, Thread!Running
  <1>11. QED
    BY <1>8, <1>9, <1>10

\* Every step keeps it.
LEMMA ThreadNext ==
    ASSUME ThreadInv, [Thread!Next]_(Thread!vars)
    PROVE  ThreadInv'
  <1>1. CASE UNCHANGED Thread!vars
    <2>1. UNCHANGED <<network, listening, asked, inbox, routers, discovery, moved, final, peak>>
      BY <1>1 DEF Thread!vars
    <2>2. Thread!Running => Foreseen'
      <3>1. SUFFICES ASSUME Thread!Running PROVE Foreseen'
        OBVIOUS
      <3>2. PICK h : Walk(h, inbox, routers) /\ Arrives(h) /\ Peaks(h, inbox, peak)
        BY <3>1 DEF ThreadInv, Foreseen
      <3>3. Arrives(h)'
        BY <2>1, <3>2 DEF Arrives
      <3>4. QED
        BY <2>1, <3>2, <3>3 DEF Foreseen
    <2>3. Conversation'
      BY <2>1 DEF ThreadInv, Conversation, Subscribing, Leaving, Untouched, Only
    <2>4. Thread!TypeOK'
      BY <2>1 DEF ThreadInv, DiscoveryIsTrue, Thread!TypeOK
    <2>5. QED
      BY <2>1, <2>2, <2>3, <2>4 DEF ThreadInv, DiscoveryIsTrue, Thread!DiscoveryIsExact,
         Thread!LimitIsExact, Thread!Running
  <1>2. QED
    BY <1>1, ThreadAsks, ThreadReceives, ThreadAbandons, ThreadAccepts, ThreadRejects,
       ThreadReleases, ThreadChanges DEF Thread!Next

\* A discovery that succeeds returns exactly the routers known when the subscription ended,
\* however many there are and whatever changes come in between, and the limit is reported
\* as exceeded exactly if it was (discover_thread_routers).
THEOREM DiscoveriesAreTrue == Thread!Spec => []DiscoveryIsTrue
  <1>1. ThreadInv => DiscoveryIsTrue
    BY DEF ThreadInv
  <1>2. QED
    BY ThreadInit, ThreadNext, <1>1, PTL DEF Thread!Spec

=============================================================================
