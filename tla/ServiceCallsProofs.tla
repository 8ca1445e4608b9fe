------------------------- MODULE ServiceCallsProofs -------------------------
(***************************************************************************)
(* For any number of callers, permits and revisions and any number of      *)
(* changes made in Home Assistant: ServiceCalls is type correct, no permit *)
(* is lost or returned twice, a trigger that was refused has not run and   *)
(* will not, and nothing runs on an authority from before the call.        *)
(*                                                                         *)
(* The last two are not inductive: a refusal is final because of where the *)
(* operation was when it came, and an authority is fresh because of the    *)
(* reads that led to the service call.  Traced says, for each place an     *)
(* operation can be at, what has been read and sent.  Permits need no      *)
(* finite set of callers: those under way are finitely many, as each took  *)
(* a permit.                                                               *)
(***************************************************************************)
EXTENDS ServiceParts, FiniteSets, FiniteSetTheorems, TLAPS

\* The service call of c has left the process.
Sent(c) == c \in sent \/ ran[c]

\* Only an operation that posted has a call on the wire or carried out, and the
\* handler of a trigger knows of it.
Posted(c) ==
    Sent(c) =>
        /\ progress[c] \in {"waiting", "over"}
        /\ authorized[c]
        /\ service[c] = "trigger" => dispatched[c]

\* What has been read when an operation is about to make its next request.
Checked(c) ==
    /\ progress[c] = "exposure" => service[c] = "control"
    /\ progress[c] = "config" => service[c] = "trigger"
    /\ progress[c] \in {"exposure", "config"} =>
          (Calls!Authority(c, reachable, revision) => authorized[c])
    /\ progress[c] \in {"states", "post", "waiting"} => authorized[c]

\* A trigger that was refused is over and was not sent.
Refused(c) ==
    service[c] = "trigger" /\ verdict[c] \in Calls!Refusals => progress[c] = "over" /\ ~Sent(c)

Traced == \A c \in Invokers : Posted(c) /\ Checked(c) /\ Refused(c)

UnderWay == {c \in Invokers : Calls!Admitted(c)}

Balanced == IsFiniteSet(UnderWay) /\ permits + Cardinality(UnderWay) = CallPermits

Inv == Calls!TypeOK /\ Balanced /\ Traced

-----------------------------------------------------------------------------
(* Permits *)

\* Ending an operation that is under way takes it out of the balance ...
LEMMA EndBalances ==
    ASSUME Calls!TypeOK, Balanced, NEW c \in Invokers, Calls!Admitted(c),
           progress' = [progress EXCEPT ![c] = "over"], permits' = permits + 1
    PROVE  Balanced' /\ permits' \in 0..CallPermits
  <1>1. UnderWay' = UnderWay \ {c}
    BY DEF UnderWay, Calls!Admitted, Calls!TypeOK
  <1>2. c \in UnderWay
    BY DEF UnderWay
  <1>3. IsFiniteSet(UnderWay') /\ Cardinality(UnderWay') = Cardinality(UnderWay) - 1
    BY <1>1, <1>2, FS_RemoveElement DEF Balanced
  <1>4. Cardinality(UnderWay) \in Nat /\ Cardinality(UnderWay') \in Nat
    BY <1>3, FS_CardinalityType DEF Balanced
  <1>5. QED
    BY <1>3, <1>4, CallsAssumption DEF Calls!LimitsAssumption, Balanced, Calls!TypeOK

\* ... admitting one puts it in ...
LEMMA AdmitBalances ==
    ASSUME Calls!TypeOK, Balanced, NEW c \in Invokers, ~Calls!Admitted(c), permits # 0,
           NEW p \in {"exposure", "config"},
           progress' = [progress EXCEPT ![c] = p], permits' = permits - 1
    PROVE  Balanced' /\ permits' \in 0..CallPermits
  <1>1. UnderWay' = UnderWay \cup {c}
    BY DEF UnderWay, Calls!Admitted, Calls!TypeOK
  <1>2. c \notin UnderWay
    BY DEF UnderWay
  <1>3. IsFiniteSet(UnderWay') /\ Cardinality(UnderWay') = Cardinality(UnderWay) + 1
    BY <1>1, <1>2, FS_AddElement DEF Balanced
  <1>4. Cardinality(UnderWay) \in Nat
    BY FS_CardinalityType DEF Balanced
  <1>5. QED
    BY <1>3, <1>4, CallsAssumption DEF Calls!LimitsAssumption, Balanced, Calls!TypeOK

\* ... and every other step leaves it alone.
LEMMA SameBalance ==
    ASSUME Balanced, permits' = permits,
           \A c \in Invokers : Calls!Admitted(c)' <=> Calls!Admitted(c)
    PROVE  Balanced'
  <1>1. UnderWay' = UnderWay
    BY DEF UnderWay
  <1>2. QED
    BY <1>1 DEF Balanced

-----------------------------------------------------------------------------
(* The ways an operation goes on *)

\* An operation that ends keeps the invariant if a refusal of a trigger comes before
\* its service call was sent.
LEMMA EndStep ==
    ASSUME Inv, NEW c \in Invokers, Calls!Admitted(c),
           NEW o \in Calls!Outcomes, Calls!End(c, o),
           service[c] = "trigger" /\ o \in Calls!Refusals => ~Sent(c)
    PROVE  Inv'
  <1>1. Balanced' /\ permits' \in 0..CallPermits
    BY EndBalances DEF Inv, Calls!End
  <1>2. Calls!TypeOK'
    BY <1>1 DEF Inv, Calls!TypeOK, Calls!End, Calls!world
  <1>3. ASSUME NEW b \in Invokers
        PROVE  (Posted(b) /\ Checked(b) /\ Refused(b))'
    BY DEF Inv, Calls!TypeOK, Calls!End, Calls!world, Traced, Posted, Checked,
       Refused, Sent, Calls!Authority
  <1>4. QED
    BY <1>1, <1>2, <1>3 DEF Inv, Traced

\* A refusal chosen by the flag that the handler shares is one that may be given.
LEMMA FailedStep ==
    ASSUME Inv, NEW c \in Invokers, Calls!Admitted(c), NEW o \in Calls!Refusals, Calls!Failed(c, o)
    PROVE  Inv'
  <1> DEFINE said == IF dispatched[c] THEN "mutation_outcome_unknown" ELSE o
  <1>1. said \in Calls!Outcomes
    BY DEF Calls!Outcomes
  <1>2. service[c] = "trigger" /\ said \in Calls!Refusals => ~Sent(c)
    BY DEF Inv, Traced, Posted, Calls!Refusals
  <1>3. Calls!End(c, said)
    BY DEF Calls!Failed
  <1>4. QED
    BY <1>1, <1>2, <1>3, EndStep

\* Before it is posted an operation has sent nothing, so it may be refused.
LEMMA RefuseStep ==
    ASSUME Inv, NEW c \in Invokers, progress[c] \in {"exposure", "config", "states"},
           NEW o \in Calls!Refusals, Calls!End(c, o)
    PROVE  Inv'
  <1>1. ~Sent(c)
    BY DEF Inv, Traced, Posted
  <1>2. Calls!Admitted(c) /\ o \in Calls!Outcomes
    BY DEF Calls!Admitted, Calls!Outcomes
  <1>3. QED
    BY <1>1, <1>2, EndStep

\* An operation that passed a check goes on to its next request.
LEMMA GotoStep ==
    ASSUME Inv, NEW c \in Invokers, progress[c] \in {"exposure", "config", "states"},
           NEW p \in {"states", "post"}, Calls!Goto(c, p), authorized[c]
    PROVE  Inv'
  <1>1. Calls!TypeOK'
    BY DEF Inv, Calls!TypeOK, Calls!Goto, Calls!world
  <1>2. Balanced'
    <2>1. \A b \in Invokers : Calls!Admitted(b)' <=> Calls!Admitted(b)
      BY DEF Inv, Calls!TypeOK, Calls!Goto, Calls!Admitted
    <2>2. QED
      BY <2>1, SameBalance DEF Inv, Calls!Goto
  <1>3. ASSUME NEW b \in Invokers
        PROVE  (Posted(b) /\ Checked(b) /\ Refused(b))'
    BY DEF Inv, Calls!TypeOK, Calls!Goto, Calls!world, Traced, Posted, Checked,
       Refused, Sent, Calls!Authority
  <1>4. QED
    BY <1>1, <1>2, <1>3 DEF Inv, Traced

-----------------------------------------------------------------------------
(* The actions *)

\* Initially no call is under way.
LEMMA InitInv == Calls!Init => Inv
  <1> SUFFICES ASSUME Calls!Init PROVE Inv
    OBVIOUS
  <1>1. Calls!TypeOK
    BY CallsAssumption DEF Calls!LimitsAssumption, Calls!Init, Calls!TypeOK, Calls!Outcomes
  <1>2. Balanced
    <2>1. UnderWay = {}
      BY DEF Calls!Init, UnderWay, Calls!Admitted
    <2>2. IsFiniteSet(UnderWay) /\ Cardinality(UnderWay) = 0
      BY <2>1, FS_EmptySet
    <2>3. QED
      BY <2>2, CallsAssumption DEF Calls!LimitsAssumption, Calls!Init, Balanced
  <1>3. Traced
    BY DEF Calls!Init, Traced, Posted, Checked, Refused, Sent, Calls!Refusals
  <1>4. QED
    BY <1>1, <1>2, <1>3 DEF Inv

\* A call takes a permit, or is refused for lack of one.
LEMMA CallStep ==
    ASSUME Inv, NEW c \in Invokers, Calls!Call(c)
    PROVE  Inv'
  <1> USE DEF Inv
  <1>1. ~Calls!Admitted(c)
    BY DEF Calls!Call, Calls!Admitted
  <1>2. CASE permits = 0
    <2>1. Calls!TypeOK'
      BY <1>2 DEF Calls!TypeOK, Calls!Call, Calls!world, Calls!Outcomes, Calls!Refusals
    <2>2. Balanced'
      <3>1. \A b \in Invokers : Calls!Admitted(b)' <=> Calls!Admitted(b)
        BY <1>2 DEF Calls!TypeOK, Calls!Call, Calls!Admitted
      <3>2. QED
        BY <1>2, <3>1, SameBalance DEF Calls!Call
    <2>3. ASSUME NEW b \in Invokers
          PROVE  (Posted(b) /\ Checked(b) /\ Refused(b))'
      BY <1>2 DEF Calls!TypeOK, Calls!Call, Calls!world, Traced, Posted, Checked,
       Refused, Sent, Calls!Authority
    <2>4. QED
      BY <2>1, <2>2, <2>3 DEF Traced
  <1>3. CASE permits # 0
    <2>1. Balanced' /\ permits' \in 0..CallPermits
      BY <1>1, <1>3, AdmitBalances DEF Calls!Call
    <2>2. Calls!TypeOK'
      BY <1>3, <2>1 DEF Calls!TypeOK, Calls!Call, Calls!world, Calls!Authority
    <2>3. ASSUME NEW b \in Invokers
          PROVE  (Posted(b) /\ Checked(b) /\ Refused(b))'
      <3>1. /\ progress[c] = "idle" /\ service[c] \in Calls!Kinds
            /\ progress' = [progress EXCEPT ![c] = IF service[c] = "control" THEN "exposure" ELSE "config"]
            /\ authorized' = [authorized EXCEPT ![c] = Calls!Authority(c, reachable, revision)]
            /\ UNCHANGED <<reachable, revision, service, expected, dispatched, sent, ran, verdict>>
        BY <1>3 DEF Calls!TypeOK, Calls!Call, Calls!world
      <3>2. CASE b = c
        <4>1. progress'[c] = (IF service[c] = "control" THEN "exposure" ELSE "config")
              /\ authorized'[c] = Calls!Authority(c, reachable, revision)
          BY <3>1 DEF Calls!TypeOK
        <4>2. ~Sent(c) /\ ~Sent(c)'
          BY <3>1 DEF Traced, Posted, Sent
        <4>3. Checked(c)'
          <5>1. Calls!Authority(c, reachable, revision)' <=> authorized'[c]
            BY <3>1, <4>1, Zenon DEF Calls!Authority
          <5>2. /\ progress'[c] = "exposure" => service'[c] = "control"
                /\ progress'[c] = "config" => service'[c] = "trigger"
                /\ progress'[c] \notin {"states", "post", "waiting"}
            BY <3>1, <4>1 DEF Calls!Kinds
          <5>3. QED
            BY <5>1, <5>2, Zenon DEF Checked
        <4>4. ~(service[c] = "trigger" /\ verdict[c] \in Calls!Refusals)
          BY <3>1 DEF Traced, Refused
        <4>5. QED
          BY <3>1, <3>2, <4>2, <4>3, <4>4 DEF Posted, Refused
      <3>3. CASE b # c
        <4>1. progress'[b] = progress[b] /\ authorized'[b] = authorized[b]
          BY <3>1, <3>3 DEF Calls!TypeOK
        <4>2. Posted(b) /\ Checked(b) /\ Refused(b)
          BY DEF Traced
        <4>3. QED
          BY <3>1, <4>1, <4>2 DEF Posted, Checked, Refused, Sent, Calls!Authority
      <3>4. QED
        BY <3>2, <3>3
    <2>4. QED
      BY <2>1, <2>2, <2>3 DEF Traced
  <1>4. QED
    BY <1>2, <1>3

\* The reads before the request, each of which may end the call.
LEMMA ReadSteps ==
    ASSUME Inv, NEW c \in Invokers,
           Calls!ReadFails(c) \/ Calls!Exposure(c) \/ Calls!Config(c) \/ Calls!States(c)
    PROVE  Inv'
  <1>1. CASE Calls!ReadFails(c)
    BY <1>1, RefuseStep DEF Calls!ReadFails, Calls!Refusals
  <1>2. CASE Calls!Exposure(c)
    <2>1. CASE reachable
      <3>1. authorized[c]
        BY <1>2, <2>1 DEF Calls!Exposure, Inv, Traced, Checked, Calls!Authority
      <3>2. QED
        BY <1>2, <2>1, <3>1, GotoStep DEF Calls!Exposure
    <2>2. CASE ~reachable
      BY <1>2, <2>2, RefuseStep DEF Calls!Exposure, Calls!Refusals
    <2>3. QED
      BY <2>1, <2>2
  <1>3. CASE Calls!Config(c)
    <2>1. CASE revision = expected[c]
      <3>1. authorized[c]
        BY <1>3, <2>1 DEF Calls!Config, Inv, Traced, Checked, Calls!Authority
      <3>2. QED
        BY <1>3, <2>1, <3>1, GotoStep DEF Calls!Config
    <2>2. CASE revision # expected[c]
      BY <1>3, <2>2, RefuseStep DEF Calls!Config, Calls!Refusals
    <2>3. QED
      BY <2>1, <2>2
  <1>4. CASE Calls!States(c)
    <2>1. authorized[c]
      BY <1>4 DEF Calls!States, Inv, Traced, Checked
    <2>2. Calls!Goto(c, "post") \/ Calls!End(c, "not_found") \/ Calls!End(c, "invalid_response")
      BY <1>4 DEF Calls!States
    <2>3. QED
      BY <1>4, <2>1, <2>2, GotoStep, RefuseStep DEF Calls!States, Calls!Refusals
  <1>5. QED
    BY <1>1, <1>2, <1>3, <1>4

\* The request is sent, once, on what was read.
LEMMA PostStep ==
    ASSUME Inv, NEW c \in Invokers, Calls!Post(c)
    PROVE  Inv'
  <1> USE DEF Inv
  <1>1. Calls!TypeOK'
    BY DEF Calls!TypeOK, Calls!Post, Calls!world
  <1>2. Balanced'
    <2>1. \A b \in Invokers : Calls!Admitted(b)' <=> Calls!Admitted(b)
      BY DEF Calls!TypeOK, Calls!Post, Calls!Admitted
    <2>2. QED
      BY <2>1, SameBalance DEF Calls!Post
  <1>3. ASSUME NEW b \in Invokers
        PROVE  (Posted(b) /\ Checked(b) /\ Refused(b))'
    BY DEF Calls!TypeOK, Calls!Post, Calls!world, Traced, Posted, Checked,
       Refused, Sent, Calls!Authority
  <1>4. QED
    BY <1>1, <1>2, <1>3 DEF Traced

\* The answers, failures and deadlines that end a call and return its permit.
LEMMA EndingSteps ==
    ASSUME Inv, NEW c \in Invokers, Calls!Receive(c) \/ Calls!Timeout(c) \/ Calls!Cancel(c)
    PROVE  Inv'
  <1>1. Calls!Admitted(c)
    BY DEF Calls!Receive, Calls!Timeout, Calls!Cancel, Calls!Admitted
  <1>2. \/ Calls!End(c, "acknowledged")
        \/ \E o \in Calls!Refusals : Calls!Failed(c, o)
    BY DEF Calls!Receive, Calls!Timeout, Calls!Cancel, Calls!Refusals
  <1>3. "acknowledged" \in Calls!Outcomes /\ "acknowledged" \notin Calls!Refusals
    BY DEF Calls!Outcomes, Calls!Refusals
  <1>4. QED
    BY <1>1, <1>2, <1>3, EndStep, FailedStep

\* What Home Assistant does with a call that was sent leaves it sent.
LEMMA SettleStep ==
    ASSUME Inv, NEW c \in sent, NEW r \in {"done", "rejected", "failed"}, Calls!Settle(c, r),
           ran' = ran \/ ran' = [ran EXCEPT ![c] = TRUE]
    PROVE  Inv'
  <1> USE DEF Inv
  <1>1. Calls!TypeOK'
    BY DEF Calls!TypeOK, Calls!Settle, Calls!world
  <1>2. Balanced'
    <2>1. \A b \in Invokers : Calls!Admitted(b)' <=> Calls!Admitted(b)
      BY DEF Calls!Settle, Calls!Admitted
    <2>2. QED
      BY <2>1, SameBalance DEF Calls!Settle
  <1>3. ASSUME NEW b \in Invokers
        PROVE  (Posted(b) /\ Checked(b) /\ Refused(b))'
    BY DEF Calls!TypeOK, Calls!Settle, Calls!world, Traced, Posted, Checked,
       Refused, Sent, Calls!Authority
  <1>4. QED
    BY <1>1, <1>2, <1>3 DEF Traced

\* Others change what is exposed and what is in effect.
LEMMA ChangeStep ==
    ASSUME Inv, Calls!Change
    PROVE  Inv'
  <1> USE DEF Inv
  <1>1. Calls!TypeOK'
    <2>1. authorized' \in [Invokers -> BOOLEAN]
      BY DEF Calls!TypeOK, Calls!Change, Calls!Admitted, Calls!Authority
    <2>2. altered' \in 0..CallChanges
      BY CallsAssumption DEF Calls!LimitsAssumption, Calls!TypeOK, Calls!Change
    <2>3. reachable' \in BOOLEAN /\ revision' \in Revisions /\ matching' \in 0..2
      BY DEF Calls!TypeOK, Calls!Change
    <2>4. QED
      BY <2>1, <2>2, <2>3 DEF Calls!TypeOK, Calls!Change
  <1>2. Balanced'
    <2>1. \A b \in Invokers : Calls!Admitted(b)' <=> Calls!Admitted(b)
      BY DEF Calls!Change, Calls!Admitted
    <2>2. QED
      BY <2>1, SameBalance DEF Calls!Change
  <1>3. ASSUME NEW b \in Invokers
        PROVE  (Posted(b) /\ Checked(b) /\ Refused(b))'
    BY DEF Calls!TypeOK, Calls!Change, Traced, Posted, Checked,
       Refused, Sent, Calls!Authority, Calls!Admitted
  <1>4. QED
    BY <1>1, <1>2, <1>3 DEF Traced

\* Every step preserves the invariant.
LEMMA NextInv == Inv /\ [Calls!Next]_(Calls!vars) => Inv'
  <1> SUFFICES ASSUME Inv, [Calls!Next]_(Calls!vars) PROVE Inv'
    OBVIOUS
  <1>1. ASSUME NEW c \in Invokers, Calls!Call(c)
        PROVE  Inv'
    BY <1>1, CallStep
  <1>2. ASSUME NEW c \in Invokers,
               Calls!ReadFails(c) \/ Calls!Exposure(c) \/ Calls!Config(c) \/ Calls!States(c)
        PROVE  Inv'
    BY <1>2, ReadSteps
  <1>3. ASSUME NEW c \in Invokers, Calls!Post(c)
        PROVE  Inv'
    BY <1>3, PostStep
  <1>4. ASSUME NEW c \in Invokers, Calls!Receive(c) \/ Calls!Timeout(c) \/ Calls!Cancel(c)
        PROVE  Inv'
    BY <1>4, EndingSteps
  <1>5. ASSUME NEW c \in Invokers, Calls!Run(c) \/ Calls!Refuse(c)
        PROVE  Inv'
    BY <1>5, SettleStep DEF Calls!Run, Calls!Refuse
  <1>6. CASE Calls!Change
    BY <1>6, ChangeStep
  <1>7. CASE UNCHANGED Calls!vars
    <2> USE <1>7 DEF Calls!vars, Calls!world
    <2>1. Calls!TypeOK'
      BY DEF Inv, Calls!TypeOK
    <2>2. Balanced'
      BY DEF Inv, Balanced, UnderWay, Calls!Admitted
    <2>3. Traced'
      BY DEF Inv, Traced, Posted, Checked,
       Refused, Sent, Calls!Authority
    <2>4. QED
      BY <2>1, <2>2, <2>3 DEF Inv
  <1>8. QED
    BY <1>1, <1>2, <1>3, <1>4, <1>5, <1>6, <1>7 DEF Calls!Next

-----------------------------------------------------------------------------
(* Theorems *)

\* The invariant holds throughout.
THEOREM Invariance == Calls!Spec => []Inv
  BY InitInv, NextInv, PTL DEF Calls!Spec

\* Every state of execute_control and trigger_automation is of its type: in
\* particular the semaphore never holds more permits than it was made with.
THEOREM TypeCorrect == Calls!Spec => []Calls!TypeOK
  <1>1. Inv => Calls!TypeOK
    BY DEF Inv
  <1>2. QED
    BY <1>1, Invariance, PTL

\* A permit is out exactly while its operation is under way, for any number of
\* callers (admit, and the drop of the permit at every end).
THEOREM PermitsAreBalanced == Calls!Spec => []PermitsBalance
  <1>1. Inv => PermitsBalance
    BY DEF Inv, Balanced, UnderWay, PermitsBalance, Calls!PermitsBalance,
        Calls!Cardinality, Cardinality
  <1>2. QED
    BY <1>1, Invariance, PTL

\* A trigger_automation that was refused was not sent and never will be, whenever
\* the deadline or the cancellation came.
THEOREM RetryIsSafe == Calls!Spec => []TriggerRetryIsSafe
  <1>1. Inv => TriggerRetryIsSafe
    BY DEF Inv, Calls!TypeOK, Traced, Refused, Sent, TriggerRetryIsSafe, Calls!TriggerRetryIsSafe
  <1>2. QED
    BY <1>1, Invariance, PTL

\* Nothing is carried out on an exposure or a revision from before the call.
THEOREM AuthorityWasFresh == Calls!Spec => []AuthorityIsFresh
  <1>1. Inv => AuthorityIsFresh
    BY DEF Inv, Traced, Posted, Sent, AuthorityIsFresh, Calls!AuthorityIsFresh
  <1>2. QED
    BY <1>1, Invariance, PTL

=============================================================================
