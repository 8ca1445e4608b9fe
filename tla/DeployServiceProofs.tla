------------------------ MODULE DeployServiceProofs ------------------------
(***************************************************************************)
(* The way from a deploy call to the host.                                 *)
(*                                                                         *)
(* For any number of callers and of hosts that answer at the address:      *)
(* DeployService is type correct, runs one deployment at a time, gives the *)
(* password to the pinned host alone, and its answers and its metrics are  *)
(* those of the deployments.  The permit is what the proof turns on: it is *)
(* out exactly while a task runs, so the one task that runs accounts for   *)
(* the counter too.                                                        *)
(*                                                                         *)
(* For any packets, limit and sizes of buffers: the SFTP client is given   *)
(* the stream as it is, and nothing of a packet above the limit.  The      *)
(* proof says at each step where poll_read is in which packet.             *)
(*                                                                         *)
(* For any files, directories and limits: what NativeFs does in several    *)
(* requests is one step.  The proof says how much has been transferred.    *)
(***************************************************************************)
EXTENDS DeployService, HostParts, FiniteSetTheorems, SequenceTheorems,
        WellFoundedInduction, TLAPS

\* The permit is with the one task that runs.
Exclusive ==
    /\ \A c, d \in Callers : Running(c) /\ Running(d) => c = d
    /\ free = 0 <=> \E c \in Callers : Running(c)
    /\ inFlight = 1 - free

\* What the task of c has done at its step.
TaskOK(c) ==
    /\ task[c] \in {"authenticate", "channel", "subsystem", "init", "transaction"}
         => hears[c] = PinnedKey
    /\ task[c] \in {"none", "connect", "authenticate", "channel", "subsystem", "init"}
         => c \notin changing
    /\ task[c] = "transaction" => c \in changing
    /\ Len(recorded[c]) = IF task[c] = "done" THEN 1 ELSE 0

\* The result of a task that is done.
ResultOK(c) ==
    /\ result[c] # "none" => task[c] = "done"
    /\ result[c] \notin {"capacity_exhausted", "invalid_arguments"}
    /\ result[c] = "success" => c \in changing
    /\ result[c] = "host_key_mismatch" => c \notin changing

\* What its caller knows.
CallerOK(c) ==
    /\ pc[c] = "idle" => task[c] = "none"
    /\ answer[c] # "none" => pc[c] = "over"
    /\ answer[c] \in {"capacity_exhausted", "invalid_arguments"} => task[c] = "none"
    /\ answer[c] \in {"success", "host_key_mismatch"} => result[c] = answer[c]

Traced == \A c \in Callers : TaskOK(c) /\ ResultOK(c) /\ CallerOK(c)

Inv == TypeOK /\ Exclusive /\ Traced /\ PasswordToPinnedHost

-----------------------------------------------------------------------------
(* Steps and errors *)

\* The steps of a task.
LEMMA StepNames ==
    DOMAIN StepOf = {"connect", "authenticate", "channel", "subsystem", "init", "transaction"}
  <1>1. DOMAIN StepOf = {Steps[i] : i \in 1..6}
    BY DEF StepOf
  <1>2. \A i \in 1..6 : i = 1 \/ i = 2 \/ i = 3 \/ i = 4 \/ i = 5 \/ i = 6
    OBVIOUS
  <1>3. /\ Steps[1] = "connect" /\ Steps[2] = "authenticate" /\ Steps[3] = "channel"
        /\ Steps[4] = "subsystem" /\ Steps[5] = "init" /\ Steps[6] = "transaction"
    BY DEF Steps
  <1>4. 1 \in 1..6 /\ 2 \in 1..6 /\ 3 \in 1..6 /\ 4 \in 1..6 /\ 5 \in 1..6 /\ 6 \in 1..6
    OBVIOUS
  <1>5. QED
    BY <1>1, <1>2, <1>3, <1>4

\* An error of a step is an answer, and neither success nor one of the answers that are
\* given without a task.
LEMMA StepErrors ==
    ASSUME NEW s \in DOMAIN StepOf, NEW e \in ConnectErrors(s)
    PROVE  /\ e \in Answers
           /\ e \notin {"none", "success", "host_key_mismatch", "capacity_exhausted",
                        "invalid_arguments"}
  <1>1. e \in Answers
    BY DEF Answers, Errors
  <1>2. e \notin {"none", "success", "host_key_mismatch", "capacity_exhausted",
                  "invalid_arguments"}
    BY StepNames DEF ConnectErrors
  <1>3. QED
    BY <1>1, <1>2

\* The answers that a handler gives by itself.
LEMMA OwnAnswers ==
    {"none", "success", "cancelled", "timeout", "host_key_mismatch", "capacity_exhausted",
     "invalid_arguments", "unavailable"} \subseteq Answers
  <1>1. "connect" \in DOMAIN StepOf /\ "unavailable" \in ConnectErrors("connect")
    BY StepNames DEF ConnectErrors
  <1>2. "unavailable" \in Errors
    BY <1>1 DEF Errors
  <1>3. QED
    BY <1>2 DEF Answers, Errors

\* Initially nothing runs.
LEMMA InitInv == Init => Inv
  <1> SUFFICES ASSUME Init PROVE Inv
    OBVIOUS
  <1>1. TypeOK
    BY ConstantsAssumption, OwnAnswers DEF Init, TypeOK
  <1>2. \A c \in Callers : ~Running(c)
    BY StepNames DEF Init, Running
  <1>3. Exclusive
    BY <1>2 DEF Init, Exclusive
  <1>4. Traced
    BY DEF Init, Traced, TaskOK, ResultOK, CallerOK
  <1>5. QED
    BY <1>1, <1>3, <1>4 DEF Init, Inv, PasswordToPinnedHost

-----------------------------------------------------------------------------
(* The ways a task goes on *)

\* However a task ends, the permit comes back and one outcome was recorded.
LEMMA FinishStep ==
    ASSUME Inv, NEW c \in Callers, Running(c),
           NEW r \in Answers \ {"none", "capacity_exhausted", "invalid_arguments"},
           NEW o \in Answers,
           r = "success" => c \in changing,
           r = "host_key_mismatch" => c \notin changing,
           task' = [task EXCEPT ![c] = "done"], result' = [result EXCEPT ![c] = r],
           free' = free + 1, inFlight' = inFlight - 1,
           recorded' = [recorded EXCEPT ![c] = Append(@, o)],
           HangUp(c), told' \subseteq told \cup {PinnedKey},
           UNCHANGED <<pc, answer, key, changing, moves>>
    PROVE  Inv'
  <1> USE DEF Inv
  <1>1. free = 0 /\ \A d \in Callers : Running(d) => d = c
    BY DEF Exclusive
  <1>2. \A d \in Callers : ~Running(d)'
    BY <1>1, StepNames DEF TypeOK, Running
  <1>3. Exclusive'
    BY <1>1, <1>2 DEF Exclusive
  <1>4. recorded[c] \in Seq(Answers) /\ Len(recorded[c]) = 0
    BY StepNames DEF TypeOK, Traced, TaskOK, Running
  <1>5. Append(recorded[c], o) \in Seq(Answers) /\ Len(Append(recorded[c], o)) = 1
    BY <1>4
  <1>6. TypeOK'
    <2>1. told' \subseteq Keys
      BY ConstantsAssumption DEF TypeOK
    <2>2. recorded' \in [Callers -> Seq(Answers)]
      BY <1>5 DEF TypeOK
    <2>3. free' \in 0..1 /\ inFlight' \in Int
      BY <1>1 DEF TypeOK
    <2>4. late' \in [Callers -> BOOLEAN] /\ hears' \in [Callers -> Keys \cup {"none"}]
      BY DEF TypeOK, HangUp
    <2>5. QED
      BY <2>1, <2>2, <2>3, <2>4 DEF TypeOK
  <1>7. PasswordToPinnedHost'
    BY DEF PasswordToPinnedHost
  <1>8. ASSUME NEW d \in Callers
        PROVE  (TaskOK(d) /\ ResultOK(d) /\ CallerOK(d))'
    <2>1. TaskOK(d) /\ ResultOK(d) /\ CallerOK(d)
      BY DEF Traced
    <2>2. CASE d = c
      <3>1. task'[d] = "done" /\ result'[d] = r /\ Len(recorded'[d]) = 1
        BY <1>5, <2>2 DEF TypeOK
      <3>2. pc[d] # "idle" /\ task[d] # "none" /\ result[d] = "none"
        BY <2>1, <2>2, StepNames DEF Running, CallerOK, ResultOK, TypeOK
      <3>3. QED
        BY <2>1, <2>2, <3>1, <3>2 DEF TaskOK, ResultOK, CallerOK
    <2>3. CASE d # c
      <3>1. /\ task'[d] = task[d] /\ result'[d] = result[d]
            /\ recorded'[d] = recorded[d] /\ hears'[d] = hears[d]
        BY <2>3 DEF TypeOK, HangUp
      <3>2. QED
        BY <2>1, <3>1 DEF TaskOK, ResultOK, CallerOK
    <2>4. QED
      BY <2>2, <2>3
  <1>9. QED
    BY <1>3, <1>6, <1>7, <1>8 DEF Traced

\* A step that fails is one of the ways a task ends.
LEMMA FailsStep ==
    ASSUME Inv, NEW c \in Callers, NEW s \in DOMAIN StepOf, Fails(c, s),
           told' \subseteq told \cup {PinnedKey},
           UNCHANGED <<pc, answer, key, changing, moves>>
    PROVE  Inv'
  <1>1. PICK e \in ConnectErrors(s) : Finish(c, e)
    BY DEF Fails
  <1>2. Running(c)
    BY DEF Fails, Running
  <1>3. /\ e \in Answers \ {"none", "capacity_exhausted", "invalid_arguments"}
        /\ e \notin {"success", "host_key_mismatch"}
    BY StepErrors
  <1>4. QED
    BY <1>1, <1>2, <1>3, FinishStep DEF Finish

\* A task that goes on to its next step keeps the permit.
LEMMA ProceedStep ==
    ASSUME Inv, NEW c \in Callers, Running(c), NEW s \in DOMAIN StepOf, Proceed(c, s),
           s # "connect",
           hears' \in [Callers -> Keys \cup {"none"}], hears'[c] = PinnedKey,
           \A d \in Callers : d # c => hears'[d] = hears[d],
           told' \subseteq told \cup {PinnedKey},
           changing' = IF s = "transaction" THEN changing \cup {c} ELSE changing,
           s # "transaction" => task[c] # "transaction",
           UNCHANGED <<pc, answer, key, moves>>
    PROVE  Inv'
  <1> USE DEF Inv, Proceed
  <1>1. \A d \in Callers : Running(d)' <=> Running(d)
    BY StepNames DEF TypeOK, Running
  <1>2. Exclusive'
    BY <1>1 DEF Exclusive
  <1>3. TypeOK'
    <2>1. told' \subseteq Keys
      BY ConstantsAssumption DEF TypeOK
    <2>2. QED
      BY <2>1 DEF TypeOK
  <1>4. PasswordToPinnedHost'
    BY DEF PasswordToPinnedHost
  <1>5. ASSUME NEW d \in Callers
        PROVE  (TaskOK(d) /\ ResultOK(d) /\ CallerOK(d))'
    <2>1. TaskOK(d) /\ ResultOK(d) /\ CallerOK(d)
      BY DEF Traced
    <2>2. CASE d = c
      <3>1. task'[d] = s /\ task[d] \in DOMAIN StepOf
        BY <2>2 DEF TypeOK, Running
      <3>2. result[d] = "none" /\ task[d] # "none" /\ task[d] # "done" /\ answer[d] # "success"
        BY <2>1, <3>1, StepNames DEF ResultOK, CallerOK
      <3>3. QED
        BY <2>1, <2>2, <3>1, <3>2, StepNames DEF TaskOK, ResultOK, CallerOK
    <2>3. CASE d # c
      BY <2>1, <2>3 DEF TaskOK, ResultOK, CallerOK, TypeOK
    <2>4. QED
      BY <2>2, <2>3
  <1>6. QED
    BY <1>2, <1>3, <1>4, <1>5 DEF Traced

-----------------------------------------------------------------------------
(* The actions *)

\* A caller is refused, or its task takes the permit.
LEMMA DeployStep ==
    ASSUME Inv, NEW c \in Callers, Deploy(c)
    PROVE  Inv'
  <1> USE DEF Inv, Deploy
  <1>1. task[c] = "none" /\ answer[c] = "none" /\ result[c] = "none" /\ c \notin changing
    BY DEF Traced, TaskOK, ResultOK, CallerOK, TypeOK
  <1>2. CASE \E a \in {"invalid_arguments", "capacity_exhausted"} :
                 Told(c, a) /\ UNCHANGED <<task, free, inFlight>>
    <2>1. TypeOK'
      <3>1. PICK a \in {"invalid_arguments", "capacity_exhausted"} :
                Told(c, a) /\ UNCHANGED <<task, free, inFlight>>
        BY <1>2
      <3>2. a \in Answers
        BY OwnAnswers
      <3>3. QED
        BY <3>1, <3>2 DEF TypeOK, Told
    <2>2. Exclusive'
      BY <1>2 DEF Exclusive, Running
    <2>3. ASSUME NEW d \in Callers
          PROVE  (TaskOK(d) /\ ResultOK(d) /\ CallerOK(d))'
      BY <1>1, <1>2 DEF Traced, TaskOK, ResultOK, CallerOK, TypeOK, Told
    <2>4. QED
      BY <2>1, <2>2, <2>3 DEF Traced, PasswordToPinnedHost
  <1>3. CASE /\ free = 1 /\ free' = 0
             /\ pc' = [pc EXCEPT ![c] = "waiting"] /\ task' = [task EXCEPT ![c] = "connect"]
             /\ inFlight' = inFlight + 1
             /\ UNCHANGED answer
    <2>1. TypeOK'
      BY <1>3, StepNames DEF TypeOK
    <2>2. \A d \in Callers : Running(d)' <=> d = c
      BY <1>3, StepNames DEF Exclusive, Running, TypeOK
    <2>3. Exclusive'
      BY <1>3, <2>2 DEF Exclusive
    <2>4. ASSUME NEW d \in Callers
          PROVE  (TaskOK(d) /\ ResultOK(d) /\ CallerOK(d))'
      BY <1>1, <1>3 DEF Traced, TaskOK, ResultOK, CallerOK, TypeOK
    <2>5. QED
      BY <2>1, <2>3, <2>4 DEF Traced, PasswordToPinnedHost
  <1>4. QED
    BY <1>2, <1>3

\* A caller hears of its own task, or of its cancellation.
LEMMA CallerSteps ==
    ASSUME Inv, NEW c \in Callers, Receive(c) \/ Cancel(c)
    PROVE  Inv'
  <1> USE DEF Inv
  <1>1. /\ pc[c] = "waiting"
        /\ \E a \in {"cancelled", result[c]} : Told(c, a)
        /\ UNCHANGED <<free, inFlight, recorded, task, result, late, key, hears, told,
                       changing, moves>>
    BY DEF Receive, Cancel
  <1>2. TypeOK'
    <2>1. "cancelled" \in Answers /\ result[c] \in Answers
      BY OwnAnswers DEF TypeOK
    <2>2. QED
      BY <1>1, <2>1 DEF TypeOK, Told
  <1>3. Exclusive'
    BY <1>1 DEF Exclusive, Running
  <1>4. ASSUME NEW d \in Callers
        PROVE  (TaskOK(d) /\ ResultOK(d) /\ CallerOK(d))'
    BY <1>1 DEF Traced, TaskOK, ResultOK, CallerOK, TypeOK, Told
  <1>5. QED
    BY <1>1, <1>2, <1>3, <1>4 DEF Traced, PasswordToPinnedHost

\* The connection that goes on is to the pinned host.
LEMMA ConnectStep ==
    ASSUME Inv, NEW c \in Callers, Connect(c)
    PROVE  Inv'
  <1>1. CASE Fails(c, "connect")
    BY <1>1, StepNames, FailsStep DEF Connect
  <1>2. CASE /\ task[c] = "connect" /\ CheckServerKey(key)
             /\ hears' = [hears EXCEPT ![c] = key]
             /\ Proceed(c, "authenticate")
    <2>1. Running(c)
      BY <1>2, StepNames DEF Running
    <2>2. /\ hears' \in [Callers -> Keys \cup {"none"}] /\ hears'[c] = PinnedKey
          /\ \A d \in Callers : d # c => hears'[d] = hears[d]
      BY <1>2 DEF Inv, TypeOK, CheckServerKey
    <2>3. QED
      BY <1>2, <2>1, <2>2, StepNames, ProceedStep DEF Connect
  <1>3. CASE task[c] = "connect" /\ Finish(c, "host_key_mismatch")
    <2>1. Running(c) /\ c \notin changing
      BY <1>3, StepNames DEF Running, Inv, Traced, TaskOK
    <2>2. "host_key_mismatch" \in Answers
      BY OwnAnswers
    <2>3. QED
      BY <1>3, <2>1, <2>2, FinishStep DEF Connect, Finish
  <1>4. QED
    BY <1>1, <1>2, <1>3 DEF Connect

\* The password goes to the host that was checked.
LEMMA AuthenticateStep ==
    ASSUME Inv, NEW c \in Callers, Authenticate(c)
    PROVE  Inv'
  <1>1. hears[c] = PinnedKey /\ told' \subseteq told \cup {PinnedKey} /\ Running(c)
    BY StepNames DEF Authenticate, Inv, Traced, TaskOK, Running
  <1>2. CASE Fails(c, "authenticate")
    BY <1>1, <1>2, StepNames, FailsStep DEF Authenticate
  <1>3. CASE Proceed(c, "channel") /\ UNCHANGED hears
    BY <1>1, <1>3, StepNames, ProceedStep DEF Authenticate, Inv, TypeOK
  <1>4. QED
    BY <1>2, <1>3 DEF Authenticate

\* The channel is opened on that connection.
LEMMA OpenStep ==
    ASSUME Inv, NEW c \in Callers, Open(c)
    PROVE  Inv'
  <1>1. ASSUME NEW s \in {"channel", "subsystem", "init"}, Fails(c, s)
        PROVE  Inv'
    <2>1. task'[c] = "done"
      BY <1>1 DEF Fails, Finish, Inv, TypeOK
    <2>2. changing' = changing
      BY <2>1 DEF Open
    <2>3. QED
      BY <1>1, <2>2, StepNames, FailsStep DEF Open
  <1>2. ASSUME NEW s \in {"subsystem", "init", "transaction"},
               task[c] \in {"channel", "subsystem", "init"}, Proceed(c, s), UNCHANGED hears
        PROVE  Inv'
    <2>1. task'[c] = s
      BY <1>2 DEF Proceed, Inv, TypeOK
    <2>2. changing' = IF s = "transaction" THEN changing \cup {c} ELSE changing
      BY <2>1 DEF Open
    <2>3. hears[c] = PinnedKey /\ Running(c)
      BY <1>2, StepNames DEF Inv, Traced, TaskOK, Running
    <2>4. QED
      BY <1>2, <2>2, <2>3, StepNames, ProceedStep DEF Open, Inv, TypeOK
  <1>3. QED
    BY <1>1, <1>2 DEF Open

\* The transaction has begun when it succeeds.
LEMMA TransactionStep ==
    ASSUME Inv, NEW c \in Callers, Transaction(c)
    PROVE  Inv'
  <1>1. CASE Fails(c, "transaction")
    BY <1>1, StepNames, FailsStep DEF Transaction
  <1>2. CASE task[c] = "transaction" /\ Finish(c, "success")
    <2>1. Running(c) /\ c \in changing
      BY <1>2, StepNames DEF Running, Inv, Traced, TaskOK
    <2>2. "success" \in Answers
      BY OwnAnswers
    <2>3. QED
      BY <1>2, <2>1, <2>2, FinishStep DEF Transaction, Finish
  <1>3. QED
    BY <1>1, <1>2 DEF Transaction

\* Timers run out, and tasks die.
LEMMA EndSteps ==
    ASSUME Inv, NEW c \in Callers, Timeout(c) \/ Die(c)
    PROVE  Inv'
  <1>1. {"timeout", "unavailable", "cancelled"} \subseteq
            Answers \ {"none", "capacity_exhausted", "invalid_arguments"}
    BY OwnAnswers
  <1>2. CASE Timeout(c)
    BY <1>1, <1>2, FinishStep DEF Timeout, Finish
  <1>3. CASE Die(c)
    BY <1>1, <1>3, FinishStep DEF Die
  <1>4. QED
    BY <1>2, <1>3

\* Time, and the host at the address, change nothing of this.
LEMMA WorldSteps ==
    ASSUME Inv, (\E c \in Callers : TimePasses(c)) \/ Move \/ UNCHANGED vars
    PROVE  Inv'
  <1> USE DEF Inv
  <1>1. /\ UNCHANGED <<free, inFlight, recorded, pc, answer, task, result, hears, told,
                       changing>>
        /\ late' \in [Callers -> BOOLEAN] /\ key' \in Keys /\ moves' \in 0..MaxMoves
    <2>1. CASE \E c \in Callers : TimePasses(c)
      BY <2>1 DEF TimePasses, TypeOK
    <2>2. CASE Move
      BY <2>2, ConstantsAssumption DEF Move, TypeOK
    <2>3. CASE UNCHANGED vars
      BY <2>3 DEF vars, TypeOK
    <2>4. QED
      BY <2>1, <2>2, <2>3
  <1>2. TypeOK'
    BY <1>1 DEF TypeOK
  <1>3. Exclusive'
    BY <1>1 DEF Exclusive, Running
  <1>4. Traced'
    BY <1>1 DEF Traced, TaskOK, ResultOK, CallerOK
  <1>5. QED
    BY <1>1, <1>2, <1>3, <1>4 DEF PasswordToPinnedHost

\* Every step keeps the invariant.
LEMMA NextInv == Inv /\ [Next]_vars => Inv'
  <1> SUFFICES ASSUME Inv, [Next]_vars PROVE Inv'
    OBVIOUS
  <1>1. ASSUME NEW c \in Callers,
               \/ Deploy(c) \/ Receive(c) \/ Cancel(c)
               \/ Connect(c) \/ Authenticate(c) \/ Open(c) \/ Transaction(c)
               \/ Timeout(c) \/ Die(c)
        PROVE  Inv'
    BY <1>1, DeployStep, CallerSteps, ConnectStep, AuthenticateStep, OpenStep,
       TransactionStep, EndSteps
  <1>2. CASE (\E c \in Callers : TimePasses(c)) \/ Move \/ UNCHANGED vars
    BY <1>2, WorldSteps
  <1>3. QED
    BY <1>1, <1>2 DEF Next

-----------------------------------------------------------------------------
(* Theorems *)

\* The invariant holds throughout.
THEOREM Invariance == Spec => []Inv
  BY InitInv, NextInv, PTL DEF Spec

\* One deployment at a time in a process, also while the caller of an earlier one has
\* gone (the permit is moved into the task).
THEOREM DeploymentsExclude == Spec => []OneDeployment
  <1>1. Inv => OneDeployment
    BY DEF Inv, Exclusive, OneDeployment
  <1>2. QED
    BY <1>1, Invariance, PTL

\* The password goes to the host whose key is pinned, whoever answers at the address
\* (check_server_key, authenticate_password).
THEOREM PasswordIsKept == Spec => []PasswordToPinnedHost
  <1>1. Inv => PasswordToPinnedHost
    BY DEF Inv
  <1>2. QED
    BY <1>1, Invariance, PTL

\* The answers are those of the caller's own deployment, and the counter and the
\* recorded outcomes those of the deployments, cancelled callers included.
THEOREM DeploymentsTrue == Spec => []DeploymentsAreTrue
  <1>1. Inv => AnswerIsOwn
    BY DEF Inv, Traced, TaskOK, ResultOK, CallerOK, AnswerIsOwn
  <1>2. ASSUME Inv
        PROVE  inFlight = Cardinality({c \in Callers : Running(c)})
    <2> DEFINE R == {c \in Callers : Running(c)}
    <2>1. CASE free = 0
      <3>1. PICK c \in Callers : Running(c)
        BY <1>2, <2>1 DEF Inv, Exclusive
      <3>2. R = {c}
        BY <1>2, <3>1 DEF Inv, Exclusive
      <3>3. Cardinality(R) = 1
        BY <3>2, FS_Singleton
      <3>4. QED
        BY <1>2, <2>1, <3>3 DEF Inv, Exclusive
    <2>2. CASE free = 1
      <3>1. R = {}
        BY <1>2, <2>2 DEF Inv, Exclusive
      <3>2. Cardinality(R) = 0
        BY <3>1, FS_EmptySet
      <3>3. QED
        BY <1>2, <2>2, <3>2 DEF Inv, Exclusive
    <2>3. free = 0 \/ free = 1
      BY <1>2 DEF Inv, TypeOK
    <2>4. QED
      BY <2>1, <2>2, <2>3
  <1>3. Inv => DeploymentsAreTrue
    BY <1>1, <1>2 DEF Inv, Traced, TaskOK, DeploymentsCounted, DeploymentsAreTrue
  <1>4. QED
    BY <1>3, Invariance, PTL

-----------------------------------------------------------------------------
(* The packets of the session: where they begin.  Starts is a recursive    *)
(* function, which is unfolded by an induction that shows it exists.       *)

\* Natural numbers have the order that an induction goes along.
LEMMA NaturalOrder == IsWellFoundedOn({p \in Nat \X Nat : p[1] < p[2]}, Nat)
  BY NatLessThanWellFounded, Zenon DEF OpToRel

\* Induction, for a set instead of a predicate.
LEMMA SetInduction ==
    ASSUME NEW S, 0 \in S, \A n \in Nat : n \in S => n + 1 \in S
    PROVE  \A n \in Nat : n \in S
  <1> DEFINE T == {n \in Nat : n \notin S}
             R == {p \in Nat \X Nat : p[1] < p[2]}
  <1>1. SUFFICES ASSUME T # {} PROVE FALSE
    OBVIOUS
  <1>2. IsWellFoundedOn(R, Nat)
    BY NaturalOrder
  <1>3. T \subseteq Nat
    OBVIOUS
  <1> HIDE DEF T, R
  <1>4. PICK x \in T : \A y \in T : ~(<<y, x>> \in R)
    BY <1>1, <1>2, <1>3, WFMin
  <1>5. x \in Nat /\ x # 0 /\ x - 1 \in Nat
    BY <1>4 DEF T
  <1>6. x - 1 \in T
    BY <1>4, <1>5 DEF T
  <1>7. <<x - 1, x>> \in R
    BY <1>5 DEF R
  <1>8. QED
    BY <1>4, <1>6, <1>7

IsStarts(f, n) ==
    /\ DOMAIN f = 1..n + 1
    /\ \A k \in 1..n + 1 :
          f[k] = IF k = 1 THEN 1 ELSE f[k - 1] + PrefixLen + lengths[k - 1]

\* Where the packets begin.
LEMMA StartsExist ==
    ASSUME lengths \in Seq(Nat)
    PROVE  \A n \in Nat : \E f : IsStarts(f, n)
  <1> DEFINE S == {n \in Nat : \E f : IsStarts(f, n)}
  <1>1. 0 \in S
    <2> DEFINE f == [k \in 1..1 |-> 1]
    <2>1. IsStarts(f, 0)
      BY DEF IsStarts
    <2>2. QED
      BY <2>1
  <1>2. ASSUME NEW n \in Nat, n \in S
        PROVE  n + 1 \in S
    <2>1. PICK f : IsStarts(f, n)
      BY <1>2
    <2> DEFINE g == [k \in 1..n + 2 |->
                        IF k = n + 2 THEN f[n + 1] + PrefixLen + lengths[n + 1] ELSE f[k]]
    <2>2. ASSUME NEW k \in 1..n + 2
          PROVE  g[k] = IF k = 1 THEN 1 ELSE g[k - 1] + PrefixLen + lengths[k - 1]
      <3>1. CASE k = n + 2
        <4>1. k - 1 = n + 1 /\ n + 1 \in 1..n + 2 /\ n + 1 # n + 2 /\ k # 1
          BY <3>1
        <4>2. QED
          BY <3>1, <4>1
      <3>2. CASE k # n + 2
        <4>1. k \in 1..n + 1 /\ (k # 1 => k - 1 \in 1..n + 2 /\ k - 1 # n + 2)
          BY <3>2
        <4>2. QED
          BY <2>1, <3>2, <4>1 DEF IsStarts
      <3>3. QED
        BY <3>1, <3>2
    <2>3. DOMAIN g = 1..(n + 1) + 1 /\ (n + 1) + 1 = n + 2
      OBVIOUS
    <2> HIDE DEF g
    <2>4. IsStarts(g, n + 1)
      BY <2>2, <2>3 DEF IsStarts
    <2>5. QED
      BY <2>4
  <1> HIDE DEF S
  <1>3. \A n \in Nat : n \in S
    BY <1>1, <1>2, SetInduction
  <1>4. QED
    BY <1>3 DEF S

\* The definition of Starts, unfolded.
LEMMA StartsAre ==
    ASSUME lengths \in Seq(Nat)
    PROVE  IsStarts(Stream!Starts, Len(lengths))
  <1> DEFINE n == Len(lengths)
             body(f) == [k \in 1..n + 1 |->
                           IF k = 1 THEN 1 ELSE f[k - 1] + PrefixLen + lengths[k - 1]]
  <1>1. n \in Nat
    OBVIOUS
  <1>2. PICK f : IsStarts(f, n)
    BY <1>1, StartsExist
  <1>3. Stream!Starts = CHOOSE g : g = body(g)
    BY DEF Stream!Starts
  <1>4. \E g : g = body(g)
    <2>1. [k \in 1..n + 1 |-> f[k]] = body([k \in 1..n + 1 |-> f[k]])
      <3> DEFINE g == [k \in 1..n + 1 |-> f[k]]
      <3>1. \A k \in 1..n + 1 : g[k] = f[k] /\ (k # 1 => k - 1 \in 1..n + 1)
        BY <1>1
      <3>2. \A k \in 1..n + 1 :
               g[k] = IF k = 1 THEN 1 ELSE g[k - 1] + PrefixLen + lengths[k - 1]
        BY <1>2, <3>1 DEF IsStarts
      <3>3. QED
        BY <3>2
    <2>2. QED
      BY <2>1
  <1> DEFINE h == Stream!Starts
  <1>5. h = body(h)
    <2> HIDE DEF body
    <2>1. QED
      BY <1>3, <1>4
  <1> HIDE DEF h
  <1>6. IsStarts(h, n)
    BY <1>5 DEF IsStarts
  <1>7. QED
    BY <1>6 DEF h

\* What is assumed of the stream and its buffers.
LEMMA StreamConstants ==
    /\ PrefixLen \in Nat \ {0} /\ BufferSize \in Nat \ {0} /\ MaxPacket \in Nat
    /\ \A s \in Streams : s \in Seq(Nat)
  BY TransportAssumption DEF Stream!ConstantsAssumption

\* A packet begins where the one before it ends.
LEMMA StartsGrow ==
    ASSUME lengths \in Seq(Nat)
    PROVE  /\ \A k \in 1..Len(lengths) + 1 : Stream!Starts[k] \in Nat \ {0}
           /\ \A k \in 1..Len(lengths) :
                 Stream!Starts[k + 1] = Stream!Starts[k] + PrefixLen + lengths[k]
           /\ Stream!Starts[1] = 1
           /\ \A j, k \in 1..Len(lengths) + 1 :
                 j < k => Stream!Starts[j] + PrefixLen + lengths[j] <= Stream!Starts[k]
  <1> DEFINE s == Stream!Starts
             n == Len(lengths)
  <1>1. n \in Nat /\ \A k \in 1..n : lengths[k] \in Nat
    OBVIOUS
  <1>2. PrefixLen \in Nat
    BY StreamConstants
  <1>3. IsStarts(s, n)
    BY StartsAre
  <1> HIDE DEF s, n
  <1>4. s[1] = 1
    BY <1>1, <1>3 DEF IsStarts
  <1>5. \A k \in 1..n : s[k + 1] = s[k] + PrefixLen + lengths[k]
    <2>1. SUFFICES ASSUME NEW k \in 1..n PROVE s[k + 1] = s[k] + PrefixLen + lengths[k]
      OBVIOUS
    <2>2. k + 1 \in 1..n + 1 /\ k + 1 # 1 /\ (k + 1) - 1 = k
      BY <1>1
    <2>3. QED
      BY <1>3, <2>2 DEF IsStarts
  <1> DEFINE P == {m \in Nat : m + 1 <= n + 1 =>
                      /\ s[m + 1] \in Nat \ {0}
                      /\ \A j \in 1..m : s[j] \in Nat /\ s[j] + PrefixLen + lengths[j] <= s[m + 1]}
  <1>6. 0 \in P
    BY <1>4
  <1>7. ASSUME NEW m \in Nat, m \in P
        PROVE  m + 1 \in P
    <2>1. SUFFICES ASSUME (m + 1) + 1 <= n + 1
                   PROVE  /\ s[(m + 1) + 1] \in Nat \ {0}
                          /\ \A j \in 1..m + 1 :
                                s[j] \in Nat /\ s[j] + PrefixLen + lengths[j] <= s[(m + 1) + 1]
      OBVIOUS
    <2>2. m + 1 \in 1..n /\ lengths[m + 1] \in Nat
      BY <1>1, <2>1
    <2>3. /\ s[m + 1] \in Nat \ {0}
          /\ \A j \in 1..m : s[j] \in Nat /\ s[j] + PrefixLen + lengths[j] <= s[m + 1]
      BY <1>7, <2>2, <1>1
    <2>4. s[(m + 1) + 1] = s[m + 1] + PrefixLen + lengths[m + 1]
      BY <1>5, <2>2
    <2>5. s[(m + 1) + 1] \in Nat \ {0} /\ s[m + 1] <= s[(m + 1) + 1]
      BY <1>2, <2>2, <2>3, <2>4
    <2>6. ASSUME NEW j \in 1..m + 1
          PROVE  s[j] \in Nat /\ s[j] + PrefixLen + lengths[j] <= s[(m + 1) + 1]
      <3>1. CASE j = m + 1
        BY <1>2, <2>2, <2>3, <2>4, <3>1
      <3>2. CASE j # m + 1
        <4>1. j \in 1..m /\ j \in 1..n /\ lengths[j] \in Nat
          BY <1>1, <2>2, <3>2
        <4>2. s[j] \in Nat /\ s[j] + PrefixLen + lengths[j] <= s[m + 1]
          BY <2>3, <4>1
        <4>3. QED
          BY <1>2, <2>3, <2>5, <4>1, <4>2
      <3>3. QED
        BY <3>1, <3>2
    <2>7. QED
      BY <2>5, <2>6
  <1> HIDE DEF P
  <1>8. \A m \in Nat : m \in P
    BY <1>6, <1>7, SetInduction
  <1>9. ASSUME NEW k \in 1..n + 1
        PROVE  /\ s[k] \in Nat \ {0}
               /\ \A j \in 1..k - 1 : s[j] + PrefixLen + lengths[j] <= s[k]
    <2>1. k - 1 \in Nat /\ (k - 1) + 1 = k /\ (k - 1) + 1 <= n + 1
      BY <1>1
    <2>2. k - 1 \in P
      BY <1>8, <2>1
    <2>3. QED
      BY <2>1, <2>2 DEF P
  <1>10. ASSUME NEW j \in 1..n + 1, NEW k \in 1..n + 1, j < k
         PROVE  s[j] + PrefixLen + lengths[j] <= s[k]
    <2>1. j \in 1..k - 1
      BY <1>1, <1>10
    <2>2. QED
      BY <1>9, <2>1
  <1>11. QED
    BY <1>4, <1>5, <1>9, <1>10 DEF s, n

\* The length of packet k, and the bytes of the packets before it.
Size(k) == lengths[k]
Before(k) == Stream!Starts[k] - 1

\* Places count from one.
LEMMA OneLess ==
    /\ \A a \in Nat \ {0} : a - 1 \in Nat /\ a = (a - 1) + 1
    /\ \A a, b, c, d \in Nat : (b + 1) + c + d <= a + 1 => b + c + d <= a
  OBVIOUS

\* The same for the bytes before a packet and its length.
LEMMA BeforeGrows ==
    ASSUME lengths \in Seq(Nat)
    PROVE  /\ \A k \in 1..Len(lengths) : Size(k) \in Nat
           /\ \A k \in 1..Len(lengths) + 1 :
                 Before(k) \in Nat /\ Stream!Starts[k] = Before(k) + 1
           /\ \A k \in 1..Len(lengths) : Before(k + 1) = Before(k) + PrefixLen + Size(k)
           /\ Before(1) = 0 /\ Stream!Total = Before(Len(lengths) + 1)
           /\ \A j, k \in 1..Len(lengths) + 1 :
                 j < k => Before(j) + PrefixLen + Size(j) <= Before(k)
  <1>1. PrefixLen \in Nat /\ \A k \in 1..Len(lengths) : Size(k) \in Nat
    BY StreamConstants DEF Size
  <1>2. /\ \A k \in 1..Len(lengths) : k \in 1..Len(lengths) + 1 /\ k + 1 \in 1..Len(lengths) + 1
        /\ \A j, k \in 1..Len(lengths) + 1 : j < k => j \in 1..Len(lengths)
    OBVIOUS
  <1>3. ASSUME NEW k \in 1..Len(lengths) + 1
        PROVE  Before(k) \in Nat /\ Stream!Starts[k] = Before(k) + 1
    <2>1. Stream!Starts[k] \in Nat \ {0}
      BY StartsGrow
    <2>2. QED
      BY <2>1, OneLess, Zenon DEF Before
  <1>4. ASSUME NEW k \in 1..Len(lengths)
        PROVE  Before(k + 1) = Before(k) + PrefixLen + Size(k)
    <2>1. Stream!Starts[k + 1] = Stream!Starts[k] + PrefixLen + Size(k)
      BY StartsGrow DEF Size
    <2>2. Before(k + 1) + 1 = (Before(k) + 1) + PrefixLen + Size(k)
      BY <1>2, <1>3, <2>1, Zenon
    <2>3. Before(k) \in Nat /\ Before(k + 1) \in Nat /\ Size(k) \in Nat /\ PrefixLen \in Nat
      BY <1>1, <1>2, <1>3, Zenon
    <2> DEFINE a == Before(k + 1)
               b == Before(k)
               c == Size(k)
    <2> HIDE DEF a, b, c
    <2>4. a \in Nat /\ b \in Nat /\ c \in Nat /\ PrefixLen \in Nat /\ a + 1 = (b + 1) + PrefixLen + c
      BY <2>2, <2>3, Zenon DEF a, b, c
    <2>5. a = b + PrefixLen + c
      BY <2>4
    <2>6. QED
      BY <2>5, Zenon DEF a, b, c
  <1>5. ASSUME NEW j \in 1..Len(lengths) + 1, NEW k \in 1..Len(lengths) + 1, j < k
        PROVE  Before(j) + PrefixLen + Size(j) <= Before(k)
    <2>1. Stream!Starts[j] + PrefixLen + Size(j) <= Stream!Starts[k]
      BY <1>5, StartsGrow DEF Size
    <2>2. (Before(j) + 1) + PrefixLen + Size(j) <= Before(k) + 1
      BY <1>3, <2>1, Zenon
    <2>3. Before(j) \in Nat /\ Before(k) \in Nat /\ Size(j) \in Nat
      BY <1>1, <1>2, <1>3, <1>5, Zenon
    <2>4. QED
      BY <1>1, <2>2, <2>3, OneLess, Zenon
  <1>6. Before(1) = 0 /\ Stream!Total = Before(Len(lengths) + 1)
    BY StartsGrow DEF Before, Stream!Total
  <1>7. QED
    BY <1>1, <1>3, <1>4, <1>5, <1>6

\* What is read of a prefix is the length of its packet.
LEMMA PrefixTells ==
    ASSUME lengths \in Seq(Nat), NEW k \in 1..Len(lengths)
    PROVE  Stream!Lengths(Stream!PrefixOf(k)) = {Size(k)}
  <1> DEFINE same == {j \in DOMAIN lengths : Stream!PrefixOf(j) = Stream!PrefixOf(k)}
  <1>1. DOMAIN lengths = 1..Len(lengths) /\ Len(lengths) \in Nat
    OBVIOUS
  <1>2. PrefixLen \in Nat \ {0} /\ \A j \in 1..Len(lengths) : lengths[j] \in Nat
    BY StreamConstants
  <1>3. ASSUME NEW j \in 1..Len(lengths), Stream!PrefixOf(j) = Stream!PrefixOf(k)
        PROVE  j = k
    <2>1. j \in 1..Len(lengths) + 1 /\ k \in 1..Len(lengths) + 1
      BY <1>1
    <2>2. 1 \in 1..PrefixLen /\ Stream!Starts[j] \in Nat /\ Stream!Starts[k] \in Nat
      BY <1>2, <2>1, StartsGrow
    <2>3. Stream!PrefixOf(j)[1] = Stream!Starts[j] /\ Stream!PrefixOf(k)[1] = Stream!Starts[k]
      BY <2>2 DEF Stream!PrefixOf
    <2>4. Stream!Starts[j] = Stream!Starts[k]
      BY <1>3, <2>3
    <2>5. ~(j < k) /\ ~(k < j)
      <3>1. /\ j < k => Stream!Starts[j] + PrefixLen + lengths[j] <= Stream!Starts[k]
            /\ k < j => Stream!Starts[k] + PrefixLen + lengths[k] <= Stream!Starts[j]
        BY <2>1, StartsGrow
      <3>2. QED
        BY <1>2, <2>2, <2>4, <3>1
    <2>6. QED
      BY <1>1, <2>5
  <1>4. same = {k}
    BY <1>1, <1>3
  <1>5. QED
    BY <1>4 DEF Stream!Lengths, Size

\* The least of some numbers is not above any of them.
LEMMA LeastIs ==
    ASSUME NEW x \in Int, NEW y \in Int
    PROVE  /\ Stream!Least({x, y}) = (IF x <= y THEN x ELSE y)
           /\ \A u, v \in Int : LET l == Stream!Least({x, y, u, v})
                                IN  l \in {x, y, u, v} /\ l <= x /\ l <= y /\ l <= u /\ l <= v
  <1>1. Stream!Least({x, y}) = (IF x <= y THEN x ELSE y)
    <2> DEFINE l == IF x <= y THEN x ELSE y
    <2>1. l \in {x, y} /\ \A z \in {x, y} : l <= z
      OBVIOUS
    <2>2. \A m \in {x, y} : (\A z \in {x, y} : m <= z) => m = l
      OBVIOUS
    <2>3. QED
      BY <2>1, <2>2 DEF Stream!Least
  <1>2. ASSUME NEW u \in Int, NEW v \in Int
        PROVE  LET l == Stream!Least({x, y, u, v})
               IN  l \in {x, y, u, v} /\ l <= x /\ l <= y /\ l <= u /\ l <= v
    <2> DEFINE S == {x, y, u, v}
    <2>1. \E l \in S : \A z \in S : l <= z
      <3>1. PICK a \in {x, y} : a <= x /\ a <= y
        OBVIOUS
      <3>2. PICK b \in {u, v} : b <= u /\ b <= v
        OBVIOUS
      <3>3. PICK l \in {a, b} : l <= a /\ l <= b
        OBVIOUS
      <3>4. l \in S /\ \A z \in S : l <= z
        BY <3>1, <3>2, <3>3
      <3>5. QED
        BY <3>4
    <2>2. Stream!Least(S) \in S /\ \A z \in S : Stream!Least(S) <= z
      <3> HIDE DEF S
      <3>1. QED
        BY <2>1 DEF Stream!Least
    <2>3. QED
      BY <2>2
  <1>3. QED
    BY <1>1, <1>2

\* A sequence of places that follow the first b ones.
Places(s, b) == s \in Seq(Nat) /\ \A i \in 1..Len(s) : s[i] = b + i

\* They are a sequence.
LEMMA PlacesLength ==
    ASSUME NEW s, NEW b, Places(s, b)
    PROVE  s \in Seq(Nat) /\ Len(s) \in Nat
  BY DEF Places

\* They are the only ones of their number.
LEMMA PlacesSame ==
    ASSUME NEW b \in Nat, NEW s, NEW t, Places(s, b), Places(t, b), Len(s) = Len(t)
    PROVE  s = t
  BY DEF Places

\* Some more of them, as poll_read takes them from the inner stream.
LEMMA PlacesNew ==
    ASSUME NEW b \in Nat, NEW n \in Nat
    PROVE  Places([i \in 1..n |-> b + i], b) /\ Len([i \in 1..n |-> b + i]) = n
  BY DEF Places

\* They join those before them.
LEMMA PlacesJoin ==
    ASSUME NEW b \in Nat, NEW c, NEW s, NEW t, Places(s, b), Places(t, c), c = b + Len(s)
    PROVE  Places(s \o t, b) /\ Len(s \o t) = Len(s) + Len(t)
  <1>1. /\ s \in Seq(Nat) /\ t \in Seq(Nat) /\ Len(s) \in Nat /\ Len(t) \in Nat
        /\ \A i \in 1..Len(s) : s[i] = b + i
        /\ \A i \in 1..Len(t) : t[i] = b + Len(s) + i
    BY DEF Places
  <1>2. /\ s \o t \in Seq(Nat) /\ Len(s \o t) = Len(s) + Len(t)
        /\ \A i \in 1..Len(s) + Len(t) :
              (s \o t)[i] = IF i <= Len(s) THEN s[i] ELSE t[i - Len(s)]
    BY <1>1, ConcatProperties
  <1>3. ASSUME NEW i \in 1..Len(s) + Len(t)
        PROVE  (s \o t)[i] = b + i
    <2>1. CASE i <= Len(s)
      <3>1. i \in 1..Len(s)
        BY <1>1, <2>1
      <3>2. QED
        BY <1>1, <1>2, <2>1, <3>1
    <2>2. CASE i > Len(s)
      <3>1. i - Len(s) \in 1..Len(t) /\ ~(i <= Len(s)) /\ b + Len(s) + (i - Len(s)) = b + i
        BY <1>1, <2>2
      <3>2. QED
        BY <1>1, <1>2, <3>1, Zenon
    <2>3. QED
      BY <1>1, <2>1, <2>2
  <1>4. QED
    BY <1>2, <1>3 DEF Places

\* The last of them are some too.
LEMMA PlacesPart ==
    ASSUME NEW b \in Nat, NEW s, NEW m \in Nat, NEW c, NEW n, Places(s, b),
           m <= n, n = Len(s), c = b + m
    PROVE  Places(SubSeq(s, m + 1, n), c) /\ Len(SubSeq(s, m + 1, n)) = n - m
  <1>1. s \in Seq(Nat) /\ Len(s) \in Nat /\ \A i \in 1..Len(s) : s[i] = b + i
    BY DEF Places
  <1>2. \A i \in m + 1..Len(s) : s[i] \in Nat
    BY <1>1
  <1> DEFINE t == SubSeq(s, m + 1, Len(s))
  <1>3. /\ t \in Seq(Nat)
        /\ Len(t) = (IF m + 1 <= Len(s) THEN Len(s) - (m + 1) + 1 ELSE 0)
        /\ \A i \in 1..Len(s) - (m + 1) + 1 : t[i] = s[(m + 1) + i - 1]
    BY <1>1, <1>2, SubSeqProperties
  <1> HIDE DEF t
  <1>4. Len(t) = Len(s) - m
    BY <1>1, <1>3
  <1>5. ASSUME NEW i \in 1..Len(t)
        PROVE  t[i] = b + m + i
    <2>1. /\ i \in 1..Len(s) - (m + 1) + 1
          /\ (m + 1) + i - 1 \in 1..Len(s) /\ b + ((m + 1) + i - 1) = b + m + i
      BY <1>1, <1>4
    <2>2. QED
      BY <1>1, <1>3, <2>1, Zenon
  <1>6. Places(t, b + m)
    BY <1>3, <1>5 DEF Places
  <1>7. QED
    BY <1>4, <1>6 DEF t

-----------------------------------------------------------------------------
(* What the reader was given, and where poll_read is in the packet that it is at. *)

StreamType ==
    /\ lengths \in Streams
    /\ arrived \in Nat /\ taken \in Nat /\ taken <= arrived /\ arrived <= Stream!Total
    /\ output = <<>> /\ Places(got, 0)

ReadingPrefix(k) ==
    /\ Places(prefix, Before(k)) /\ Len(prefix) < PrefixLen
    /\ prefix_sent = 0 /\ taken = Before(k) + Len(prefix)
    /\ Len(got) = Before(k)
    /\ phase = "prefix" /\ need = PrefixLen /\ have = 0

SendingPrefix(k) ==
    /\ k <= Len(lengths) /\ prefix = Stream!PrefixOf(k) /\ prefix_sent \in 0..PrefixLen - 1
    /\ taken = Before(k) + PrefixLen
    /\ Len(got) = Before(k) + prefix_sent
    /\ phase = "prefix" /\ need = PrefixLen /\ have = prefix_sent
    /\ remaining = Size(k)
    /\ Size(k) <= MaxPacket \/ (prefix_sent = 0 /\ ~polling /\ status # "open")

GivingPacket(k) ==
    /\ k <= Len(lengths) /\ prefix = Stream!PrefixOf(k) /\ prefix_sent = PrefixLen
    /\ Size(k) <= MaxPacket /\ remaining \in 0..Size(k)
    /\ taken = Before(k) + PrefixLen + Size(k) - remaining /\ Len(got) = taken
    /\ IF remaining = 0 THEN phase = "prefix" /\ need = PrefixLen /\ have = 0
       ELSE phase = "packet" /\ need = Size(k) /\ have = Size(k) - remaining

StreamAt(k) ==
    /\ \A j \in 1..k - 1 : Size(j) <= MaxPacket
    /\ ReadingPrefix(k) \/ SendingPrefix(k) \/ GivingPacket(k)

StreamInv == StreamType /\ \E k \in 1..Len(lengths) + 1 : StreamAt(k)

\* The numbers that the invariant compares.
LEMMA StreamNumbers ==
    ASSUME StreamType
    PROVE  /\ Len(lengths) \in Nat /\ PrefixLen \in Nat /\ MaxPacket \in Nat
           /\ Len(got) \in Nat /\ taken \in Nat /\ arrived \in Nat /\ taken <= arrived
           /\ PrefixLen # 0
           /\ \A k \in 1..Len(lengths) + 1 : k \in Nat /\ Before(k) \in Nat
           /\ \A k \in Nat : k \in 1..Len(lengths) => Size(k) \in Nat
  <1>1. lengths \in Seq(Nat)
    BY StreamConstants DEF StreamType
  <1>2. Len(lengths) \in Nat
    BY <1>1
  <1>3. PrefixLen \in Nat /\ MaxPacket \in Nat /\ PrefixLen # 0
    BY StreamConstants
  <1>4. Len(got) \in Nat
    BY PlacesLength DEF StreamType
  <1>5. \A k \in 1..Len(lengths) + 1 : k \in Nat
    BY <1>2
  <1>6. QED
    BY <1>1, <1>2, <1>3, <1>4, <1>5, BeforeGrows, Zenon DEF StreamType

\* The lengths are those of a stream, and no byte is after its end.
LEMMA StreamLengths ==
    ASSUME StreamType
    PROVE  /\ lengths \in Seq(Nat) /\ DOMAIN lengths = 1..Len(lengths)
           /\ \A k \in 1..Len(lengths) + 1 : k <= Len(lengths) => k \in 1..Len(lengths)
           /\ arrived <= Before(Len(lengths) + 1)
  <1>1. lengths \in Seq(Nat)
    BY StreamConstants DEF StreamType
  <1>2. Len(lengths) \in Nat /\ DOMAIN lengths = 1..Len(lengths)
    BY <1>1
  <1>3. arrived <= Before(Len(lengths) + 1)
    BY <1>1, BeforeGrows, Zenon DEF StreamType
  <1>4. QED
    BY <1>1, <1>2, <1>3

\* The prefix of a packet is at its beginning.
LEMMA PrefixPlaces ==
    ASSUME StreamType, NEW k \in 1..Len(lengths) + 1
    PROVE  Places(Stream!PrefixOf(k), Before(k)) /\ Len(Stream!PrefixOf(k)) = PrefixLen
  <1>1. PrefixLen \in Nat /\ Before(k) \in Nat
    BY StreamNumbers
  <1>2. Stream!Starts[k] = Before(k) + 1
    BY StreamLengths, BeforeGrows
  <1>3. \A i \in 1..PrefixLen : Stream!Starts[k] + i - 1 = Before(k) + i
    <2> DEFINE b == Before(k)
    <2> HIDE DEF b
    <2>1. b \in Nat /\ Stream!Starts[k] = b + 1
      BY <1>1, <1>2 DEF b
    <2>2. QED
      BY <1>1, <2>1 DEF b
  <1>4. Stream!PrefixOf(k) = [i \in 1..PrefixLen |-> Before(k) + i]
    BY <1>3 DEF Stream!PrefixOf
  <1>5. QED
    BY <1>1, <1>4, PlacesNew

\* It is what the properties say.
LEMMA StreamIsSafe == StreamInv => StreamIsTrue
  <1> SUFFICES ASSUME StreamInv PROVE StreamIsTrue
    OBVIOUS
  <1>1. PICK k \in 1..Len(lengths) + 1 : StreamAt(k)
    BY DEF StreamInv
  <1>2. StreamType
    BY DEF StreamInv
  <1>3. Stream!InOrder
    <2>1. got \in Seq(Nat) /\ \A i \in 1..Len(got) : got[i] = 0 + i
      BY <1>2 DEF StreamType, Places
    <2>2. QED
      BY <2>1 DEF Stream!InOrder
  <1>4. ASSUME NEW j \in 1..Len(lengths), Size(j) > MaxPacket
        PROVE  Len(got) <= Before(j)
    <2>1. /\ j \in Nat /\ k \in Nat /\ j \in 1..Len(lengths) + 1 /\ j <= Len(lengths)
          /\ j \in 1..k - 1 \/ j = k \/ k < j
      BY <1>2, StreamNumbers
    <2>2. /\ Before(j) \in Nat /\ Before(k) \in Nat /\ PrefixLen \in Nat /\ Len(got) \in Nat
          /\ Size(j) \in Nat /\ MaxPacket \in Nat
      BY <1>2, <2>1, StreamNumbers, Zenon
    <2>3. ~(Size(j) <= MaxPacket)
      BY <1>4, <2>2
    <2>4. j = k \/ k < j
      BY <1>1, <2>1, <2>3, Zenon DEF StreamAt
    <2>5. k \in 1..Len(lengths) /\ Size(k) \in Nat
      <3>1. k \in 1..Len(lengths)
        BY <1>2, <2>1, <2>4, StreamNumbers
      <3>2. QED
        BY <1>2, <2>1, <3>1, StreamNumbers, Zenon
    <2>6. k < j => Before(k) + PrefixLen + Size(k) <= Before(j)
      BY <1>2, <2>1, StreamLengths, BeforeGrows, Zenon
    <2>7. CASE ReadingPrefix(k)
      <3>1. Len(got) = Before(k)
        BY <2>7 DEF ReadingPrefix
      <3>2. QED
        BY <2>2, <2>4, <2>5, <2>6, <3>1
    <2>8. CASE SendingPrefix(k)
      <3>1. /\ Len(got) = Before(k) + prefix_sent /\ prefix_sent \in 0..PrefixLen - 1
            /\ Size(k) <= MaxPacket \/ prefix_sent = 0
        BY <2>8 DEF SendingPrefix
      <3>2. j = k => prefix_sent = 0
        BY <2>3, <3>1
      <3>3. QED
        BY <2>2, <2>4, <2>5, <2>6, <3>1, <3>2
    <2>9. CASE GivingPacket(k)
      <3>1. /\ Len(got) = Before(k) + PrefixLen + Size(k) - remaining
            /\ remaining \in 0..Size(k) /\ Size(k) <= MaxPacket
        BY <2>9, Zenon DEF GivingPacket
      <3>2. k < j
        BY <2>3, <2>4, <3>1
      <3>3. QED
        BY <2>2, <2>5, <2>6, <3>1, <3>2
    <2>10. QED
      BY <1>1, <2>7, <2>8, <2>9 DEF StreamAt
  <1>5. Stream!LimitHolds
    <2>1. SUFFICES ASSUME NEW j \in 1..Len(lengths), Size(j) > MaxPacket
                   PROVE  Len(got) < Stream!Starts[j]
      BY <1>2, StreamLengths DEF Stream!LimitHolds, Size
    <2>2. Len(got) <= Before(j)
      BY <1>4, <2>1
    <2>3. j \in 1..Len(lengths) + 1
      BY <1>2, StreamNumbers
    <2>4. Stream!Starts[j] = Before(j) + 1
      BY <1>2, <2>3, StreamLengths, BeforeGrows
    <2>5. Before(j) \in Nat /\ Len(got) \in Nat
      BY <1>2, <2>3, StreamNumbers
    <2>6. QED
      BY <2>2, <2>4, <2>5
  <1>6. QED
    BY <1>3, <1>5 DEF StreamIsTrue

\* What has not changed looks the same.
LEMMA StreamSame ==
    ASSUME lengths' = lengths
    PROVE  /\ Stream!Starts' = Stream!Starts /\ Stream!Total' = Stream!Total
           /\ \A k : /\ Stream!PrefixOf(k)' = Stream!PrefixOf(k)
                     /\ Before(k)' = Before(k) /\ Size(k)' = Size(k)
  <1>1. Stream!Starts' = Stream!Starts
    BY DEF Stream!Starts
  <1>2. QED
    BY <1>1 DEF Stream!Total, Stream!PrefixOf, Before, Size

\* The stream begins with the first prefix.
LEMMA StreamInit == Stream!Init => StreamInv
  <1> SUFFICES ASSUME Stream!Init PROVE StreamInv
    OBVIOUS
  <1>1. lengths \in Seq(Nat) /\ PrefixLen \in Nat \ {0}
    BY StreamConstants DEF Stream!Init
  <1>2. Len(lengths) \in Nat /\ Len(lengths) + 1 \in 1..Len(lengths) + 1
    BY <1>1
  <1>3. Before(1) = 0 /\ Stream!Total \in Nat
    BY <1>1, <1>2, BeforeGrows
  <1>4. Places(<<>>, 0) /\ Len(<<>>) = 0
    BY DEF Places
  <1>5. StreamType
    BY <1>3, <1>4 DEF Stream!Init, StreamType
  <1>6. ReadingPrefix(1)
    BY <1>1, <1>3, <1>4 DEF Stream!Init, ReadingPrefix
  <1>7. StreamAt(1) /\ 1 \in 1..Len(lengths) + 1
    BY <1>2, <1>6 DEF StreamAt
  <1>8. QED
    BY <1>5, <1>7, Zenon DEF StreamInv

\* The packets before the next one are within the limit once this one is.
LEMMA StreamStays ==
    ASSUME NEW k, lengths' = lengths, StreamAt(k),
           ReadingPrefix(k)' \/ SendingPrefix(k)' \/ GivingPacket(k)'
    PROVE  StreamAt(k)'
  <1>1. \A j : Size(j)' = Size(j)
    BY StreamSame
  <1>2. QED
    BY <1>1, Zenon DEF StreamAt

\* The network, a poll that begins and one that ends.
LEMMA StreamWaits ==
    ASSUME StreamInv,
           \/ Stream!Arrive \/ Stream!Close \/ Stream!Poll
           \/ Stream!Pending \/ Stream!UnexpectedEof \/ UNCHANGED Stream!vars
    PROVE  StreamInv'
  <1>1. PICK k \in 1..Len(lengths) + 1 : StreamAt(k)
    BY DEF StreamInv
  <1>2. /\ UNCHANGED <<lengths, taken, prefix, prefix_sent, remaining, phase, need, have, got>>
        /\ output' = output \/ output' = <<>>
        /\ \/ arrived' = arrived
           \/ arrived' \in arrived + 1..Stream!Total
        /\ (polling' => polling) \/ status = "open"
        /\ status' = "open" => status = "open"
    BY DEF Stream!Arrive, Stream!Close, Stream!Poll, Stream!Pending, Stream!UnexpectedEof,
       Stream!Fail, Stream!inner, Stream!reader, Stream!vars
  <1>3. StreamType'
    <2>1. Stream!Total \in Nat
      <3>1. lengths \in Seq(Nat) /\ Len(lengths) \in Nat
        BY StreamLengths, StreamNumbers DEF StreamInv
      <3>2. Len(lengths) + 1 \in 1..Len(lengths) + 1
        BY <3>1
      <3>3. QED
        BY <3>1, <3>2, BeforeGrows
    <2>2. QED
      BY <1>2, <2>1, StreamSame DEF StreamInv, StreamType
  <1>4. /\ Stream!PrefixOf(k)' = Stream!PrefixOf(k)
        /\ Before(k)' = Before(k) /\ Size(k)' = Size(k)
    BY <1>2, StreamSame
  <1>5. ReadingPrefix(k) => ReadingPrefix(k)'
    BY <1>2, <1>4 DEF ReadingPrefix
  <1>6. SendingPrefix(k) => SendingPrefix(k)'
    BY <1>2, <1>4 DEF SendingPrefix
  <1>7. GivingPacket(k) => GivingPacket(k)'
    BY <1>2, <1>4 DEF GivingPacket
  <1>8. StreamAt(k)'
    BY <1>1, <1>2, <1>5, <1>6, <1>7, StreamStays DEF StreamAt
  <1>9. QED
    BY <1>2, <1>3, <1>8 DEF StreamInv

\* A place that there is a byte for is within a packet.
LEMMA WithinPacket ==
    ASSUME StreamType, NEW k \in 1..Len(lengths) + 1, NEW n \in Nat, n > Before(k), n <= arrived
    PROVE  k \in 1..Len(lengths)
  <1> DEFINE m == Len(lengths)
             e == Before(m + 1)
  <1>1. m \in Nat /\ Before(k) \in Nat /\ arrived \in Nat /\ m + 1 \in 1..m + 1
    BY StreamNumbers
  <1>2. arrived <= e
    BY StreamLengths
  <1>3. e \in Nat
    BY <1>1, StreamNumbers, Zenon
  <1>4. k # m + 1
    <2> HIDE DEF m, e
    <2>1. Before(k) # e
      BY <1>1, <1>2, <1>3
    <2>2. QED
      BY <2>1 DEF e
  <1>5. QED
    BY <1>1, <1>4

\* Some bytes of a prefix.
LEMMA StreamReadsPrefix ==
    ASSUME StreamInv, Stream!ReadPrefix
    PROVE  StreamInv'
  <1>1. PICK k \in 1..Len(lengths) + 1 : StreamAt(k)
    BY DEF StreamInv
  <1>2. StreamType
    BY DEF StreamInv
  <1>3. /\ Before(k) \in Nat /\ PrefixLen \in Nat /\ taken \in Nat /\ arrived \in Nat
        /\ taken <= arrived /\ MaxPacket \in Nat
    BY <1>2, StreamNumbers
  <1>4. Places(Stream!PrefixOf(k), Before(k)) /\ Len(Stream!PrefixOf(k)) = PrefixLen
    BY <1>2, PrefixPlaces
  <1>5. ReadingPrefix(k)
    BY <1>1, <1>3, <1>4 DEF StreamAt, SendingPrefix, GivingPacket, Stream!ReadPrefix
  <1>6. /\ Places(prefix, Before(k)) /\ Len(prefix) \in Nat
        /\ taken = Before(k) + Len(prefix) /\ Len(prefix) < PrefixLen
    BY <1>5, PlacesLength DEF ReadingPrefix
  <1>7. PICK n \in 1..Stream!Least({PrefixLen - Len(prefix), Stream!Available}) :
           /\ taken' = taken + n
           /\ prefix' = prefix \o [i \in 1..n |-> taken + i]
           /\ IF Len(prefix') < PrefixLen
              THEN UNCHANGED <<lengths, arrived, prefix_sent, remaining, polling, output,
                               phase, need, have, got, status>>
              ELSE /\ remaining' \in Stream!Lengths(prefix')
                   /\ UNCHANGED <<lengths, arrived, prefix_sent, output, phase, need, have, got>>
                   /\ IF remaining' > MaxPacket THEN polling' = FALSE /\ status' = "too_large"
                      ELSE UNCHANGED <<polling, status>>
    BY DEF Stream!ReadPrefix, Stream!Fail, Stream!inner, Stream!reader
  <1>8. n \in Nat /\ n # 0 /\ n <= PrefixLen - Len(prefix) /\ n <= arrived - taken
    <2> DEFINE x == PrefixLen - Len(prefix)
               y == arrived - taken
    <2>1. x \in Int /\ y \in Int
      BY <1>3, <1>6
    <2> HIDE DEF x, y
    <2>2. Stream!Least({x, y}) = IF x <= y THEN x ELSE y
      BY <2>1, LeastIs
    <2>3. n \in 1..IF x <= y THEN x ELSE y
      BY <1>7, <2>2 DEF x, y, Stream!Available
    <2>4. n \in Nat /\ n # 0 /\ n <= x /\ n <= y
      BY <2>1, <2>3
    <2>5. QED
      BY <2>4 DEF x, y
  <1>9. Places(prefix', Before(k)) /\ Len(prefix') = Len(prefix) + n
    <2> DEFINE b == [i \in 1..n |-> taken + i]
    <2>1. Places(b, taken) /\ Len(b) = n
      BY <1>3, <1>8, PlacesNew
    <2>2. prefix' = prefix \o b
      BY <1>7
    <2> HIDE DEF b
    <2>3. Places(prefix \o b, Before(k)) /\ Len(prefix \o b) = Len(prefix) + Len(b)
      <3>1. /\ Before(k) \in Nat /\ Places(prefix, Before(k)) /\ Places(b, taken)
            /\ taken = Before(k) + Len(prefix)
        BY <1>3, <1>6, <2>1
      <3>2. QED
        BY <3>1, PlacesJoin
    <2>4. QED
      BY <2>1, <2>2, <2>3
  <1>10. UNCHANGED <<lengths, arrived, output, got, prefix_sent, phase, need, have>>
    BY <1>7
  <1>11. taken' = taken + n /\ taken' = Before(k) + Len(prefix')
    BY <1>3, <1>6, <1>7, <1>8, <1>9
  <1>12. StreamType'
    <2>1. taken' \in Nat /\ taken' <= arrived
      BY <1>3, <1>8, <1>11
    <2>2. QED
      BY <1>2, <1>10, <2>1, StreamSame DEF StreamType
  <1>13. /\ Stream!PrefixOf(k)' = Stream!PrefixOf(k)
         /\ Before(k)' = Before(k) /\ Size(k)' = Size(k)
    BY <1>10, StreamSame
  <1>14. CASE Len(prefix') < PrefixLen
    <2>1. ReadingPrefix(k)'
      BY <1>5, <1>9, <1>10, <1>11, <1>13, <1>14 DEF ReadingPrefix
    <2>2. QED
      BY <1>1, <1>10, <1>12, <2>1, StreamStays, Zenon DEF StreamInv
  <1>15. CASE ~(Len(prefix') < PrefixLen)
    <2>1. Len(prefix') = PrefixLen
      BY <1>3, <1>6, <1>8, <1>9, <1>15
    <2>2. k \in 1..Len(lengths)
      <3>1. taken' \in Nat /\ taken' > Before(k) /\ taken' <= arrived
        BY <1>3, <1>6, <1>8, <1>11
      <3>2. QED
        BY <1>2, <3>1, WithinPacket
    <2>3. prefix' = Stream!PrefixOf(k)
      BY <1>3, <1>4, <1>9, <2>1, PlacesSame
    <2>4. remaining' = Size(k)
      <3>1. remaining' \in Stream!Lengths(prefix')
        BY <1>7, <1>15
      <3>2. Stream!Lengths(Stream!PrefixOf(k)) = {Size(k)}
        BY <1>2, <2>2, StreamLengths, PrefixTells
      <3>3. QED
        BY <2>3, <3>1, <3>2
    <2>5. Size(k) <= MaxPacket \/ (polling' = FALSE /\ status' = "too_large")
      <3>1. remaining' > MaxPacket => polling' = FALSE /\ status' = "too_large"
        BY <1>7, <1>15, Zenon
      <3>2. Size(k) \in Nat
        BY <1>2, <2>2, StreamNumbers
      <3>3. QED
        BY <1>3, <2>4, <3>1, <3>2
    <2>6. k <= Len(lengths) /\ taken' = Before(k) + PrefixLen
      BY <1>11, <2>1, <2>2
    <2>7. 0 \in 0..PrefixLen - 1 /\ Before(k) + 0 = Before(k)
      BY <1>3, <1>6
    <2>8. SendingPrefix(k)'
      BY <1>5, <1>10, <1>13, <2>3, <2>4, <2>5, <2>6, <2>7 DEF SendingPrefix, ReadingPrefix
    <2>9. QED
      BY <1>1, <1>10, <1>12, <2>8, StreamStays, Zenon DEF StreamInv
  <1>16. QED
    BY <1>14, <1>15

\* The reader is given what comes next: its buffer joins what it has.
LEMMA StreamGives ==
    ASSUME StreamType, NEW b, Places(b, Len(got)), Stream!Ready(b)
    PROVE  /\ got' = got \o b /\ output' = <<>>
           /\ Places(got', 0) /\ Len(got') = Len(got) + Len(b)
  <1>1. Len(got) \in Nat /\ Len(got) = 0 + Len(got)
    BY StreamNumbers
  <1>2. Places(got \o b, 0) /\ Len(got \o b) = Len(got) + Len(b)
    BY <1>1, PlacesJoin DEF StreamType
  <1>3. got' = got \o b /\ output' = <<>>
    BY DEF Stream!Ready
  <1>4. QED
    BY <1>2, <1>3

\* What fits of the prefix: all of it, since the reader waits for nothing else.
LEMMA StreamSendsPrefix ==
    ASSUME StreamInv, Stream!SendPrefix
    PROVE  StreamInv'
  <1>1. PICK k \in 1..Len(lengths) + 1 : StreamAt(k)
    BY DEF StreamInv
  <1>2. StreamType
    BY DEF StreamInv
  <1>3. /\ Before(k) \in Nat /\ PrefixLen \in Nat /\ taken \in Nat /\ arrived \in Nat
        /\ PrefixLen # 0 /\ MaxPacket \in Nat /\ Len(got) \in Nat
    BY <1>2, StreamNumbers
  <1>4. Places(Stream!PrefixOf(k), Before(k)) /\ Len(Stream!PrefixOf(k)) = PrefixLen
    BY <1>2, PrefixPlaces
  <1>5. polling /\ Len(prefix) = PrefixLen /\ prefix_sent < PrefixLen
    BY DEF Stream!SendPrefix
  <1>6. SendingPrefix(k)
    BY <1>1, <1>3, <1>5 DEF StreamAt, ReadingPrefix, GivingPacket
  <1>7. /\ prefix_sent \in Nat /\ prefix_sent < PrefixLen /\ Len(got) = Before(k) + prefix_sent
        /\ need = PrefixLen /\ have = prefix_sent /\ phase = "prefix"
        /\ prefix = Stream!PrefixOf(k) /\ Size(k) <= MaxPacket /\ remaining = Size(k)
        /\ taken = Before(k) + PrefixLen /\ k <= Len(lengths)
    BY <1>3, <1>5, <1>6 DEF SendingPrefix
  <1>8. k \in 1..Len(lengths)
    BY <1>2, <1>7, StreamLengths
  <1>9. Size(k) \in Nat
    BY <1>2, <1>8, StreamNumbers
  <1> DEFINE sent == SubSeq(prefix, prefix_sent + 1, PrefixLen)
  <1>10. Places(sent, Len(got)) /\ Len(sent) = PrefixLen - prefix_sent
    <2>1. /\ Places(prefix, Before(k)) /\ PrefixLen = Len(prefix)
          /\ prefix_sent <= PrefixLen
      BY <1>3, <1>4, <1>7
    <2>2. QED
      BY <1>3, <1>7, <2>1, PlacesPart
  <1> HIDE DEF sent
  <1>11. /\ prefix_sent' = PrefixLen /\ Stream!Ready(sent)
         /\ UNCHANGED <<lengths, arrived, taken, prefix, remaining, status>>
    <2> DEFINE rest == PrefixLen - prefix_sent
    <2>1. rest \in Int /\ prefix_sent + rest = PrefixLen
      BY <1>3, <1>7
    <2>2. output = <<>> /\ Len(output) = 0 /\ output \o sent = sent
      BY <1>2, <1>10 DEF StreamType, Places
    <2>3. Stream!Room = rest
      BY <1>3, <1>7, <2>2 DEF Stream!Room
    <2> HIDE DEF rest
    <2>4. Stream!Least({rest, rest}) = rest
      BY <2>1, LeastIs
    <2>5. Stream!Least({Stream!Room, PrefixLen - prefix_sent}) = rest
      BY <2>3, <2>4, Zenon DEF rest
    <2>6. /\ prefix_sent' = prefix_sent + rest
          /\ Stream!Ready(output \o SubSeq(prefix, prefix_sent + 1, prefix_sent + rest))
          /\ UNCHANGED <<lengths, arrived, taken, prefix, remaining, status>>
      BY <2>3, <2>5 DEF Stream!SendPrefix, Stream!inner
    <2>7. QED
      BY <2>1, <2>2, <2>6, Zenon DEF sent
  <1>12. /\ got' = got \o sent /\ output' = <<>>
         /\ Places(got', 0) /\ Len(got') = Before(k) + PrefixLen
    <2>1. /\ got' = got \o sent /\ output' = <<>>
          /\ Places(got', 0) /\ Len(got') = Len(got) + Len(sent)
      BY <1>2, <1>10, <1>11, StreamGives, Zenon
    <2>2. QED
      BY <1>3, <1>7, <1>10, <2>1
  <1> DEFINE q == got \o sent
             last == SubSeq(q, Len(q) - PrefixLen + 1, Len(q))
  <1>13. last = Stream!PrefixOf(k)
    <2> HIDE DEF q
    <2>1. Places(q, 0) /\ Len(q) = Before(k) + PrefixLen
      BY <1>12 DEF q
    <2>2. /\ Len(q) - PrefixLen + 1 = Before(k) + 1 /\ Before(k) <= Len(q)
          /\ Before(k) = 0 + Before(k) /\ Len(q) - Before(k) = PrefixLen /\ 0 \in Nat
      BY <1>3, <2>1
    <2>3. /\ Places(SubSeq(q, Before(k) + 1, Len(q)), Before(k))
          /\ Len(SubSeq(q, Before(k) + 1, Len(q))) = Len(q) - Before(k)
      <3>1. /\ 0 \in Nat /\ Before(k) \in Nat /\ Places(q, 0) /\ Before(k) <= Len(q)
            /\ Before(k) = 0 + Before(k)
        BY <1>3, <2>1, <2>2
      <3>2. QED
        BY <3>1, PlacesPart
    <2>4. Places(last, Before(k)) /\ Len(last) = PrefixLen
      BY <2>2, <2>3
    <2> HIDE DEF last
    <2>5. QED
      BY <1>3, <1>4, <2>4, PlacesSame
  <1>14. Stream!Lengths(last) = {Size(k)}
    BY <1>2, <1>8, <1>13, StreamLengths, PrefixTells
  <1>15. /\ have' = 0
         /\ need' = (IF Size(k) = 0 THEN PrefixLen ELSE Size(k))
         /\ phase' = (IF Size(k) = 0 THEN "prefix" ELSE "packet")
    <2>1. have + Len(sent) = need
      BY <1>3, <1>7, <1>10
    <2> HIDE DEF last
    <2>2. /\ have' = 0
          /\ need' \in {IF n = 0 THEN PrefixLen ELSE n : n \in Stream!Lengths(last)}
          /\ phase' = IF 0 \in Stream!Lengths(last) THEN "prefix" ELSE "packet"
      BY <1>7, <1>11, <2>1 DEF Stream!Ready, last
    <2>3. QED
      BY <1>14, <2>2
  <1> HIDE DEF last, q
  <1>16. StreamType'
    BY <1>2, <1>11, <1>12, StreamSame DEF StreamType
  <1>17. /\ Stream!PrefixOf(k)' = Stream!PrefixOf(k)
         /\ Before(k)' = Before(k) /\ Size(k)' = Size(k)
    BY <1>11, StreamSame
  <1>18. Size(k) \in 0..Size(k) /\ Before(k) + PrefixLen + Size(k) - Size(k) = Before(k) + PrefixLen
         /\ Size(k) - Size(k) = 0
    BY <1>3, <1>9
  <1>19. GivingPacket(k)'
    BY <1>7, <1>11, <1>12, <1>15, <1>17, <1>18 DEF GivingPacket
  <1>20. QED
    BY <1>1, <1>11, <1>16, <1>19, StreamStays, Zenon DEF StreamInv

\* The packet is complete: the next prefix.
LEMMA StreamTakesNext ==
    ASSUME StreamInv, Stream!NextPacket
    PROVE  StreamInv'
  <1>1. PICK k \in 1..Len(lengths) + 1 : StreamAt(k)
    BY DEF StreamInv
  <1>2. StreamType
    BY DEF StreamInv
  <1>3. /\ k \in Nat /\ Before(k) \in Nat /\ PrefixLen \in Nat /\ PrefixLen # 0 /\ MaxPacket \in Nat
        /\ Len(lengths) \in Nat
    BY <1>2, StreamNumbers
  <1>4. /\ remaining = 0 /\ Len(prefix) = PrefixLen /\ prefix_sent = PrefixLen
        /\ prefix' = <<>> /\ prefix_sent' = 0
        /\ UNCHANGED <<lengths, arrived, taken, output, phase, need, have, got>>
    BY DEF Stream!NextPacket, Stream!PrefixDone, Stream!inner, Stream!reader
  <1>5. GivingPacket(k)
    BY <1>1, <1>3, <1>4 DEF StreamAt, ReadingPrefix, SendingPrefix
  <1>6. k \in 1..Len(lengths)
    BY <1>2, <1>5, StreamLengths DEF GivingPacket
  <1>7. Size(k) \in Nat /\ Size(k) <= MaxPacket
    BY <1>2, <1>5, <1>6, StreamNumbers DEF GivingPacket
  <1>8. /\ k + 1 \in 1..Len(lengths) + 1
        /\ \A j \in 1..(k + 1) - 1 : j \in 1..k - 1 \/ j = k
    BY <1>3, <1>6
  <1>9. Before(k + 1) = Before(k) + PrefixLen + Size(k)
    BY <1>2, <1>6, StreamLengths, BeforeGrows
  <1>10. taken = Before(k + 1) /\ Len(got) = taken
    <2>1. taken = Before(k) + PrefixLen + Size(k) - 0 /\ Len(got) = taken
      BY <1>4, <1>5 DEF GivingPacket
    <2>2. QED
      BY <1>3, <1>7, <1>9, <2>1
  <1>11. Before(k + 1)' = Before(k + 1) /\ \A j : Size(j)' = Size(j)
    BY <1>4, StreamSame
  <1>12. ReadingPrefix(k + 1)'
    <2>1. Places(<<>>, Before(k + 1)) /\ Len(<<>>) = 0
      BY DEF Places
    <2>2. taken = Before(k + 1) + 0
      <3>1. Before(k + 1) \in Nat
        BY <1>2, <1>8, StreamNumbers
      <3>2. QED
        BY <1>10, <3>1
    <2>3. phase = "prefix" /\ need = PrefixLen /\ have = 0
      BY <1>4, <1>5 DEF GivingPacket
    <2>4. QED
      BY <1>3, <1>4, <1>10, <1>11, <2>1, <2>2, <2>3 DEF ReadingPrefix
  <1>13. \A j \in 1..(k + 1) - 1 : Size(j)' <= MaxPacket
    BY <1>1, <1>7, <1>8, <1>11, Zenon DEF StreamAt
  <1>14. StreamAt(k + 1)'
    BY <1>12, <1>13, Zenon DEF StreamAt
  <1>15. StreamType'
    BY <1>2, <1>4, StreamSame DEF StreamType
  <1>16. k + 1 \in 1..Len(lengths') + 1
    BY <1>4, <1>8
  <1>17. QED
    BY <1>14, <1>15, <1>16, Zenon DEF StreamInv

\* Some bytes of the packet: the reader waits for all of those that remain.
LEMMA StreamReadsPacket ==
    ASSUME StreamInv, Stream!ReadPacket
    PROVE  StreamInv'
  <1>1. PICK k \in 1..Len(lengths) + 1 : StreamAt(k)
    BY DEF StreamInv
  <1>2. StreamType
    BY DEF StreamInv
  <1>3. /\ Before(k) \in Nat /\ PrefixLen \in Nat /\ PrefixLen # 0 /\ MaxPacket \in Nat
        /\ Len(got) \in Nat /\ taken \in Nat /\ arrived \in Nat
    BY <1>2, StreamNumbers
  <1>4. /\ remaining > 0 /\ Len(prefix) = PrefixLen /\ prefix_sent = PrefixLen
        /\ UNCHANGED <<lengths, arrived, prefix, prefix_sent>>
    BY DEF Stream!ReadPacket, Stream!PrefixDone, Stream!inner
  <1>5. GivingPacket(k)
    BY <1>1, <1>3, <1>4 DEF StreamAt, ReadingPrefix, SendingPrefix
  <1>6. /\ k <= Len(lengths) /\ prefix = Stream!PrefixOf(k) /\ Size(k) <= MaxPacket
        /\ remaining \in 0..Size(k)
        /\ taken = Before(k) + PrefixLen + Size(k) - remaining /\ Len(got) = taken
    BY <1>5, Zenon DEF GivingPacket
  <1>7. Size(k) \in Nat /\ remaining \in Nat /\ remaining <= Size(k) /\ remaining # 0
    <2>1. k \in 1..Len(lengths)
      BY <1>2, <1>6, StreamLengths
    <2>2. Size(k) \in Nat
      BY <1>2, <2>1, StreamNumbers
    <2>3. QED
      BY <1>4, <1>6, <2>2
  <1>8. phase = "packet" /\ need = Size(k) /\ have = Size(k) - remaining
    BY <1>5, <1>7 DEF GivingPacket
  <1>9. PICK n \in 1..Stream!Least({Stream!Room, remaining, BufferSize, Stream!Available}) :
           /\ taken' = taken + n /\ remaining' = remaining - n
           /\ Stream!Ready(output \o [i \in 1..n |-> taken + i])
    BY DEF Stream!ReadPacket
  <1>10. n \in Nat /\ n # 0 /\ n <= remaining /\ n <= arrived - taken
    <2> DEFINE x == Stream!Room
               y == arrived - taken
               l == Stream!Least({x, remaining, BufferSize, y})
    <2>1. x \in Int /\ y \in Int /\ BufferSize \in Int /\ remaining \in Int
      <3>1. Len(output) \in Nat
        BY <1>2 DEF StreamType
      <3>2. x \in Int
        BY <1>7, <1>8, <3>1 DEF Stream!Room
      <3>3. QED
        BY <1>3, <1>7, <3>2, StreamConstants
    <2>2. n \in 1..l
      BY <1>9 DEF Stream!Available
    <2> HIDE DEF x, y
    <2>3. l \in {x, remaining, BufferSize, y} /\ l <= remaining /\ l <= y
      BY <2>1, LeastIs
    <2> HIDE DEF l
    <2>4. n \in Nat /\ n # 0 /\ n <= remaining /\ n <= y
      BY <2>1, <2>2, <2>3
    <2>5. QED
      BY <2>4 DEF y
  <1> DEFINE b == [i \in 1..n |-> taken + i]
  <1>11. Places(b, Len(got)) /\ Len(b) = n
    BY <1>3, <1>6, <1>10, PlacesNew
  <1>12. Stream!Ready(b)
    <2>1. output \o b = b
      BY <1>2, <1>11 DEF StreamType, Places
    <2>2. QED
      BY <1>9, <2>1
  <1> HIDE DEF b
  <1>13. /\ output' = <<>> /\ Places(got', 0) /\ Len(got') = Len(got) + n
    BY <1>2, <1>11, <1>12, StreamGives
  <1>14. /\ taken' \in Nat /\ taken' <= arrived /\ Len(got') = taken'
         /\ taken' = Before(k) + PrefixLen + Size(k) - remaining'
         /\ remaining' \in 0..Size(k)
    <2> DEFINE z == Size(k)
               a == Before(k)
               g == Len(got)
    <2>1. /\ z \in Nat /\ a \in Nat /\ g = taken
          /\ taken = a + PrefixLen + z - remaining
      BY <1>3, <1>6, <1>7
    <2> HIDE DEF z, a, g
    <2>2. taken' = taken + n /\ remaining' = remaining - n /\ remaining <= z
      BY <1>7, <1>9 DEF z
    <2>3. /\ taken' \in Nat /\ taken' <= arrived /\ g + n = taken'
          /\ taken' = a + PrefixLen + z - remaining' /\ remaining' \in 0..z
      BY <1>3, <1>7, <1>10, <2>1, <2>2
    <2>4. QED
      BY <1>13, <2>3 DEF z, a, g
  <1>15. IF remaining' = 0 THEN phase' = "prefix" /\ need' = PrefixLen /\ have' = 0
         ELSE phase' = "packet" /\ need' = Size(k) /\ have' = Size(k) - remaining'
    <2>1. (have + Len(b) = need) <=> remaining' = 0
      BY <1>7, <1>8, <1>9, <1>10, <1>11
    <2>2. have + Len(b) = Size(k) - remaining'
      BY <1>7, <1>8, <1>9, <1>10, <1>11
    <2>3. /\ have + Len(b) # need => have' = have + Len(b) /\ UNCHANGED <<phase, need>>
          /\ have + Len(b) = need => have' = 0 /\ phase' = "prefix" /\ need' = PrefixLen
      BY <1>8, <1>12 DEF Stream!Ready
    <2>4. QED
      BY <1>8, <2>1, <2>2, <2>3, Zenon
  <1>16. /\ Stream!PrefixOf(k)' = Stream!PrefixOf(k)
         /\ Before(k)' = Before(k) /\ Size(k)' = Size(k)
    BY <1>4, StreamSame
  <1>17. GivingPacket(k)'
    BY <1>4, <1>6, <1>14, <1>15, <1>16 DEF GivingPacket
  <1>18. StreamType'
    BY <1>2, <1>4, <1>13, <1>14, StreamSame DEF StreamType
  <1>19. QED
    BY <1>1, <1>4, <1>17, <1>18, StreamStays, Zenon DEF StreamInv

\* Every step keeps the reader at its place in the stream.
LEMMA StreamNext == StreamInv /\ [Stream!Next]_(Stream!vars) => StreamInv'
  <1> SUFFICES ASSUME StreamInv, [Stream!Next]_(Stream!vars)
               PROVE  StreamInv'
    OBVIOUS
  <1>1. CASE Stream!ReadPrefix
    BY <1>1, StreamReadsPrefix
  <1>2. CASE Stream!SendPrefix
    BY <1>2, StreamSendsPrefix
  <1>3. CASE Stream!NextPacket
    BY <1>3, StreamTakesNext
  <1>4. CASE Stream!ReadPacket
    BY <1>4, StreamReadsPacket
  <1>5. CASE \/ Stream!Arrive \/ Stream!Close \/ Stream!Poll
             \/ Stream!Pending \/ Stream!UnexpectedEof \/ UNCHANGED Stream!vars
    BY <1>5, StreamWaits
  <1>6. QED
    BY <1>1, <1>2, <1>3, <1>4, <1>5 DEF Stream!Next, Stream!PollRead

\* Whatever the pieces that a stream of packets arrives in, the sizes of the reader's buffer and
\* of the inner one, and wherever the connection ends: the SFTP client reads the stream as it
\* is, without a gap, and nothing of a packet above the limit.
THEOREM StreamsAreTrue == Stream!Spec => []StreamIsTrue
  <1>1. Stream!Init => StreamInv
    BY StreamInit
  <1>2. StreamInv /\ [Stream!Next]_(Stream!vars) => StreamInv'
    BY StreamNext
  <1>3. StreamInv => StreamIsTrue
    BY StreamIsSafe
  <1>4. QED
    BY <1>1, <1>2, <1>3, PTL DEF Stream!Spec

-----------------------------------------------------------------------------
(* The operations on one file or directory of the host: how much of it has *)
(* been transferred at each step.                                          *)

\* All that files and directories consist of.
Items == UNION {{s[i] : i \in DOMAIN s} : s \in Contents \cup Directories \cup {Files!Missing}}

\* Files and directories are sequences of items.
LEMMA ContentsAreItems ==
    ASSUME NEW s \in Contents \cup Directories \cup {Files!Missing}
    PROVE  s \in Seq(Items)
  <1> DEFINE R == {s[i] : i \in DOMAIN s}
  <1>1. s \in Seq(R)
    <2>1. CASE s = Files!Missing
      BY <2>1 DEF Files!Missing
    <2>2. CASE s \in Contents \cup Directories
      BY <2>2, TransportAssumption DEF Files!ConstantsAssumption, Files!Range
    <2>3. QED
      BY <2>1, <2>2
  <1>2. R \subseteq Items
    BY DEF Items
  <1> HIDE DEF R
  <1>3. QED
    BY <1>1, <1>2, SeqMonotonic

\* What is kept of an entry.
Kept(x) == IF x \in {".", ".."} THEN <<>> ELSE <<x>>

IsNames(f, e, n) ==
    /\ DOMAIN f = 0..n
    /\ \A i \in 0..n : f[i] = IF i = 0 THEN <<>> ELSE f[i - 1] \o Kept(e[i])

\* The names of the first entries, one entry at a time.
LEMMA NamesExist ==
    ASSUME NEW e
    PROVE  \A n \in Nat : \E f : IsNames(f, e, n)
  <1> DEFINE S == {n \in Nat : \E f : IsNames(f, e, n)}
  <1>1. 0 \in S
    <2> DEFINE f == [i \in 0..0 |-> <<>>]
    <2>1. IsNames(f, e, 0)
      BY DEF IsNames
    <2>2. QED
      BY <2>1
  <1>2. ASSUME NEW n \in Nat, n \in S
        PROVE  n + 1 \in S
    <2>1. PICK f : IsNames(f, e, n)
      BY <1>2
    <2> DEFINE g == [i \in 0..n + 1 |-> IF i = n + 1 THEN f[n] \o Kept(e[n + 1]) ELSE f[i]]
    <2>2. ASSUME NEW i \in 0..n + 1
          PROVE  g[i] = IF i = 0 THEN <<>> ELSE g[i - 1] \o Kept(e[i])
      <3>1. CASE i = n + 1
        <4>1. i - 1 = n /\ n \in 0..n + 1 /\ n # n + 1 /\ i # 0
          BY <3>1
        <4>2. QED
          BY <3>1, <4>1
      <3>2. CASE i # n + 1
        <4>1. i \in 0..n /\ (i # 0 => i - 1 \in 0..n + 1 /\ i - 1 # n + 1)
          BY <3>2
        <4>2. QED
          BY <2>1, <3>2, <4>1 DEF IsNames
      <3>3. QED
        BY <3>1, <3>2
    <2>3. DOMAIN g = 0..n + 1
      OBVIOUS
    <2> HIDE DEF g
    <2>4. IsNames(g, e, n + 1)
      BY <2>2, <2>3 DEF IsNames
    <2>5. QED
      BY <2>4
  <1> HIDE DEF S
  <1>3. \A n \in Nat : n \in S
    BY <1>1, <1>2, SetInduction
  <1>4. QED
    BY <1>3 DEF S

\* The definition of Names, unfolded.
LEMMA NamesAre ==
    ASSUME NEW e, Len(e) \in Nat
    PROVE  \E f : IsNames(f, e, Len(e)) /\ Files!Names(e) = f[Len(e)]
  <1> DEFINE n == Len(e)
             body(f) == [i \in 0..n |-> IF i = 0 THEN <<>> ELSE f[i - 1] \o Kept(e[i])]
             h == CHOOSE f : f = body(f)
  <1>1. PICK f : IsNames(f, e, n)
    BY NamesExist
  <1>2. \E g : g = body(g)
    <2> DEFINE g == [i \in 0..n |-> f[i]]
    <2>1. \A i \in 0..n : g[i] = f[i] /\ (i # 0 => i - 1 \in 0..n)
      OBVIOUS
    <2>2. \A i \in 0..n : g[i] = IF i = 0 THEN <<>> ELSE g[i - 1] \o Kept(e[i])
      BY <1>1, <2>1 DEF IsNames
    <2>3. g = body(g)
      BY <2>2
    <2>4. QED
      BY <2>3
  <1>3. h = body(h)
    <2> HIDE DEF body
    <2>1. QED
      BY <1>2
  <1>4. Files!Names(e) = h[n]
    BY DEF Files!Names, Kept
  <1> HIDE DEF h
  <1>5. IsNames(h, e, n)
    BY <1>3 DEF IsNames
  <1>6. QED
    BY <1>4, <1>5

\* An entry is an item or left out.
LEMMA KeptItems ==
    ASSUME NEW x \in Items
    PROVE  Kept(x) \in Seq(Items)
  BY DEF Kept

\* Names are items.
LEMMA NamesItems ==
    ASSUME NEW e \in Seq(Items), NEW f, IsNames(f, e, Len(e))
    PROVE  \A i \in 0..Len(e) : f[i] \in Seq(Items)
  <1> DEFINE n == Len(e)
             S == {i \in Nat : i <= n => f[i] \in Seq(Items)}
  <1>1. n \in Nat /\ \A i \in 1..n : e[i] \in Items
    OBVIOUS
  <1> HIDE DEF n
  <1>2. 0 \in S
    <2>1. f[0] = <<>>
      BY <1>1 DEF IsNames, n
    <2>2. <<>> \in Seq(Items)
      OBVIOUS
    <2>3. QED
      BY <2>1, <2>2
  <1>3. ASSUME NEW i \in Nat, i \in S, i + 1 <= n
        PROVE  f[i + 1] \in Seq(Items)
    <2>1. i + 1 \in 0..n /\ i + 1 # 0 /\ (i + 1) - 1 = i /\ i + 1 \in 1..n /\ i <= n
      BY <1>1, <1>3
    <2>2. f[i + 1] = f[i] \o Kept(e[i + 1])
      BY <2>1 DEF IsNames, n
    <2>3. f[i] \in Seq(Items) /\ Kept(e[i + 1]) \in Seq(Items)
      BY <1>1, <1>3, <2>1, KeptItems
    <2>4. QED
      BY <2>2, <2>3, ConcatProperties
  <1>4. \A i \in Nat : i \in S => i + 1 \in S
    BY <1>3
  <1> HIDE DEF S
  <1>5. \A i \in Nat : i \in S
    BY <1>2, <1>4, SetInduction
  <1>6. QED
    BY <1>1, <1>5 DEF S, n

\* The same for the definition.
LEMMA NamesTyped ==
    ASSUME NEW e \in Seq(Items)
    PROVE  Files!Names(e) \in Seq(Items) /\ Len(Files!Names(e)) \in Nat
  <1>1. Len(e) \in Nat
    OBVIOUS
  <1>2. PICK f : IsNames(f, e, Len(e)) /\ Files!Names(e) = f[Len(e)]
    BY <1>1, NamesAre
  <1>3. Len(e) \in 0..Len(e)
    BY <1>1
  <1>4. Files!Names(e) \in Seq(Items)
    BY <1>2, <1>3, NamesItems
  <1>5. QED
    BY <1>4

\* The names of two parts of a directory are those of both, in turn.
LEMMA NamesJoin ==
    ASSUME NEW a \in Seq(Items), NEW b \in Seq(Items)
    PROVE  Files!Names(a \o b) = Files!Names(a) \o Files!Names(b)
  <1> DEFINE m == Len(a)
             n == Len(b)
             c == a \o b
  <1>1. m \in Nat /\ n \in Nat
    OBVIOUS
  <1>2. /\ c \in Seq(Items) /\ Len(c) = m + n
        /\ \A i \in 1..m + n : c[i] = IF i <= m THEN a[i] ELSE b[i - m]
    BY ConcatProperties
  <1>3. PICK f : IsNames(f, c, m + n) /\ Files!Names(c) = f[m + n]
    <2> HIDE DEF c
    <2>1. Len(c) \in Nat
      BY <1>1, <1>2
    <2>2. PICK f : IsNames(f, c, Len(c)) /\ Files!Names(c) = f[Len(c)]
      BY <2>1, NamesAre, Zenon
    <2>3. QED
      BY <1>2, <2>2
  <1>4. PICK g : IsNames(g, a, m) /\ Files!Names(a) = g[m]
    BY <1>1, NamesAre
  <1>5. PICK h : IsNames(h, b, n) /\ Files!Names(b) = h[n]
    BY <1>1, NamesAre
  <1>6. /\ \A i \in 0..m : g[i] \in Seq(Items)
        /\ \A i \in 0..n : h[i] \in Seq(Items)
        /\ \A i \in 1..n : b[i] \in Items
    BY <1>4, <1>5, NamesItems
  <1> HIDE DEF m, n, c
  <1> DEFINE S == {i \in Nat : i <= m => f[i] = g[i]}
  <1>7. 0 \in S
    <2>1. 0 \in 0..m + n /\ 0 \in 0..m
      BY <1>1
    <2>2. f[0] = <<>> /\ g[0] = <<>>
      BY <1>3, <1>4, <2>1 DEF IsNames
    <2>3. QED
      BY <2>2
  <1>8. ASSUME NEW i \in Nat, i \in S, i + 1 <= m
        PROVE  f[i + 1] = g[i + 1]
    <2>1. /\ i + 1 \in 0..m /\ i + 1 \in 0..m + n /\ i + 1 # 0 /\ (i + 1) - 1 = i
          /\ i + 1 \in 1..m + n /\ i <= m
      BY <1>1, <1>8
    <2>2. f[i + 1] = f[i] \o Kept(c[i + 1]) /\ g[i + 1] = g[i] \o Kept(a[i + 1])
      BY <1>3, <1>4, <2>1 DEF IsNames
    <2>3. c[i + 1] = a[i + 1]
      BY <1>2, <1>8, <2>1
    <2>4. QED
      BY <1>8, <2>1, <2>2, <2>3
  <1>9. \A i \in Nat : i \in S => i + 1 \in S
    BY <1>8
  <1> HIDE DEF S
  <1>10. f[m] = g[m]
    <2>1. m \in S
      BY <1>1, <1>7, <1>9, SetInduction
    <2>2. QED
      BY <1>1, <2>1 DEF S
  <1> DEFINE P(i) == f[m + i] = g[m] \o h[i]
             T == {i \in Nat : i <= n => P(i)}
  <1>11. 0 \in T
    <2>1. m + 0 = m /\ m \in 0..m /\ 0 \in 0..n
      BY <1>1
    <2>2. h[0] = <<>> /\ g[m] \in Seq(Items)
      BY <1>5, <1>6, <2>1 DEF IsNames
    <2>3. g[m] \o <<>> = g[m]
      BY <2>2, ConcatEmptySeq, Zenon
    <2>4. P(0)
      BY <1>10, <2>1, <2>2, <2>3
    <2> HIDE DEF P
    <2>5. QED
      BY <2>4
  <1>12. ASSUME NEW i \in Nat, i \in T, i + 1 <= n
         PROVE  P(i + 1)
    <2>1. /\ i + 1 \in 0..n /\ i + 1 # 0 /\ (i + 1) - 1 = i /\ i <= n /\ i \in 0..n /\ m \in 0..m
          /\ i + 1 \in 1..n
          /\ m + (i + 1) \in 0..m + n /\ m + (i + 1) # 0 /\ (m + (i + 1)) - 1 = m + i
          /\ m + (i + 1) \in 1..m + n /\ ~(m + (i + 1) <= m) /\ (m + (i + 1)) - m = i + 1
      BY <1>1, <1>12
    <2>2. /\ f[m + (i + 1)] = f[m + i] \o Kept(c[m + (i + 1)])
          /\ h[i + 1] = h[i] \o Kept(b[i + 1])
      BY <1>3, <1>5, <2>1 DEF IsNames
    <2>3. c[m + (i + 1)] = b[i + 1]
      BY <1>2, <2>1
    <2>4. f[m + i] = g[m] \o h[i]
      BY <1>12, <2>1
    <2>5. (g[m] \o h[i]) \o Kept(b[i + 1]) = g[m] \o (h[i] \o Kept(b[i + 1]))
      <3>1. g[m] \in Seq(Items) /\ h[i] \in Seq(Items) /\ Kept(b[i + 1]) \in Seq(Items)
        BY <1>6, <2>1, KeptItems
      <3>2. \A u, v, w \in Seq(Items) : (u \o v) \o w = u \o (v \o w)
        BY ConcatAssociative
      <3>3. QED
        BY <3>1, <3>2, Zenon
    <2>6. QED
      BY <2>2, <2>3, <2>4, <2>5
  <1> HIDE DEF P
  <1>13. \A i \in Nat : i \in T => i + 1 \in T
    BY <1>12
  <1> HIDE DEF T
  <1>14. f[m + n] = g[m] \o h[n]
    <2>1. n \in T
      BY <1>1, <1>11, <1>13, SetInduction
    <2>2. P(n)
      BY <1>1, <2>1 DEF T
    <2>3. QED
      BY <2>2 DEF P
  <1>15. QED
    BY <1>3, <1>4, <1>5, <1>14 DEF c

-----------------------------------------------------------------------------

\* s is what t begins with.
Begins(s, t) == s \in Seq(Items) /\ Len(s) <= Len(t) /\ s = SubSeq(t, 1, Len(s))

FilesType ==
    /\ node \in Seq(Items) /\ bytes \in Seq(Items) /\ done \in Seq(Items)
    /\ listed \in Nat /\ failed \in BOOLEAN

\* The handle is open during a transfer and until it is closed, and the answer is the result
\* of the transfer unless the host fails the request that closes it.
FilesFlow ==
    /\ handle = "open" <=> step \in {"transfer", "close"}
    /\ step = "open" => handle = "none" /\ done = <<>> /\ listed = 0
    /\ step \in {"open", "transfer", "setstat"} => outcome = "none"
    /\ step \in {"transfer", "close"} => op # "mkdir"
    /\ step = "close" => outcome # "none"
    /\ step = "setstat" => op = "mkdir"
    /\ step # "answered" => reported = "none"
    /\ op # "mkdir" /\ reported = "ok" => outcome = "ok"
    /\ op # "mkdir" /\ step = "answered" /\ ~failed => outcome # "none" /\ reported = outcome

ReadFlow ==
    op = "read" =>
        /\ Begins(done, node) /\ Len(done) <= MaxFileSize
        /\ outcome = "ok" => done = node
        /\ ~failed /\ outcome \notin {"none", "ok"} => Len(node) > MaxFileSize

DirFlow ==
    op = "read_dir" =>
        /\ listed <= Len(node)
        /\ done = Files!Names(SubSeq(node, 1, listed)) /\ Len(done) <= MaxEntries
        /\ outcome = "ok" => done = Files!Names(node)
        /\ ~failed /\ outcome \notin {"none", "ok"} => Len(Files!Names(node)) > MaxEntries

WriteFlow ==
    op = "write_exclusive" =>
        /\ Begins(done, bytes)
        /\ handle # "none" => Begins(node, bytes)
        /\ step = "transfer" => node = done
        /\ outcome = "ok" => node = bytes

FilesInv == FilesType /\ FilesFlow /\ ReadFlow /\ DirFlow /\ WriteFlow

\* What is assumed of the chunks and the limits.
LEMMA FilesConstants ==
    /\ Chunk \in Nat /\ MaxFileSize \in Nat /\ MaxEntries \in Nat
    /\ Chunk # 0
  BY TransportAssumption DEF Files!ConstantsAssumption

\* Nothing is what everything begins with.
LEMMA BeginsEmpty ==
    ASSUME NEW t \in Seq(Items)
    PROVE  Begins(<<>>, t)
  <1>1. Len(t) \in Nat /\ Len(<<>>) = 0 /\ <<>> \in Seq(Items)
    OBVIOUS
  <1>2. SubSeq(t, 1, 0) = <<>>
    BY SubSeqEmpty
  <1>3. QED
    BY <1>1, <1>2 DEF Begins

\* With as much as there is, it is the whole.
LEMMA BeginsWhole ==
    ASSUME NEW s, NEW t \in Seq(Items), Begins(s, t)
    PROVE  /\ Len(s) \in Nat /\ Len(t) \in Nat /\ Len(s) <= Len(t)
           /\ Len(s) >= Len(t) => s = t
           /\ Files!IsPrefix(s, t)
  <1>1. s \in Seq(Items) /\ Len(s) <= Len(t) /\ s = SubSeq(t, 1, Len(s))
    BY DEF Begins
  <1>2. Len(s) \in Nat /\ Len(t) \in Nat
    BY <1>1
  <1>3. SubSeq(t, 1, Len(t)) = t /\ SubSeq(s, 1, Len(s)) = s
    BY <1>1, SubSeqFull
  <1>4. Len(s) >= Len(t) => s = t
    <2>1. Len(s) >= Len(t) => Len(s) = Len(t)
      BY <1>1, <1>2
    <2>2. QED
      BY <1>1, <1>3, <2>1
  <1>5. Files!IsPrefix(s, t)
    BY <1>1, <1>3, Zenon DEF Files!IsPrefix
  <1>6. QED
    BY <1>1, <1>2, <1>4, <1>5

\* What comes next goes on with it.
LEMMA BeginsOn ==
    ASSUME NEW s, NEW t \in Seq(Items), Begins(s, t),
           NEW m \in Nat, Len(s) <= m, m <= Len(t)
    PROVE  /\ Begins(s \o SubSeq(t, Len(s) + 1, m), t)
           /\ Len(s \o SubSeq(t, Len(s) + 1, m)) = m
           /\ SubSeq(t, Len(s) + 1, m) \in Seq(Items)
           /\ Len(SubSeq(t, Len(s) + 1, m)) = m - Len(s)
  <1>1. s \in Seq(Items) /\ s = SubSeq(t, 1, Len(s)) /\ Len(s) \in Nat /\ Len(t) \in Nat
    BY DEF Begins
  <1> DEFINE l == Len(s)
             q == SubSeq(t, l + 1, m)
  <1>2. \A i \in 1..Len(t) : t[i] \in Items
    BY <1>1
  <1>3. SubSeq(t, 1, m) \in Seq(Items) /\ Len(SubSeq(t, 1, m)) = m
    <2>1. \A i \in 1..m : t[i] \in Items
      BY <1>1, <1>2
    <2>2. /\ SubSeq(t, 1, m) \in Seq(Items)
          /\ Len(SubSeq(t, 1, m)) = IF 1 <= m THEN m - 1 + 1 ELSE 0
      BY <2>1, SubSeqProperties
    <2>3. QED
      BY <2>2
  <1>4. q \in Seq(Items) /\ Len(q) = m - l
    <2>1. \A i \in l + 1..m : t[i] \in Items
      BY <1>1, <1>2
    <2>2. /\ q \in Seq(Items)
          /\ Len(q) = IF l + 1 <= m THEN m - (l + 1) + 1 ELSE 0
      BY <1>1, <2>1, SubSeqProperties
    <2>3. l \in Nat /\ l <= m
      BY <1>1
    <2> HIDE DEF l, q
    <2>4. Len(q) = m - l
      BY <2>2, <2>3
    <2>5. QED
      BY <2>2, <2>4
  <1>5. SubSeq(t, 1, l) \o q = SubSeq(t, 1, m)
    <2>1. 1 \in 1..Len(t) + 1 /\ l \in 1 - 1..Len(t) /\ m \in l..Len(t)
      BY <1>1
    <2>2. QED
      BY <2>1, ConcatAdjacentSubSeq
  <1>6. s \o q = SubSeq(t, 1, m)
    BY <1>1, <1>5
  <1>7. Begins(s \o q, t)
    BY <1>3, <1>6 DEF Begins
  <1>8. QED
    BY <1>3, <1>4, <1>6, <1>7

\* A part of the beginning of what comes next comes next.
LEMMA PartOfPart ==
    ASSUME NEW t \in Seq(Items), NEW l \in Nat, NEW m \in Nat, m <= Len(t), l <= m,
           NEW k \in Nat, k <= m - l
    PROVE  SubSeq(SubSeq(t, l + 1, m), 1, k) = SubSeq(t, l + 1, l + k)
  <1> DEFINE q == SubSeq(t, l + 1, m)
  <1>1. Len(t) \in Nat /\ \A i \in 1..Len(t) : t[i] \in Items
    OBVIOUS
  <1>2. k = 0 => SubSeq(q, 1, k) = <<>> /\ SubSeq(t, l + 1, l + k) = <<>>
    BY SubSeqEmpty
  <1>3. ASSUME k # 0
        PROVE  SubSeq(q, 1, k) = SubSeq(t, l + 1, l + k)
    <2>1. /\ l + 1 \in 1..Len(t) /\ m \in 1..Len(t)
          /\ 1 \in 1..m - (l + 1) + 1 /\ k \in 1..m - (l + 1) + 1
          /\ (l + 1) + 1 - 1 = l + 1 /\ (l + 1) + k - 1 = l + k
      BY <1>1, <1>3
    <2>2. SubSeq(q, 1, k) = SubSeq(t, (l + 1) + 1 - 1, (l + 1) + k - 1)
      BY <2>1, SubSeqOfSubSeq
    <2>3. QED
      BY <2>1, <2>2
  <1>4. QED
    BY <1>2, <1>3

\* It is what the properties say.
LEMMA FilesAreSafe == FilesInv => FilesAreTrue
  <1> SUFFICES ASSUME FilesInv PROVE FilesAreTrue
    OBVIOUS
  <1> USE DEF FilesInv
  <1>1. Files!ReadIsWhole
    BY DEF FilesFlow, ReadFlow, DirFlow, Files!ReadIsWhole, Files!Succeeded
  <1>2. Files!HandleClosed
    BY DEF FilesFlow, Files!HandleClosed
  <1>3. Files!WriteIsPrefix
    <2>1. op = "write_exclusive" /\ handle # "none" => Files!IsPrefix(node, bytes)
      BY BeginsWhole DEF FilesType, WriteFlow
    <2>2. QED
      BY <2>1 DEF FilesFlow, WriteFlow, Files!WriteIsPrefix
  <1>4. Files!LimitsAreExact
    <2>1. SUFFICES ASSUME step = "answered", ~failed
                   PROVE  /\ op = "read" => (reported = "ok") = (Len(node) <= MaxFileSize)
                          /\ op = "read_dir" =>
                                (reported = "ok") = (Len(Files!Names(node)) <= MaxEntries)
      BY DEF Files!LimitsAreExact
    <2>2. op # "mkdir" => outcome # "none" /\ reported = outcome
      BY <2>1 DEF FilesFlow
    <2>3. Len(node) \in Nat /\ Len(Files!Names(node)) \in Nat
      BY NamesTyped DEF FilesType
    <2>4. ASSUME op = "read"
          PROVE  (reported = "ok") = (Len(node) <= MaxFileSize)
      <3>1. /\ outcome = "ok" => Len(node) <= MaxFileSize
            /\ outcome # "ok" => Len(node) > MaxFileSize
        BY <2>1, <2>2, <2>4 DEF ReadFlow
      <3>2. QED
        BY <2>2, <2>3, <2>4, <3>1, FilesConstants
    <2>5. ASSUME op = "read_dir"
          PROVE  (reported = "ok") = (Len(Files!Names(node)) <= MaxEntries)
      <3>1. /\ outcome = "ok" => Len(Files!Names(node)) <= MaxEntries
            /\ outcome # "ok" => Len(Files!Names(node)) > MaxEntries
        BY <2>1, <2>2, <2>5 DEF DirFlow
      <3>2. QED
        BY <2>2, <2>3, <2>5, <3>1, FilesConstants
    <2>6. QED
      BY <2>4, <2>5
  <1>5. QED
    BY <1>1, <1>2, <1>3, <1>4 DEF FilesAreTrue

\* Nothing has no names.
LEMMA NamesEmpty == Files!Names(<<>>) = <<>>
  <1>1. Len(<<>>) = 0 /\ 0 \in 0..0
    OBVIOUS
  <1>2. PICK f : IsNames(f, <<>>, 0) /\ Files!Names(<<>>) = f[0]
    BY <1>1, NamesAre
  <1>3. QED
    BY <1>1, <1>2 DEF IsNames

\* Nothing has been transferred yet.
LEMMA FilesInit == Files!Init => FilesInv
  <1> SUFFICES ASSUME Files!Init PROVE FilesInv
    OBVIOUS
  <1>1. node \in Seq(Items) /\ bytes \in Seq(Items)
    <2>1. node = <<>> \/ node \in Contents \cup Directories \cup {Files!Missing}
      BY DEF Files!Init
    <2>2. bytes = <<>> \/ bytes \in Contents \cup Directories \cup {Files!Missing}
      BY DEF Files!Init
    <2>3. <<>> \in Seq(Items)
      OBVIOUS
    <2>4. QED
      BY <2>1, <2>2, <2>3, ContentsAreItems
  <1>2. /\ step = "open" /\ handle = "none" /\ done = <<>> /\ listed = 0
        /\ outcome = "none" /\ reported = "none" /\ failed = FALSE
    BY DEF Files!Init
  <1>3. Begins(done, node) /\ Begins(done, bytes)
    BY <1>1, <1>2, BeginsEmpty
  <1>4. FilesType
    <2>1. <<>> \in Seq(Items)
      OBVIOUS
    <2>2. QED
      BY <1>1, <1>2, <2>1 DEF FilesType
  <1>5. FilesFlow
    BY <1>2 DEF FilesFlow
  <1>6. Len(done) = 0 /\ 0 <= MaxFileSize /\ 0 <= MaxEntries
    BY <1>2, FilesConstants
  <1>7. ReadFlow
    BY <1>2, <1>3, <1>6 DEF ReadFlow
  <1>8. DirFlow
    <2>1. SubSeq(node, 1, 0) = <<>>
      BY SubSeqEmpty
    <2>2. done = Files!Names(SubSeq(node, 1, listed))
      BY <1>2, <2>1, NamesEmpty
    <2>3. listed <= Len(node)
      BY <1>1, <1>2
    <2>4. QED
      BY <1>2, <1>6, <2>2, <2>3 DEF DirFlow
  <1>9. WriteFlow
    BY <1>2, <1>3 DEF WriteFlow
  <1>10. QED
    BY <1>4, <1>5, <1>7, <1>8, <1>9 DEF FilesInv

\* An operation that does not take its turn keeps what it has; a flow is about its own only.
LEMMA FilesStays ==
    ASSUME FilesInv, FilesType', FilesFlow', op' = op,
           \/ op = "read" /\ ReadFlow'
           \/ op = "read_dir" /\ DirFlow'
           \/ op = "write_exclusive" /\ WriteFlow'
           \/ op = "mkdir"
    PROVE  FilesInv'
  BY DEF FilesInv, ReadFlow, DirFlow, WriteFlow

\* A file or a directory is opened, or the request to open it fails.
LEMMA FilesOpens ==
    ASSUME FilesInv, Files!Open
    PROVE  FilesInv'
  <1>1. /\ step = "open" /\ op \in {"read", "read_dir"}
        /\ UNCHANGED <<op, node, mode, bytes, done, listed, outcome>>
        /\ \/ handle' = "open" /\ step' = "transfer" /\ UNCHANGED <<reported, failed>>
           \/ /\ failed' = TRUE /\ step' = "answered" /\ UNCHANGED handle
              /\ reported' \in Files!MapSftpError
    BY DEF Files!Open, Files!Opened, Files!FailsWith, Files!Answer
  <1>2. reported' \in Files!MapSftpError => reported' # "ok" /\ reported' # "none"
    BY DEF Files!MapSftpError
  <1>3. FilesType'
    BY <1>1 DEF FilesInv, FilesType
  <1>4. FilesFlow'
    BY <1>1, <1>2 DEF FilesInv, FilesFlow
  <1>5. ReadFlow' /\ DirFlow'
    BY <1>1 DEF FilesInv, FilesFlow, ReadFlow, DirFlow
  <1>6. QED
    BY <1>1, <1>3, <1>4, <1>5, FilesStays

\* A new file is empty.
LEMMA FilesCreates ==
    ASSUME FilesInv, Files!OpenExclusive
    PROVE  FilesInv'
  <1>1. /\ step = "open" /\ op = "write_exclusive"
        /\ UNCHANGED <<op, bytes, done, listed, outcome>>
        /\ \/ /\ handle' = "open" /\ step' = "transfer" /\ node' = <<>>
              /\ UNCHANGED <<reported, failed>>
           \/ /\ failed' = TRUE /\ step' = "answered" /\ UNCHANGED handle
              /\ node' = <<>> \/ node' = node
              /\ reported' \in Files!MapSftpError
    BY DEF Files!OpenExclusive, Files!Opened, Files!FailsWith, Files!Answer,
           Files!MapExclusiveError
  <1>2. reported' \in Files!MapSftpError => reported' # "ok" /\ reported' # "none"
    BY DEF Files!MapSftpError
  <1>3. handle = "none" /\ done = <<>> /\ listed = 0 /\ outcome = "none"
    BY <1>1 DEF FilesInv, FilesFlow
  <1>4. FilesType'
    <2>1. <<>> \in Seq(Items)
      OBVIOUS
    <2>2. node' \in Seq(Items)
      BY <1>1, <2>1 DEF FilesInv, FilesType
    <2>3. QED
      BY <1>1, <2>2 DEF FilesInv, FilesType
  <1>5. FilesFlow'
    BY <1>1, <1>2, <1>3 DEF FilesInv, FilesFlow
  <1>6. WriteFlow'
    BY <1>1, <1>3 DEF FilesInv, FilesFlow, WriteFlow
  <1>7. QED
    BY <1>1, <1>4, <1>5, <1>6, FilesStays

\* The handle is closed, with the result as the answer unless that fails.
LEMMA FilesCloses ==
    ASSUME FilesInv, Files!Close
    PROVE  FilesInv'
  <1>1. /\ step = "close" /\ handle' = "closed" /\ step' = "answered"
        /\ UNCHANGED <<op, node, mode, bytes, done, listed, outcome>>
        /\ \/ reported' = outcome /\ UNCHANGED failed
           \/ failed' = TRUE /\ reported' \in Files!MapSftpError
    BY DEF Files!Close, Files!FailsWith, Files!Answer
  <1>2. reported' \in Files!MapSftpError => reported' # "ok" /\ reported' # "none"
    BY DEF Files!MapSftpError
  <1>3. op # "mkdir" /\ outcome # "none" /\ handle = "open"
    BY <1>1 DEF FilesInv, FilesFlow
  <1>4. FilesType'
    BY <1>1 DEF FilesInv, FilesType
  <1>5. FilesFlow'
    BY <1>1, <1>2, <1>3 DEF FilesInv, FilesFlow
  <1>6. ReadFlow' /\ DirFlow' /\ WriteFlow'
    BY <1>1, <1>3 DEF FilesInv, FilesType, FilesFlow, ReadFlow, DirFlow, WriteFlow
  <1>7. QED
    BY <1>4, <1>5, <1>6 DEF FilesInv

\* A directory is made, and its permissions are set.
LEMMA FilesMakes ==
    ASSUME FilesInv, Files!Mkdir \/ Files!Setstat
    PROVE  FilesInv'
  <1>1. /\ op = "mkdir" \/ step = "setstat"
        /\ step \in {"open", "setstat"} /\ step' \in {"setstat", "answered"}
        /\ UNCHANGED <<op, bytes, handle, done, listed, outcome>>
        /\ (node' = <<>> /\ step = "open") \/ UNCHANGED node
        /\ failed' = failed \/ failed' = TRUE
        /\ step' = "setstat" => reported' = reported
    BY DEF Files!Mkdir, Files!Setstat, Files!FailsWith, Files!Answer
  <1>2. op = "mkdir" /\ handle # "open"
    BY <1>1 DEF FilesInv, FilesFlow
  <1>3. FilesType'
    <2>1. <<>> \in Seq(Items)
      OBVIOUS
    <2>2. node' \in Seq(Items)
      BY <1>1, <2>1 DEF FilesInv, FilesType
    <2>3. QED
      BY <1>1, <2>2 DEF FilesInv, FilesType
  <1>4. FilesFlow'
    BY <1>1, <1>2 DEF FilesInv, FilesFlow
  <1>5. QED
    BY <1>1, <1>2, <1>3, <1>4, FilesStays

\* A transfer breaks off: what there is of it stays.
LEMMA FilesBreak ==
    ASSUME FilesInv, Files!Breaks, step = "transfer", op # "mkdir",
           UNCHANGED <<op, node, bytes, handle, done, listed, reported>>
    PROVE  FilesInv'
  <1>1. failed' = TRUE /\ step' = "close" /\ outcome' \in Files!MapSftpError
    BY DEF Files!Breaks, Files!Conclude
  <1>2. outcome' # "ok" /\ outcome' # "none"
    BY <1>1 DEF Files!MapSftpError
  <1>3. FilesType'
    BY <1>1 DEF FilesInv, FilesType
  <1>4. FilesFlow'
    BY <1>1, <1>2 DEF FilesInv, FilesFlow
  <1>5. ReadFlow' /\ DirFlow' /\ WriteFlow'
    BY <1>1, <1>2 DEF FilesInv, ReadFlow, DirFlow, WriteFlow
  <1>6. QED
    BY <1>3, <1>4, <1>5 DEF FilesInv

\* A piece of the file at the offset of what is there already.
LEMMA PiecesGoOn ==
    ASSUME FilesType, Begins(done, node), NEW data \in Files!Pieces(Len(done))
    PROVE  /\ data = <<>> => done = node
           /\ Begins(done \o data, node)
           /\ done \o data \in Seq(Items)
           /\ Len(done \o data) = Len(done) + Len(data)
  <1>1. node \in Seq(Items) /\ done \in Seq(Items) /\ Len(node) \in Nat /\ Len(done) \in Nat
        /\ Len(done) <= Len(node)
    BY DEF FilesType, Begins
  <1>2. CASE Len(done) >= Len(node)
    <2>1. data = <<>>
      BY <1>2 DEF Files!Pieces
    <2>2. done = node
      BY <1>1, <1>2, BeginsWhole
    <2>3. done \o data = done /\ Len(data) = 0
      BY <1>1, <2>1, ConcatEmptySeq
    <2>4. QED
      BY <1>1, <2>2, <2>3
  <1>3. CASE ~(Len(done) >= Len(node))
    <2>1. PICK k \in 1..Files!Least(Chunk, Len(node) - Len(done)) :
             data = SubSeq(node, Len(done) + 1, Len(done) + k)
      BY <1>3 DEF Files!Pieces
    <2>2. k \in Nat /\ k # 0 /\ k <= Len(node) - Len(done)
      BY <1>1, <2>1, FilesConstants DEF Files!Least
    <2> DEFINE m == Len(done) + k
    <2>3. m \in Nat /\ Len(done) <= m /\ m <= Len(node) /\ m - Len(done) = k
      BY <1>1, <2>2
    <2> HIDE DEF m
    <2>4. data = SubSeq(node, Len(done) + 1, m)
      BY <2>1 DEF m
    <2>5. /\ Begins(done \o data, node) /\ Len(done \o data) = m
          /\ data \in Seq(Items) /\ Len(data) = m - Len(done)
      BY <1>1, <2>3, <2>4, BeginsOn
    <2>6. data # <<>>
      BY <2>2, <2>3, <2>5
    <2>7. QED
      BY <2>3, <2>5, <2>6 DEF Begins, m
  <1>4. QED
    BY <1>2, <1>3

\* A file is read to its end or until it is above the limit.
LEMMA FilesReads ==
    ASSUME FilesInv, Files!Read
    PROVE  FilesInv'
  <1>1. /\ step = "transfer" /\ op = "read"
        /\ UNCHANGED <<op, node, bytes, handle, listed, reported>>
    BY DEF Files!Read
  <1>2. CASE Files!Breaks /\ UNCHANGED done
    BY <1>1, <1>2, FilesBreak
  <1>3. ASSUME NEW data \in Files!Pieces(Len(done)), Files!Take(data)
        PROVE  FilesInv'
    <2>1. FilesType /\ FilesFlow /\ Begins(done, node) /\ Len(done) <= MaxFileSize /\ outcome = "none"
      BY <1>1 DEF FilesInv, FilesFlow, ReadFlow
    <2>2. /\ data = <<>> => done = node
          /\ Begins(done \o data, node)
          /\ done \o data \in Seq(Items)
          /\ Len(done \o data) = Len(done) + Len(data)
      BY <1>3, <2>1, PiecesGoOn
    <2>3. UNCHANGED failed
      BY <1>3 DEF Files!Take
    <2>4. CASE data = <<>>
      <3>1. step' = "close" /\ outcome' = "ok" /\ done' = done
        BY <1>3, <2>4 DEF Files!Take, Files!Conclude
      <3>2. FilesType'
        BY <1>1, <2>1, <2>3, <3>1 DEF FilesType
      <3>3. FilesFlow'
        BY <1>1, <2>1, <2>3, <3>1 DEF FilesFlow
      <3>4. ReadFlow'
        BY <1>1, <2>1, <2>2, <2>4, <3>1 DEF ReadFlow
      <3>5. QED
        BY <1>1, <3>2, <3>3, <3>4, FilesStays
    <2>5. CASE data # <<>> /\ Len(done) + Len(data) > MaxFileSize
      <3>1. step' = "close" /\ outcome' = "unsafe_state" /\ done' = done
        BY <1>3, <2>5 DEF Files!Take, Files!Conclude
      <3>2. FilesType'
        BY <1>1, <2>1, <2>3, <3>1 DEF FilesType
      <3>3. FilesFlow'
        BY <1>1, <2>1, <2>3, <3>1 DEF FilesFlow
      <3>4. Len(node) > MaxFileSize
        <4>1. /\ Len(done \o data) \in Nat /\ Len(node) \in Nat
              /\ Len(done \o data) <= Len(node)
          BY <2>1, <2>2, BeginsWhole DEF FilesType
        <4>2. QED
          BY <2>2, <2>5, <4>1, FilesConstants
      <3>5. ReadFlow'
        BY <1>1, <2>1, <3>1, <3>4 DEF ReadFlow
      <3>6. QED
        BY <1>1, <3>2, <3>3, <3>5, FilesStays
    <2>6. CASE data # <<>> /\ ~(Len(done) + Len(data) > MaxFileSize)
      <3>1. done' = done \o data /\ UNCHANGED <<step, outcome>>
        BY <1>3, <2>6 DEF Files!Take
      <3>2. FilesType'
        BY <1>1, <2>1, <2>2, <2>3, <3>1 DEF FilesType
      <3>3. FilesFlow'
        BY <1>1, <2>1, <2>3, <3>1 DEF FilesFlow
      <3>4. Len(done') <= MaxFileSize
        <4>1. Len(done \o data) \in Nat
          BY <2>2
        <4>2. QED
          BY <2>2, <2>6, <3>1, <4>1, FilesConstants
      <3>5. ReadFlow'
        BY <1>1, <2>1, <2>2, <3>1, <3>4 DEF ReadFlow
      <3>6. QED
        BY <1>1, <3>2, <3>3, <3>5, FilesStays
    <2>7. QED
      BY <2>4, <2>5, <2>6
  <1>4. QED
    BY <1>2, <1>3 DEF Files!Read

\* A directory is listed to its end or until its names are too many.
LEMMA FilesLists ==
    ASSUME FilesInv, Files!ReadDir
    PROVE  FilesInv'
  <1>1. /\ step = "transfer" /\ op = "read_dir"
        /\ UNCHANGED <<op, node, bytes, handle, reported>>
    BY DEF Files!ReadDir
  <1>2. CASE Files!Breaks /\ UNCHANGED <<done, listed>>
    BY <1>1, <1>2, FilesBreak
  <1>3. /\ FilesType /\ FilesFlow /\ Len(done) <= MaxEntries /\ outcome = "none"
        /\ done = Files!Names(SubSeq(node, 1, listed))
        /\ node \in Seq(Items) /\ Len(node) \in Nat
        /\ listed \in Nat /\ listed <= Len(node)
    BY <1>1 DEF FilesInv, FilesType, FilesFlow, DirFlow
  <1>4. CASE listed = Len(node) /\ Files!Conclude("ok") /\ UNCHANGED <<done, listed, failed>>
    <2>1. step' = "close" /\ outcome' = "ok" /\ UNCHANGED <<done, listed, failed>>
      BY <1>4 DEF Files!Conclude
    <2>2. FilesType' /\ FilesFlow'
      BY <1>1, <1>3, <2>1 DEF FilesType, FilesFlow
    <2>3. SubSeq(node, 1, Len(node)) = node
      BY <1>3, SubSeqFull
    <2>4. done = Files!Names(node)
      BY <1>3, <1>4, <2>3
    <2>5. DirFlow'
      BY <1>1, <1>3, <2>1, <2>4 DEF DirFlow
    <2>6. QED
      BY <1>1, <2>2, <2>5, FilesStays
  <1>5. ASSUME NEW k \in 1..Len(node) - listed, UNCHANGED failed,
               IF Files!TooMany(SubSeq(node, 1, listed + k))
               THEN Files!Conclude("unsafe_state") /\ UNCHANGED <<done, listed>>
               ELSE /\ done' = done \o Files!Names(SubSeq(node, listed + 1, listed + k))
                    /\ listed' = listed + k /\ UNCHANGED <<step, outcome>>
        PROVE  FilesInv'
    <2> DEFINE m == listed + k
               n == Len(node)
               first == SubSeq(node, 1, m)
    <2>1. m \in Nat /\ m <= n /\ n \in Nat /\ m >= 1
      BY <1>3
    <2>2. first \in Seq(Items)
      <3>1. \A i \in 1..m : node[i] \in Items
        BY <1>3, <2>1
      <3>2. QED
        BY <2>1, <3>1, SubSeqProperties
    <2>3. CASE Files!TooMany(first)
      <3>1. step' = "close" /\ outcome' = "unsafe_state" /\ UNCHANGED <<done, listed, failed>>
        BY <1>5, <2>3 DEF Files!Conclude
      <3>2. FilesType' /\ FilesFlow'
        BY <1>1, <1>3, <3>1 DEF FilesType, FilesFlow
      <3>3. Len(Files!Names(node)) > MaxEntries
        <4> DEFINE last == SubSeq(node, m + 1, n)
        <4>1. last \in Seq(Items)
          <5>1. \A i \in m + 1..n : node[i] \in Items
            BY <1>3, <2>1
          <5>2. QED
            BY <2>1, <5>1, SubSeqProperties
        <4>2. first \o last = node
          <5>1. 1 \in 1..n + 1 /\ m \in 1 - 1..n /\ n \in m..n
            BY <2>1
          <5>2. first \o last = SubSeq(node, 1, n)
            BY <1>3, <5>1, ConcatAdjacentSubSeq
          <5>3. QED
            BY <1>3, <5>2, SubSeqFull
        <4> HIDE DEF first, last
        <4>3. Files!Names(node) = Files!Names(first) \o Files!Names(last)
          BY <2>2, <4>1, <4>2, NamesJoin
        <4>4. /\ Files!Names(first) \in Seq(Items) /\ Files!Names(last) \in Seq(Items)
              /\ Len(Files!Names(first)) \in Nat /\ Len(Files!Names(last)) \in Nat
          BY <2>2, <4>1, NamesTyped
        <4>5. Len(Files!Names(node)) = Len(Files!Names(first)) + Len(Files!Names(last))
          BY <4>3, <4>4, ConcatProperties
        <4>6. Len(Files!Names(first)) > MaxEntries
          BY <2>3 DEF Files!TooMany
        <4>7. QED
          BY <4>4, <4>5, <4>6, FilesConstants
      <3>4. DirFlow'
        BY <1>1, <1>3, <3>1, <3>3 DEF DirFlow
      <3>5. QED
        BY <1>1, <3>2, <3>4, FilesStays
    <2>4. CASE ~Files!TooMany(first)
      <3> DEFINE old == SubSeq(node, 1, listed)
                 next == SubSeq(node, listed + 1, m)
      <3>1. done' = done \o Files!Names(next) /\ listed' = m /\ UNCHANGED <<step, outcome, failed>>
        BY <1>5, <2>4
      <3>2. old \in Seq(Items) /\ next \in Seq(Items)
        <4>1. \A i \in 1..listed : node[i] \in Items
          BY <1>3
        <4>2. \A i \in listed + 1..m : node[i] \in Items
          BY <1>3, <2>1
        <4>3. QED
          BY <1>3, <2>1, <4>1, <4>2, SubSeqProperties
      <3>3. old \o next = first
        <4>1. 1 \in 1..n + 1 /\ listed \in 1 - 1..n /\ m \in listed..n
          BY <1>3, <2>1
        <4>2. QED
          BY <1>3, <4>1, ConcatAdjacentSubSeq
      <3> HIDE DEF old, next, first
      <3>4. Files!Names(first) = Files!Names(old) \o Files!Names(next)
        BY <3>2, <3>3, NamesJoin
      <3>5. done' = Files!Names(first)
        BY <1>3, <3>1, <3>4 DEF old
      <3>6. done' \in Seq(Items) /\ Len(done') <= MaxEntries
        <4>1. Files!Names(first) \in Seq(Items) /\ Len(Files!Names(first)) \in Nat
          BY <2>2, NamesTyped
        <4>2. ~(Len(Files!Names(first)) > MaxEntries)
          BY <2>4 DEF Files!TooMany
        <4>3. QED
          BY <3>5, <4>1, <4>2, FilesConstants
      <3>7. listed' \in Nat /\ listed' <= Len(node)
        BY <2>1, <3>1
      <3>8. FilesType'
        BY <1>1, <1>3, <3>1, <3>6, <3>7 DEF FilesType
      <3>9. FilesFlow'
        BY <1>1, <1>3, <3>1 DEF FilesFlow
      <3>10. done' = Files!Names(SubSeq(node, 1, listed'))
        BY <3>1, <3>5 DEF first
      <3>11. DirFlow'
        BY <1>1, <1>3, <3>1, <3>6, <3>10 DEF DirFlow
      <3>12. QED
        BY <1>1, <3>8, <3>9, <3>11, FilesStays
    <2>5. QED
      BY <2>3, <2>4
  <1>6. QED
    BY <1>2, <1>4, <1>5 DEF Files!ReadDir

\* A chunk of the file is written, all of it or, when the request fails, some of it.
LEMMA FilesWrites ==
    ASSUME FilesInv, Files!Write
    PROVE  FilesInv'
  <1>1. /\ step = "transfer" /\ op = "write_exclusive"
        /\ UNCHANGED <<op, bytes, handle, listed, reported>>
    BY DEF Files!Write
  <1>2. /\ FilesType /\ FilesFlow /\ Begins(done, bytes) /\ Begins(node, bytes) /\ node = done
        /\ outcome = "none" /\ handle = "open"
        /\ bytes \in Seq(Items) /\ Len(bytes) \in Nat /\ done \in Seq(Items) /\ Len(done) \in Nat
        /\ Len(done) <= Len(bytes)
    BY <1>1 DEF FilesInv, FilesType, FilesFlow, WriteFlow, Begins
  <1>3. CASE done = bytes /\ Files!Conclude("ok") /\ UNCHANGED <<node, done, failed>>
    <2>1. step' = "close" /\ outcome' = "ok"
      BY <1>3 DEF Files!Conclude
    <2>2. FilesType' /\ FilesFlow'
      BY <1>1, <1>2, <1>3, <2>1 DEF FilesType, FilesFlow
    <2>3. WriteFlow'
      BY <1>1, <1>2, <1>3, <2>1 DEF WriteFlow
    <2>4. QED
      BY <1>1, <2>2, <2>3, FilesStays
  <1> DEFINE l == Len(done)
             m == Files!Least(Len(bytes), l + Chunk)
  <1>4. m \in Nat /\ l <= m /\ m <= Len(bytes)
    BY <1>2, FilesConstants DEF Files!Least
  <1>5. Files!NextChunk = SubSeq(bytes, l + 1, m)
    BY DEF Files!NextChunk
  <1> HIDE DEF m
  <1>6. CASE /\ done # bytes /\ done' = done \o Files!NextChunk /\ node' = done'
             /\ UNCHANGED <<step, outcome, failed>>
    <2>1. Begins(done', bytes)
      BY <1>2, <1>4, <1>5, <1>6, BeginsOn
    <2>2. done' \in Seq(Items)
      BY <2>1 DEF Begins
    <2>3. FilesType' /\ FilesFlow'
      BY <1>1, <1>2, <1>6, <2>2 DEF FilesType, FilesFlow
    <2>4. WriteFlow'
      BY <1>1, <1>2, <1>6, <2>1 DEF WriteFlow
    <2>5. QED
      BY <1>1, <2>3, <2>4, FilesStays
  <1>7. ASSUME NEW k \in 0..Len(Files!NextChunk),
               node' = done \o SubSeq(Files!NextChunk, 1, k), Files!Breaks, UNCHANGED done
        PROVE  FilesInv'
    <2>1. Len(Files!NextChunk) = m - l
      BY <1>2, <1>4, <1>5, BeginsOn
    <2>2. k \in Nat /\ k <= m - l /\ l + k \in Nat /\ l <= l + k /\ l + k <= Len(bytes)
      BY <1>2, <1>4, <2>1
    <2>3. SubSeq(Files!NextChunk, 1, k) = SubSeq(bytes, l + 1, l + k)
      BY <1>2, <1>4, <1>5, <2>2, PartOfPart
    <2>4. Begins(node', bytes)
      <3> DEFINE z == l + k
      <3>1. z \in Nat /\ l <= z /\ z <= Len(bytes)
        BY <2>2
      <3>2. node' = done \o SubSeq(bytes, l + 1, z)
        BY <1>7, <2>3
      <3> HIDE DEF z
      <3>3. QED
        BY <1>2, <3>1, <3>2, BeginsOn
    <2>5. node' \in Seq(Items)
      BY <2>4 DEF Begins
    <2>6. failed' = TRUE /\ step' = "close" /\ outcome' \in Files!MapSftpError
      BY <1>7 DEF Files!Breaks, Files!Conclude
    <2>7. outcome' # "ok" /\ outcome' # "none"
      BY <2>6 DEF Files!MapSftpError
    <2>8. FilesType' /\ FilesFlow'
      BY <1>1, <1>2, <1>7, <2>5, <2>6, <2>7 DEF FilesType, FilesFlow
    <2>9. WriteFlow'
      BY <1>1, <1>2, <1>7, <2>4, <2>6, <2>7 DEF WriteFlow
    <2>10. QED
      BY <1>1, <2>8, <2>9, FilesStays
  <1>8. QED
    BY <1>3, <1>6, <1>7 DEF Files!Write

\* Every step keeps what has been transferred in its place.
LEMMA FilesNext == FilesInv /\ [Files!Next]_(Files!vars) => FilesInv'
  <1> SUFFICES ASSUME FilesInv, [Files!Next]_(Files!vars)
               PROVE  FilesInv'
    OBVIOUS
  <1>1. CASE Files!Open
    BY <1>1, FilesOpens
  <1>2. CASE Files!OpenExclusive
    BY <1>2, FilesCreates
  <1>3. CASE Files!Close
    BY <1>3, FilesCloses
  <1>4. CASE Files!Read
    BY <1>4, FilesReads
  <1>5. CASE Files!ReadDir
    BY <1>5, FilesLists
  <1>6. CASE Files!Write
    BY <1>6, FilesWrites
  <1>7. CASE Files!Mkdir \/ Files!Setstat
    BY <1>7, FilesMakes
  <1>8. CASE UNCHANGED Files!vars
    BY <1>8 DEF Files!vars, FilesInv, FilesType, FilesFlow, ReadFlow, DirFlow, WriteFlow
  <1>9. QED
    BY <1>1, <1>2, <1>3, <1>4, <1>5, <1>6, <1>7, <1>8 DEF Files!Next

\* Whatever the sizes of files, directories, chunks and limits, the pieces that the host answers
\* in and the requests that it fails: what DeployTransaction takes for one step is one, and the
\* handle is closed on every path (NativeFs::read, read_dir and write_exclusive).
THEOREM FilesAreSteps == Files!Spec => []FilesAreTrue
  <1>1. Files!Init => FilesInv
    BY FilesInit
  <1>2. FilesInv /\ [Files!Next]_(Files!vars) => FilesInv'
    BY FilesNext
  <1>3. FilesInv => FilesAreTrue
    BY FilesAreSafe
  <1>4. QED
    BY <1>1, <1>2, <1>3, PTL DEF Files!Spec

=============================================================================
