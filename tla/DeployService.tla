---------------------------- MODULE DeployService ----------------------------
(***************************************************************************)
(* smarthome_mcp.deploy inside one server process: the tool handler        *)
(* (mcp.rs) and ComponentDeployer::deploy with its SSH connection          *)
(* (home_assistant/deployment.rs).                                         *)
(*                                                                         *)
(* A deployment runs in a task of its own that holds the only permit.  The *)
(* caller may be cancelled at any time; the task goes on and nobody hears  *)
(* of its result.  What the task does on the host is in DeployTransaction  *)
(* and DeployLock; here it is one step with any of its answers.            *)
(***************************************************************************)
EXTENDS Integers, Sequences, FiniteSets

CONSTANTS
    Callers,     \* invocations of smarthome_mcp.deploy
    Keys,        \* public keys a host may show
    PinnedKey,   \* the key in host_public_key_file
    MaxMoves     \* bound on how often another host answers at the address

ASSUME ConstantsAssumption == PinnedKey \in Keys /\ MaxMoves \in Nat

VARIABLES
    free,      \* permits left, of one
    inFlight,  \* the up-down counter of metrics guards
    recorded,  \* recorded[c]: the outcomes that the task of c was counted as
    pc,        \* pc[c]: idle, waiting, or over
    answer,    \* answer[c]: what the caller is told
    task,      \* task[c]: none, its step, or done
    result,    \* result[c]: the result of the task
    late,      \* late[c]: the step of the task has reached its timeout
    key,       \* the key of the host that answers at the address
    hears,     \* hears[c]: the key of the host that the task of c is connected to
    told,      \* the keys of the hosts that were given the password
    changing,  \* history: tasks that have begun their transaction
    moves

vars == <<free, inFlight, recorded, pc, answer, task, result, late, key, hears, told,
          changing, moves>>

-----------------------------------------------------------------------------

Steps == <<"connect", "authenticate", "channel", "subsystem", "init", "transaction">>
StepOf == [s \in {Steps[i] : i \in 1..6} |-> CHOOSE i \in 1..6 : Steps[i] = s]

Running(c) == task[c] \in DOMAIN StepOf

\* connect: what a step comes to, apart from its timeout.
ConnectErrors(step) ==
    CASE step = "connect" -> {"unavailable"}
      [] step = "authenticate" -> {"unavailable", "authentication_failed"}
      [] step \in {"channel", "subsystem"} -> {"unavailable"}
      [] step = "init" -> {"unavailable", "authentication_failed", "unsafe_state"}
      [] step = "transaction" -> {"unavailable", "authentication_failed", "unsafe_state",
                                  "verification_failed", "rollback_failed", "cleanup_incomplete"}

Errors == (UNION {ConnectErrors(s) : s \in DOMAIN StepOf})
              \cup {"timeout", "host_key_mismatch", "capacity_exhausted", "invalid_arguments"}
Answers == Errors \cup {"none", "success", "cancelled"}

TypeOK ==
    /\ free \in 0..1
    /\ inFlight \in Int
    /\ recorded \in [Callers -> Seq(Answers)]
    /\ pc \in [Callers -> {"idle", "waiting", "over"}]
    /\ answer \in [Callers -> Answers]
    /\ task \in [Callers -> DOMAIN StepOf \cup {"none", "done"}]
    /\ result \in [Callers -> Answers]
    /\ late \in [Callers -> BOOLEAN]
    /\ key \in Keys
    /\ hears \in [Callers -> Keys \cup {"none"}]
    /\ told \subseteq Keys
    /\ changing \subseteq Callers
    /\ moves \in 0..MaxMoves

-----------------------------------------------------------------------------
(* The caller *)

Told(c, a) == pc' = [pc EXCEPT ![c] = "over"] /\ answer' = [answer EXCEPT ![c] = a]

\* Mutant of Deploy: the permit is the caller's and not moved into the task.
DeployBorrowed(c) ==
    /\ pc[c] = "idle"
    /\ \A d \in Callers : pc[d] # "waiting"
    /\ pc' = [pc EXCEPT ![c] = "waiting"] /\ task' = [task EXCEPT ![c] = "connect"]
    /\ inFlight' = inFlight + 1
    /\ free' = 0
    /\ UNCHANGED <<answer, recorded, result, late, key, hears, told, changing, moves>>

\* deploy_smarthome_mcp and deploy: refused, or a task of its own with the permit
\* and a metrics guard.
Deploy(c) ==
    /\ pc[c] = "idle"
    /\ \/ Told(c, "invalid_arguments") /\ UNCHANGED <<task, free, inFlight>>
       \/ free = 0 /\ Told(c, "capacity_exhausted") /\ UNCHANGED <<task, free, inFlight>>
       \/ /\ free = 1 /\ free' = 0
          /\ pc' = [pc EXCEPT ![c] = "waiting"] /\ task' = [task EXCEPT ![c] = "connect"]
          /\ inFlight' = inFlight + 1
          /\ UNCHANGED answer
    /\ UNCHANGED <<recorded, result, late, key, hears, told, changing, moves>>

\* Mutant of Receive: the result of whichever task is done.
ReceiveAny(c) ==
    /\ pc[c] = "waiting"
    /\ \E d \in Callers : task[d] = "done" /\ Told(c, result[d])
    /\ UNCHANGED <<free, inFlight, recorded, task, result, late, key, hears, told, changing, moves>>

\* The handler awaits the task.
Receive(c) ==
    /\ pc[c] = "waiting" /\ task[c] = "done"
    /\ Told(c, result[c])
    /\ UNCHANGED <<free, inFlight, recorded, task, result, late, key, hears, told, changing, moves>>

\* Mutant of Cancel: the permit goes with the caller and with the task.
CancelFrees(c) ==
    /\ pc[c] = "waiting"
    /\ Told(c, "cancelled")
    /\ free' = free + 1
    /\ UNCHANGED <<inFlight, recorded, task, result, late, key, hears, told, changing, moves>>

\* context.cancelled: the handle is dropped, which does not stop the task.
Cancel(c) ==
    /\ pc[c] = "waiting"
    /\ Told(c, "cancelled")
    /\ UNCHANGED <<free, inFlight, recorded, task, result, late, key, hears, told, changing, moves>>

-----------------------------------------------------------------------------
(* The task *)

\* The connection of the task and its timers are dropped.
HangUp(c) == late' = [late EXCEPT ![c] = FALSE] /\ hears' = [hears EXCEPT ![c] = "none"]

\* Mutant of Finish: the guard is dropped without an outcome.
FinishUnrecorded(c, r) ==
    /\ task' = [task EXCEPT ![c] = "done"] /\ result' = [result EXCEPT ![c] = r]
    /\ free' = free + 1 /\ inFlight' = inFlight - 1
    /\ HangUp(c)
    /\ UNCHANGED recorded

\* metrics.finish(deploy_outcome(..)), then the permit is dropped.
Finish(c, r) ==
    /\ task' = [task EXCEPT ![c] = "done"] /\ result' = [result EXCEPT ![c] = r]
    /\ free' = free + 1 /\ inFlight' = inFlight - 1
    /\ recorded' = [recorded EXCEPT ![c] = Append(@, r)]
    /\ HangUp(c)

Proceed(c, step) ==
    /\ task' = [task EXCEPT ![c] = step] /\ late' = [late EXCEPT ![c] = FALSE]
    /\ UNCHANGED <<free, inFlight, recorded, result>>

Fails(c, step) == task[c] = step /\ \E e \in ConnectErrors(step) : Finish(c, e)

\* Mutant of CheckServerKey: any key will do.
CheckServerKeyAny(shown) == TRUE

\* HostKeyVerifier::check_server_key.
CheckServerKey(shown) == shown = PinnedKey

\* client::connect: the host that answers shows its key.
Connect(c) ==
    /\ \/ Fails(c, "connect")
       \/ /\ task[c] = "connect" /\ CheckServerKey(key)
          /\ hears' = [hears EXCEPT ![c] = key]
          /\ Proceed(c, "authenticate")
       \/ /\ task[c] = "connect" /\ ~CheckServerKey(key)
          /\ Finish(c, "host_key_mismatch")
    /\ UNCHANGED <<pc, answer, key, told, changing, moves>>

\* authenticate_password on the connection that was checked.
Authenticate(c) ==
    /\ task[c] = "authenticate"
    /\ told' = told \cup {hears[c]}
    /\ Fails(c, "authenticate") \/ (Proceed(c, "channel") /\ UNCHANGED hears)
    /\ UNCHANGED <<pc, answer, key, changing, moves>>

\* channel_open_session, request_subsystem and sftp.init.
Open(c) ==
    /\ \/ \E s \in {"channel", "subsystem", "init"} : Fails(c, s)
       \/ task[c] = "channel" /\ Proceed(c, "subsystem") /\ UNCHANGED hears
       \/ task[c] = "subsystem" /\ Proceed(c, "init") /\ UNCHANGED hears
       \/ task[c] = "init" /\ Proceed(c, "transaction") /\ UNCHANGED hears
    /\ changing' = IF task'[c] = "transaction" THEN changing \cup {c} ELSE changing
    /\ UNCHANGED <<pc, answer, key, told, moves>>

\* run_transaction, with its deadline and its unlock.
Transaction(c) ==
    /\ \/ Fails(c, "transaction")
       \/ task[c] = "transaction" /\ Finish(c, "success")
    /\ UNCHANGED <<pc, answer, key, told, changing, moves>>

\* A timer of the step runs out: CONNECT_TIMEOUT, or TRANSACTION_TIMEOUT.
TimePasses(c) ==
    /\ Running(c) /\ ~late[c]
    /\ late' = [late EXCEPT ![c] = TRUE]
    /\ UNCHANGED <<free, inFlight, recorded, pc, answer, task, result, key, hears, told,
                   changing, moves>>

\* Mutant of Timeout: the negotiation of the channel is not timed.
TimeoutNotOpen(c) ==
    /\ Running(c) /\ late[c] /\ task[c] \notin {"channel", "subsystem", "init"}
    /\ Finish(c, "timeout")
    /\ UNCHANGED <<pc, answer, key, told, changing, moves>>

Timeout(c) ==
    /\ Running(c) /\ late[c]
    /\ Finish(c, "timeout")
    /\ UNCHANGED <<pc, answer, key, told, changing, moves>>

\* The task dies: the guards are dropped and the join fails.
Die(c) ==
    /\ Running(c)
    /\ task' = [task EXCEPT ![c] = "done"] /\ result' = [result EXCEPT ![c] = "unavailable"]
    /\ free' = free + 1 /\ inFlight' = inFlight - 1
    /\ recorded' = [recorded EXCEPT ![c] = Append(@, "cancelled")]
    /\ HangUp(c)
    /\ UNCHANGED <<pc, answer, key, told, changing, moves>>

\* Another host answers at the address.
Move ==
    /\ moves < MaxMoves /\ moves' = moves + 1
    /\ key' \in Keys \ {key}
    /\ UNCHANGED <<free, inFlight, recorded, pc, answer, task, result, late, hears, told, changing>>

-----------------------------------------------------------------------------

Init ==
    /\ free = 1 /\ inFlight = 0 /\ moves = 0
    /\ recorded = [c \in Callers |-> <<>>]
    /\ pc = [c \in Callers |-> "idle"]
    /\ answer = [c \in Callers |-> "none"]
    /\ task = [c \in Callers |-> "none"]
    /\ result = [c \in Callers |-> "none"]
    /\ late = [c \in Callers |-> FALSE]
    /\ key \in Keys
    /\ hears = [c \in Callers |-> "none"]
    /\ told = {} /\ changing = {}

Next ==
    \/ \E c \in Callers :
          \/ Deploy(c) \/ Receive(c) \/ Cancel(c)
          \/ Connect(c) \/ Authenticate(c) \/ Open(c) \/ Transaction(c)
          \/ TimePasses(c) \/ Timeout(c) \/ Die(c)
    \/ Move

Spec == Init /\ [][Next]_vars

\* Time passes, and a timer that has run out is acted upon.
FairSpec == Spec /\ \A c \in Callers : WF_vars(TimePasses(c)) /\ WF_vars(Timeout(c))

-----------------------------------------------------------------------------
(* Properties *)

\* One deployment at a time in a process, also while the caller of an earlier one has
\* been cancelled and nobody waits for it.
OneDeployment == \A c, d \in Callers : Running(c) /\ Running(d) => c = d

\* Who is refused for capacity has started nothing, and a result is that of the
\* caller's own deployment: success means that it ran its transaction.
AnswerIsOwn ==
    \A c \in Callers :
        /\ answer[c] \in {"capacity_exhausted", "invalid_arguments"} => task[c] = "none"
        /\ answer[c] = "success" => c \in changing /\ result[c] = "success"
        /\ answer[c] = "host_key_mismatch" => c \notin changing

\* The password goes to the pinned host alone, whoever answers at the address and
\* however often that changes.
PasswordToPinnedHost == told \subseteq {PinnedKey}

\* The counter is the number of deployments under way, cancelled callers included,
\* and each is recorded once, when it ends.
DeploymentsCounted ==
    /\ inFlight = Cardinality({c \in Callers : Running(c)})
    /\ \A c \in Callers : Len(recorded[c]) = IF task[c] = "done" THEN 1 ELSE 0

\* A caller is answered with the outcome of its own deployment, and every deployment that
\* began is counted once, also when its caller has gone (DeploymentService::deploy).
DeploymentsAreTrue == TypeOK /\ AnswerIsOwn /\ DeploymentsCounted

\* Every deployment ends, whatever the host does, and its permit becomes free.
PermitReturns == \A c \in Callers : Running(c) ~> task[c] = "done"

=============================================================================
