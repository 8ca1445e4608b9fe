---------------------------- MODULE ServiceCalls ----------------------------
(***************************************************************************)
(* Operations that make Home Assistant do something: entity controls and   *)
(* automation triggers, execute_control and trigger_automation of          *)
(* home_assistant/client.rs with their handlers in mcp.rs.                 *)
(*                                                                         *)
(* An operation takes one of a few permits without waiting, checks what it *)
(* must against fresh reads (the exposure of the entity; the revision of   *)
(* the automation, then the one entity that stands for it) and posts one   *)
(* service call.  The deadline or a cancellation may end it anywhere; what *)
(* was posted may still be carried out.                                    *)
(***************************************************************************)
EXTENDS Naturals, FiniteSets

CONSTANTS
    Callers,    \* MCP requests, one operation each
    Permits,    \* MAX_CONCURRENT_QUERIES
    Revisions,  \* revisions of the automation's configuration
    MaxChanges  \* bound on the changes made in Home Assistant

LimitsAssumption == Permits \in Nat \ {0} /\ MaxChanges \in Nat

VARIABLES
    exposed,    \* the entity is exposed to Assist
    revision,   \* the stored automation
    matches,    \* how many automation states bear its id
    free,       \* permits left
    op,         \* op[c]: what c does
    expected,   \* expected[c]: the revision c was given
    pc,         \* pc[c]: where it is
    dispatched, \* dispatched[c]: the flag shared with the handler of a trigger
    reply,      \* reply[c]: Home Assistant's answer to its service call
    wire,       \* operations whose service call is sent and not settled
    outcome,    \* outcome[c]: what c is answered
    ran,        \* history: the service call of c was carried out
    valid,      \* history: during c its authority has been good
    changes     \* changes made in Home Assistant so far

world == <<exposed, revision, matches>>
vars == <<world, free, op, expected, pc, dispatched, reply, wire, outcome, ran,
          valid, changes>>

-----------------------------------------------------------------------------

Kinds == {"control", "trigger"}

\* The error codes, all but the one for an unknown outcome.
Refusals == {"capacity_exhausted", "timeout", "cancelled", "not_allowed", "not_found",
             "revision_conflict", "unavailable", "invalid_response", "request_rejected"}
Outcomes == Refusals \cup {"none", "acknowledged", "mutation_outcome_unknown"}

TypeOK ==
    /\ exposed \in BOOLEAN /\ revision \in Revisions /\ matches \in 0..2
    /\ free \in 0..Permits
    /\ op \in [Callers -> Kinds]
    /\ expected \in [Callers -> Revisions]
    /\ pc \in [Callers -> {"idle", "exposure", "config", "states", "post", "waiting", "over"}]
    /\ dispatched \in [Callers -> BOOLEAN]
    /\ reply \in [Callers -> {"none", "done", "rejected", "failed"}]
    /\ wire \subseteq Callers
    /\ outcome \in [Callers -> Outcomes]
    /\ ran \in [Callers -> BOOLEAN]
    /\ valid \in [Callers -> BOOLEAN]
    /\ changes \in 0..MaxChanges

Admitted(c) == pc[c] \in {"exposure", "config", "states", "post", "waiting"}

\* What gives c its authority: the exposure or the revision, as they are.
Authority(c, isExposed, rev) ==
    IF op[c] = "control" THEN isExposed ELSE rev = expected[c]

-----------------------------------------------------------------------------
(* The operation *)

\* Whatever ends an operation drops its permit.
End(c, o) ==
    /\ pc' = [pc EXCEPT ![c] = "over"]
    /\ outcome' = [outcome EXCEPT ![c] = o]
    /\ free' = free + 1
    /\ UNCHANGED <<world, op, expected, dispatched, reply, wire, ran, valid, changes>>

Goto(c, p) ==
    /\ pc' = [pc EXCEPT ![c] = p]
    /\ UNCHANGED <<world, free, op, expected, dispatched, reply, wire, outcome, ran,
                   valid, changes>>

\* admit: a permit or a refusal, never a queue.
Call(c) ==
    /\ pc[c] = "idle"
    /\ IF free = 0
       THEN /\ pc' = [pc EXCEPT ![c] = "over"]
            /\ outcome' = [outcome EXCEPT ![c] = "capacity_exhausted"]
            /\ UNCHANGED <<free, valid>>
       ELSE /\ pc' = [pc EXCEPT ![c] = IF op[c] = "control" THEN "exposure" ELSE "config"]
            /\ free' = free - 1
            /\ valid' = [valid EXCEPT ![c] = Authority(c, exposed, revision)]
            /\ UNCHANGED outcome
    /\ UNCHANGED <<world, op, expected, dispatched, reply, wire, ran, changes>>

\* A read that fails or that makes no sense.
ReadFails(c) ==
    /\ pc[c] \in {"exposure", "config", "states"}
    /\ End(c, "unavailable") \/ End(c, "invalid_response")

\* Mutant of Exposure: the list is read but not looked at.
ExposureIgnored(c) == pc[c] = "exposure" /\ Goto(c, "post")

Exposure(c) ==
    /\ pc[c] = "exposure"
    /\ IF exposed THEN Goto(c, "post") ELSE End(c, "not_allowed")

Config(c) ==
    /\ pc[c] = "config"
    /\ IF revision = expected[c] THEN Goto(c, "states") ELSE End(c, "revision_conflict")

States(c) ==
    /\ pc[c] = "states"
    /\ CASE matches = 0 -> End(c, "not_found")
         [] matches = 1 -> Goto(c, "post")
         [] OTHER       -> End(c, "invalid_response")

\* Mutant of Post: a trigger is marked as dispatched only by its answer.
PostUnmarked(c) ==
    /\ pc[c] = "post"
    /\ pc' = [pc EXCEPT ![c] = "waiting"]
    /\ wire' = wire \cup {c}
    /\ UNCHANGED <<world, free, op, expected, dispatched, reply, outcome, ran, valid,
                   changes>>

Post(c) ==
    /\ pc[c] = "post"
    /\ pc' = [pc EXCEPT ![c] = "waiting"]
    /\ dispatched' = [dispatched EXCEPT ![c] = op[c] = "trigger"]
    /\ wire' = wire \cup {c}
    /\ UNCHANGED <<world, free, op, expected, reply, outcome, ran, valid, changes>>

\* A control passes the error on; after its dispatch a trigger knows only success.
Failed(c, o) == End(c, IF dispatched[c] THEN "mutation_outcome_unknown" ELSE o)

Receive(c) ==
    /\ pc[c] = "waiting" /\ reply[c] # "none"
    /\ CASE reply[c] = "done"     -> End(c, "acknowledged")
         [] reply[c] = "rejected" -> Failed(c, "request_rejected")
         [] OTHER                 -> Failed(c, "unavailable")

\* Mutant of Timeout: the permit of an operation that timed out is not returned.
TimeoutKeepsPermit(c) ==
    /\ Admitted(c)
    /\ pc' = [pc EXCEPT ![c] = "over"]
    /\ outcome' = [outcome EXCEPT
            ![c] = IF dispatched[c] THEN "mutation_outcome_unknown" ELSE "timeout"]
    /\ UNCHANGED <<world, free, op, expected, dispatched, reply, wire, ran, valid,
                   changes>>

Timeout(c) == Admitted(c) /\ Failed(c, "timeout")
Cancel(c) == Admitted(c) /\ Failed(c, "cancelled")

-----------------------------------------------------------------------------
(* Home Assistant *)

Settle(c, r) ==
    /\ wire' = wire \ {c}
    /\ reply' = [reply EXCEPT ![c] = r]
    /\ UNCHANGED <<world, free, op, expected, pc, dispatched, outcome, valid, changes>>

\* Carried out; the answer may still be an error or get lost.
Run(c) ==
    /\ c \in wire
    /\ ran' = [ran EXCEPT ![c] = TRUE]
    /\ Settle(c, "done") \/ Settle(c, "failed")

Refuse(c) ==
    /\ c \in wire
    /\ UNCHANGED ran
    /\ Settle(c, "rejected") \/ Settle(c, "failed")

\* Somebody changes exposure, automation or entities.
Change ==
    /\ changes < MaxChanges /\ changes' = changes + 1
    /\ \/ exposed' = ~exposed /\ UNCHANGED <<revision, matches>>
       \/ revision' \in Revisions \ {revision} /\ UNCHANGED <<exposed, matches>>
       \/ matches' \in 0..2 \ {matches} /\ UNCHANGED <<exposed, revision>>
    /\ valid' = [c \in Callers |-> valid[c] \/ (Admitted(c) /\ Authority(c, exposed', revision'))]
    /\ UNCHANGED <<free, op, expected, pc, dispatched, reply, wire, outcome, ran>>

-----------------------------------------------------------------------------

Init ==
    /\ exposed \in BOOLEAN /\ revision \in Revisions /\ matches \in 0..2
    /\ free = Permits
    /\ op \in [Callers -> Kinds]
    /\ expected \in [Callers -> Revisions]
    /\ pc = [c \in Callers |-> "idle"]
    /\ dispatched = [c \in Callers |-> FALSE]
    /\ reply = [c \in Callers |-> "none"]
    /\ wire = {}
    /\ outcome = [c \in Callers |-> "none"]
    /\ ran = [c \in Callers |-> FALSE]
    /\ valid = [c \in Callers |-> FALSE]
    /\ changes = 0

Next ==
    \/ \E c \in Callers :
          \/ Call(c) \/ ReadFails(c) \/ Exposure(c) \/ Config(c) \/ States(c)
          \/ Post(c) \/ Receive(c) \/ Timeout(c) \/ Cancel(c)
          \/ Run(c) \/ Refuse(c)
    \/ Change

Spec == Init /\ [][Next]_vars

-----------------------------------------------------------------------------
(* Properties *)

\* A trigger that is answered by anything but an acknowledgment or an unknown
\* outcome was not sent and never will be: calling again cannot run the
\* automation twice, whenever the deadline or the cancellation came.
TriggerRetryIsSafe ==
    \A c \in Callers :
        op[c] = "trigger" /\ outcome[c] \in Refusals
            => ~ran[c] /\ c \notin wire

\* Nothing is carried out on an authority that was not good at some moment of the
\* call itself: exposure and revision are never taken from before it.
AuthorityIsFresh == \A c \in Callers : ran[c] => valid[c]

\* A permit is out exactly while its operation is under way, however that ended:
\* cancelled and timed-out operations return theirs, and none is returned twice.
PermitsBalance == free + Cardinality({c \in Callers : Admitted(c)}) = Permits

=============================================================================
