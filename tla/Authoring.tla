----------------------------- MODULE Authoring -----------------------------
(***************************************************************************)
(* create and edit of one stored scene, automation or blueprint:           *)
(* mcp/authoring.rs with the reads and the write it makes of the Home      *)
(* Assistant client.                                                       *)
(*                                                                         *)
(* A call reads the item, compares it with what the caller expects, makes  *)
(* the new text, reads and compares once more and submits one write.  A    *)
(* read is one step with the decision taken on it.  A write is not: once   *)
(* sent it is on the wire, and Home Assistant may carry it out, refuse it  *)
(* or never see it, also after the caller was cancelled or the operation   *)
(* timed out.                                                              *)
(*                                                                         *)
(* A text stands for its revision (the digest of a text) and, for an edit, *)
(* for the outcome of the ordered local edits: they are applied to a text  *)
(* whose digest the caller gave, so they give one text or are invalid.     *)
(***************************************************************************)
EXTENDS Naturals

CONSTANTS
    Authors,     \* MCP callers
    Texts,       \* native texts
    Meaning,     \* the tree a text parses to
    Missing,     \* no item is stored
    Invalid,     \* no valid candidate comes of the arguments
    MaxCalls,    \* bound on the calls of an author
    MaxRacing    \* the same where others write at any time

ASSUME TextsAssumption == Missing \notin Texts /\ Invalid \notin Texts \cup {Missing}
ASSUME MeaningAssumption == DOMAIN Meaning = Texts
ASSUME BoundsAssumption == MaxCalls \in Nat /\ MaxRacing \in 0..MaxCalls

VARIABLES
    single,   \* nobody else writes while a call or its write is under way
    kind,     \* "config" (scene, automation) or "blueprint"
    item,     \* what Home Assistant stores under the key
    pc,       \* pc[a]: where the call of a is
    calls,    \* calls[a]: how many calls a has made, the present one included
    args,     \* args[a]: the arguments of that call
    reply,    \* reply[a]: Home Assistant's answer to its write
    wire,     \* writes sent and not yet settled
    outcome,  \* outcome[c]: what call c was answered
    saves     \* history: how often the write of call c was carried out

vars == <<single, kind, item, pc, calls, args, reply, wire, outcome, saves>>

-----------------------------------------------------------------------------

Calls == Authors \X (1..MaxCalls)
Items == Texts \cup {Missing}

\* expected is the revision an edit starts from; a create starts from nothing.
Arguments == [mode : {"create", "edit"}, expected : Items, text : Texts \cup {Invalid}]
NoArguments == [mode |-> "create", expected |-> Missing, text |-> Invalid]
Writes == [call : Calls, args : Arguments, override : BOOLEAN]

\* Answers by which a call says that it has changed nothing ...
Refusals == {"cancelled", "already_exists", "revision_conflict", "preflight_error",
             "invalid_arguments", "request_rejected"}
\* ... and the others.
Outcomes == Refusals \cup {"pending", "accepted", "mutation_outcome_unknown"}

Replies == {"none", "saved", "rejected", "failed", "lost"}

TypeOK ==
    /\ single \in BOOLEAN
    /\ kind \in {"config", "blueprint"}
    /\ item \in Items
    /\ pc \in [Authors -> {"idle", "preflight", "reread", "write", "sent"}]
    /\ calls \in [Authors -> 0..MaxCalls]
    /\ args \in [Authors -> Arguments]
    /\ reply \in [Authors -> Replies]
    /\ wire \subseteq Writes
    /\ outcome \in [Calls -> Outcomes]
    /\ saves \in [Calls -> 0..2]

This(a) == <<a, calls[a]>>

-----------------------------------------------------------------------------
(* The call *)

\* A call that is over remembers nothing.
Answer(a, o) ==
    /\ pc' = [pc EXCEPT ![a] = "idle"]
    /\ outcome' = [outcome EXCEPT ![This(a)] = o]
    /\ args' = [args EXCEPT ![a] = NoArguments]
    /\ reply' = [reply EXCEPT ![a] = "none"]
    /\ UNCHANGED <<single, kind, item, calls, wire, saves>>

Goto(a, p) ==
    /\ pc' = [pc EXCEPT ![a] = p]
    /\ UNCHANGED <<single, kind, item, calls, args, reply, wire, outcome, saves>>

\* Nothing another writer would disturb.
Quiet == wire = {} /\ \A b \in Authors : pc[b] = "idle"

Call(a) ==
    /\ pc[a] = "idle" /\ calls[a] < (IF single THEN MaxCalls ELSE MaxRacing)
    /\ single => Quiet
    /\ \E g \in Arguments :
          /\ g.mode = "create" <=> g.expected = Missing
          /\ args' = [args EXCEPT ![a] = g]
    /\ pc' = [pc EXCEPT ![a] = "preflight"]
    /\ calls' = [calls EXCEPT ![a] = @ + 1]
    /\ UNCHANGED <<single, kind, item, reply, wire, outcome, saves>>

\* Mutant of AsExpected: an edit takes whatever text it finds.
AsExpectedAny(a) == item = Missing <=> args[a].mode = "create"

\* preflight found what the call starts from: absence, or the text whose digest
\* is the expected revision.
AsExpected(a) == item = args[a].expected

\* What it answers when it did not.
Conflict(a) ==
    IF args[a].mode = "create" THEN "already_exists"
    ELSE IF item = Missing THEN "preflight_error"
    ELSE "revision_conflict"

\* candidate, and the check that an edit changes the meaning of the text.
Changes(a) ==
    /\ args[a].text # Invalid
    /\ args[a].mode = "edit" => Meaning[args[a].text] # Meaning[args[a].expected]

\* A read that fails, for lack of a permit, by timeout or any other error.
ReadFails(a) == Answer(a, "preflight_error")

Preflight(a) ==
    /\ pc[a] = "preflight"
    /\ \/ ReadFails(a)
       \/ ~AsExpected(a) /\ Answer(a, Conflict(a))
       \/ AsExpected(a) /\ ~Changes(a) /\ Answer(a, "invalid_arguments")
       \/ AsExpected(a) /\ Changes(a) /\ Goto(a, "reread")

\* The second read; a configuration now missing is a conflict too.
Reread(a) ==
    /\ pc[a] = "reread"
    /\ \/ ReadFails(a)
       \/ /\ ~AsExpected(a)
          /\ Answer(a, IF item = Missing /\ kind = "config" THEN "revision_conflict"
                       ELSE Conflict(a))
       \/ AsExpected(a) /\ Goto(a, "write")

\* Mutant of Override: a blueprint may always replace another.
OverrideAlways(a) == TRUE

\* A configuration is written by POST, which creates or replaces; a blueprint is
\* saved with allow_override except on creation.
Override(a) == kind = "config" \/ args[a].mode = "edit"

Send(a) ==
    /\ pc[a] = "write"
    /\ pc' = [pc EXCEPT ![a] = "sent"]
    /\ wire' = wire \cup {[call |-> This(a), args |-> args[a], override |-> Override(a)]}
    /\ UNCHANGED <<single, kind, item, calls, args, reply, outcome, saves>>

\* No permit, or no connection: the write ends before it is sent.
NotSent(a) ==
    /\ pc[a] = "write"
    /\ Answer(a, "request_rejected") \/ Answer(a, "mutation_outcome_unknown")

\* Mutant of Receive: any answer but a rejection is taken for an acknowledgment.
ReceiveLenient(a) ==
    /\ pc[a] = "sent" /\ reply[a] # "none"
    /\ Answer(a, IF reply[a] = "rejected" THEN "request_rejected" ELSE "accepted")

\* An acknowledgment may be malformed or too large; everything but a valid
\* acknowledgment or rejection leaves the outcome unknown.
Receive(a) ==
    /\ pc[a] = "sent" /\ reply[a] # "none"
    /\ \/ reply[a] = "saved" /\ Answer(a, "accepted")
       \/ reply[a] = "rejected" /\ Answer(a, "request_rejected")
       \/ Answer(a, "mutation_outcome_unknown")

\* Mutant of GiveUp: cancellation is answered alike before and after sending.
GiveUpAlike(a) ==
    \/ pc[a] \in {"preflight", "reread", "write", "sent"} /\ Answer(a, "cancelled")
    \/ pc[a] = "sent" /\ Answer(a, "mutation_outcome_unknown")

\* The caller cancels; while writing, that or the timeout of the operation.
GiveUp(a) ==
    \/ pc[a] \in {"preflight", "reread"} /\ Answer(a, "cancelled")
    \/ pc[a] \in {"write", "sent"} /\ Answer(a, "mutation_outcome_unknown")

-----------------------------------------------------------------------------
(* Home Assistant, and its other users *)

\* A reply reaches its caller only while that waits for it.
Settle(w, r) ==
    LET a == w.call[1]
    IN  /\ wire' = wire \ {w}
        /\ reply' = IF pc[a] = "sent" /\ w.call = This(a)
                    THEN [reply EXCEPT ![a] = r] ELSE reply
        /\ UNCHANGED <<single, kind, pc, calls, args, outcome>>

\* The write is stored, whether or not a valid acknowledgment follows.
Store(w) ==
    /\ w.override \/ item = Missing
    /\ item' = w.args.text
    /\ saves' = [saves EXCEPT ![w.call] = @ + 1]
    /\ Settle(w, "saved") \/ Settle(w, "failed")

\* Refused before persistence (a 4xx status, invalid_format, already_exists),
\* failed without effect, or lost with its connection.
Discard(w) ==
    /\ UNCHANGED <<item, saves>>
    /\ \E r \in {"rejected", "failed", "lost"} : Settle(w, r)

\* A user of the Home Assistant editor, or another program.
OtherWriter ==
    /\ single => Quiet
    /\ item' \in Items \ {item}
    /\ UNCHANGED <<single, kind, pc, calls, args, reply, wire, outcome, saves>>

-----------------------------------------------------------------------------

Init ==
    /\ single \in BOOLEAN
    /\ kind \in {"config", "blueprint"}
    /\ item \in Items
    /\ pc = [a \in Authors |-> "idle"]
    /\ calls = [a \in Authors |-> 0]
    /\ args = [a \in Authors |-> NoArguments]
    /\ reply = [a \in Authors |-> "none"]
    /\ wire = {}
    /\ outcome = [c \in Calls |-> "pending"]
    /\ saves = [c \in Calls |-> 0]

Author(a) ==
    \/ Call(a) \/ Preflight(a) \/ Reread(a) \/ Send(a) \/ NotSent(a)
    \/ Receive(a) \/ GiveUp(a)

Next ==
    \/ \E a \in Authors : Author(a)
    \/ \E w \in wire : Store(w) \/ Discard(w)
    \/ OtherWriter

Spec == Init /\ [][Next]_vars

-----------------------------------------------------------------------------
(* Properties *)

\* An answer that denies a change is final: the write of that call has not been
\* carried out and cannot be carried out later, whatever was cancelled, refused
\* or timed out, and whoever else was writing.
RefusedNeverSaved ==
    \A c \in Calls : outcome[c] \in Refusals =>
        saves[c] = 0 /\ \A w \in wire : w.call # c

\* A candidate is submitted at most once, and an acknowledged one was stored.
AcceptedSavedOnce ==
    \A c \in Calls : saves[c] <= 1 /\ (outcome[c] = "accepted" => saves[c] = 1)

\* An edit replaces the very text it was made from, and a creation replaces nothing, at
\* the moment Home Assistant stores it, also when that is after the call gave up: under
\* the single-writer rule, and for the creation of a blueprint, which may not override,
\* whoever else writes.
ReplacesExpected ==
    [][\A w \in wire :
          Store(w) /\ (single \/ (kind = "blueprint" /\ w.args.mode = "create"))
              => item = w.args.expected]_vars

=============================================================================
