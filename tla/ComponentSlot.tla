--------------------------- MODULE ComponentSlot ---------------------------
(***************************************************************************)
(* What component deployment promises, without files, requests or journal. *)
(*                                                                         *)
(* Home Assistant has one slot for the component.  A deployment may put    *)
(* the server's package there, in one step and only in place of nothing or *)
(* of an older component; it may take that step back until it answers; and *)
(* its answer agrees with what it did.  It may also end without an answer. *)
(* While no deployment runs the slot does not change.                      *)
(***************************************************************************)
CONSTANTS
    Components,        \* what the slot may hold
    Nothing,           \* an empty slot
    Targets,           \* versions of the server
    Package(_),        \* the component of a server version
    MayReplace(_, _),  \* a component that a server version may replace
    Answers, Silent    \* what a caller may be told; Silent is no answer

VARIABLES
    slot,     \* the component in effect
    old,      \* the component in effect when the last deployment began
    target,   \* the version of the server
    running,  \* a deployment is under way
    answer    \* the last answer

vars == <<slot, old, target, running, answer>>

-----------------------------------------------------------------------------

Init ==
    /\ slot \in Components /\ old = slot
    /\ target \in Targets
    /\ running = FALSE /\ answer = Silent

Begin ==
    /\ ~running /\ running' = TRUE
    /\ old' = slot /\ answer' = Silent
    /\ UNCHANGED <<slot, target>>

\* The new package takes effect, or is taken back.
Switch ==
    /\ running
    /\ slot = old /\ (slot = Nothing \/ MayReplace(slot, target))
    /\ slot' = Package(target)
    /\ UNCHANGED <<old, target, running, answer>>

Revert ==
    /\ running
    /\ slot' = old
    /\ UNCHANGED <<old, target, running, answer>>

\* Which answers the slot justifies.
Justified(a) ==
    /\ a = "install" => slot = Package(target) /\ old = Nothing
    /\ a = "update" => slot = Package(target) /\ MayReplace(old, target)
    /\ a = "noop" => slot = Package(target) /\ old = slot
    /\ a \in {"UnsafeState", "VerificationFailed"} => slot = old

\* With an answer or, when the process dies, without.
End ==
    /\ running /\ running' = FALSE
    /\ answer' \in Answers /\ Justified(answer')
    /\ UNCHANGED <<slot, old, target>>

\* Another deployment holds the host.
Busy ==
    /\ ~running
    /\ answer' = "CapacityExhausted"
    /\ UNCHANGED <<slot, old, target, running>>

\* Another version of the server starts; nothing of the last one is remembered.
Upgrade ==
    /\ ~running
    /\ target' \in Targets
    /\ old' = slot /\ answer' = Silent
    /\ UNCHANGED <<slot, running>>

Next == Begin \/ Switch \/ Revert \/ End \/ Busy \/ Upgrade

Spec == Init /\ [][Next]_vars

=============================================================================
