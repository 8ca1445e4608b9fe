-------------------------- MODULE DeployRefinement --------------------------
(***************************************************************************)
(* The deployment transaction implements ComponentSlot: the slot is the    *)
(* tree in effect, which the first rename of an update does not change,    *)
(* for the backup counts as long as there is a journal and no active tree. *)
(***************************************************************************)
EXTENDS DeployTransaction

MayReplace(t, v) == Recognized(t) /\ t.ver < v

Slot == INSTANCE ComponentSlot WITH
            Components <- Tree, Nothing <- Absent, Targets <- Versions,
            Silent <- "none",
            slot <- Effective, old <- before, running <- pc # "idle",
            answer <- IF pc = "idle" THEN answer ELSE "none"

\* The transaction with its staging tree, renames, journal, rollback and
\* reconciliation does nothing to the component that one atomic replacement could
\* not do, and its answers say what was done.
ImplementsSlot == Slot!Spec

=============================================================================
