---------------------------- MODULE AuthoredText ----------------------------
(***************************************************************************)
(* The text that an edit call of Authoring makes: EditScript with what     *)
(* makes its edits correct.                                                *)
(***************************************************************************)
EXTENDS Integers

CONSTANTS
    Letter, Lead, Cont, Nul, Initials, Fragments, Absent, MaxEdits, Limit

VARIABLES stage, initial, edits, next, result

Edit == INSTANCE EditScript WITH status <- stage

ASSUME EditAssumption ==
    Edit!BytesAssumption /\ Edit!BoundsAssumption /\ Edit!TextsAssumption

-----------------------------------------------------------------------------

\* An edit is carried out exactly if its place is unique, overlaps counted, and then
\* changes the text there alone (apply_edits).
EditIsExact == Edit!EditIsExact

\* What comes of the edits is a text: none cuts a character in two, every text on the
\* way is within ITEM_LIMIT, and edits that succeed together have changed the text
\* (apply_edits slices a str and compares at the end).
EditsAreSound == Edit!StaysText /\ Edit!AlwaysWithinLimit /\ Edit!NetChange

=============================================================================
