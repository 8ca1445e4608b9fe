---------------------------- MODULE MCAuthoring ----------------------------
(***************************************************************************)
(* Authoring for TLC: either calls of create and edit on a stored item, as *)
(* in Authoring, or the edits of one call, as in EditScript.  Which of the *)
(* two is chosen at the start.                                             *)
(***************************************************************************)
EXTENDS Authoring, AuthoredText, Sequences, SequencesExt, TLC

CONSTANTS
    t1, t2, t3,              \* texts of Authoring
    MaxBytes, MaxNeedle      \* the longest text, and the longest text named by an edit

VARIABLES part

editVars == <<stage, initial, edits, next, result>>

\* Of the three texts of Authoring two mean the same.
MCMeaning == t1 :> 1 @@ t2 :> 2 @@ t3 :> 2

Symmetry == Permutations(Authors)

\* Texts over one letter and one two-byte character.
TextsUpTo(n) ==
    {t \in {FlattenSeq(s) : s \in UNION {[1..k -> {<<Letter>>, <<Lead, Cont>>}] : k \in 0..n}} :
        Len(t) <= n}

MCInitials == TextsUpTo(MaxBytes)
MCFragments == TextsUpTo(MaxNeedle) \cup {<<Nul>>}
MCAbsent == <<Letter, Nul, Letter>>

-----------------------------------------------------------------------------

AllInit ==
    /\ Init
    /\ \/ part = "calls" /\ stage = "off" /\ initial = <<>> /\ edits = <<>> /\ next = 0 /\ result = <<>>
       \/ part = "edits" /\ single /\ kind = "config" /\ item = Missing /\ Edit!Init

AllNext ==
    \/ part = "calls" /\ Next /\ UNCHANGED <<part, editVars>>
    \/ part = "edits" /\ Edit!Next /\ UNCHANGED <<part, vars>>

AllSpec == AllInit /\ [][AllNext]_<<part, vars, editVars>>

=============================================================================
