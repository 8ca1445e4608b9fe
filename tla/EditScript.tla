----------------------------- MODULE EditScript -----------------------------
(***************************************************************************)
(* The ordered local edits of an authoring call: payload and apply_edits   *)
(* of mcp/authoring.rs.                                                    *)
(*                                                                         *)
(* A text is a sequence of bytes, as a Rust str is, and offsets count      *)
(* bytes: a character is one byte or a lead byte with its continuation,    *)
(* and to cut a str within a character is a panic.  The arguments are      *)
(* validated edit by edit, then the edits are applied in order, each to    *)
(* the text the former one left.                                           *)
(***************************************************************************)
EXTENDS Naturals, Integers, FiniteSets, Sequences, FiniteSetsExt

CONSTANTS
    Letter,     \* the byte of a one-byte character
    Lead,       \* the first byte of a two-byte character
    Cont,       \* its second byte
    Nul,        \* the byte 0
    Initials,   \* native texts an item may have
    Fragments,  \* texts that an edit may name
    Absent,     \* a field that is not given
    MaxEdits,   \* most edits in one call
    Limit       \* ITEM_LIMIT, in bytes

BytesAssumption == Cardinality({Letter, Lead, Cont, Nul}) = 4
BoundsAssumption == MaxEdits \in Nat /\ Limit \in Nat

VARIABLES
    status,   \* "giving" the arguments, "applying", or how the call went
    initial,  \* the text read from Home Assistant
    edits,    \* the edits validated so far
    next,     \* how many of them are applied
    result    \* the text they have made

vars == <<status, initial, edits, next, result>>

-----------------------------------------------------------------------------
(* Texts *)

\* Every continuation follows a lead byte and every lead byte has one.
IsText(t) ==
    \A i \in 1..Len(t) :
        /\ (t[i] = Lead => i < Len(t) /\ t[i + 1] = Cont)
        /\ (t[i] = Cont => i > 1 /\ t[i - 1] = Lead)

TextsAssumption ==
    /\ \A t \in Initials \cup Fragments : t \in Seq({Letter, Lead, Cont, Nul}) /\ IsText(t)
    /\ Absent \notin Fragments

\* str::is_char_boundary: an offset at which a str can be cut.
Boundary(t, i) == i = Len(t) \/ t[i + 1] # Cont

Slice(t, i, j) == SubSeq(t, i + 1, j)

\* str::find and str::contains work on the bytes.
Matches(t, needle, from) ==
    {i \in from..(Len(t) - Len(needle)) : Slice(t, i, i + Len(needle)) = needle}

CharLen(t, i) == IF i + 1 < Len(t) /\ t[i + 2] = Cont THEN 2 ELSE 1

-----------------------------------------------------------------------------
(* The arguments *)

\* text(value, field, nonempty)
Text(f, nonempty) ==
    /\ f # Absent
    /\ nonempty => f # <<>>
    /\ Len(f) <= Limit
    /\ \A i \in 1..Len(f) : f[i] # Nul

\* find is old_text or anchor, put is new_text or text; closed refuses a
\* field too few and a field too many.
Edits ==
    [operation : {"replace", "insert", "other"},
     placement : {"start", "end", "before", "after", "other", "absent"},
     find : Fragments \cup {Absent},
     put : Fragments \cup {Absent}]

ValidEdit(e) ==
    /\ Text(e.put, FALSE)
    /\ \/ e.operation = "replace" /\ e.placement = "absent" /\ Text(e.find, TRUE)
       \/ e.operation = "insert" /\ e.placement \in {"start", "end"} /\ e.find = Absent
       \/ e.operation = "insert" /\ e.placement \in {"before", "after"} /\ Text(e.find, TRUE)

-----------------------------------------------------------------------------
(* One edit *)

\* What an edit does, or one of these.
Refuses == [how |-> "refused"]
Panics == [how |-> "panicked"]
At(i) == [how |-> "at", offset |-> i]

\* unique, but looking on after the match (a needle may overlap itself).
UniqueApart(t, needle) ==
    IF Matches(t, needle, 0) = {} THEN Refuses
    ELSE LET index == Min(Matches(t, needle, 0))
         IN IF Matches(t, needle, index + Len(needle)) # {} THEN Refuses ELSE At(index)

\* unique, but looking on at the next byte instead of the next character.
UniqueByByte(t, needle) ==
    IF Matches(t, needle, 0) = {} THEN Refuses
    ELSE LET index == Min(Matches(t, needle, 0))
         IN IF ~Boundary(t, index + 1) THEN Panics
            ELSE IF Matches(t, needle, index + 1) # {} THEN Refuses
            ELSE At(index)

\* unique: the first match, when none starts at a later character.
Unique(t, needle) ==
    IF Matches(t, needle, 0) = {} THEN Refuses
    ELSE LET index == Min(Matches(t, needle, 0))
             after == index + CharLen(t, index)
         IN IF ~Boundary(t, after) THEN Panics
            ELSE IF Matches(t, needle, after) # {} THEN Refuses
            ELSE At(index)

Removed(e) == IF e.operation = "replace" THEN Len(e.find) ELSE 0

\* Where the edit goes.
Place(t, e) ==
    IF e.operation = "insert" /\ e.placement = "start" THEN At(0)
    ELSE IF e.operation = "insert" /\ e.placement = "end" THEN At(Len(t))
    ELSE LET found == Unique(t, e.find)
         IN IF found.how = "at" /\ e.placement = "after"
            THEN At(found.offset + Len(e.find))
            ELSE found

\* The length is left to the end.
RejectedNoChange(t, e, index) == Slice(t, index, index + Removed(e)) = e.put

\* Too long a result, or an edit that changes nothing.
Rejected(t, e, index) ==
    \/ Len(t) - Removed(e) + Len(e.put) > Limit
    \/ Slice(t, index, index + Removed(e)) = e.put

Applied(t, e, index) == Slice(t, 0, index) \o e.put \o Slice(t, index + Removed(e), Len(t))

-----------------------------------------------------------------------------
(* The call *)

Init ==
    /\ status = "giving"
    /\ initial \in Initials
    /\ edits = <<>>
    /\ next = 0
    /\ result = <<>>

\* payload: the next edit of the arguments, or the refusal of them all.
Give(e) ==
    /\ status = "giving"
    /\ Len(edits) < MaxEdits
    /\ \/ ValidEdit(e) /\ edits' = Append(edits, e) /\ UNCHANGED status
       \/ ~ValidEdit(e) /\ status' = "refused" /\ UNCHANGED edits
    /\ UNCHANGED <<initial, next, result>>

\* Between one and 256 edits are given, and the text is read.
Begin ==
    /\ status = "giving"
    /\ Len(edits) \in 1..MaxEdits
    /\ status' = IF Len(initial) > Limit THEN "refused" ELSE "applying"
    /\ result' = initial
    /\ UNCHANGED <<initial, edits, next>>

ApplyNext ==
    /\ status = "applying" /\ next < Len(edits)
    /\ LET e == edits[next + 1]
           place == Place(result, e)
       IN \/ /\ place.how # "at"
             /\ status' = place.how
             /\ UNCHANGED <<next, result>>
          \/ /\ place.how = "at"
             /\ Rejected(result, e, place.offset)
             /\ status' = "refused"
             /\ UNCHANGED <<next, result>>
          \/ /\ place.how = "at"
             /\ ~Rejected(result, e, place.offset)
             /\ result' = Applied(result, e, place.offset)
             /\ next' = next + 1
             /\ UNCHANGED status
    /\ UNCHANGED <<initial, edits>>

\* Every edit has changed something; is that not enough?
ConcludeUncompared ==
    /\ status = "applying" /\ next = Len(edits)
    /\ status' = "applied"
    /\ UNCHANGED <<initial, edits, next, result>>

\* The net result must differ from the text that was read.
Conclude ==
    /\ status = "applying" /\ next = Len(edits)
    /\ status' = IF result = initial THEN "refused" ELSE "applied"
    /\ UNCHANGED <<initial, edits, next, result>>

Next == (\E e \in Edits : Give(e)) \/ Begin \/ ApplyNext \/ Conclude

Spec == Init /\ [][Next]_vars

-----------------------------------------------------------------------------
(* Properties *)

\* Ways to read the text as something before, the place of the edit and
\* something after it.
Readings(t, e) ==
    LET cuts == {c \in (0..Len(t)) \X (0..Len(t)) : c[1] <= c[2]}
        Mid(c) == Slice(t, c[1], c[2])
    IN CASE e.operation = "replace"  -> {c \in cuts : Mid(c) = e.find}
         [] e.placement = "start"    -> {<<0, 0>>}
         [] e.placement = "end"      -> {<<Len(t), Len(t)>>}
         [] e.placement = "before"   -> {<<c[1], c[1]>> : c \in {d \in cuts : Mid(d) = e.find}}
         [] OTHER                    -> {<<c[2], c[2]>> : c \in {d \in cuts : Mid(d) = e.find}}

\* An edit is carried out exactly when the text can be read in one way only,
\* overlapping readings counted, and it changes the text within the limit; it
\* then changes the text there and nowhere else (resource-first.md: "a unique
\* nonempty match including overlaps").
EditIsExact ==
    [][ApplyNext =>
         LET e == edits[next + 1]
             ways == Readings(result, e)
             made == {Slice(result, 0, c[1]) \o e.put \o Slice(result, c[2], Len(result)) : c \in ways}
         IN IF Cardinality(ways) = 1 /\ \A t \in made : Len(t) <= Limit /\ t # result
            THEN made = {result'} /\ next' = next + 1
            ELSE status' = "refused"]_vars

\* No text or needle makes apply_edits cut a str within a character, and what
\* it leaves between two edits is always a str again.
StaysText == status # "panicked" /\ IsText(result)

\* Each text on the way to the result is within the limit, the last one too,
\* whatever the later edits take away again.
AlwaysWithinLimit == status \in {"applying", "applied"} => Len(result) <= Limit

\* The edits of a call that succeeds have changed something together, not
\* only each: a call never writes back the text it has read, and no edit of
\* the call was left out.
NetChange == status = "applied" => result # initial /\ next = Len(edits)

=============================================================================
