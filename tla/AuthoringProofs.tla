-------------------------- MODULE AuthoringProofs --------------------------
(***************************************************************************)
(* For any authors, texts and number of calls: Authoring is type correct,  *)
(* a refusal is final, an accepted write was stored exactly once, and what *)
(* a write replaces is what its call started from.                         *)
(*                                                                         *)
(* A write outlives its call, so none of this follows from the step that   *)
(* answers.  The invariant follows a write from its call through the wire: *)
(* it is the only one of its call, it has not been stored while it is on   *)
(* the wire, and a reply that was received says what became of it.  Alone  *)
(* says what the single-writer rule adds: one call or write at a time,     *)
(* with the item unchanged since the second read.                          *)
(***************************************************************************)
EXTENDS Authoring, AuthoredText, FiniteSetTheorems, SequenceTheorems,
        WellFoundedInduction, TLAPS

\* The write of call c was not carried out and is not on the wire.
Unsent(c) == saves[c] = 0 /\ \A w \in wire : w.call # c

\* The present call of a, from its arguments to the reply to its write.
CallOK(a) ==
    /\ pc[a] # "idle" => calls[a] >= 1 /\ outcome[This(a)] = "pending"
    /\ pc[a] \in {"preflight", "reread", "write"} => Unsent(This(a))
    /\ pc[a] \in {"reread", "write"} => args[a].text # Invalid
    /\ args[a].mode = "create" <=> args[a].expected = Missing

\* The reply it may have received.
ReplyOK(a) ==
    /\ pc[a] # "sent" => reply[a] = "none"
    /\ reply[a] # "none" => \A w \in wire : w.call # This(a)
    /\ reply[a] = "saved" => saves[This(a)] = 1
    /\ reply[a] = "rejected" => saves[This(a)] = 0

\* Calls that were not made yet have sent nothing.
FutureOK ==
    \A c \in Calls : c[2] > calls[c[1]] => Unsent(c) /\ outcome[c] = "pending"

\* A write on the wire is the only one of its call and was not stored yet.
WireOK ==
    \A w \in wire :
        /\ saves[w.call] = 0
        /\ w.args.text # Invalid
        /\ w.args.mode = "create" <=> w.args.expected = Missing
        /\ w.override <=> (kind = "config" \/ w.args.mode = "edit")
        /\ \A v \in wire : v.call = w.call => v = w

\* What was answered is true of the write.
AnswersOK ==
    \A c \in Calls :
        /\ saves[c] <= 1
        /\ outcome[c] \in Refusals => Unsent(c)
        /\ outcome[c] = "accepted" => saves[c] = 1

\* Under the single-writer rule there is one call or write at a time, and the item
\* is what the write was made from.
Alone ==
    single =>
        /\ \A a, b \in Authors : pc[a] # "idle" /\ pc[b] # "idle" => a = b
        /\ \A w \in wire, b \in Authors : pc[b] \in {"idle", "sent"}
        /\ \A v, w \in wire : v = w
        /\ \A w \in wire : item = w.args.expected
        /\ \A a \in Authors : pc[a] = "write" => item = args[a].expected

Traced == (\A a \in Authors : CallOK(a) /\ ReplyOK(a)) /\ FutureOK /\ WireOK /\ AnswersOK

Inv == TypeOK /\ Traced /\ Alone

-----------------------------------------------------------------------------
(* Calls *)

\* The present call of an author is a call, unlike that of any other author.
LEMMA ThisCall ==
    ASSUME TypeOK, NEW a \in Authors
    PROVE  /\ calls[a] >= 1 => This(a) \in Calls
           /\ This(a)[1] = a /\ This(a)[2] = calls[a]
           /\ \A b \in Authors : This(a) = This(b) => a = b
  BY BoundsAssumption DEF TypeOK, This, Calls

\* A call is determined by its author and its number.
LEMMA CallParts ==
    ASSUME NEW c \in Calls
    PROVE  c[1] \in Authors /\ c[2] \in 1..MaxCalls /\ c = <<c[1], c[2]>>
  BY DEF Calls

\* A request without arguments is well formed.
LEMMA NoArgumentsType == NoArguments \in Arguments
  BY DEF NoArguments, Arguments, Items

\* Initially no call was made.
LEMMA InitInv == Init => Inv
  <1> SUFFICES ASSUME Init PROVE Inv
    OBVIOUS
  <1>1. TypeOK
    BY NoArgumentsType, BoundsAssumption DEF Init, TypeOK, Items, Outcomes, Replies
  <1>2. Traced
    BY TextsAssumption DEF Init, Traced, CallOK, ReplyOK, FutureOK, WireOK, AnswersOK,
        Unsent, Refusals, NoArguments
  <1>3. Alone
    BY DEF Init, Alone
  <1>4. QED
    BY <1>1, <1>2, <1>3 DEF Inv

\* A call may be answered by whatever is true of its write.
LEMMA AnswerStep ==
    ASSUME Inv, NEW a \in Authors, pc[a] # "idle", NEW o \in Outcomes, Answer(a, o),
           o \in Refusals => Unsent(This(a)),
           o = "accepted" => saves[This(a)] = 1
    PROVE  Inv'
  <1> USE DEF Inv, Answer
  <1>1. This(a) \in Calls /\ calls[a] >= 1
    BY ThisCall DEF Traced, CallOK
  <1>2. TypeOK'
    BY <1>1, NoArgumentsType DEF TypeOK, Replies
  <1>3. ASSUME NEW b \in Authors
        PROVE  (CallOK(b) /\ ReplyOK(b))'
    <2>1. CASE b = a
      BY <2>1 DEF Traced, CallOK, ReplyOK, TypeOK, NoArguments
    <2>2. CASE b # a
      <3>1. This(b)' = This(b) /\ (pc[b] # "idle" => This(b) \in Calls)
        BY ThisCall DEF This, Traced, CallOK
      <3>2. This(b) # This(a)
        BY <2>2, ThisCall
      <3>3. /\ pc'[b] = pc[b] /\ reply'[b] = reply[b] /\ args'[b] = args[b]
            /\ This(b) \in Calls => outcome'[This(b)] = outcome[This(b)]
        BY <2>2, <3>2 DEF TypeOK
      <3>4. CallOK(b) /\ ReplyOK(b)
        BY DEF Traced
      <3>5. QED
        BY <3>1, <3>3, <3>4 DEF CallOK, ReplyOK, Unsent
    <2>3. QED
      BY <2>1, <2>2
  <1>4. FutureOK'
    <2>1. ASSUME NEW c \in Calls, c[2] > calls[c[1]]
          PROVE  c # This(a)
      BY <2>1, ThisCall DEF TypeOK
    <2>2. QED
      BY <2>1 DEF Traced, FutureOK, Unsent, TypeOK
  <1>5. WireOK' /\ AnswersOK'
    BY DEF Traced, WireOK, AnswersOK, Unsent, TypeOK
  <1>6. Alone'
    BY DEF Alone, TypeOK
  <1>7. QED
    BY <1>2, <1>3, <1>4, <1>5, <1>6 DEF Traced

\* An answer before the write was sent denies the change truthfully.
LEMMA RefuseStep ==
    ASSUME Inv, NEW a \in Authors, pc[a] \in {"preflight", "reread", "write"},
           NEW o \in Refusals, Answer(a, o)
    PROVE  Inv'
  <1>1. Unsent(This(a))
    BY DEF Inv, Traced, CallOK
  <1>2. o \in Outcomes /\ o # "accepted"
    BY DEF Outcomes, Refusals
  <1>3. QED
    BY <1>1, <1>2, AnswerStep

\* That the outcome is unknown can always be said.
LEMMA UnknownStep ==
    ASSUME Inv, NEW a \in Authors, pc[a] # "idle", Answer(a, "mutation_outcome_unknown")
    PROVE  Inv'
  <1>1. /\ "mutation_outcome_unknown" \in Outcomes
        /\ "mutation_outcome_unknown" \notin Refusals
    BY DEF Outcomes, Refusals
  <1>2. QED
    BY <1>1, AnswerStep

\* A call that has read what it expects goes on.
LEMMA GotoStep ==
    ASSUME Inv, NEW a \in Authors, NEW p \in {"reread", "write"}, Goto(a, p),
           pc[a] \in {"preflight", "reread"}, args[a].text # Invalid, AsExpected(a)
    PROVE  Inv'
  <1> USE DEF Inv, Goto
  <1>1. TypeOK'
    BY DEF TypeOK
  <1>2. ASSUME NEW b \in Authors
        PROVE  (CallOK(b) /\ ReplyOK(b))'
    <2>1. CallOK(b) /\ ReplyOK(b) /\ CallOK(a) /\ ReplyOK(a) /\ This(b)' = This(b)
      BY DEF Traced, This
    <2>2. QED
      BY <2>1 DEF CallOK, ReplyOK, Unsent, TypeOK
  <1>3. (FutureOK /\ WireOK /\ AnswersOK)'
    BY DEF Traced, FutureOK, WireOK, AnswersOK, Unsent
  <1>4. Alone'
    BY DEF Alone, AsExpected, TypeOK
  <1>5. QED
    BY <1>1, <1>2, <1>3, <1>4 DEF Traced

-----------------------------------------------------------------------------
(* The actions of an author *)

\* A new call has sent nothing; under the single-writer rule nothing else is under way.
LEMMA CallStep ==
    ASSUME Inv, NEW a \in Authors, Call(a)
    PROVE  Inv'
  <1> USE DEF Inv, Call
  <1> DEFINE c == <<a, calls[a] + 1>>
  <1>1. calls[a] + 1 \in 1..MaxCalls /\ calls'[a] = calls[a] + 1
    BY BoundsAssumption DEF TypeOK
  <1>2. c \in Calls /\ This(a)' = c /\ c[1] = a /\ c[2] = calls[a] + 1
    BY <1>1 DEF Calls, This
  <1>3. Unsent(c) /\ outcome[c] = "pending"
    BY <1>2, <1>1 DEF Traced, FutureOK, TypeOK
  <1>4. PICK g \in Arguments :
            /\ g.mode = "create" <=> g.expected = Missing
            /\ args' = [args EXCEPT ![a] = g]
    OBVIOUS
  <1>5. TypeOK'
    BY <1>1, <1>4 DEF TypeOK
  <1>6. ASSUME NEW b \in Authors
        PROVE  (CallOK(b) /\ ReplyOK(b))'
    <2>1. CASE b = a
      <3>1. CallOK(a)'
        BY <1>1, <1>2, <1>3, <1>4 DEF CallOK, Unsent, TypeOK
      <3>2. ReplyOK(a)'
        BY DEF Traced, ReplyOK, TypeOK
      <3>3. QED
        BY <2>1, <3>1, <3>2
    <2>2. CASE b # a
      <3>1. /\ pc'[b] = pc[b] /\ args'[b] = args[b] /\ calls'[b] = calls[b]
            /\ This(b)' = This(b)
        BY <1>4, <2>2 DEF TypeOK, This
      <3>2. CallOK(b) /\ ReplyOK(b)
        BY DEF Traced
      <3>3. QED
        BY <3>1, <3>2 DEF CallOK, ReplyOK, Unsent
    <2>3. QED
      BY <2>1, <2>2
  <1>7. FutureOK'
    <2>1. ASSUME NEW d \in Calls, d[2] > calls'[d[1]]
          PROVE  d[2] > calls[d[1]]
      BY <2>1, <1>1, CallParts DEF TypeOK
    <2>2. QED
      BY <2>1 DEF Traced, FutureOK, Unsent
  <1>8. (WireOK /\ AnswersOK)'
    BY DEF Traced, WireOK, AnswersOK, Unsent
  <1>9. Alone'
    BY DEF Alone, Quiet, TypeOK
  <1>10. QED
    BY <1>5, <1>6, <1>7, <1>8, <1>9 DEF Traced

\* Both reads end the call or let it go on.
LEMMA ReadSteps ==
    ASSUME Inv, NEW a \in Authors, Preflight(a) \/ Reread(a)
    PROVE  Inv'
  <1>1. pc[a] \in {"preflight", "reread"} /\ Conflict(a) \in Refusals
    BY DEF Preflight, Reread, Conflict, Refusals
  <1>2. CASE Preflight(a)
    <2>1. \/ \E o \in Refusals : Answer(a, o)
          \/ AsExpected(a) /\ Changes(a) /\ Goto(a, "reread")
      BY <1>1, <1>2 DEF Preflight, ReadFails, Refusals
    <2>2. QED
      BY <1>1, <2>1, RefuseStep, GotoStep DEF Changes
  <1>3. CASE Reread(a)
    <2>1. \/ \E o \in Refusals : Answer(a, o)
          \/ AsExpected(a) /\ Goto(a, "write")
      BY <1>1, <1>3 DEF Reread, ReadFails, Refusals
    <2>2. pc[a] = "reread" /\ args[a].text # Invalid
      BY <1>3 DEF Reread, Inv, Traced, CallOK
    <2>3. QED
      BY <1>1, <2>1, <2>2, RefuseStep, GotoStep
  <1>4. QED
    BY <1>2, <1>3

\* The write that is sent is the first of its call, made from what was read.
LEMMA SendStep ==
    ASSUME Inv, NEW a \in Authors, Send(a)
    PROVE  Inv'
  <1> USE DEF Inv, Send
  <1> DEFINE new == [call |-> This(a), args |-> args[a], override |-> Override(a)]
  <1>1. This(a) \in Calls /\ Unsent(This(a)) /\ CallOK(a) /\ ReplyOK(a)
    BY ThisCall DEF Traced, CallOK
  <1>2. new \in Writes /\ new.call = This(a) /\ new.args = args[a]
        /\ new.override = Override(a)
    BY <1>1 DEF Writes, TypeOK, Override
  <1>3. wire' = wire \cup {new}
    OBVIOUS
  <1> HIDE DEF new
  <1>4. TypeOK'
    BY <1>2, <1>3 DEF TypeOK
  <1>5. ASSUME NEW b \in Authors
        PROVE  (CallOK(b) /\ ReplyOK(b))'
    <2>1. CallOK(b) /\ ReplyOK(b) /\ This(b)' = This(b)
      BY DEF Traced, This
    <2>2. CASE b = a
      BY <1>1, <2>1, <2>2 DEF CallOK, ReplyOK, TypeOK
    <2>3. CASE b # a
      <3>1. This(b) # This(a)
        BY <2>3, ThisCall
      <3>2. QED
        BY <1>2, <1>3, <2>1, <2>3, <3>1 DEF CallOK, ReplyOK, Unsent, TypeOK
    <2>4. QED
      BY <2>2, <2>3
  <1>6. FutureOK'
    <2>1. ASSUME NEW c \in Calls, c[2] > calls[c[1]]
          PROVE  c # This(a)
      BY <2>1, ThisCall DEF TypeOK
    <2>2. QED
      BY <1>2, <1>3, <2>1 DEF Traced, FutureOK, Unsent
  <1>7. WireOK'
    <2>1. /\ saves[new.call] = 0
          /\ new.args.text # Invalid
          /\ new.args.mode = "create" <=> new.args.expected = Missing
          /\ new.override <=> (kind = "config" \/ new.args.mode = "edit")
          /\ \A v \in wire : v.call # new.call
      BY <1>1, <1>2 DEF Unsent, CallOK, Override
    <2>2. QED
      BY <1>3, <2>1 DEF Traced, WireOK
  <1>8. AnswersOK'
    <2>1. outcome[This(a)] = "pending"
      BY <1>1 DEF CallOK
    <2>2. QED
      BY <1>2, <1>3, <2>1 DEF Traced, AnswersOK, Unsent, Refusals
  <1>9. Alone'
    BY <1>2, <1>3 DEF Alone, TypeOK
  <1>10. QED
    BY <1>4, <1>5, <1>6, <1>7, <1>8, <1>9 DEF Traced

\* The end of a call that may have sent its write.
LEMMA EndSteps ==
    ASSUME Inv, NEW a \in Authors, NotSent(a) \/ Receive(a) \/ GiveUp(a)
    PROVE  Inv'
  <1>1. CASE NotSent(a)
    BY <1>1, RefuseStep, UnknownStep DEF NotSent, Refusals
  <1>2. CASE GiveUp(a)
    BY <1>2, RefuseStep, UnknownStep DEF GiveUp, Refusals
  <1>3. CASE Receive(a)
    <2>1. pc[a] = "sent" /\ reply[a] # "none" /\ ReplyOK(a)
      BY <1>3 DEF Receive, Inv, Traced
    <2>2. CASE reply[a] = "saved" /\ Answer(a, "accepted")
      <3>1. "accepted" \in Outcomes /\ "accepted" \notin Refusals
        BY DEF Outcomes, Refusals
      <3>2. saves[This(a)] = 1
        BY <2>1, <2>2 DEF ReplyOK
      <3>3. QED
        BY <2>1, <2>2, <3>1, <3>2, AnswerStep
    <2>3. CASE reply[a] = "rejected" /\ Answer(a, "request_rejected")
      <3>1. "request_rejected" \in Outcomes /\ "request_rejected" # "accepted"
        BY DEF Outcomes, Refusals
      <3>2. Unsent(This(a))
        BY <2>1, <2>3 DEF ReplyOK, Unsent
      <3>3. QED
        BY <2>1, <2>3, <3>1, <3>2, AnswerStep
    <2>4. CASE Answer(a, "mutation_outcome_unknown")
      BY <2>1, <2>4, UnknownStep
    <2>5. QED
      BY <1>3, <2>2, <2>3, <2>4 DEF Receive
  <1>4. QED
    BY <1>1, <1>2, <1>3

-----------------------------------------------------------------------------
(* Home Assistant *)

\* A write that is stored or not leaves the wire, and its reply says which.
LEMMA SettleStep ==
    ASSUME Inv, NEW w \in wire, NEW r \in Replies \ {"none"}, Settle(w, r),
           \/ saves' = [saves EXCEPT ![w.call] = @ + 1] /\ r # "rejected"
           \/ saves' = saves /\ r # "saved",
           item' = item \/ item' = w.args.text
    PROVE  Inv'
  <1> USE DEF Inv, Settle
  <1> DEFINE a == w.call[1]
  <1>1. w \in Writes /\ w.call \in Calls /\ a \in Authors
    BY CallParts DEF TypeOK, Writes
  <1>2. /\ saves[w.call] = 0 /\ saves'[w.call] \in 0..1
        /\ r = "saved" => saves'[w.call] = 1
        /\ r = "rejected" => saves'[w.call] = 0
        /\ \A c \in Calls : c # w.call => saves'[c] = saves[c]
    BY <1>1 DEF Traced, WireOK, TypeOK
  <1>3. wire' \subseteq wire /\ \A v \in wire' : v.call # w.call
    BY DEF Traced, WireOK
  <1>4. TypeOK'
    <2>1. item' \in Items
      BY <1>1 DEF TypeOK, Writes, Arguments, Items, Traced, WireOK
    <2>2. saves' \in [Calls -> 0..2]
      BY <1>1, <1>2 DEF TypeOK
    <2>3. reply' \in [Authors -> Replies]
      BY DEF TypeOK
    <2>4. QED
      BY <2>1, <2>2, <2>3 DEF TypeOK
  <1>5. ASSUME NEW b \in Authors
        PROVE  (CallOK(b) /\ ReplyOK(b))'
    <2>1. CallOK(b) /\ ReplyOK(b) /\ This(b)' = This(b) /\ (pc[b] # "idle" => This(b) \in Calls)
      BY ThisCall DEF Traced, CallOK, This
    <2>2. CASE pc[b] = "sent" /\ w.call = This(b)
      <3>1. b = a
        BY <2>2, ThisCall
      <3>2. reply'[b] = r
        BY <2>2, <3>1 DEF TypeOK
      <3>3. QED
        BY <1>2, <1>3, <2>1, <2>2, <3>2 DEF CallOK, ReplyOK, Unsent
    <2>3. CASE ~(pc[b] = "sent" /\ w.call = This(b))
      <3>1. reply'[b] = reply[b]
        BY <1>1, <2>3 DEF TypeOK
      <3>2. pc[b] # "idle" => w.call # This(b)
        BY <2>1, <2>3 DEF CallOK, Unsent, TypeOK
      <3>3. pc[b] # "idle" => saves'[This(b)] = saves[This(b)]
        BY <1>2, <2>1, <3>2
      <3>4. QED
        BY <1>3, <2>1, <3>1, <3>3 DEF CallOK, ReplyOK, Unsent
    <2>4. QED
      BY <2>2, <2>3
  <1>6. FutureOK'
    BY <1>1, <1>2, <1>3 DEF Traced, FutureOK, Unsent
  <1>7. WireOK'
    BY <1>1, <1>2, <1>3 DEF Traced, WireOK, TypeOK, Writes
  <1>8. AnswersOK'
    BY <1>1, <1>2, <1>3 DEF Traced, AnswersOK, Unsent
  <1>9. Alone'
    BY <1>3 DEF Alone, TypeOK
  <1>10. QED
    BY <1>4, <1>5, <1>6, <1>7, <1>8, <1>9 DEF Traced

\* Home Assistant stores or discards a write.
LEMMA HomeAssistantSteps ==
    ASSUME Inv, NEW w \in wire, Store(w) \/ Discard(w)
    PROVE  Inv'
  <1>1. CASE Store(w)
    <2>1. PICK r \in {"saved", "failed"} : Settle(w, r)
      BY <1>1 DEF Store
    <2>2. QED
      BY <1>1, <2>1, SettleStep DEF Store, Replies
  <1>2. CASE Discard(w)
    <2>1. PICK r \in {"rejected", "failed", "lost"} : Settle(w, r)
      BY <1>2 DEF Discard
    <2>2. QED
      BY <1>2, <2>1, SettleStep DEF Discard, Replies
  <1>3. QED
    BY <1>1, <1>2

\* Others write when no call or write is under way, or without the rule.
LEMMA OtherStep ==
    ASSUME Inv, OtherWriter
    PROVE  Inv'
  <1> USE DEF Inv, OtherWriter
  <1>1. TypeOK'
    BY DEF TypeOK
  <1>2. Traced'
    BY DEF Traced, CallOK, ReplyOK, FutureOK, WireOK, AnswersOK, Unsent, This
  <1>3. Alone'
    BY DEF Alone, Quiet, TypeOK
  <1>4. QED
    BY <1>1, <1>2, <1>3

\* Every step preserves the invariant.
LEMMA NextInv == Inv /\ [Next]_vars => Inv'
  <1> SUFFICES ASSUME Inv, [Next]_vars PROVE Inv'
    OBVIOUS
  <1>1. ASSUME NEW a \in Authors, Call(a)
        PROVE  Inv'
    BY <1>1, CallStep
  <1>2. ASSUME NEW a \in Authors, Preflight(a) \/ Reread(a)
        PROVE  Inv'
    BY <1>2, ReadSteps
  <1>3. ASSUME NEW a \in Authors, Send(a)
        PROVE  Inv'
    BY <1>3, SendStep
  <1>4. ASSUME NEW a \in Authors, NotSent(a) \/ Receive(a) \/ GiveUp(a)
        PROVE  Inv'
    BY <1>4, EndSteps
  <1>5. ASSUME NEW w \in wire, Store(w) \/ Discard(w)
        PROVE  Inv'
    BY <1>5, HomeAssistantSteps
  <1>6. CASE OtherWriter
    BY <1>6, OtherStep
  <1>7. CASE UNCHANGED vars
    <2> USE <1>7 DEF vars, Inv
    <2>1. TypeOK'
      BY DEF TypeOK
    <2>2. Traced'
      BY DEF Traced, CallOK, ReplyOK, FutureOK, WireOK, AnswersOK, Unsent, This
    <2>3. Alone'
      BY DEF Alone
    <2>4. QED
      BY <2>1, <2>2, <2>3
  <1>8. QED
    BY <1>1, <1>2, <1>3, <1>4, <1>5, <1>6, <1>7 DEF Next, Author

-----------------------------------------------------------------------------
(* Theorems *)

\* The invariant holds throughout.
THEOREM Invariance == Spec => []Inv
  BY InitInv, NextInv, PTL DEF Spec

\* Every state of create and edit is of its type: in particular only a valid text is
\* ever stored.
THEOREM TypeCorrect == Spec => []TypeOK
  <1>1. Inv => TypeOK
    BY DEF Inv
  <1>2. QED
    BY <1>1, Invariance, PTL

\* An answer that denies a change is final, whoever else writes and whatever was
\* cancelled or timed out.
THEOREM RefusalIsFinal == Spec => []RefusedNeverSaved
  <1>1. Inv => RefusedNeverSaved
    BY DEF Inv, Traced, AnswersOK, Unsent, RefusedNeverSaved
  <1>2. QED
    BY <1>1, Invariance, PTL

\* A call stores its candidate at most once, and an accepted one was stored.
THEOREM AcceptedIsSaved == Spec => []AcceptedSavedOnce
  <1>1. Inv => AcceptedSavedOnce
    BY DEF Inv, Traced, AnswersOK, AcceptedSavedOnce
  <1>2. QED
    BY <1>1, Invariance, PTL

\* What a write replaces at the moment it is stored is what its call was made from.
THEOREM ReplacesWhatWasRead == Spec => ReplacesExpected
  <1>1. Inv /\ [Next]_vars =>
            [\A w \in wire :
                Store(w) /\ (single \/ (kind = "blueprint" /\ w.args.mode = "create"))
                    => item = w.args.expected]_vars
    <2> SUFFICES ASSUME Inv, NEW w \in wire, Store(w),
                        single \/ (kind = "blueprint" /\ w.args.mode = "create")
                 PROVE  item = w.args.expected
      OBVIOUS
    <2>1. CASE single
      BY <2>1 DEF Inv, Alone
    <2>2. CASE kind = "blueprint" /\ w.args.mode = "create"
      <3>1. ~w.override /\ w.args.expected = Missing
        BY <2>2 DEF Inv, Traced, WireOK
      <3>2. QED
        BY <3>1 DEF Store
    <2>3. QED
      BY <2>1, <2>2
  <1>2. QED
    BY <1>1, Invariance, PTL DEF Spec, ReplacesExpected

-----------------------------------------------------------------------------
(* EditScript *)

Bytes == {Letter, Lead, Cont, Nul}

IsStr(t) == t \in Seq(Bytes) /\ Edit!IsText(t)

EditTypes ==
    /\ stage \in {"giving", "refused", "applying", "applied"}
    /\ initial \in Initials
    /\ edits \in Seq({e \in Edit!Edits : Edit!ValidEdit(e)})
    /\ next \in 0..Len(edits)
    /\ IsStr(result)

EditInv == EditTypes /\ Edit!AlwaysWithinLimit /\ Edit!NetChange

\* The bytes of a character of two bytes differ.
LEMMA LeadIsNotCont == Lead # Cont
  <1> DEFINE S == {Letter} \cup {Lead}
  <1>1. Cardinality(Bytes) = 4
    BY EditAssumption DEF Edit!BytesAssumption, Bytes, Edit!Cardinality, Cardinality
  <1>2. IsFiniteSet({Letter}) /\ Cardinality({Letter}) = 1
    BY FS_Singleton
  <1>3. IsFiniteSet(S) /\ Cardinality(S) \in 1..2
    BY <1>2, FS_AddElement
  <1>4. IsFiniteSet(S \cup {Nul}) /\ Cardinality(S \cup {Nul}) \in 1..3
    <2> HIDE DEF S
    <2>1. QED
      BY <1>3, FS_AddElement
  <1>5. Lead = Cont => Bytes = S \cup {Nul}
    BY DEF Bytes
  <1>6. QED
    BY <1>1, <1>4, <1>5

\* A set of offsets has a first one.
LEMMA FirstOffset ==
    ASSUME NEW S \in SUBSET Nat, S # {}
    PROVE  Edit!Min(S) \in S /\ \A y \in S : Edit!Min(S) <= y
  <1>1. PICK x \in S : \A y \in S : ~(<<y, x>> \in OpToRel(<, Nat))
    BY NatLessThanWellFounded, WFMin
  <1>2. ASSUME NEW y \in S
        PROVE  x <= y
    <2>1. x \in Nat /\ y \in Nat
      OBVIOUS
    <2>2. <<y, x>> \in OpToRel(<, Nat) <=> y < x
      BY <2>1 DEF OpToRel
    <2>3. ~(y < x)
      BY <1>1, <2>2
    <2>4. QED
      BY <2>1, <2>3
  <1>3. QED
    BY <1>2 DEF Edit!Min

\* What a slice holds.
LEMMA SliceIs ==
    ASSUME NEW t \in Seq(Bytes), NEW i \in 0..Len(t), NEW j \in i..Len(t)
    PROVE  /\ Edit!Slice(t, i, j) \in Seq(Bytes) /\ Len(Edit!Slice(t, i, j)) = j - i
           /\ \A k \in 1..(j - i) : Edit!Slice(t, i, j)[k] = t[i + k]
  <1>1. /\ Len(t) \in Nat /\ i \in Int /\ j \in Int /\ i + 1 \in Int
        /\ \A k \in (i + 1)..j : t[k] \in Bytes
    OBVIOUS
  <1>2. /\ SubSeq(t, i + 1, j) \in Seq(Bytes)
        /\ Len(SubSeq(t, i + 1, j)) = (IF i + 1 <= j THEN j - (i + 1) + 1 ELSE 0)
        /\ \A k \in 1..(j - (i + 1) + 1) : SubSeq(t, i + 1, j)[k] = t[(i + 1) + k - 1]
    BY <1>1, SubSeqProperties
  <1>3. \A k \in 1..(j - i) : k \in 1..(j - (i + 1) + 1) /\ (i + 1) + k - 1 = i + k
    BY <1>1
  <1>4. (IF i + 1 <= j THEN j - (i + 1) + 1 ELSE 0) = j - i
    BY <1>1
  <1>5. QED
    BY <1>2, <1>3, <1>4 DEF Edit!Slice

\* What comes before a boundary is a text, and what comes after it.
LEMMA CutsAreTexts ==
    ASSUME NEW t, IsStr(t), NEW i \in 0..Len(t), Edit!Boundary(t, i)
    PROVE  IsStr(Edit!Slice(t, 0, i)) /\ IsStr(Edit!Slice(t, i, Len(t)))
  <1> DEFINE a == Edit!Slice(t, 0, i)
             b == Edit!Slice(t, i, Len(t))
  <1>1. t \in Seq(Bytes) /\ Len(t) \in Nat /\ i \in Nat /\ i <= Len(t)
    BY DEF IsStr
  <1>2. a \in Seq(Bytes) /\ Len(a) = i /\ \A k \in 1..i : a[k] = t[k]
    <2>1. 0 \in 0..Len(t) /\ i \in 0..Len(t) /\ i - 0 = i /\ \A k \in 1..i : 0 + k = k
      BY <1>1
    <2>2. /\ a \in Seq(Bytes) /\ Len(a) = i - 0
          /\ \A k \in 1..(i - 0) : a[k] = t[0 + k]
      BY <1>1, <2>1, SliceIs
    <2> HIDE DEF a
    <2>3. QED
      BY <2>1, <2>2
  <1>3. /\ b \in Seq(Bytes) /\ Len(b) = Len(t) - i
        /\ \A k \in 1..(Len(t) - i) : b[k] = t[i + k]
    BY <1>1, SliceIs, Len(t) \in i..Len(t)
  <1> HIDE DEF a, b
  <1>4. \A k \in 1..Len(t) : /\ (t[k] = Lead => k < Len(t) /\ t[k + 1] = Cont)
                             /\ (t[k] = Cont => k > 1 /\ t[k - 1] = Lead)
    BY DEF IsStr, Edit!IsText
  <1>5. i = Len(t) \/ t[i + 1] # Cont
    BY DEF Edit!Boundary
  <1>6. ASSUME NEW k \in 1..Len(a)
        PROVE  /\ (a[k] = Lead => k < Len(a) /\ a[k + 1] = Cont)
               /\ (a[k] = Cont => k > 1 /\ a[k - 1] = Lead)
    <2>1. k \in 1..Len(t) /\ k \in 1..i /\ k <= i
      BY <1>1, <1>2
    <2>2. a[k] = Lead => k < i
      BY <1>1, <1>2, <1>4, <1>5, <2>1
    <2>3. k < i => k + 1 \in 1..i
      BY <1>1, <2>1
    <2>4. k > 1 => k - 1 \in 1..i
      BY <1>1, <2>1
    <2>5. QED
      BY <1>2, <1>4, <2>1, <2>2, <2>3, <2>4
  <1>7. ASSUME NEW k \in 1..Len(b)
        PROVE  /\ (b[k] = Lead => k < Len(b) /\ b[k + 1] = Cont)
               /\ (b[k] = Cont => k > 1 /\ b[k - 1] = Lead)
    <2>1. /\ k \in 1..(Len(t) - i) /\ i + k \in 1..Len(t) /\ (i + k) + 1 = i + (k + 1)
          /\ (i + k) - 1 = i + (k - 1) /\ i < Len(t)
      BY <1>1, <1>3
    <2>2. b[k] = t[i + k]
      BY <1>3, <2>1
    <2>3. b[k] = Lead => k < Len(b) /\ b[k + 1] = Cont
      <3>1. SUFFICES ASSUME b[k] = Lead PROVE k < Len(b) /\ b[k + 1] = Cont
        OBVIOUS
      <3>2. i + k < Len(t) /\ t[i + (k + 1)] = Cont
        BY <1>4, <2>1, <2>2, <3>1
      <3>3. k + 1 \in 1..(Len(t) - i) /\ k < Len(b)
        BY <1>1, <1>3, <2>1, <3>2
      <3>4. QED
        BY <1>3, <3>2, <3>3
    <2>4. b[k] = Cont => k > 1 /\ b[k - 1] = Lead
      <3>1. SUFFICES ASSUME b[k] = Cont PROVE k > 1 /\ b[k - 1] = Lead
        OBVIOUS
      <3>2. t[i + (k - 1)] = Lead
        BY <1>4, <2>1, <2>2, <3>1
      <3>3. k # 1
        <4>1. k = 1 => b[k] = t[i + 1]
          BY <2>2
        <4>2. i # Len(t)
          BY <1>1, <2>1
        <4>3. QED
          BY <1>5, <3>1, <4>1, <4>2
      <3>4. k > 1 /\ k - 1 \in 1..(Len(t) - i)
        BY <2>1, <3>3
      <3>5. QED
        BY <1>3, <3>2, <3>4
    <2>5. QED
      BY <2>3, <2>4
  <1>8. IsStr(a) /\ IsStr(b)
    BY <1>2, <1>3, <1>6, <1>7 DEF IsStr, Edit!IsText
  <1>9. QED
    BY <1>8 DEF a, b

\* Two texts after each other are one.
LEMMA ConcatIsText ==
    ASSUME NEW a, NEW b, IsStr(a), IsStr(b)
    PROVE  IsStr(a \o b) /\ Len(a \o b) = Len(a) + Len(b)
  <1>1. /\ a \in Seq(Bytes) /\ b \in Seq(Bytes) /\ Len(a) \in Nat /\ Len(b) \in Nat
        /\ a \o b \in Seq(Bytes) /\ Len(a \o b) = Len(a) + Len(b)
        /\ \A k \in 1..(Len(a) + Len(b)) :
              (a \o b)[k] = IF k <= Len(a) THEN a[k] ELSE b[k - Len(a)]
    BY ConcatProperties DEF IsStr
  <1> DEFINE c == a \o b
  <1>2. /\ Len(c) = Len(a) + Len(b)
        /\ \A k \in 1..Len(a) : c[k] = a[k]
        /\ \A k \in 1..Len(b) : c[Len(a) + k] = b[k]
    <2>1. Len(c) = Len(a) + Len(b)
      BY <1>1
    <2>2. ASSUME NEW k \in 1..Len(a) PROVE c[k] = a[k]
      BY <1>1
    <2>3. ASSUME NEW k \in 1..Len(b) PROVE c[Len(a) + k] = b[k]
      <3>1. Len(a) + k \in 1..(Len(a) + Len(b)) /\ ~(Len(a) + k <= Len(a)) /\ (Len(a) + k) - Len(a) = k
        BY <1>1
      <3>2. QED
        BY <1>1, <3>1
    <2>4. QED
      BY <2>1, <2>2, <2>3
  <1> HIDE DEF c
  <1>3. \A k \in 1..Len(a) : /\ (a[k] = Lead => k < Len(a) /\ a[k + 1] = Cont)
                             /\ (a[k] = Cont => k > 1 /\ a[k - 1] = Lead)
    BY DEF IsStr, Edit!IsText
  <1>4. \A k \in 1..Len(b) : /\ (b[k] = Lead => k < Len(b) /\ b[k + 1] = Cont)
                             /\ (b[k] = Cont => k > 1 /\ b[k - 1] = Lead)
    BY DEF IsStr, Edit!IsText
  <1>5. ASSUME NEW k \in 1..Len(c)
        PROVE  /\ (c[k] = Lead => k < Len(c) /\ c[k + 1] = Cont)
               /\ (c[k] = Cont => k > 1 /\ c[k - 1] = Lead)
    <2>1. CASE k <= Len(a)
      <3>1. k \in 1..Len(a) /\ c[k] = a[k]
        BY <1>1, <1>2, <2>1
      <3>2. k < Len(a) => k + 1 \in 1..Len(a) /\ k < Len(c)
        BY <1>1, <1>2, <3>1
      <3>3. k > 1 => k - 1 \in 1..Len(a)
        BY <1>1, <3>1
      <3>4. QED
        BY <1>2, <1>3, <3>1, <3>2, <3>3
    <2>2. CASE k > Len(a)
      <3> DEFINE m == k - Len(a)
      <3>1. m \in 1..Len(b) /\ k = Len(a) + m /\ k + 1 = Len(a) + (m + 1) /\ k - 1 = Len(a) + (m - 1)
        BY <1>1, <1>2, <2>2
      <3> HIDE DEF m
      <3>2. c[k] = b[m]
        BY <1>2, <3>1
      <3>3. m < Len(b) => m + 1 \in 1..Len(b) /\ k < Len(c)
        BY <1>1, <1>2, <3>1
      <3>4. m > 1 => m - 1 \in 1..Len(b) /\ k > 1
        BY <1>1, <3>1
      <3>5. c[k] = Lead => k < Len(c) /\ c[k + 1] = Cont
        BY <1>2, <1>4, <3>1, <3>2, <3>3
      <3>6. c[k] = Cont => k > 1 /\ c[k - 1] = Lead
        BY <1>2, <1>4, <3>1, <3>2, <3>4
      <3>7. QED
        BY <3>5, <3>6
    <2>3. QED
      BY <1>1, <2>1, <2>2
  <1>6. QED
    BY <1>1, <1>2, <1>5 DEF c, IsStr, Edit!IsText

\* A match of a text begins and ends at a boundary, and no character reaches into it.
LEMMA MatchIs ==
    ASSUME NEW t, NEW n, IsStr(t), IsStr(n), n # <<>>, NEW i \in Edit!Matches(t, n, 0)
    PROVE  /\ i \in Nat /\ Len(n) \in Nat /\ Len(n) >= 1 /\ i + Len(n) <= Len(t)
           /\ t[i + 1] # Cont
           /\ Edit!Boundary(t, i) /\ Edit!Boundary(t, i + Len(n))
  <1>1. /\ t \in Seq(Bytes) /\ n \in Seq(Bytes) /\ Len(t) \in Nat /\ Len(n) \in Nat
        /\ Len(n) >= 1
    BY DEF IsStr
  <1>2. /\ i \in 0..(Len(t) - Len(n)) /\ Edit!Slice(t, i, i + Len(n)) = n
    BY DEF Edit!Matches
  <1>3. /\ i \in Nat /\ i + Len(n) <= Len(t) /\ i \in 0..Len(t) /\ i + Len(n) \in i..Len(t)
        /\ (i + Len(n)) - i = Len(n)
    BY <1>1, <1>2
  <1>4. \A k \in 1..Len(n) : n[k] = t[i + k]
    <2>1. \A k \in 1..((i + Len(n)) - i) : Edit!Slice(t, i, i + Len(n))[k] = t[i + k]
      BY <1>1, <1>3, SliceIs
    <2>2. QED
      BY <1>2, <1>3, <2>1
  <1>5. /\ \A k \in 1..Len(n) : /\ (n[k] = Lead => k < Len(n) /\ n[k + 1] = Cont)
                                /\ (n[k] = Cont => k > 1 /\ n[k - 1] = Lead)
        /\ \A k \in 1..Len(t) : t[k] = Cont => k > 1 /\ t[k - 1] = Lead
    BY DEF IsStr, Edit!IsText
  <1>6. t[i + 1] # Cont
    <2>1. 1 \in 1..Len(n)
      BY <1>1
    <2>2. QED
      BY <1>4, <1>5, <2>1
  <1>7. t[(i + Len(n)) + 1] # Cont \/ i + Len(n) = Len(t)
    <2>1. SUFFICES ASSUME t[(i + Len(n)) + 1] = Cont, i + Len(n) # Len(t) PROVE FALSE
      OBVIOUS
    <2>2. (i + Len(n)) + 1 \in 1..Len(t) /\ ((i + Len(n)) + 1) - 1 = i + Len(n)
      BY <1>1, <1>3, <2>1
    <2>3. t[i + Len(n)] = Lead
      BY <1>5, <2>1, <2>2
    <2>4. Len(n) \in 1..Len(n)
      BY <1>1
    <2>5. QED
      BY <1>1, <1>4, <1>5, <2>3, <2>4
  <1>8. QED
    BY <1>1, <1>3, <1>6, <1>7 DEF Edit!Boundary

\* The next character begins at a boundary, and only a continuation is passed over.
LEMMA AfterChar ==
    ASSUME NEW t, IsStr(t), NEW i \in Nat, i < Len(t)
    PROVE  /\ i + Edit!CharLen(t, i) <= Len(t) /\ Edit!Boundary(t, i + Edit!CharLen(t, i))
           /\ \/ Edit!CharLen(t, i) = 1
              \/ Edit!CharLen(t, i) = 2 /\ t[i + 2] = Cont
  <1>1. t \in Seq(Bytes) /\ Len(t) \in Nat
    BY DEF IsStr
  <1>2. CASE i + 1 < Len(t) /\ t[i + 2] = Cont
    <2>1. Edit!CharLen(t, i) = 2
      BY <1>2 DEF Edit!CharLen
    <2>2. i + 2 = Len(t) \/ t[(i + 2) + 1] # Cont
      <3>1. SUFFICES ASSUME i + 2 # Len(t), t[(i + 2) + 1] = Cont PROVE FALSE
        OBVIOUS
      <3>2. (i + 2) + 1 \in 1..Len(t) /\ ((i + 2) + 1) - 1 = i + 2
        BY <1>1, <1>2, <3>1
      <3>3. t[i + 2] = Lead
        BY <3>1, <3>2 DEF IsStr, Edit!IsText
      <3>4. QED
        BY <1>2, <3>3, LeadIsNotCont
    <2>3. QED
      BY <1>1, <1>2, <2>1, <2>2 DEF Edit!Boundary
  <1>3. CASE ~(i + 1 < Len(t) /\ t[i + 2] = Cont)
    <2>1. Edit!CharLen(t, i) = 1
      BY <1>3 DEF Edit!CharLen
    <2>2. i + 1 = Len(t) \/ t[(i + 1) + 1] # Cont
      <3>1. (i + 1) + 1 = i + 2 /\ (i + 1 < Len(t) \/ i + 1 = Len(t))
        BY <1>1
      <3>2. QED
        BY <1>3, <3>1
    <2>3. QED
      BY <1>1, <2>1, <2>2 DEF Edit!Boundary
  <1>4. QED
    BY <1>2, <1>3

\* unique finds a text that occurs once, overlaps counted, and refuses any other.
LEMMA UniqueIs ==
    ASSUME NEW t, NEW n, IsStr(t), IsStr(n), n # <<>>
    PROVE  \/ /\ Edit!Unique(t, n) = Edit!Refuses
              /\ ~\E i : Edit!Matches(t, n, 0) = {i}
           \/ \E i : Edit!Matches(t, n, 0) = {i} /\ Edit!Unique(t, n) = Edit!At(i)
  <1> DEFINE M == Edit!Matches(t, n, 0)
             index == Edit!Min(M)
             after == index + Edit!CharLen(t, index)
  <1>1. CASE M = {}
    <2>1. Edit!Unique(t, n) = Edit!Refuses
      BY <1>1 DEF Edit!Unique
    <2>2. QED
      BY <1>1, <2>1
  <1>2. CASE M # {}
    <2>1. M \in SUBSET Nat
      BY MatchIs
    <2>2. index \in M /\ \A y \in M : index <= y
      BY <1>2, <2>1, FirstOffset
    <2>3. index \in Nat /\ Len(t) \in Nat /\ Len(n) \in Nat /\ index < Len(t)
      BY <2>2, MatchIs DEF IsStr
    <2>4. /\ after <= Len(t) /\ Edit!Boundary(t, after)
          /\ \/ Edit!CharLen(t, index) = 1
             \/ Edit!CharLen(t, index) = 2 /\ t[index + 2] = Cont
      BY <2>3, AfterChar
    <2>5. Edit!Unique(t, n) = IF Edit!Matches(t, n, after) # {} THEN Edit!Refuses ELSE Edit!At(index)
      BY <1>2, <2>4 DEF Edit!Unique
    <2>6. /\ after \in Nat /\ after > index
          /\ \A j \in Nat : j > index /\ j < after => j = index + 1 /\ t[j + 1] = Cont
      <3>1. after = index + 1 \/ (after = index + 2 /\ t[index + 2] = Cont)
        BY <2>4
      <3> HIDE DEF after, index
      <3>2. after \in Nat /\ after > index
        BY <2>3, <3>1
      <3>3. ASSUME NEW j \in Nat, j > index, j < after
            PROVE  j = index + 1 /\ t[j + 1] = Cont
        <4>1. after = index + 2 /\ j = index + 1 /\ j + 1 = index + 2
          BY <2>3, <3>1, <3>3
        <4>2. QED
          BY <3>1, <4>1, <2>3
      <3>4. QED
        BY <3>2, <3>3
    <2>7. Edit!Matches(t, n, after) = M \ {index}
      <3>1. ASSUME NEW j \in Edit!Matches(t, n, after) PROVE j \in M /\ j # index
        <4>1. j \in after..(Len(t) - Len(n)) /\ Edit!Slice(t, j, j + Len(n)) = n
          BY DEF Edit!Matches
        <4>2. j \in 0..(Len(t) - Len(n)) /\ j # index
          BY <2>3, <2>6, <4>1
        <4>3. QED
          BY <4>1, <4>2 DEF Edit!Matches
      <3>2. ASSUME NEW j \in M, j # index PROVE j \in Edit!Matches(t, n, after)
        <4>1. j \in Nat /\ j > index /\ t[j + 1] # Cont
          BY <2>1, <2>2, <2>3, <3>2, MatchIs
        <4>2. j >= after
          BY <2>6, <4>1
        <4>3. j \in 0..(Len(t) - Len(n)) /\ Edit!Slice(t, j, j + Len(n)) = n
          BY DEF Edit!Matches
        <4>4. j \in after..(Len(t) - Len(n))
          BY <2>3, <2>6, <4>1, <4>2, <4>3
        <4>5. QED
          BY <4>3, <4>4 DEF Edit!Matches
      <3> HIDE DEF M, index, after
      <3>3. QED
        BY <3>1, <3>2
    <2> HIDE DEF M, index, after
    <2>8. CASE M = {index}
      BY <2>5, <2>7, <2>8 DEF M
    <2>9. CASE M # {index}
      <3>1. M \ {index} # {} /\ ~\E i : M = {i}
        BY <2>2, <2>9
      <3>2. QED
        BY <2>5, <2>7, <3>1 DEF M
    <2>10. QED
      BY <2>8, <2>9
  <1>3. QED
    BY <1>1, <1>2

\* The texts of an edit that the arguments were accepted with.
LEMMA EditTexts ==
    ASSUME NEW e \in Edit!Edits, Edit!ValidEdit(e)
    PROVE  /\ IsStr(e.put)
           /\ \/ e.operation = "replace" /\ IsStr(e.find) /\ e.find # <<>>
              \/ e.operation = "insert" /\ e.placement \in {"start", "end"}
              \/ /\ e.operation = "insert" /\ e.placement \in {"before", "after"}
                 /\ IsStr(e.find) /\ e.find # <<>>
           /\ e.operation = "replace" => e.placement = "absent"
  <1>1. e.find \in Fragments \cup {Absent} /\ e.put \in Fragments \cup {Absent}
    BY DEF Edit!Edits
  <1>2. \A f \in Fragments : IsStr(f)
    BY EditAssumption DEF Edit!TextsAssumption, IsStr, Bytes
  <1>3. e.put \in Fragments
    BY <1>1 DEF Edit!ValidEdit, Edit!Text
  <1>4. Edit!Text(e.find, TRUE) => e.find \in Fragments /\ e.find # <<>>
    BY <1>1 DEF Edit!Text
  <1>5. QED
    BY <1>2, <1>3, <1>4 DEF Edit!ValidEdit

\* Where a text can be cut so that the needle is between the cuts.
Around(t, n) ==
    {c \in {d \in (0..Len(t)) \X (0..Len(t)) : d[1] <= d[2]} : Edit!Slice(t, c[1], c[2]) = n}

\* The cuts around a needle are its matches.
LEMMA CutsAreMatches ==
    ASSUME NEW t, NEW n, IsStr(t), IsStr(n), n # <<>>
    PROVE  Around(t, n) = {<<i, i + Len(n)>> : i \in Edit!Matches(t, n, 0)}
  <1> DEFINE L == {c \in {d \in (0..Len(t)) \X (0..Len(t)) : d[1] <= d[2]} :
                      Edit!Slice(t, c[1], c[2]) = n}
             R == {<<i, i + Len(n)>> : i \in Edit!Matches(t, n, 0)}
  <1>1. t \in Seq(Bytes) /\ n \in Seq(Bytes) /\ Len(t) \in Nat /\ Len(n) \in Nat
    BY DEF IsStr
  <1>2. ASSUME NEW c \in L PROVE c \in R
    <2>1. PICK i \in 0..Len(t), j \in 0..Len(t) :
             c = <<i, j>> /\ i <= j /\ Edit!Slice(t, i, j) = n
      OBVIOUS
    <2>2. j \in i..Len(t)
      BY <1>1, <2>1
    <2>3. Len(Edit!Slice(t, i, j)) = j - i
      BY <1>1, <2>2, SliceIs
    <2>4. j = i + Len(n) /\ i \in 0..(Len(t) - Len(n))
      BY <1>1, <2>1, <2>2, <2>3
    <2>5. i \in Edit!Matches(t, n, 0)
      BY <2>1, <2>4 DEF Edit!Matches
    <2>6. QED
      BY <2>1, <2>4, <2>5
  <1>3. ASSUME NEW c \in R PROVE c \in L
    <2>1. PICK i \in Edit!Matches(t, n, 0) : c = <<i, i + Len(n)>>
      OBVIOUS
    <2>2. /\ i \in 0..Len(t) /\ i + Len(n) \in 0..Len(t) /\ i <= i + Len(n)
      BY <1>1, MatchIs
    <2>3. Edit!Slice(t, i, i + Len(n)) = n
      BY DEF Edit!Matches
    <2>4. QED
      BY <2>1, <2>2, <2>3
  <1>4. QED
    BY <1>2, <1>3 DEF Around

\* Every edit has a place, between two boundaries, when the text can be read in one way
\* only, and is refused otherwise.
LEMMA PlaceIs ==
    ASSUME NEW t, IsStr(t), NEW e \in Edit!Edits, Edit!ValidEdit(e)
    PROVE  \/ /\ Edit!Place(t, e) = Edit!Refuses
              /\ ~\E c : Edit!Readings(t, e) = {c}
           \/ \E i \in Nat :
                 /\ Edit!Place(t, e) = Edit!At(i)
                 /\ Edit!Readings(t, e) = {<<i, i + Edit!Removed(e)>>}
                 /\ Edit!Removed(e) \in Nat /\ i + Edit!Removed(e) <= Len(t)
                 /\ Edit!Boundary(t, i) /\ Edit!Boundary(t, i + Edit!Removed(e))
  <1>1. t \in Seq(Bytes) /\ Len(t) \in Nat
    BY DEF IsStr
  <1> DEFINE found == Around(t, e.find)
  <1>2. CASE e.operation = "insert" /\ e.placement = "start"
    <2>1. /\ Edit!Place(t, e) = Edit!At(0) /\ Edit!Readings(t, e) = {<<0, 0>>}
          /\ Edit!Removed(e) = 0
      BY <1>2 DEF Edit!Place, Edit!Readings, Edit!Removed
    <2>2. Edit!Boundary(t, 0)
      <3>1. Len(t) # 0 => 1 \in 1..Len(t)
        BY <1>1
      <3>2. Len(t) # 0 => t[0 + 1] # Cont
        BY <3>1 DEF IsStr, Edit!IsText
      <3>3. QED
        BY <3>2 DEF Edit!Boundary
    <2>3. 0 \in Nat /\ 0 + 0 = 0 /\ 0 <= Len(t)
      BY <1>1
    <2>4. QED
      BY <2>1, <2>2, <2>3
  <1>3. CASE e.operation = "insert" /\ e.placement = "end"
    <2>1. /\ Edit!Place(t, e) = Edit!At(Len(t)) /\ Edit!Readings(t, e) = {<<Len(t), Len(t)>>}
          /\ Edit!Removed(e) = 0
      BY <1>3 DEF Edit!Place, Edit!Readings, Edit!Removed
    <2>2. Edit!Boundary(t, Len(t))
      BY DEF Edit!Boundary
    <2>3. Len(t) + 0 = Len(t) /\ Len(t) <= Len(t)
      BY <1>1
    <2>4. QED
      BY <1>1, <2>1, <2>2, <2>3
  <1>4. CASE /\ ~(e.operation = "insert" /\ e.placement \in {"start", "end"})
             /\ IsStr(e.find) /\ e.find # <<>>
             /\ \/ e.operation = "replace" /\ e.placement = "absent"
                \/ e.operation = "insert" /\ e.placement \in {"before", "after"}
    <2>1. found = {<<i, i + Len(e.find)>> : i \in Edit!Matches(t, e.find, 0)}
      BY <1>4, CutsAreMatches
    <2> HIDE DEF found
    <2>2. Edit!Place(t, e) = LET u == Edit!Unique(t, e.find)
                             IN IF u.how = "at" /\ e.placement = "after"
                                THEN Edit!At(u.offset + Len(e.find)) ELSE u
      BY <1>4 DEF Edit!Place
    <2>3. Edit!Readings(t, e) = IF e.operation = "replace" THEN found
                                ELSE IF e.placement = "before" THEN {<<c[1], c[1]>> : c \in found}
                                ELSE {<<c[2], c[2]>> : c \in found}
      BY <1>4 DEF Edit!Readings, found, Around
    <2>4. Len(e.find) \in Nat /\ Edit!Removed(e) = IF e.operation = "replace" THEN Len(e.find) ELSE 0
      BY <1>4 DEF Edit!Removed, IsStr
    <2>5. CASE /\ Edit!Unique(t, e.find) = Edit!Refuses
               /\ ~\E i : Edit!Matches(t, e.find, 0) = {i}
      <3>1. Edit!Place(t, e) = Edit!Refuses
        BY <2>2, <2>5 DEF Edit!Refuses
      <3>2. ASSUME NEW c, Edit!Readings(t, e) = {c} PROVE FALSE
        <4> DEFINE M == Edit!Matches(t, e.find, 0)
        <4>1. M \in SUBSET Nat
          BY <1>4, MatchIs
        <4>2. ASSUME NEW i \in M
              PROVE  c = IF e.operation = "replace" THEN <<i, i + Len(e.find)>>
                         ELSE IF e.placement = "before" THEN <<i, i>>
                         ELSE <<i + Len(e.find), i + Len(e.find)>>
          <5> DEFINE d == <<i, i + Len(e.find)>>
          <5>1. d \in found /\ d[1] = i /\ d[2] = i + Len(e.find)
            BY <2>1
          <5>2. CASE e.operation = "replace"
            BY <2>3, <3>2, <5>1, <5>2
          <5>3. CASE e.operation # "replace" /\ e.placement = "before"
            <6>1. <<d[1], d[1]>> \in Edit!Readings(t, e)
              BY <2>3, <5>1, <5>3
            <6>2. QED
              BY <3>2, <5>1, <5>3, <6>1
          <5>4. CASE e.operation # "replace" /\ e.placement # "before"
            <6>1. <<d[2], d[2]>> \in Edit!Readings(t, e)
              BY <2>3, <5>1, <5>4
            <6>2. QED
              BY <3>2, <5>1, <5>4, <6>1
          <5>5. QED
            BY <5>2, <5>3, <5>4
        <4>3. M # {}
          <5>1. M = {} => found = {}
            BY <2>1
          <5>2. found = {} => Edit!Readings(t, e) = {}
            BY <2>3
          <5>3. QED
            BY <3>2, <5>1, <5>2
        <4> HIDE DEF M
        <4>4. ASSUME NEW i \in M, NEW j \in M PROVE i = j
          <5>1. i \in Nat /\ j \in Nat
            BY <4>1
          <5>2. CASE e.operation = "replace"
            BY <4>2, <5>2
          <5>3. CASE e.operation # "replace" /\ e.placement = "before"
            BY <4>2, <5>3
          <5>4. CASE e.operation # "replace" /\ e.placement # "before"
            <6>1. i + Len(e.find) = j + Len(e.find)
              BY <4>2, <5>4
            <6>2. QED
              BY <2>4, <5>1, <6>1
          <5>5. QED
            BY <5>2, <5>3, <5>4
        <4>5. \E i : M = {i}
          BY <4>3, <4>4
        <4>6. QED
          BY <2>5, <4>5 DEF M
      <3>3. QED
        BY <3>1, <3>2
    <2>6. CASE \E i : Edit!Matches(t, e.find, 0) = {i} /\ Edit!Unique(t, e.find) = Edit!At(i)
      <3>1. PICK i : Edit!Matches(t, e.find, 0) = {i} /\ Edit!Unique(t, e.find) = Edit!At(i)
        BY <2>6
      <3>2. /\ i \in Nat /\ i + Len(e.find) <= Len(t)
            /\ Edit!Boundary(t, i) /\ Edit!Boundary(t, i + Len(e.find))
        BY <1>4, <3>1, MatchIs
      <3>3. found = {<<i, i + Len(e.find)>>}
        BY <2>1, <3>1
      <3>4. Edit!Place(t, e) = IF e.placement = "after" THEN Edit!At(i + Len(e.find)) ELSE Edit!At(i)
        BY <2>2, <3>1 DEF Edit!At
      <3>5. CASE e.operation = "replace"
        <4>1. Edit!Readings(t, e) = {<<i, i + Edit!Removed(e)>>} /\ Edit!Place(t, e) = Edit!At(i)
          BY <1>4, <2>3, <2>4, <3>3, <3>4, <3>5
        <4>2. QED
          BY <2>4, <3>2, <3>5, <4>1
      <3>6. CASE e.operation # "replace" /\ e.placement = "before"
        <4>1. Edit!Readings(t, e) = {<<i, i>>} /\ Edit!Place(t, e) = Edit!At(i)
          BY <2>3, <3>3, <3>4, <3>6
        <4>2. Edit!Removed(e) = 0 /\ i + 0 = i /\ i <= Len(t)
          BY <1>1, <2>4, <3>2, <3>6
        <4>3. QED
          BY <3>2, <4>1, <4>2
      <3>7. CASE e.operation # "replace" /\ e.placement = "after"
        <4> DEFINE k == i + Len(e.find)
        <4>1. Edit!Readings(t, e) = {<<k, k>>} /\ Edit!Place(t, e) = Edit!At(k)
          BY <2>3, <3>3, <3>4, <3>7
        <4>2. Edit!Removed(e) = 0 /\ k \in Nat /\ k + 0 = k /\ k <= Len(t) /\ Edit!Boundary(t, k)
          BY <1>1, <2>4, <3>2, <3>7
        <4> HIDE DEF k
        <4>3. QED
          BY <4>1, <4>2
      <3>8. QED
        BY <1>4, <3>5, <3>6, <3>7
    <2>7. QED
      BY <1>4, <2>5, <2>6, UniqueIs
  <1>5. QED
    BY <1>2, <1>3, <1>4, EditTexts

\* A text is its parts, put together again.
LEMMA PartsOfText ==
    ASSUME NEW t \in Seq(Bytes), NEW i \in Nat, NEW j \in Nat, i <= j, j <= Len(t)
    PROVE  (Edit!Slice(t, 0, i) \o Edit!Slice(t, i, j)) \o Edit!Slice(t, j, Len(t)) = t
  <1> DEFINE a == Edit!Slice(t, 0, i)
             m == Edit!Slice(t, i, j)
             b == Edit!Slice(t, j, Len(t))
  <1>1. /\ Len(t) \in Nat /\ 0 \in 0..Len(t) /\ i \in 0..Len(t) /\ j \in i..Len(t)
        /\ j \in 0..Len(t) /\ Len(t) \in j..Len(t) /\ i - 0 = i
    OBVIOUS
  <1>2. a \in Seq(Bytes) /\ Len(a) = i /\ \A k \in 1..i : a[k] = t[k]
    <2>1. a \in Seq(Bytes) /\ Len(a) = i - 0 /\ \A k \in 1..(i - 0) : a[k] = t[0 + k]
      BY <1>1, SliceIs
    <2> HIDE DEF a
    <2>2. QED
      BY <1>1, <2>1
  <1>3. m \in Seq(Bytes) /\ Len(m) = j - i /\ \A k \in 1..(j - i) : m[k] = t[i + k]
    BY <1>1, SliceIs
  <1>4. /\ b \in Seq(Bytes) /\ Len(b) = Len(t) - j
        /\ \A k \in 1..(Len(t) - j) : b[k] = t[j + k]
    BY <1>1, SliceIs
  <1> HIDE DEF a, m, b
  <1>5. /\ a \o m \in Seq(Bytes) /\ Len(a \o m) = j
        /\ \A k \in 1..j : (a \o m)[k] = t[k]
    <2>1. /\ a \o m \in Seq(Bytes) /\ Len(a \o m) = Len(a) + Len(m)
          /\ \A k \in 1..(Len(a) + Len(m)) :
                (a \o m)[k] = IF k <= Len(a) THEN a[k] ELSE m[k - Len(a)]
      BY <1>2, <1>3, ConcatProperties
    <2>2. Len(a) + Len(m) = j
      BY <1>1, <1>2, <1>3
    <2>3. ASSUME NEW k \in 1..j PROVE (a \o m)[k] = t[k]
      <3>1. CASE k <= i
        BY <1>1, <1>2, <2>1, <2>2, <3>1
      <3>2. CASE k > i
        <4>1. k - i \in 1..(j - i) /\ i + (k - i) = k /\ ~(k <= i)
          BY <1>1, <3>2
        <4>2. QED
          BY <1>2, <1>3, <2>1, <2>2, <4>1
      <3>3. k <= i \/ k > i
        BY <1>1
      <3>4. QED
        BY <3>1, <3>2, <3>3, Zenon
    <2>4. QED
      BY <2>1, <2>2, <2>3
  <1> DEFINE am == a \o m
  <1> HIDE DEF am
  <1>6. /\ am \o b \in Seq(Bytes) /\ Len(am \o b) = Len(t)
        /\ \A k \in 1..Len(t) : (am \o b)[k] = t[k]
    <2>0. am \in Seq(Bytes) /\ Len(am) = j /\ \A k \in 1..j : am[k] = t[k]
      BY <1>5 DEF am
    <2>1. /\ am \o b \in Seq(Bytes) /\ Len(am \o b) = Len(am) + Len(b)
          /\ \A k \in 1..(Len(am) + Len(b)) :
                (am \o b)[k] = IF k <= Len(am) THEN am[k] ELSE b[k - Len(am)]
      BY <2>0, <1>4, ConcatProperties
    <2>2. Len(am) + Len(b) = Len(t)
      BY <1>1, <1>4, <2>0
    <2>3. ASSUME NEW k \in 1..Len(t) PROVE (am \o b)[k] = t[k]
      <3>1. CASE k <= j
        BY <1>1, <2>0, <2>1, <2>2, <3>1
      <3>2. CASE k > j
        <4>1. k - j \in 1..(Len(t) - j) /\ j + (k - j) = k /\ ~(k <= j)
          BY <1>1, <3>2
        <4>2. QED
          BY <2>0, <1>4, <2>1, <2>2, <4>1
      <3>3. k <= j \/ k > j
        BY <1>1
      <3>4. QED
        BY <3>1, <3>2, <3>3, Zenon
    <2>4. QED
      BY <2>1, <2>2, <2>3
  <1>7. am \o b = t
    BY <1>6, SeqEqual
  <1>8. QED
    BY <1>7 DEF am, a, m, b

\* The text with another one put between two offsets.
Made(t, p, i, j) == Edit!Slice(t, 0, i) \o p \o Edit!Slice(t, j, Len(t))

MadeLen(t, p, i, j) == Len(t) - (j - i) + Len(p)

\* A text put between two boundaries makes a text, another one unless it was there.
LEMMA AppliedIs ==
    ASSUME NEW t, NEW p, IsStr(t), IsStr(p), NEW i \in Nat, NEW j \in Nat, i <= j, j <= Len(t),
           Edit!Boundary(t, i), Edit!Boundary(t, j)
    PROVE  /\ IsStr(Made(t, p, i, j)) /\ Len(Made(t, p, i, j)) = MadeLen(t, p, i, j)
           /\ Made(t, p, i, j) = t <=> Edit!Slice(t, i, j) = p
  <1> DEFINE w == Made(t, p, i, j)
             a == Edit!Slice(t, 0, i)
             m == Edit!Slice(t, i, j)
             b == Edit!Slice(t, j, Len(t))
  <1>1. /\ t \in Seq(Bytes) /\ Len(t) \in Nat /\ i \in 0..Len(t) /\ j \in 0..Len(t)
        /\ j \in i..Len(t) /\ p \in Seq(Bytes) /\ Len(p) \in Nat
    BY DEF IsStr
  <1>2. IsStr(a) /\ IsStr(b)
    BY <1>1, CutsAreTexts
  <1>3. Len(a) = i /\ Len(b) = Len(t) - j /\ m \in Seq(Bytes)
    <2>1. Len(a) = i - 0 /\ Len(b) = Len(t) - j /\ m \in Seq(Bytes)
      BY <1>1, SliceIs, 0 \in 0..Len(t), i \in 0..Len(t), Len(t) \in j..Len(t)
    <2>2. QED
      BY <1>1, <2>1
  <1>4. (a \o m) \o b = t
    BY <1>1, PartsOfText
  <1>5. w = (a \o p) \o b
    BY DEF Made
  <1> HIDE DEF w, a, m, b
  <1>6. IsStr(a \o p) /\ Len(a \o p) = i + Len(p)
    BY <1>2, <1>3, ConcatIsText
  <1>7. IsStr((a \o p) \o b) /\ Len((a \o p) \o b) = (i + Len(p)) + (Len(t) - j)
    BY <1>2, <1>3, <1>6, ConcatIsText
  <1>8. (a \o p) \o b = (a \o m) \o b => p = m
    <2>1. /\ a \in Seq(Bytes) /\ b \in Seq(Bytes) /\ a \o p \in Seq(Bytes) /\ a \o m \in Seq(Bytes)
      BY <1>1, <1>2, <1>3, ConcatProperties DEF IsStr
    <2>2. \A s, u, v \in Seq(Bytes) : s \o v = u \o v => s = u
      BY ConcatSimplifications
    <2>3. \A s, u, v \in Seq(Bytes) : s \o u = s \o v => u = v
      BY ConcatSimplifications
    <2>4. SUFFICES ASSUME (a \o p) \o b = (a \o m) \o b PROVE p = m
      OBVIOUS
    <2>5. a \o p = a \o m
      BY <2>1, <2>2, <2>4
    <2>6. QED
      BY <1>1, <1>3, <2>1, <2>3, <2>5
  <1>9. w = t <=> m = p
    BY <1>4, <1>5, <1>8
  <1>10. Len(w) = MadeLen(t, p, i, j)
    <2>1. Len(w) = (i + Len(p)) + (Len(t) - j)
      BY <1>5, <1>7, Zenon
    <2>2. QED
      BY <1>1, <2>1 DEF MadeLen
  <1>11. QED
    BY <1>5, <1>7, <1>9, <1>10 DEF w, m

\* What the next edit does: it is refused, or carried out at the one place it fits.
LEMMA ApplyIs ==
    ASSUME EditInv, Edit!ApplyNext
    PROVE  LET e == edits[next + 1]
               ways == Edit!Readings(result, e)
           IN /\ stage = "applying" /\ next < Len(edits) /\ UNCHANGED <<initial, edits>>
              /\ \/ /\ stage' = "refused" /\ UNCHANGED <<next, result>>
                    /\ ~\E c : ways = {c}
                 \/ \E i, j \in Nat :
                      LET w == Made(result, e.put, i, j)
                      IN /\ ways = {<<i, j>>} /\ IsStr(w)
                         /\ \/ /\ stage' = "refused" /\ UNCHANGED <<next, result>>
                               /\ Len(w) > Limit \/ w = result
                            \/ /\ UNCHANGED stage /\ next' = next + 1 /\ result' = w
                               /\ Len(w) <= Limit /\ w # result
  <1> DEFINE e == edits[next + 1]
             ways == Edit!Readings(result, e)
             place == Edit!Place(result, e)
  <1>1. stage = "applying" /\ next < Len(edits) /\ UNCHANGED <<initial, edits>>
    BY DEF Edit!ApplyNext
  <1>2. e \in Edit!Edits /\ Edit!ValidEdit(e)
    BY <1>1 DEF EditInv, EditTypes
  <1>3. IsStr(result) /\ Len(result) \in Nat
    BY DEF EditInv, EditTypes, IsStr
  <1>4. IsStr(e.put) /\ Len(e.put) \in Nat /\ Limit \in Nat
    BY <1>2, EditTexts, EditAssumption DEF IsStr, Edit!BoundsAssumption
  <1>5. \/ /\ place.how # "at" /\ stage' = place.how /\ UNCHANGED <<next, result>>
        \/ /\ place.how = "at" /\ Edit!Rejected(result, e, place.offset)
           /\ stage' = "refused" /\ UNCHANGED <<next, result>>
        \/ /\ place.how = "at" /\ ~Edit!Rejected(result, e, place.offset)
           /\ result' = Edit!Applied(result, e, place.offset)
           /\ next' = next + 1 /\ UNCHANGED stage
    BY DEF Edit!ApplyNext
  <1> HIDE DEF e, ways, place
  <1>6. CASE place = Edit!Refuses /\ ~\E c : ways = {c}
    <2>1. place.how = "refused"
      BY <1>6 DEF Edit!Refuses
    <2>2. stage' = "refused" /\ UNCHANGED <<next, result>>
      BY <1>5, <2>1
    <2>3. QED
      BY <1>1, <1>6, <2>2 DEF e, ways
  <1>7. ASSUME NEW i \in Nat, place = Edit!At(i), ways = {<<i, i + Edit!Removed(e)>>},
               Edit!Removed(e) \in Nat, i + Edit!Removed(e) <= Len(result),
               Edit!Boundary(result, i), Edit!Boundary(result, i + Edit!Removed(e))
        PROVE  \E k, j \in Nat :
                 LET w == Made(result, e.put, k, j)
                 IN /\ ways = {<<k, j>>} /\ IsStr(w)
                    /\ \/ /\ stage' = "refused" /\ UNCHANGED <<next, result>>
                          /\ Len(w) > Limit \/ w = result
                       \/ /\ UNCHANGED stage /\ next' = next + 1 /\ result' = w
                          /\ Len(w) <= Limit /\ w # result
    <2> DEFINE j == i + Edit!Removed(e)
               w == Made(result, e.put, i, j)
    <2>1. place.how = "at" /\ place.offset = i
      BY <1>7 DEF Edit!At
    <2>2. j \in Nat /\ i <= j /\ j <= Len(result) /\ j - i = Edit!Removed(e)
      BY <1>7
    <2>3. Edit!Applied(result, e, i) = w
      BY DEF Edit!Applied, Made
    <2>4. Edit!Rejected(result, e, i) <=>
             \/ Len(result) - Edit!Removed(e) + Len(e.put) > Limit
             \/ Edit!Slice(result, i, j) = e.put
      BY DEF Edit!Rejected
    <2>5. /\ IsStr(w) /\ Len(w) = Len(result) - (j - i) + Len(e.put)
          /\ w = result <=> Edit!Slice(result, i, j) = e.put
      <3>1. Edit!Boundary(result, j)
        BY <1>7
      <3>2. /\ IsStr(result) /\ IsStr(e.put) /\ i \in Nat /\ j \in Nat /\ i <= j
            /\ j <= Len(result) /\ Edit!Boundary(result, i) /\ Edit!Boundary(result, j)
        BY <1>3, <1>4, <1>7, <2>2, <3>1
      <3> HIDE DEF j
      <3>3. /\ IsStr(Made(result, e.put, i, j))
            /\ Len(Made(result, e.put, i, j)) = MadeLen(result, e.put, i, j)
            /\ Made(result, e.put, i, j) = result <=> Edit!Slice(result, i, j) = e.put
        BY <3>2, AppliedIs, Zenon
      <3>4. QED
        BY <3>3 DEF MadeLen
    <2>6. ways = {<<i, j>>}
      BY <1>7
    <2> HIDE DEF j, w
    <2>7. Edit!Rejected(result, e, i) <=> Len(w) > Limit \/ w = result
      BY <2>2, <2>4, <2>5
    <2>8. Len(w) \in Nat
      BY <2>5 DEF IsStr
    <2>9. \/ /\ stage' = "refused" /\ UNCHANGED <<next, result>>
             /\ Len(w) > Limit \/ w = result
          \/ /\ UNCHANGED stage /\ next' = next + 1 /\ result' = w
             /\ Len(w) <= Limit /\ w # result
      BY <1>4, <1>5, <2>1, <2>3, <2>7, <2>8
    <2>10. QED
      BY <2>2, <2>5, <2>6, <2>9 DEF w
  <1>8. \/ place = Edit!Refuses /\ ~\E c : ways = {c}
        \/ \E i \in Nat :
             /\ place = Edit!At(i) /\ ways = {<<i, i + Edit!Removed(e)>>}
             /\ Edit!Removed(e) \in Nat /\ i + Edit!Removed(e) <= Len(result)
             /\ Edit!Boundary(result, i) /\ Edit!Boundary(result, i + Edit!Removed(e))
    BY <1>2, <1>3, PlaceIs DEF place, ways
  <1>9. QED
    BY <1>1, <1>6, <1>7, <1>8 DEF e, ways

\* There are finitely many ways to read a text.
LEMMA FewReadings ==
    ASSUME NEW t, IsStr(t), NEW e
    PROVE  IsFiniteSet(Edit!Readings(t, e))
  <1> DEFINE N == 0..Len(t)
  <1>1. Len(t) \in Nat /\ 0 \in N /\ Len(t) \in N
    BY DEF IsStr
  <1>2. IsFiniteSet(N \X N)
    <2>1. IsFiniteSet(N)
      BY <1>1, FS_Interval
    <2> HIDE DEF N
    <2>2. QED
      BY <2>1, FS_Product
  <1>3. \A c \in Around(t, e.find) : c \in N \X N /\ <<c[1], c[1]>> \in N \X N /\ <<c[2], c[2]>> \in N \X N
    BY DEF Around
  <1>4. \/ Edit!Readings(t, e) = Around(t, e.find)
        \/ Edit!Readings(t, e) = {<<0, 0>>}
        \/ Edit!Readings(t, e) = {<<Len(t), Len(t)>>}
        \/ Edit!Readings(t, e) = {<<c[1], c[1]>> : c \in Around(t, e.find)}
        \/ Edit!Readings(t, e) = {<<c[2], c[2]>> : c \in Around(t, e.find)}
    BY DEF Edit!Readings, Around
  <1> HIDE DEF N
  <1>5. Edit!Readings(t, e) \subseteq N \X N
    <2>1. CASE Edit!Readings(t, e) = Around(t, e.find)
      BY <1>3, <2>1
    <2>2. CASE Edit!Readings(t, e) = {<<0, 0>>}
      BY <1>1, <2>2
    <2>3. CASE Edit!Readings(t, e) = {<<Len(t), Len(t)>>}
      BY <1>1, <2>3
    <2>4. CASE Edit!Readings(t, e) = {<<c[1], c[1]>> : c \in Around(t, e.find)}
      BY <1>3, <2>4
    <2>5. CASE Edit!Readings(t, e) = {<<c[2], c[2]>> : c \in Around(t, e.find)}
      BY <1>3, <2>5
    <2>6. QED
      BY <1>4, <2>1, <2>2, <2>3, <2>4, <2>5
  <1>6. QED
    BY <1>2, <1>5, FS_Subset

\* The call begins with a text that is empty.
LEMMA EditInit ==
    ASSUME Edit!Init
    PROVE  EditInv
  <1>1. IsStr(<<>>)
    BY DEF IsStr, Edit!IsText
  <1>2. result = <<>> /\ stage = "giving" /\ next = 0 /\ edits = <<>> /\ initial \in Initials
    BY DEF Edit!Init
  <1>3. QED
    BY <1>1, <1>2 DEF EditInv, EditTypes, Edit!AlwaysWithinLimit, Edit!NetChange

\* Every step of the call.
LEMMA EditNext ==
    ASSUME EditInv, [Edit!Next]_(Edit!vars)
    PROVE  EditInv'
  <1> DEFINE Valid == {e \in Edit!Edits : Edit!ValidEdit(e)}
  <1>0. Limit \in Nat
    BY EditAssumption DEF Edit!BoundsAssumption
  <1>1. CASE UNCHANGED Edit!vars
    BY <1>1 DEF Edit!vars, EditInv, EditTypes, Edit!AlwaysWithinLimit, Edit!NetChange
  <1>2. ASSUME NEW e \in Edit!Edits, Edit!Give(e)
        PROVE  EditInv'
    <2>1. stage = "giving" /\ UNCHANGED <<initial, next, result>>
      BY <1>2 DEF Edit!Give
    <2>2. \/ /\ Edit!ValidEdit(e) /\ edits' = Append(edits, e) /\ stage' = "giving"
          \/ edits' = edits /\ stage' = "refused"
      BY <1>2 DEF Edit!Give
    <2>3. edits \in Seq(Valid) /\ next \in 0..Len(edits) /\ Len(edits) \in Nat
      BY DEF EditInv, EditTypes
    <2>4. edits' \in Seq(Valid) /\ next' \in 0..Len(edits')
      <3>1. CASE edits' = edits
        BY <2>1, <2>3, <3>1
      <3>2. CASE Edit!ValidEdit(e) /\ edits' = Append(edits, e)
        <4>1. e \in Valid
          BY <3>2
        <4> HIDE DEF Valid
        <4>2. Append(edits, e) \in Seq(Valid) /\ Len(Append(edits, e)) = Len(edits) + 1
          BY <2>3, <4>1
        <4>3. QED
          BY <2>1, <2>3, <3>2, <4>2
      <3>3. QED
        BY <2>2, <3>1, <3>2
    <2>5. EditTypes'
      BY <2>1, <2>2, <2>4 DEF EditInv, EditTypes, IsStr, Edit!IsText
    <2>6. QED
      BY <2>2, <2>5 DEF EditInv, Edit!AlwaysWithinLimit, Edit!NetChange
  <1>3. CASE Edit!Begin
    <2>1. /\ stage' = (IF Len(initial) > Limit THEN "refused" ELSE "applying")
          /\ result' = initial /\ UNCHANGED <<initial, edits, next>>
      BY <1>3 DEF Edit!Begin
    <2>2. IsStr(initial) /\ Len(initial) \in Nat
      BY EditAssumption DEF EditInv, EditTypes, Edit!TextsAssumption, IsStr, Bytes
    <2>3. IsStr(result')
      BY <2>1, <2>2
    <2>4. EditTypes'
      BY <2>1, <2>3 DEF EditInv, EditTypes, IsStr, Edit!IsText
    <2>5. stage' = "applying" => Len(result') <= Limit
      BY <1>0, <2>1, <2>2
    <2>6. QED
      BY <2>1, <2>4, <2>5 DEF EditInv, Edit!AlwaysWithinLimit, Edit!NetChange
  <1>4. CASE Edit!ApplyNext
    <2>1. stage = "applying" /\ next < Len(edits) /\ UNCHANGED <<initial, edits>>
      BY <1>4 DEF Edit!ApplyNext
    <2>2. \/ stage' = "refused" /\ UNCHANGED <<next, result>>
          \/ /\ stage' = "applying" /\ next' = next + 1 /\ IsStr(result') /\ Len(result') <= Limit
      <3>1. \/ stage' = "refused" /\ UNCHANGED <<next, result>>
            \/ \E w : /\ IsStr(w) /\ UNCHANGED stage /\ next' = next + 1 /\ result' = w
                      /\ Len(w) <= Limit
        BY <1>4, ApplyIs
      <3>2. QED
        BY <2>1, <3>1
    <2>3. next \in 0..Len(edits) /\ Len(edits) \in Nat
      BY DEF EditInv, EditTypes
    <2>4. next' \in 0..Len(edits')
      BY <2>1, <2>2, <2>3
    <2>5. IsStr(result') /\ stage' \in {"refused", "applying"}
      BY <2>2 DEF EditInv, EditTypes
    <2>6. EditTypes'
      BY <2>1, <2>4, <2>5 DEF EditInv, EditTypes, IsStr, Edit!IsText
    <2>7. QED
      BY <2>2, <2>6 DEF EditInv, Edit!AlwaysWithinLimit, Edit!NetChange
  <1>5. CASE Edit!Conclude
    <2>1. /\ stage = "applying" /\ next = Len(edits)
          /\ stage' = (IF result = initial THEN "refused" ELSE "applied")
          /\ UNCHANGED <<initial, edits, next, result>>
      BY <1>5 DEF Edit!Conclude
    <2>2. EditTypes'
      BY <2>1 DEF EditInv, EditTypes, IsStr, Edit!IsText
    <2>3. QED
      BY <2>1, <2>2 DEF EditInv, Edit!AlwaysWithinLimit, Edit!NetChange
  <1>6. QED
    BY <1>1, <1>2, <1>3, <1>4, <1>5 DEF Edit!Next

\* For any texts, any edits and any limit: apply_edits never cuts a character in two and
\* never panics, every text on the way is a text within ITEM_LIMIT, and a call that
\* succeeds has applied all its edits and changed the text.
THEOREM EditsMakeTexts == Edit!Spec => []EditsAreSound
  <1>1. Edit!Init => EditInv
    BY EditInit
  <1>2. EditInv /\ [Edit!Next]_(Edit!vars) => EditInv'
    BY EditNext
  <1>3. EditInv => EditsAreSound
    BY DEF EditInv, EditTypes, IsStr, EditsAreSound, Edit!StaysText
  <1>4. QED
    BY <1>1, <1>2, <1>3, PTL DEF Edit!Spec

\* For any text and any needle, overlapping itself or not: an edit is carried out exactly
\* when the text can be read in one way only and the result fits and differs, it then
\* changes that place and nothing else, and any other edit refuses the call.
THEOREM EditsAreExact == Edit!Spec => EditIsExact
  <1> DEFINE e == edits[next + 1]
             ways == Edit!Readings(result, e)
             made == {Edit!Slice(result, 0, c[1]) \o e.put \o Edit!Slice(result, c[2], Len(result)) :
                        c \in ways}
             Exact == IF Edit!Cardinality(ways) = 1 /\ \A t \in made : Len(t) <= Limit /\ t # result
                      THEN made = {result'} /\ next' = next + 1
                      ELSE stage' = "refused"
  <1>1. Edit!Init => EditInv
    BY EditInit
  <1>2. EditInv /\ [Edit!Next]_(Edit!vars) => EditInv'
    BY EditNext
  <1>3. ASSUME EditInv, Edit!ApplyNext PROVE Exact
    <2>1. \A S : Edit!Cardinality(S) = Cardinality(S)
      BY DEF Edit!Cardinality, Cardinality
    <2>2. \A c : Edit!Cardinality({c}) = 1
      BY <2>1, FS_Singleton
    <2>3. IsFiniteSet(ways) => (Edit!Cardinality(ways) = 1 <=> \E c : ways = {c})
      BY <2>1, FS_Singleton
    <2>4. IsFiniteSet(ways)
      BY <1>3, FewReadings DEF EditInv, EditTypes
    <2>5. \/ stage' = "refused" /\ ~\E c : ways = {c}
          \/ \E i, j \in Nat :
               LET w == Made(result, e.put, i, j)
               IN /\ ways = {<<i, j>>} /\ IsStr(w)
                  /\ \/ stage' = "refused" /\ (Len(w) > Limit \/ w = result)
                     \/ next' = next + 1 /\ result' = w /\ Len(w) <= Limit /\ w # result
      BY <1>3, ApplyIs
    <2>6. made = {Made(result, e.put, c[1], c[2]) : c \in ways}
      BY DEF Made
    <2>7. Limit \in Nat
      BY EditAssumption DEF Edit!BoundsAssumption
    <2> HIDE DEF made, ways, e
    <2>8. CASE stage' = "refused" /\ ~\E c : ways = {c}
      BY <2>3, <2>4, <2>8
    <2>9. ASSUME NEW i \in Nat, NEW j \in Nat, ways = {<<i, j>>}, IsStr(Made(result, e.put, i, j)),
                 LET w == Made(result, e.put, i, j)
                 IN \/ stage' = "refused" /\ (Len(w) > Limit \/ w = result)
                    \/ next' = next + 1 /\ result' = w /\ Len(w) <= Limit /\ w # result
          PROVE  Exact
      <3> DEFINE w == Made(result, e.put, i, j)
      <3>1. made = {w}
        BY <2>6, <2>9
      <3>2. Edit!Cardinality(ways) = 1
        BY <2>2, <2>9
      <3>3. Len(w) \in Nat
        BY <2>9 DEF IsStr
      <3>4. \/ stage' = "refused" /\ (Len(w) > Limit \/ w = result)
            \/ next' = next + 1 /\ result' = w /\ Len(w) <= Limit /\ w # result
        BY <2>9
      <3> HIDE DEF w
      <3>5. CASE stage' = "refused" /\ (Len(w) > Limit \/ w = result)
        <4>1. ~(Len(w) <= Limit /\ w # result)
          BY <2>7, <3>3, <3>5
        <4>2. QED
          BY <3>1, <3>5, <4>1
      <3>6. CASE next' = next + 1 /\ result' = w /\ Len(w) <= Limit /\ w # result
        BY <3>1, <3>2, <3>6
      <3>7. QED
        BY <3>4, <3>5, <3>6
    <2>10. QED
      BY <2>5, <2>8, <2>9
  <1>4. QED
    BY <1>1, <1>2, <1>3, PTL DEF Edit!Spec, EditIsExact, Edit!EditIsExact

=============================================================================
