--------------------------- MODULE RequestsProofs ---------------------------
(***************************************************************************)
(* The parts of RequestParts, each from an invariant of its own, for any   *)
(* inputs, any items, any URIs that clients make up and any answers of     *)
(* Home Assistant: a call has the handler that it was announced with, an   *)
(* action asks for what it names within its limits, a resource URI names   *)
(* one item and reads it, a listing of devices is that of Home Assistant,  *)
(* and a page, a history or a verdict is true of the answer it is made of. *)
(*                                                                         *)
(* Inputs: every list can be put in order (OrderingExists), so what is     *)
(* sent of a list of identifiers is that list, in order.  Surface: a       *)
(* public name and an action have one row of the tables and so one         *)
(* handler (OneRow).  URIs: a path is split where it was joined            *)
(* (SplitItem, SplitTraces), identifiers that look alike are alike         *)
(* (EncodedOnce), so that what is handed out is parsed to its item         *)
(* (ParseIs) and what is parsed is written in the one form (ParsedIs).     *)
(*                                                                         *)
(* Sets that are put in order: every finite set has an enumeration         *)
(* (EnumerationExists), in which the place of an element is the number of  *)
(* those up to it (PlaceIs).  Devices: so the first entities up to a limit *)
(* are the smallest (CutIs), and the groups are one for each key           *)
(* (GroupDevicesIs), though what the registries say is of different        *)
(* moments (HomeInv).  Listings: a page is a selection of the answer       *)
(* (PageOf), and what is taken of the groups of a history, joined, is the  *)
(* beginning of all groups joined (TakenJoin, KeptJoin), by induction      *)
(* along the groups.                                                       *)
(***************************************************************************)
EXTENDS RequestParts, Sequences, FiniteSetTheorems, SequenceTheorems,
        WellFoundedInduction, TLAPS

\* Natural numbers have the order that an induction goes along.
LEMMA NaturalOrder == IsWellFoundedOn({p \in Nat \X Nat : p[1] < p[2]}, Nat)
  BY NatLessThanWellFounded, Zenon DEF OpToRel

\* Induction, for a set instead of a predicate.
LEMMA SetInduction ==
    ASSUME NEW S, 0 \in S, \A n \in Nat : n \in S => n + 1 \in S
    PROVE  \A n \in Nat : n \in S
  <1> DEFINE T == {n \in Nat : n \notin S}
             R == {p \in Nat \X Nat : p[1] < p[2]}
  <1>1. SUFFICES ASSUME T # {} PROVE FALSE
    OBVIOUS
  <1>2. IsWellFoundedOn(R, Nat)
    BY NaturalOrder
  <1>3. T \subseteq Nat
    OBVIOUS
  <1> HIDE DEF T, R
  <1>4. PICK x \in T : \A y \in T : ~(<<y, x>> \in R)
    BY <1>1, <1>2, <1>3, WFMin
  <1>5. x \in Nat /\ x # 0 /\ x - 1 \in Nat
    BY <1>4 DEF T
  <1>6. x - 1 \in T
    BY <1>4, <1>5 DEF T
  <1>7. <<x - 1, x>> \in R
    BY <1>5 DEF R
  <1>8. QED
    BY <1>4, <1>6, <1>7

-----------------------------------------------------------------------------
(* Inputs: lists in order *)

\* A list that is not empty has a greatest element.
LEMMA Greatest ==
    ASSUME NEW n \in Nat, NEW ids \in [1..n + 1 -> Nat]
    PROVE  \E m \in 1..n + 1 : \A i \in 1..n + 1 : ids[i] <= ids[m]
  <1> DEFINE A == {k \in Nat : k <= n => \E m \in 1..k + 1 : \A i \in 1..k + 1 : ids[i] <= ids[m]}
  <1>1. 0 \in A
    <2>1. \A i \in 1..0 + 1 : i = 1
      BY SMT
    <2>2. 1 \in 1..0 + 1 /\ 1 \in 1..n + 1
      BY SMT
    <2>3. ids[1] \in Nat
      BY <2>2
    <2>4. QED
      BY <2>1, <2>2, <2>3
  <1>2. ASSUME NEW k \in Nat, k \in A
        PROVE  k + 1 \in A
    <2>1. SUFFICES ASSUME k + 1 <= n
                   PROVE  \E m \in 1..k + 2 : \A i \in 1..k + 2 : ids[i] <= ids[m]
      BY SMT
    <2>2. PICK m \in 1..k + 1 : \A i \in 1..k + 1 : ids[i] <= ids[m]
      BY <1>2, <2>1, SMT
    <2>3. \A i \in 1..k + 2 : i \in 1..n + 1 /\ ids[i] \in Nat /\ (i \in 1..k + 1 \/ i = k + 2)
      BY <2>1, SMT
    <2>4. k + 2 \in 1..k + 2 /\ m \in 1..k + 2
      BY SMT
    <2>5. CASE ids[k + 2] <= ids[m]
      BY <2>2, <2>3, <2>4, <2>5
    <2>6. CASE ~(ids[k + 2] <= ids[m])
      <3>1. \A i \in 1..k + 2 : ids[i] <= ids[k + 2]
        BY <2>2, <2>3, <2>4, <2>6
      <3>2. QED
        BY <3>1, <2>4
    <2>7. QED
      BY <2>5, <2>6
  <1>3. n \in A
    BY <1>1, <1>2, SetInduction
  <1>4. QED
    BY <1>3

\* p puts the list ids of length n in order.
Ordering(p, ids, n) ==
    /\ p \in [1..n -> 1..n]
    /\ \A i, j \in 1..n : p[i] = p[j] => i = j
    /\ \A k \in 1..n : \E i \in 1..n : p[i] = k
    /\ \A i, j \in 1..n : i < j => ids[p[i]] <= ids[p[j]]

\* Every list can be put in order: its greatest element goes to the end, the others
\* are put in order before it.
LEMMA OrderingExists ==
    ASSUME NEW n \in Nat, NEW ids \in [1..n -> Nat]
    PROVE  \E p : Ordering(p, ids, n)
  <1> DEFINE A == {k \in Nat : \A s \in [1..k -> Nat] : \E p : Ordering(p, s, k)}
  <1>1. 0 \in A
    <2>1. SUFFICES ASSUME NEW s \in [1..0 -> Nat] PROVE Ordering([i \in 1..0 |-> i], s, 0)
      OBVIOUS
    <2>2. 1..0 = {}
      BY SMT
    <2>3. QED
      BY <2>2 DEF Ordering
  <1>2. ASSUME NEW k \in Nat, k \in A
        PROVE  k + 1 \in A
    <2>1. SUFFICES ASSUME NEW s \in [1..k + 1 -> Nat] PROVE \E p : Ordering(p, s, k + 1)
      OBVIOUS
    <2>2. PICK m \in 1..k + 1 : \A i \in 1..k + 1 : s[i] <= s[m]
      BY Greatest
    <2> DEFINE q == [i \in 1..k |-> IF i = m THEN k + 1 ELSE i]
               t == [i \in 1..k |-> s[q[i]]]
    <2>3. \A i \in 1..k : q[i] \in 1..k + 1 /\ q[i] # m /\ i \in 1..k + 1
      BY SMT
    <2>4. \A i, j \in 1..k : q[i] = q[j] => i = j
      BY SMT
    <2>5. \A x \in 1..k + 1 : x # m => \E i \in 1..k : q[i] = x
      <3>1. SUFFICES ASSUME NEW x \in 1..k + 1, x # m PROVE \E i \in 1..k : q[i] = x
        OBVIOUS
      <3>2. CASE x = k + 1
        <4>1. m \in 1..k /\ q[m] = x
          BY <3>1, <3>2, SMT
        <4>2. QED
          BY <4>1
      <3>3. CASE x # k + 1
        <4>1. x \in 1..k /\ q[x] = x
          BY <3>1, <3>3, SMT
        <4>2. QED
          BY <4>1
      <3>4. QED
        BY <3>2, <3>3
    <2>6. t \in [1..k -> Nat]
      BY <2>3
    <2>7. PICK r : Ordering(r, t, k)
      BY <1>2, <2>6
    <2>8. /\ r \in [1..k -> 1..k]
          /\ \A i, j \in 1..k : r[i] = r[j] => i = j
          /\ \A x \in 1..k : \E i \in 1..k : r[i] = x
      BY <2>7 DEF Ordering
    <2>9. \A i, j \in 1..k : i < j => t[r[i]] <= t[r[j]]
      BY <2>7 DEF Ordering
    <2> DEFINE p == [i \in 1..k + 1 |-> IF i = k + 1 THEN m ELSE q[r[i]]]
    <2> HIDE DEF q
    <2>10. p[k + 1] = m /\ \A i \in 1..k : p[i] = q[r[i]] /\ r[i] \in 1..k
      <3>1. k + 1 \in 1..k + 1 /\ \A i \in 1..k : i \in 1..k + 1 /\ i # k + 1
        BY SMT
      <3>2. QED
        BY <3>1, <2>8
    <2>11. \A i \in 1..k + 1 : i \in 1..k \/ i = k + 1
      BY SMT
    <2>12. p \in [1..k + 1 -> 1..k + 1]
      BY <2>3, <2>8, <2>10, <2>11
    <2> HIDE DEF p
    <2>13. \A i, j \in 1..k + 1 : p[i] = p[j] => i = j
      <3>1. SUFFICES ASSUME NEW i \in 1..k + 1, NEW j \in 1..k + 1, p[i] = p[j] PROVE i = j
        OBVIOUS
      <3>2. CASE i = k + 1 \/ j = k + 1
        BY <2>3, <2>10, <2>11, <3>1, <3>2
      <3>3. CASE i \in 1..k /\ j \in 1..k
        <4>1. q[r[i]] = q[r[j]]
          BY <2>10, <3>1, <3>3
        <4>2. r[i] = r[j]
          BY <2>4, <2>10, <3>3, <4>1
        <4>3. QED
          BY <2>8, <3>3, <4>2
      <3>4. QED
        BY <2>11, <3>2, <3>3
    <2>14. \A x \in 1..k + 1 : \E i \in 1..k + 1 : p[i] = x
      <3>1. SUFFICES ASSUME NEW x \in 1..k + 1 PROVE \E i \in 1..k + 1 : p[i] = x
        OBVIOUS
      <3>2. CASE x = m
        BY <2>10, <3>2
      <3>3. CASE x # m
        <4>1. PICK y \in 1..k : q[y] = x
          BY <2>5, <3>3
        <4>2. PICK i \in 1..k : r[i] = y
          BY <2>8
        <4>3. i \in 1..k + 1 /\ p[i] = x
          BY <2>3, <2>10, <4>1, <4>2
        <4>4. QED
          BY <4>3
      <3>4. QED
        BY <3>2, <3>3
    <2>15. \A i, j \in 1..k + 1 : i < j => s[p[i]] <= s[p[j]]
      <3>1. SUFFICES ASSUME NEW i \in 1..k + 1, NEW j \in 1..k + 1, i < j
                     PROVE  s[p[i]] <= s[p[j]]
        OBVIOUS
      <3>2. i \in 1..k
        BY <3>1, SMT
      <3>3. CASE j = k + 1
        BY <2>2, <2>10, <2>12, <3>3
      <3>4. CASE j \in 1..k
        <4>1. t[r[i]] <= t[r[j]]
          BY <2>9, <3>1, <3>2, <3>4
        <4>2. t[r[i]] = s[p[i]] /\ t[r[j]] = s[p[j]]
          BY <2>10, <3>2, <3>4
        <4>3. QED
          BY <4>1, <4>2
      <3>5. QED
        BY <2>11, <3>3, <3>4
    <2>16. Ordering(p, s, k + 1)
      BY <2>12, <2>13, <2>14, <2>15 DEF Ordering
    <2>17. QED
      BY <2>16
  <1>3. n \in A
    BY <1>1, <1>2, SetInduction
  <1>4. QED
    BY <1>3

\* A sorted list is the list in order: as long, with the same elements.
LEMMA SortedIs ==
    ASSUME NEW ids \in Seq(Nat)
    PROVE  LET s == Input!Sorted(ids) IN
           /\ s \in Seq(Nat) /\ Len(s) = Len(ids) /\ DOMAIN s = DOMAIN ids
           /\ {s[i] : i \in DOMAIN s} = {ids[i] : i \in DOMAIN ids}
           /\ \A i, j \in DOMAIN s : i < j => s[i] <= s[j]
  <1> DEFINE n == Len(ids)
             p == CHOOSE p \in Input!Orders(ids) : TRUE
             s == [i \in DOMAIN ids |-> ids[p[i]]]
  <1>1. n \in Nat /\ DOMAIN ids = 1..n /\ ids \in [1..n -> Nat]
    OBVIOUS
  <1>2. \A q : q \in Input!Orders(ids) <=> Ordering(q, ids, n)
    BY <1>1 DEF Ordering, Input!Orders, Input!Bijection, Input!Injection, Input!Surjection,
       Input!IsInjective
  <1>3. p \in Input!Orders(ids)
    <2>1. \E q : q \in Input!Orders(ids)
      BY <1>1, <1>2, OrderingExists
    <2>2. QED
      BY <2>1
  <1>4. Input!Sorted(ids) = s
    BY DEF Input!Sorted
  <1> HIDE DEF p
  <1>5. /\ p \in [1..n -> 1..n]
        /\ \A k \in 1..n : \E i \in 1..n : p[i] = k
        /\ \A i, j \in 1..n : i < j => ids[p[i]] <= ids[p[j]]
    BY <1>2, <1>3 DEF Ordering
  <1>6. s \in [1..n -> Nat] /\ DOMAIN s = 1..n
    BY <1>1, <1>5
  <1>7. s \in Seq(Nat) /\ Len(s) = n
    BY <1>1, <1>6, SMT
  <1>8. {s[i] : i \in DOMAIN s} = {ids[i] : i \in DOMAIN ids}
    BY <1>1, <1>5, <1>6
  <1>9. \A i, j \in DOMAIN s : i < j => s[i] <= s[j]
    BY <1>1, <1>5, <1>6
  <1> HIDE DEF s
  <1>10. DOMAIN s = DOMAIN ids
    BY <1>1, <1>6
  <1>11. QED
    BY <1>4, <1>7, <1>8, <1>9, <1>10

\* The lists that pass are those asked for, in order, each element once.
LEMMA EntityIdsAre ==
    ASSUME NEW ids \in Seq(Nat), NEW max \in Nat, Input!EntityIds(ids, max) # <<>>
    PROVE  LET s == Input!EntityIds(ids, max)[1] IN
           /\ Input!ToSet(s) = Input!ToSet(ids) /\ Len(s) = Len(ids)
           /\ \A i, j \in DOMAIN s : i < j => s[i] < s[j]
  <1> DEFINE s == Input!Sorted(ids)
             n == Len(ids)
  <1>1. \A i \in 1..n - 1 : s[i] # s[i + 1]
    BY DEF Input!EntityIds
  <1>2. Input!EntityIds(ids, max)[1] = s
    BY DEF Input!EntityIds
  <1>3. /\ s \in Seq(Nat) /\ Len(s) = n /\ DOMAIN s = DOMAIN ids
        /\ {s[i] : i \in DOMAIN s} = {ids[i] : i \in DOMAIN ids}
        /\ \A i, j \in DOMAIN s : i < j => s[i] <= s[j]
    BY SortedIs
  <1> HIDE DEF s
  <1>4. n \in Nat /\ DOMAIN s = 1..n /\ \A i \in 1..n : s[i] \in Nat
    BY <1>3
  <1>5. \A i, j \in DOMAIN s : i < j => s[i] < s[j]
    <2>1. SUFFICES ASSUME NEW i \in 1..n, NEW j \in 1..n, i < j PROVE s[i] < s[j]
      BY <1>4
    <2>2. i \in 1..n - 1 /\ i + 1 \in 1..n /\ i < i + 1 /\ (i + 1 < j \/ i + 1 = j)
      BY <1>4, <2>1, SMT
    <2>3. \A x, y \in 1..n : x < y => s[x] <= s[y]
      BY <1>3, <1>4
    <2>4. s[i] # s[i + 1] /\ s[i] <= s[i + 1]
      BY <1>1, <2>2, <2>3
    <2>5. i + 1 < j => s[i + 1] <= s[j]
      BY <2>2, <2>3
    <2>6. s[i] \in Nat /\ s[i + 1] \in Nat /\ s[j] \in Nat
      BY <1>4, <2>2
    <2>7. QED
      BY <2>2, <2>4, <2>5, <2>6
  <1>6. Input!ToSet(s) = Input!ToSet(ids)
    BY <1>3 DEF Input!ToSet
  <1>7. QED
    BY <1>2, <1>3, <1>5, <1>6

-----------------------------------------------------------------------------
(* Inputs: times and controls *)

\* A duration of at least a second that is not longer than the range in whole seconds.
LEMMA DurationIs ==
    ASSUME NEW T \in Nat \ {0}, T = TicksPerSecond, NEW M \in Nat, NEW d \in Int,
           Input!NumSeconds(d) > 0, Input!NumSeconds(d) <= M
    PROVE  d > 0 /\ d < T * (M + 1)
  <1>1. d >= 0
    <2>1. SUFFICES ASSUME d < 0 PROVE FALSE
      OBVIOUS
    <2>2. -d \in Nat /\ Input!NumSeconds(d) = -((-d) \div T)
      BY <2>1 DEF Input!NumSeconds
    <2>3. (-d) \div T \in Nat
      BY <2>2
    <2>4. QED
      BY <2>2, <2>3
  <1>2. Input!NumSeconds(d) = d \div T
    BY <1>1 DEF Input!NumSeconds
  <1> DEFINE q == d \div T
             r == d % T
  <1>3. q \in Nat /\ r \in 0..T - 1 /\ d = T * q + r
    BY <1>1
  <1>4. q <= M /\ q > 0
    BY <1>2
  <1> HIDE DEF q, r
  <1>5. T * q <= T * M
    BY <1>3, <1>4
  <1>6. d < T * M + T /\ T * M + T = T * (M + 1)
    BY <1>3, <1>5
  <1>7. d > 0
    BY <1>1, <1>2, <1>3, <1>4
  <1>8. QED
    BY <1>6, <1>7

\* Each action has a service of its own.
LEMMA ServiceIsOwn ==
    ASSUME NEW a \in Input!ControlActions, NEW b \in Input!ControlActions,
           Input!Service(a) = Input!Service(b)
    PROVE  a = b
  BY DEF Input!ControlActions, Input!Controls, Input!Service, Input!S

\* The service of an action is one of its domain.
LEMMA ServiceInDomain ==
    ASSUME NEW a \in Input!ControlActions
    PROVE  a \in Input!Controls[Input!Service(a).domain]
  BY DEF Input!ControlActions, Input!Controls, Input!Service, Input!S

-----------------------------------------------------------------------------
(* Inputs: the invariant *)

\* A query is what its action has made of the request.
Made ==
    pc = "validated" =>
        \/ /\ request.kind = "control"
           /\ query = Input!Control(request.action, request.entity, request.parameter)
        \/ request.kind = "entities" /\ query = Input!GetStates(request.ids)
        \/ /\ request.kind = "history"
           /\ query = Input!GetHistory(request.ids, request.start, request.end)
        \/ /\ request.kind = "listing"
           /\ query = Input!Limit(request.action, request.limit, request.wellFormed)
        \/ request.kind = "sections" /\ query = Input!Validation(request.sections)
        \/ request.kind = "named" /\ query = Input!Named(request.input, request.fields)

InputInv == request \in Inputs /\ Made

\* The bounds are numbers, and a second has ticks.
LEMMA BoundsAre ==
    /\ TicksPerSecond \in Nat \ {0} /\ MaxRangeSeconds \in Nat /\ MaxEntities \in Nat
  BY InputsAssumption DEF Input!BoundsAssumption

\* A validated query is what its action, its entities and its times say.
LEMMA InputSafe ==
    ASSUME InputInv, pc = "validated"
    PROVE  /\ Input!ControlIsTheAction /\ Input!EntitiesOnce
           /\ Input!HistoryForward /\ Input!OwnRequestsPass
  <1>1. /\ request.kind = "control" => request.action \in Input!ControlActions
        /\ request.kind \in {"entities", "history"} => request.ids \in Seq(Nat)
        /\ request.kind = "history" => request.start \in Int /\ request.end \in Int
        /\ request.kind = "listing" => request.action \in DOMAIN Input!Limits
    BY InputsAssumption DEF InputInv, Input!SchemaAssumption
  <1>2. CASE /\ request.kind = "control"
             /\ query = Input!Control(request.action, request.entity, request.parameter)
    <2>1. query.kind \in {"control", "invalid_arguments"}
      BY <1>2 DEF Input!Control, Input!Refuse
    <2>2. Input!EntitiesOnce /\ Input!HistoryForward /\ Input!OwnRequestsPass
      BY <1>2, <2>1 DEF Input!EntitiesOnce, Input!HistoryForward, Input!OwnRequestsPass,
         Input!Accepted
    <2>3. ASSUME query.kind = "control"
          PROVE  /\ query.service = Input!Service(request.action)
                 /\ query.entity = request.entity /\ query.data = request.parameter
                 /\ query.entity.domain = query.service.domain
      BY <1>2, <2>3 DEF Input!Control, Input!Refuse
    <2>4. Input!ControlIsTheAction
      BY <1>1, <1>2, <2>3, ServiceIsOwn, ServiceInDomain DEF Input!ControlIsTheAction, Input!Accepted
    <2>5. QED
      BY <2>2, <2>4
  <1>3. CASE request.kind = "entities" /\ query = Input!GetStates(request.ids)
    <2>1. query.kind \in {"entities", "invalid_arguments"}
      BY <1>3 DEF Input!GetStates, Input!Refuse
    <2>2. Input!ControlIsTheAction /\ Input!HistoryForward /\ Input!OwnRequestsPass
      BY <1>3, <2>1 DEF Input!ControlIsTheAction, Input!HistoryForward, Input!OwnRequestsPass,
         Input!Accepted
    <2>3. ASSUME query.kind = "entities"
          PROVE  /\ Input!EntityIds(request.ids, MaxEntities) # <<>>
                 /\ query.ids = Input!EntityIds(request.ids, MaxEntities)[1]
      BY <1>3, <2>3 DEF Input!GetStates, Input!Refuse
    <2>4. Input!EntitiesOnce
      BY <1>1, <1>3, <2>1, <2>3, BoundsAre, EntityIdsAre DEF Input!EntitiesOnce, Input!Accepted
    <2>5. QED
      BY <2>2, <2>4
  <1>4. CASE /\ request.kind = "history"
             /\ query = Input!GetHistory(request.ids, request.start, request.end)
    <2>1. query.kind \in {"history", "invalid_arguments"}
      BY <1>4 DEF Input!GetHistory, Input!Refuse
    <2>2. Input!ControlIsTheAction /\ Input!OwnRequestsPass
      BY <1>4, <2>1 DEF Input!ControlIsTheAction, Input!OwnRequestsPass, Input!Accepted
    <2> DEFINE d == request.end - request.start
    <2>3. ASSUME query.kind = "history"
          PROVE  /\ Input!EntityIds(request.ids, MaxEntities) # <<>>
                 /\ query.ids = Input!EntityIds(request.ids, MaxEntities)[1]
                 /\ query.start = request.start /\ query.end = request.end
                 /\ ~(Input!NumSeconds(d) <= 0) /\ ~(Input!NumSeconds(d) > MaxRangeSeconds)
      BY <1>4, <2>3 DEF Input!GetHistory, Input!Refuse
    <2>4. Input!EntitiesOnce
      BY <1>1, <1>4, <2>1, <2>3, BoundsAre, EntityIdsAre DEF Input!EntitiesOnce, Input!Accepted
    <2>5. Input!HistoryForward
      <3>1. SUFFICES ASSUME query.kind = "history"
                     PROVE  query.end > query.start
                            /\ query.end - query.start < TicksPerSecond * (MaxRangeSeconds + 1)
        BY DEF Input!HistoryForward, Input!Accepted
      <3>2. request.start \in Int /\ request.end \in Int /\ d \in Int
        BY <1>1, <1>4
      <3>3. Input!NumSeconds(d) \in Int
        BY <3>2, BoundsAre DEF Input!NumSeconds
      <3>4. Input!NumSeconds(d) > 0 /\ Input!NumSeconds(d) <= MaxRangeSeconds
        BY <2>3, <3>1, <3>3, BoundsAre
      <3>5. d > 0 /\ d < TicksPerSecond * (MaxRangeSeconds + 1)
        BY <3>2, <3>4, BoundsAre, DurationIs
      <3>6. QED
        BY <2>3, <3>1, <3>2, <3>5
    <2>6. QED
      BY <2>2, <2>4, <2>5
  <1>5. CASE /\ request.kind = "listing"
             /\ query = Input!Limit(request.action, request.limit, request.wellFormed)
    <2>1. query.kind \in {"listing", "invalid_arguments"}
      BY <1>5 DEF Input!Limit, Input!Refuse
    <2>2. Input!ControlIsTheAction /\ Input!EntitiesOnce /\ Input!HistoryForward
      BY <2>1 DEF Input!ControlIsTheAction, Input!EntitiesOnce, Input!HistoryForward,
         Input!Accepted
    <2> DEFINE n == IF request.limit = NotFinite THEN Input!Limits[request.action].default
                    ELSE request.limit
    <2>3. ASSUME request.wellFormed, n \in 1..Input!Limits[request.action].max
          PROVE  Input!Accepted("listing")
      BY <1>5, <2>3 DEF Input!Limit, Input!Accepted
    <2>4. \A a \in DOMAIN Input!Limits :
             /\ Input!Limits[a].default \in 1..Input!Limits[a].max
             /\ a \notin {"traces", "router_discover"} => 100 \in 1..Input!Limits[a].max
             /\ a = "traces" => 50 \in 1..Input!Limits[a].max
      BY DEF Input!Limits, Input!ListEntities, Input!ListDevices, Input!ListMatterDevices,
         Input!ConfigList, Input!BlueprintList, Input!AutomationTraces, Input!DiscoverRouters
    <2>5. Input!OwnRequestsPass
      BY <1>1, <1>5, <2>3, <2>4 DEF Input!OwnRequestsPass
    <2>6. QED
      BY <2>2, <2>5
  <1>6. CASE request.kind = "sections" /\ query = Input!Validation(request.sections)
    <2>1. query.kind \in {"sections", "invalid_arguments"}
      BY <1>6 DEF Input!Validation, Input!Refuse
    <2>2. QED
      BY <1>6, <2>1 DEF Input!ControlIsTheAction, Input!EntitiesOnce, Input!HistoryForward,
         Input!OwnRequestsPass, Input!Accepted
  <1>7. CASE request.kind = "named" /\ query = Input!Named(request.input, request.fields)
    <2>1. query.kind \in {"named", "invalid_arguments"}
      BY <1>7 DEF Input!Named, Input!Refuse
    <2>2. QED
      BY <1>7, <2>1 DEF Input!ControlIsTheAction, Input!EntitiesOnce, Input!HistoryForward,
         Input!OwnRequestsPass, Input!Accepted
  <1>8. QED
    BY <1>2, <1>3, <1>4, <1>5, <1>6, <1>7 DEF InputInv, Made

\* The invariant says that the inputs are true.
LEMMA InputImplies == ASSUME InputInv PROVE InputsAreTrue
  <1>1. CASE pc = "validated"
    BY <1>1, InputSafe DEF InputsAreTrue
  <1>2. CASE pc # "validated"
    BY <1>2 DEF InputsAreTrue, Input!ControlIsTheAction, Input!EntitiesOnce,
       Input!HistoryForward, Input!OwnRequestsPass, Input!Accepted
  <1>3. QED
    BY <1>1, <1>2

\* At the start nothing is asked for.
LEMMA InputInit == ASSUME Input!Init PROVE InputInv
  BY DEF Input!Init, InputInv, Made

\* Every step keeps the invariant.
LEMMA InputNext == ASSUME InputInv, [Input!Next]_(Input!vars) PROVE InputInv'
  <1>1. CASE UNCHANGED Input!vars
    BY <1>1 DEF Input!vars, InputInv, Made
  <1>2. CASE Input!Next
    <2>1. request' = request
      BY <1>2 DEF Input!Next, Input!Validate, Input!Give
    <2>2. Made'
      BY <1>2 DEF Input!Next, Input!Validate, Input!Give, Input!Kind, Made
    <2>3. QED
      BY <2>1, <2>2 DEF InputInv
  <1>3. QED
    BY <1>1, <1>2

\* The inputs are true in every behaviour (InputsAreTrue; controls.rs, states,
\* get_history.rs, mcp.rs).
THEOREM InputsAreSafe == Input!Spec => []InputsAreTrue
  <1>1. InputInv /\ [Input!Next]_(Input!vars) => InputInv'
    BY InputNext
  <1>2. QED
    BY <1>1, InputInit, InputImplies, PTL DEF Input!Spec

-----------------------------------------------------------------------------
(* Surface: names and handlers *)

\* The private tool behind a public tool and a prefix.
ToolOf(name, prefix) ==
    CASE name = "query" /\ prefix = "" -> "home_assistant_query"
      [] name = "query" /\ prefix = "thread" -> "thread_query"
      [] name = "query" /\ prefix = "matter" -> "matter_query"
      [] name = "execute" /\ prefix = "" -> "home_assistant_exec"
      [] name = "execute" /\ prefix = "thread" -> "thread_exec"
      [] name = "execute" /\ prefix = "matter" -> "matter_exec"

\* The handler of a row.
Handler(r) == [tool |-> r.tool, action |-> r.action]

\* Every row of the public tables has a handler of its kind, under the tool and the action
\* that call_tool makes of its public name.
LEMMA RowIs ==
    ASSUME NEW r \in Surface!PublicActions
    PROVE  /\ r.public = <<r.public[1], r.action>>
           /\ r.tool = ToolOf(r.name, r.public[1]) /\ r.tool \in Surface!Tools
           /\ Surface!PrivateAction(r.tool, r.public) = r.action
           /\ \/ r.name = "query" /\ Handler(r) \in Surface!Reads
              \/ r.name = "execute" /\ Handler(r) \in Surface!Commands
  <1>1. ASSUME NEW a \in {"history.get", "automation.validate"},
               r = Surface!Row("home_assistant_query", a, "query", "")
        PROVE  r.name = "query" /\ Handler(r) \in Surface!Reads
    BY <1>1 DEF Surface!Row, Handler, Surface!Reads, Surface!Handlers, Surface!EntityReads,
       Surface!AutomationEvidence
  <1>2. ASSUME NEW a \in {"router.discover", "readiness.get"},
               r = Surface!Row("thread_query", a, "query", "thread")
        PROVE  r.name = "query" /\ Handler(r) \in Surface!Reads
    BY <1>2 DEF Surface!Row, Handler, Surface!Reads, Surface!Handlers, Surface!ThreadReads
  <1>3. ASSUME NEW a \in {"readiness.get", "device.diagnostics", "device.ping"},
               r = Surface!Row("matter_query", a, "query", "matter")
        PROVE  r.name = "query" /\ Handler(r) \in Surface!Reads
    BY <1>3 DEF Surface!Row, Handler, Surface!Reads, Surface!Handlers, Surface!MatterReads
  <1>4. ASSUME NEW a \in Surface!Lifecycle \cup Surface!Controls,
               r = Surface!Row("home_assistant_exec", a, "execute", "")
        PROVE  r.name = "execute" /\ Handler(r) \in Surface!Commands
    BY <1>4 DEF Surface!Row, Handler, Surface!Commands, Surface!Handlers
  <1>5. ASSUME NEW a \in Surface!ThreadCommands,
               r = Surface!Row("thread_exec", a, "execute", "thread")
        PROVE  r.name = "execute" /\ Handler(r) \in Surface!Commands
    BY <1>5 DEF Surface!Row, Handler, Surface!Commands, Surface!Handlers
  <1>6. ASSUME NEW a \in Surface!MatterCommands,
               r = Surface!Row("matter_exec", a, "execute", "matter")
        PROVE  r.name = "execute" /\ Handler(r) \in Surface!Commands
    BY <1>6 DEF Surface!Row, Handler, Surface!Commands, Surface!Handlers
  <1>7. \/ r.name = "query" /\ Handler(r) \in Surface!Reads
        \/ r.name = "execute" /\ Handler(r) \in Surface!Commands
    BY <1>1, <1>2, <1>3, <1>4, <1>5, <1>6 DEF Surface!PublicActions, Surface!QueryRows,
       Surface!ExecuteRows
  <1>8. PICK tool, a, name, prefix :
           /\ r = [tool |-> tool, action |-> a, name |-> name, public |-> <<prefix, a>>]
           /\ <<tool, name, prefix>> \in
                 {<<"home_assistant_query", "query", "">>, <<"thread_query", "query", "thread">>,
                  <<"matter_query", "query", "matter">>, <<"home_assistant_exec", "execute", "">>,
                  <<"thread_exec", "execute", "thread">>, <<"matter_exec", "execute", "matter">>}
    BY DEF Surface!PublicActions, Surface!QueryRows, Surface!ExecuteRows, Surface!Row
  <1>9. r.public = <<prefix, a>> /\ r.public[1] = prefix /\ r.public[2] = a /\ r.action = a
        /\ r.tool = tool /\ r.name = name
    BY <1>8
  <1>10. tool = ToolOf(name, prefix) /\ tool \in Surface!Tools
    BY <1>8 DEF ToolOf, Surface!Tools
  <1>11. Surface!PrivateAction(tool, r.public) = a
    BY <1>8, <1>9 DEF Surface!PrivateAction
  <1>12. QED
    BY <1>7, <1>9, <1>10, <1>11

\* The rows of a public name.
RowsOf(name, public) == {r \in Surface!PublicActions : r.name = name /\ r.public = public}

\* call_tool finds the handlers of the rows of the name it was given.
LEMMA DispatchIs ==
    ASSUME NEW name, NEW public
    PROVE  Surface!Dispatch(name, public) = {Handler(r) : r \in RowsOf(name, public)}
  <1>1. ASSUME NEW h \in Surface!Dispatch(name, public)
        PROVE  h \in {Handler(r) : r \in RowsOf(name, public)}
    <2>1. PICK t \in Surface!Tools, r \in Surface!PublicActions :
             /\ h = [tool |-> t, action |-> Surface!PrivateAction(t, public)]
             /\ r.tool = t /\ r.action = Surface!PrivateAction(t, public)
             /\ r.name = name /\ r.public = public
      BY <1>1 DEF Surface!Dispatch, Surface!PublicAction
    <2>2. QED
      BY <2>1 DEF Handler, RowsOf
  <1>2. ASSUME NEW r \in RowsOf(name, public)
        PROVE  Handler(r) \in Surface!Dispatch(name, public)
    <2>1. /\ r \in Surface!PublicActions /\ r.name = name /\ r.public = public
          /\ r.tool \in Surface!Tools /\ Surface!PrivateAction(r.tool, public) = r.action
      BY <1>2, RowIs DEF RowsOf
    <2>2. QED
      BY <2>1 DEF Surface!Dispatch, Surface!PublicAction, Handler
  <1>3. QED
    BY <1>1, <1>2

\* One row, so one handler.
LEMMA OneRow ==
    ASSUME NEW name, NEW public, NEW r \in RowsOf(name, public), NEW s \in RowsOf(name, public)
    PROVE  Handler(r) = Handler(s)
  <1>1. /\ r.tool = ToolOf(name, public[1]) /\ s.tool = ToolOf(name, public[1])
        /\ public = <<public[1], r.action>> /\ public = <<public[1], s.action>>
    BY RowIs DEF RowsOf
  <1>2. r.action = public[2] /\ s.action = public[2]
    BY <1>1
  <1>3. QED
    BY <1>1, <1>2 DEF Handler

\* What is announced has a row.
LEMMA AnnouncedIs ==
    ASSUME NEW name, NEW public
    PROVE  public \in Surface!Announced(name) <=> RowsOf(name, public) # {}
  <1>1. ASSUME NEW r \in RowsOf(name, public)
        PROVE  public \in Surface!Announced(name)
    <2>1. r \in Surface!PublicActions /\ r.name = name /\ r.public = public
      BY DEF RowsOf
    <2>2. Handler(r) \in Surface!AllHandlers
      BY <2>1, RowIs DEF Surface!AllHandlers
    <2>3. Handler(r).tool = r.tool /\ Handler(r).action = r.action
      BY DEF Handler
    <2>4. r \in Surface!PublicAction(Handler(r).tool, Handler(r).action)
      BY <2>1, <2>3 DEF Surface!PublicAction
    <2>5. QED
      BY <2>1, <2>2, <2>4 DEF Surface!Announced
  <1>2. ASSUME public \in Surface!Announced(name)
        PROVE  RowsOf(name, public) # {}
    BY <1>2 DEF Surface!Announced, Surface!PublicAction, RowsOf
  <1>3. QED
    BY <1>1, <1>2

\* Every call that is dispatched has one handler, a command for execute and a read for
\* all other names.
LEMMA DispatchIsTrue ==
    ASSUME NEW name, NEW public
    PROVE  LET found == Surface!Dispatch(name, public) IN
           /\ found \subseteq Surface!AllHandlers /\ Cardinality(found) <= 1
           /\ (found # {}) = (public \in Surface!Announced(name))
           /\ found \subseteq IF name = "execute" THEN Surface!Commands ELSE Surface!Reads
  <1> DEFINE found == Surface!Dispatch(name, public)
  <1>1. found = {Handler(r) : r \in RowsOf(name, public)}
    BY DispatchIs
  <1> HIDE DEF found
  <1>2. found \subseteq IF name = "execute" THEN Surface!Commands ELSE Surface!Reads
    BY <1>1, RowIs DEF RowsOf
  <1>3. found \subseteq Surface!AllHandlers
    BY <1>2 DEF Surface!AllHandlers
  <1>4. (found # {}) = (public \in Surface!Announced(name))
    BY <1>1, AnnouncedIs
  <1>5. Cardinality(found) <= 1
    <2>1. CASE found = {}
      BY <2>1, FS_EmptySet
    <2>2. CASE found # {}
      <3>1. PICK h : h \in found
        BY <2>2
      <3>2. found = {h}
        BY <1>1, <3>1, OneRow
      <3>3. QED
        BY <3>2, FS_Singleton
    <2>3. QED
      BY <2>1, <2>2
  <1>6. QED
    BY <1>2, <1>3, <1>4, <1>5 DEF found

\* No handler is of two kinds.
LEMMA KindsApart ==
    /\ Surface!Reads \cap Surface!Writers = {}
    /\ Surface!Commands \cap Surface!Writers = {}
  <1>1. Surface!Reads \cap Surface!Writers = {}
    BY DEF Surface!Reads, Surface!Writers, Surface!Handlers
  <1>2. ASSUME NEW a \in Surface!Lifecycle \cup Surface!Controls
        PROVE  a \notin Surface!BlueprintWrites \cup Surface!ConfigWrites
    BY DEF Surface!Lifecycle, Surface!Controls, Surface!BlueprintWrites, Surface!ConfigWrites,
       Surface!SceneLightSwitch, Surface!FanCover, Surface!ClimateMedia, Surface!LocksAndTrigger
  <1>3. Surface!Commands \cap Surface!Writers = {}
    BY <1>2 DEF Surface!Commands, Surface!Writers, Surface!Handlers
  <1>4. QED
    BY <1>1, <1>3

\* What a URI reads is read.
LEMMA ResourcesAreReads ==
    /\ Surface!AuthoringReads \subseteq Surface!Reads
    /\ \A c \in DOMAIN Surface!ResourceCatalogs : Surface!ResourceCatalogs[c] \in Surface!Reads
    /\ \A c \in DOMAIN Surface!ResourceCatalogs \cup {"states", "cameras", "traces"} :
          Surface!ItemReads(c) \subseteq Surface!Reads
  <1>1. Surface!AuthoringReads \subseteq Surface!Reads
    BY DEF Surface!AuthoringReads, Surface!Reads, Surface!Handlers, Surface!ConfigReads,
       Surface!BlueprintReads
  <1>2. \A c \in DOMAIN Surface!ResourceCatalogs : Surface!ResourceCatalogs[c] \in Surface!Reads
    BY DEF Surface!ResourceCatalogs, Surface!Reads, Surface!Handlers, Surface!ConfigReads,
       Surface!BlueprintReads, Surface!EntityReads, Surface!ThreadReads, Surface!MatterReads
  <1>3. Surface!Handlers("home_assistant_query",
                         {"state.get", "camera.snapshot", "automation.traces"})
           \subseteq Surface!Reads
    BY DEF Surface!Reads, Surface!Handlers, Surface!EntityReads, Surface!AutomationEvidence
  <1>4. ASSUME NEW c \in DOMAIN Surface!ResourceCatalogs \cup {"states", "cameras", "traces"}
        PROVE  Surface!ItemReads(c) \subseteq Surface!Reads
    <2>1. "automations" \in DOMAIN Surface!ResourceCatalogs
      BY DEF Surface!ResourceCatalogs
    <2>2. CASE c \in {"entities", "states", "cameras", "traces"}
      BY <1>2, <1>3, <2>1, <2>2 DEF Surface!ItemReads, Surface!Handlers
    <2>3. CASE c \in {"scenes", "automations", "blueprints"}
      BY <1>1, <2>3 DEF Surface!ItemReads
    <2>4. CASE c \notin {"entities", "states", "cameras", "traces",
                          "scenes", "automations", "blueprints"}
      BY <1>2, <2>4 DEF Surface!ItemReads
    <2>5. QED
      BY <2>2, <2>3, <2>4
  <1>5. QED
    BY <1>1, <1>2, <1>4

-----------------------------------------------------------------------------
(* Surface: the invariant *)

\* Only what was dispatched has been started for a tool call, and only reads for anything
\* else; nothing is refused as unknown that has a handler.
SurfaceInv ==
    /\ request \in Surface!Requests
    /\ started \subseteq IF request.kind = "tool" /\ request.name = "execute"
                          THEN Surface!Commands ELSE Surface!Reads
    /\ phase = "running" \/ phase = "received" => answer = "none"
    /\ request.kind = "tool" /\ phase = "answered" /\ answer = "invalid_params"
          => Surface!Dispatch(request.name, request.action) = {}

\* The invariant says that the surface is true.
LEMMA SurfaceImplies == ASSUME SurfaceInv PROVE SurfaceIsTrue
  <1>1. Surface!HintsAreTrue
    BY DEF SurfaceInv, Surface!HintsAreTrue
  <1>2. Surface!WritersArePrivate
    BY KindsApart DEF SurfaceInv, Surface!WritersArePrivate
  <1>3. Surface!AnnouncedIsServed
    <2> DEFINE found == Surface!Dispatch(request.name, request.action)
    <2>1. /\ found \subseteq Surface!AllHandlers /\ Cardinality(found) <= 1
          /\ (found # {}) = (request.action \in Surface!Announced(request.name))
      BY DispatchIsTrue
    <2>2. request.kind = "tool" /\ phase = "answered" /\ answer = "invalid_params" => found = {}
      BY DEF SurfaceInv
    <2> HIDE DEF found
    <2>3. QED
      BY <2>1, <2>2 DEF found, Surface!AnnouncedIsServed, Surface!Cardinality, Cardinality
  <1>4. QED
    BY <1>1, <1>2, <1>3 DEF SurfaceIsTrue

\* At the start nothing has been started.
LEMMA SurfaceInit == ASSUME Surface!Init PROVE SurfaceInv
  BY DEF Surface!Init, SurfaceInv

\* Every step keeps the invariant.
LEMMA SurfaceNext == ASSUME SurfaceInv, [Surface!Next]_(Surface!vars) PROVE SurfaceInv'
  <1>1. CASE UNCHANGED Surface!vars
    BY <1>1 DEF Surface!vars, SurfaceInv
  <1>2. CASE Surface!CallTool
    <2> DEFINE found == Surface!Dispatch(request.name, request.action)
    <2>1. request' = request /\ request.kind = "tool" /\ phase = "received"
      BY <1>2 DEF Surface!CallTool
    <2>2. found \subseteq IF request.name = "execute" THEN Surface!Commands ELSE Surface!Reads
      BY DispatchIsTrue
    <2>3. CASE found = {}
      BY <1>2, <2>1, <2>3 DEF Surface!CallTool, Surface!Answered, SurfaceInv
    <2>4. CASE found # {}
      <3>1. handler' \in found /\ started' \subseteq started \cup {handler'}
        BY <1>2, <2>4 DEF Surface!CallTool, Surface!Answered
      <3>2. \/ phase' = "running" /\ answer' = answer
            \/ phase' = "answered" /\ answer' = "invalid_arguments"
        BY <1>2, <2>4 DEF Surface!CallTool, Surface!Answered
      <3> HIDE DEF found
      <3>3. QED
        BY <2>1, <2>2, <3>1, <3>2 DEF SurfaceInv
    <2>5. QED
      BY <2>3, <2>4
  <1>3. CASE Surface!Author
    BY <1>3, ResourcesAreReads DEF Surface!Author, Surface!Answered, SurfaceInv
  <1>4. CASE Surface!ReadResource
    <2>1. started' \subseteq started \cup Surface!Reads
      <3>1. CASE request.kind = "catalog"
        <4>1. request.catalog \in DOMAIN Surface!ResourceCatalogs
          BY <3>1 DEF SurfaceInv, Surface!Requests
        <4>2. QED
          BY <1>4, <3>1, <4>1, ResourcesAreReads DEF Surface!ReadResource
      <3>2. CASE request.kind = "item"
        <4>1. request.catalog \in DOMAIN Surface!ResourceCatalogs
                                     \cup {"states", "cameras", "traces"}
          BY <3>2 DEF SurfaceInv, Surface!Requests
        <4>2. QED
          BY <1>4, <3>2, <4>1, ResourcesAreReads DEF Surface!ReadResource
      <3>3. QED
        BY <1>4, <3>1, <3>2 DEF Surface!ReadResource
    <2>2. QED
      BY <1>4, <2>1 DEF Surface!ReadResource, SurfaceInv
  <1>5. CASE Surface!Complete
    BY <1>5 DEF Surface!Complete, Surface!Answered, SurfaceInv
  <1>6. CASE Surface!Cancelled
    BY <1>6 DEF Surface!Cancelled, Surface!Answered, SurfaceInv
  <1>7. QED
    BY <1>1, <1>2, <1>3, <1>4, <1>5, <1>6 DEF Surface!Next

\* The surface is true in every behaviour (SurfaceIsTrue; list_tools, call_tool,
\* read_resource).
THEOREM SurfaceIsSafe == Surface!Spec => []SurfaceIsTrue
  <1>1. SurfaceInv /\ [Surface!Next]_(Surface!vars) => SurfaceInv'
    BY SurfaceNext
  <1>2. QED
    BY <1>1, SurfaceInit, SurfaceImplies, PTL DEF Surface!Spec

-----------------------------------------------------------------------------
(* URIs: tokens and places *)

Catalogs == Uri!PlainCatalogs \cup Uri!NestedCatalogs

\* What can stand before the identifier in the URI of an item.
Places ==
    {Uri!CatalogPath(c) : c \in Catalogs} \cup {<<Uri!Raw("states")>>, <<Uri!Raw("cameras")>>}

\* The escaped bytes of an identifier, and what goes after them.
Encoded(id) ==
    [i \in DOMAIN id |-> IF id[i] \in Uri!Plain THEN Uri!Raw(id[i]) ELSE Uri!Upper(id[i])]
Ending(traces) == IF traces THEN <<Uri!Slash, Uri!Raw("traces")>> ELSE <<>>

\* Tokens tell their bytes and how they are written.
LEMMA TokensAre ==
    /\ \A a, b : Uri!Raw(a) = Uri!Raw(b) => a = b
    /\ \A a, b : Uri!Raw(a) # Uri!Upper(b)
    /\ \A b \in Uri!Bytes \cup Uri!Words : Uri!Raw(b) \in Uri!Tokens /\ Uri!Upper(b) \in Uri!Tokens
    /\ \A b : Uri!Raw(b).byte = b /\ Uri!Upper(b).byte = b
    /\ \A b : Uri!Raw(b).how = "raw" /\ Uri!Upper(b).how = "upper"
    /\ Uri!Slash = Uri!Raw("/") /\ Uri!Slash \in Uri!Tokens
    /\ "/" \notin Uri!Plain
  <1>1. \A a, b : Uri!Raw(a) = Uri!Raw(b) => a = b
    BY DEF Uri!Raw
  <1>2. \A a, b : Uri!Raw(a) # Uri!Upper(b)
    BY DEF Uri!Raw, Uri!Upper
  <1>3. \A b \in Uri!Bytes \cup Uri!Words : Uri!Raw(b) \in Uri!Tokens /\ Uri!Upper(b) \in Uri!Tokens
    BY DEF Uri!Raw, Uri!Upper, Uri!Tokens
  <1>4. \A b : Uri!Raw(b).byte = b /\ Uri!Upper(b).byte = b
    BY DEF Uri!Raw, Uri!Upper
  <1>5. \A b : Uri!Raw(b).how = "raw" /\ Uri!Upper(b).how = "upper"
    BY DEF Uri!Raw, Uri!Upper
  <1>6. Uri!Slash = Uri!Raw("/") /\ Uri!Slash \in Uri!Tokens
    BY <1>3 DEF Uri!Slash, Uri!Bytes, Uri!Reserved
  <1>7. "/" \notin Uri!Plain
    BY DEF Uri!Plain
  <1>8. QED
    BY <1>1, <1>2, <1>3, <1>4, <1>5, <1>6, <1>7

\* A place is one word, or for what is nested two, and its first word tells it.
LEMMA PlacesAre ==
    /\ \A w \in Places :
          /\ w \in Seq(Uri!Tokens)
          /\ \/ /\ w = <<w[1]>> /\ Len(w) = 1
                /\ w[1] # Uri!Raw("thread") /\ w[1] # Uri!Raw("matter")
                /\ \A c \in Uri!NestedCatalogs : w # Uri!CatalogPath(c)
             \/ /\ w = <<w[1], Uri!Slash, w[3]>> /\ Len(w) = 3
                /\ \E c \in Uri!NestedCatalogs : w = Uri!CatalogPath(c)
          /\ w[1] # Uri!Slash
    /\ \A v, w \in Places : v[1] = w[1] => v = w
  <1>1. Catalogs = {"entities", "devices", "scenes", "automations", "blueprints",
                    "thread_networks", "matter_devices"}
        /\ Uri!NestedCatalogs = {"thread_networks", "matter_devices"}
    BY DEF Catalogs, Uri!PlainCatalogs, Uri!NestedCatalogs, Uri!Nested
  <1>2. /\ Uri!CatalogPath("thread_networks") = <<Uri!Raw("thread"), Uri!Slash, Uri!Raw("networks")>>
        /\ Uri!CatalogPath("matter_devices") = <<Uri!Raw("matter"), Uri!Slash, Uri!Raw("devices")>>
        /\ \A c \in {"entities", "devices", "scenes", "automations", "blueprints"} :
              Uri!CatalogPath(c) = <<Uri!Raw(c)>>
    BY <1>1 DEF Uri!CatalogPath, Uri!Nested
  <1> DEFINE Words == {"entities", "devices", "scenes", "automations", "blueprints", "states",
                       "cameras"}
  <1>3. \A w \in Places :
           \/ \E b \in Words : w = <<Uri!Raw(b)>>
           \/ /\ w = <<Uri!Raw("thread"), Uri!Slash, Uri!Raw("networks")>>
              /\ w = Uri!CatalogPath("thread_networks")
           \/ /\ w = <<Uri!Raw("matter"), Uri!Slash, Uri!Raw("devices")>>
              /\ w = Uri!CatalogPath("matter_devices")
    BY <1>1, <1>2 DEF Places
  <1>4. \A b \in Words \cup {"thread", "matter", "networks", "devices"} :
           Uri!Raw(b) \in Uri!Tokens /\ Uri!Raw(b) # Uri!Slash
    <2>1. \A b \in Words \cup {"thread", "matter", "networks", "devices"} : b \in Uri!Bytes \cup Uri!Words /\ b # "/"
      BY DEF Uri!Bytes, Uri!Plain, Uri!Words, Uri!PlainCatalogs
    <2>2. QED
      BY <2>1, TokensAre
  <1>5. \A a, b : Uri!Raw(a) = Uri!Raw(b) => a = b
    BY TokensAre
  <1>6. ASSUME NEW w \in Places
        PROVE  /\ w \in Seq(Uri!Tokens)
               /\ \/ /\ w = <<w[1]>> /\ Len(w) = 1
                     /\ w[1] # Uri!Raw("thread") /\ w[1] # Uri!Raw("matter")
                     /\ \A c \in Uri!NestedCatalogs : w # Uri!CatalogPath(c)
                  \/ /\ w = <<w[1], Uri!Slash, w[3]>> /\ Len(w) = 3
                     /\ \E c \in Uri!NestedCatalogs : w = Uri!CatalogPath(c)
               /\ w[1] # Uri!Slash
    <2>1. CASE \E b \in Words : w = <<Uri!Raw(b)>>
      <3>1. PICK b \in Words : w = <<Uri!Raw(b)>>
        BY <2>1
      <3>2. w[1] = Uri!Raw(b) /\ Len(w) = 1 /\ w = <<w[1]>>
        BY <3>1
      <3>3. w \in Seq(Uri!Tokens) /\ w[1] # Uri!Slash
        BY <1>4, <3>1, <3>2
      <3>4. w[1] # Uri!Raw("thread") /\ w[1] # Uri!Raw("matter")
        BY <1>5, <3>2
      <3>5. \A c \in Uri!NestedCatalogs : w # Uri!CatalogPath(c)
        BY <1>1, <1>2, <3>1, <3>2
      <3>6. QED
        BY <3>2, <3>3, <3>4, <3>5
    <2>2. CASE /\ w = <<Uri!Raw("thread"), Uri!Slash, Uri!Raw("networks")>>
               /\ w = Uri!CatalogPath("thread_networks")
      <3>1. w[1] = Uri!Raw("thread") /\ Len(w) = 3 /\ w = <<w[1], Uri!Slash, w[3]>>
        BY <2>2
      <3>2. w \in Seq(Uri!Tokens)
        BY <1>4, <2>2, TokensAre
      <3>3. QED
        BY <1>1, <1>4, <2>2, <3>1, <3>2
    <2>3. CASE /\ w = <<Uri!Raw("matter"), Uri!Slash, Uri!Raw("devices")>>
               /\ w = Uri!CatalogPath("matter_devices")
      <3>1. w[1] = Uri!Raw("matter") /\ Len(w) = 3 /\ w = <<w[1], Uri!Slash, w[3]>>
        BY <2>3
      <3>2. w \in Seq(Uri!Tokens)
        BY <1>4, <2>3, TokensAre
      <3>3. QED
        BY <1>1, <1>4, <2>3, <3>1, <3>2
    <2>4. QED
      BY <1>3, <2>1, <2>2, <2>3
  <1>7. ASSUME NEW v \in Places, NEW w \in Places, v[1] = w[1]
        PROVE  v = w
    BY <1>3, <1>5, <1>7
  <1>8. QED
    BY <1>6, <1>7

\* What an identifier looks like in a URI.
LEMMA EncodedIs ==
    ASSUME NEW id \in Seq(Uri!Bytes \cup Uri!Words)
    PROVE  /\ Encoded(id) \in Seq(Uri!Tokens) /\ Len(Encoded(id)) = Len(id)
           /\ \A i \in 1..Len(id) :
                 /\ Encoded(id)[i].byte = id[i] /\ Encoded(id)[i] # Uri!Slash
                 /\ Encoded(id)[i].how # "broken"
  <1> DEFINE e == Encoded(id)
  <1>1. DOMAIN e = 1..Len(id) /\ Len(id) \in Nat
    BY DEF Encoded
  <1>2. ASSUME NEW i \in 1..Len(id)
        PROVE  /\ e[i] \in Uri!Tokens /\ e[i].byte = id[i] /\ e[i] # Uri!Slash
               /\ e[i].how # "broken"
    <2>1. id[i] \in Uri!Bytes \cup Uri!Words /\ i \in DOMAIN id
      OBVIOUS
    <2>2. CASE id[i] \in Uri!Plain
      <3>1. e[i] = Uri!Raw(id[i])
        BY <2>1, <2>2 DEF Encoded
      <3>2. QED
        BY <2>1, <2>2, <3>1, TokensAre
    <2>3. CASE id[i] \notin Uri!Plain
      <3>1. e[i] = Uri!Upper(id[i])
        BY <2>1, <2>3 DEF Encoded
      <3>2. QED
        BY <2>1, <2>3, <3>1, TokensAre
    <2>4. QED
      BY <2>2, <2>3
  <1>3. e = [i \in 1..Len(id) |-> e[i]]
    BY DEF Encoded
  <1> HIDE DEF e
  <1>4. e \in Seq(Uri!Tokens) /\ Len(e) = Len(id)
    <2>1. e \in [1..Len(id) -> Uri!Tokens]
      BY <1>2, <1>3
    <2>2. QED
      BY <1>1, <2>1
  <1>5. QED
    BY <1>2, <1>4 DEF e

\* Identifiers that look the same are the same.
LEMMA EncodedOnce ==
    ASSUME NEW id \in Seq(Uri!Bytes \cup Uri!Words), NEW other \in Seq(Uri!Bytes \cup Uri!Words), Encoded(id) = Encoded(other)
    PROVE  id = other
  <1>1. Len(id) = Len(other)
    BY EncodedIs
  <1>2. \A i \in 1..Len(id) : id[i] = other[i]
    BY <1>1, EncodedIs
  <1>3. QED
    BY <1>1, <1>2

-----------------------------------------------------------------------------
(* URIs: joining and splitting *)

\* A pair is what its two elements are.
LEMMA PairOfTokens ==
    ASSUME NEW a \in Uri!Tokens, NEW b \in Uri!Tokens, NEW s \in Seq(Uri!Tokens)
    PROVE  s = <<a, b>> <=> Len(s) = 2 /\ s[1] = a /\ s[2] = b
  OBVIOUS

\* A slash after a place.
LEMMA SlashedIs ==
    ASSUME NEW v \in Seq(Uri!Tokens)
    PROVE  /\ v \o <<Uri!Slash>> \in Seq(Uri!Tokens) /\ Len(v \o <<Uri!Slash>>) = Len(v) + 1
           /\ \A i \in 1..Len(v) : (v \o <<Uri!Slash>>)[i] = v[i]
           /\ (v \o <<Uri!Slash>>)[Len(v) + 1] = Uri!Slash
  BY TokensAre

\* The words that the parser looks for are tokens.
LEMMA WordsAreTokens ==
    /\ Uri!Raw("automations") \in Uri!Tokens /\ Uri!Raw("traces") \in Uri!Tokens
    /\ Uri!Slash \in Uri!Tokens
  BY TokensAre DEF Uri!Bytes, Uri!Plain, Uri!Words, Uri!PlainCatalogs

\* The parts of a URI.
LEMMA JoinedIs ==
    ASSUME NEW w \in Places, NEW e \in Seq(Uri!Tokens)
    PROVE  LET p == w \o <<Uri!Slash>> \o e IN
           /\ p \in Seq(Uri!Tokens) /\ Len(p) = Len(w) + 1 + Len(e)
           /\ \A i \in 1..Len(w) : p[i] = w[i]
           /\ p[Len(w) + 1] = Uri!Slash
           /\ \A i \in 1..Len(e) : p[Len(w) + 1 + i] = e[i]
           /\ SubSeq(p, 1, Len(w)) = w
           /\ SubSeq(p, Len(w) + 2, Len(p)) = e
  <1> DEFINE v == w \o <<Uri!Slash>>
             p == v \o e
  <1>1. w \in Seq(Uri!Tokens) /\ Uri!Slash \in Uri!Tokens /\ Len(w) \in Nat /\ Len(e) \in Nat
    BY PlacesAre, TokensAre
  <1>2. /\ v \in Seq(Uri!Tokens) /\ Len(v) = Len(w) + 1
        /\ \A i \in 1..Len(w) : v[i] = w[i]
        /\ v[Len(w) + 1] = Uri!Slash
    BY <1>1
  <1> HIDE DEF v
  <1>3. /\ p \in Seq(Uri!Tokens) /\ Len(p) = Len(w) + 1 + Len(e)
        /\ \A i \in 1..Len(v) : p[i] = v[i]
        /\ \A i \in 1..Len(e) : p[Len(v) + i] = e[i]
    BY <1>1, <1>2
  <1> HIDE DEF p
  <1>4. /\ \A i \in 1..Len(w) : p[i] = w[i]
        /\ p[Len(w) + 1] = Uri!Slash
        /\ \A i \in 1..Len(e) : p[Len(w) + 1 + i] = e[i]
    BY <1>1, <1>2, <1>3
  <1>5. SubSeq(p, 1, Len(w)) = w
    BY <1>1, <1>3, <1>4
  <1>6. SubSeq(p, Len(w) + 2, Len(p)) = e
    BY <1>1, <1>3, <1>4
  <1>7. QED
    BY <1>3, <1>4, <1>5, <1>6 DEF p, v

Piece(w, e, traces) == [catalog |-> w, encoded |-> e, traces |-> traces]

\* The URI of an item is split where it was joined.
LEMMA SplitItem ==
    ASSUME NEW w \in Places, NEW e \in Seq(Uri!Tokens), Len(e) >= 1,
           \A i \in 1..Len(e) : e[i] # Uri!Slash
    PROVE  Uri!Split(w \o <<Uri!Slash>> \o e) = {Piece(w, e, FALSE)}
  <1> DEFINE p == w \o <<Uri!Slash>> \o e
             L == Len(p)
             automations == <<Uri!Raw("automations"), Uri!Slash>>
             nested == {c \in Uri!NestedCatalogs :
                           Uri!StartsWith(p, Uri!CatalogPath(c) \o <<Uri!Slash>>)}
             slashes == {i \in DOMAIN p : p[i] = Uri!Slash}
  <1>1. /\ p \in Seq(Uri!Tokens) /\ Len(p) = Len(w) + 1 + Len(e)
        /\ \A i \in 1..Len(w) : p[i] = w[i]
        /\ p[Len(w) + 1] = Uri!Slash
        /\ \A i \in 1..Len(e) : p[Len(w) + 1 + i] = e[i]
        /\ SubSeq(p, 1, Len(w)) = w
        /\ SubSeq(p, Len(w) + 2, Len(p)) = e
    BY JoinedIs
  <1>2. Len(w) \in {1, 3} /\ Len(e) \in Nat
    BY PlacesAre
  <1>3. ~(/\ Len(p) >= 4 /\ SubSeq(p, 1, 2) = automations
          /\ SubSeq(p, Len(p) - 1, Len(p)) = <<Uri!Slash, Uri!Raw("traces")>>)
    <2> HIDE DEF p
    <2>1. SUFFICES ASSUME Len(p) >= 4, SubSeq(p, 1, 2) = automations,
                          SubSeq(p, Len(p) - 1, Len(p)) = <<Uri!Slash, Uri!Raw("traces")>>
                   PROVE  FALSE
      OBVIOUS
    <2>2. p[1] = Uri!Raw("automations")
      <3>1. SubSeq(p, 1, 2)[1] = p[1] /\ SubSeq(p, 1, 2) \in Seq(Uri!Tokens)
        BY <1>1, <2>1
      <3>2. SubSeq(p, 1, 2)[1] = Uri!Raw("automations")
        BY <2>1, <3>1, PairOfTokens, WordsAreTokens
      <3>3. QED
        BY <3>1, <3>2, Zenon
    <2>3. p[Len(p) - 1] = Uri!Slash
      <3> DEFINE s == SubSeq(p, Len(p) - 1, Len(p))
      <3>1. s[1] = p[Len(p) - 1] /\ s \in Seq(Uri!Tokens)
        BY <1>1, <2>1
      <3>2. s = <<Uri!Slash, Uri!Raw("traces")>>
        BY <2>1
      <3> HIDE DEF s
      <3>3. QED
        BY <3>1, <3>2, PairOfTokens, WordsAreTokens
    <2>4. w[1] = Uri!Raw("automations")
      BY <1>1, <1>2, <2>2
    <2>5. Len(w) = 1
      <3>1. <<Uri!Raw("automations")>> \in Places
        BY DEF Places, Catalogs, Uri!PlainCatalogs, Uri!CatalogPath, Uri!NestedCatalogs, Uri!Nested
      <3>2. w = <<Uri!Raw("automations")>>
        BY <2>4, <3>1, PlacesAre
      <3>3. QED
        BY <3>2
    <2>6. Len(e) >= 2 /\ Len(e) - 1 \in 1..Len(e) /\ Len(w) + 1 + (Len(e) - 1) = Len(p) - 1
      BY <1>1, <1>2, <2>1, <2>5
    <2>7. p[Len(p) - 1] = e[Len(e) - 1]
      BY <1>1, <2>6
    <2>8. QED
      BY <2>3, <2>6, <2>7
  <1>4. Uri!Split(p) = IF nested # {}
          THEN {Piece(Uri!CatalogPath(c), Uri!After(p, Uri!CatalogPath(c) \o <<Uri!Slash>>), FALSE) :
                   c \in nested}
          ELSE {Piece(SubSeq(p, 1, i - 1), SubSeq(p, i + 1, Len(p)), FALSE) :
                   i \in {j \in slashes : \A k \in slashes : j <= k}}
    BY <1>3 DEF Uri!Split, Piece
  <1> HIDE DEF p
  <1>5. ASSUME NEW c \in Uri!NestedCatalogs
        PROVE  c \in nested <=> w = Uri!CatalogPath(c)
    <2> DEFINE v == Uri!CatalogPath(c)
               x == v \o <<Uri!Slash>>
    <2>0. (c \in nested <=> Uri!StartsWith(p, x))
      OBVIOUS
    <2>1. v \in Places
      BY DEF Places, Catalogs
    <2>2. v \in Seq(Uri!Tokens) /\ Len(v) = 3 /\ Uri!Slash \in Uri!Tokens
      BY <2>1, PlacesAre, TokensAre
    <2> HIDE DEF v
    <2>3. /\ x \in Seq(Uri!Tokens) /\ Len(x) = 4 /\ x[4] = Uri!Slash
          /\ x[1] = v[1] /\ x[2] = v[2] /\ x[3] = v[3]
      <3>1. /\ x \in Seq(Uri!Tokens) /\ Len(x) = Len(v) + 1 /\ x[Len(v) + 1] = Uri!Slash
            /\ \A i \in 1..Len(v) : x[i] = v[i]
        BY <2>2, SlashedIs
      <3> HIDE DEF x
      <3>2. QED
        BY <2>2, <3>1
    <2> HIDE DEF x
    <2>4. ASSUME Uri!StartsWith(p, x)
          PROVE  w = v
      <3>1. Len(p) > 4 /\ SubSeq(p, 1, 4) = x
        BY <2>3, <2>4 DEF Uri!StartsWith
      <3>2. SubSeq(p, 1, 4)[1] = p[1]
        BY <1>1, <3>1
      <3>3. w[1] = v[1]
        BY <1>1, <1>2, <2>3, <3>1, <3>2
      <3>4. QED
        BY <2>1, <3>3, PlacesAre
    <2>5. ASSUME w = v
          PROVE  Uri!StartsWith(p, x)
      <3>1. Len(p) > 4 /\ Len(w) = 3
        <4>1. Len(w) = 3
          BY <2>2, <2>5
        <4>2. QED
          BY <1>1, <1>2, <4>1
      <3>2. SubSeq(p, 1, 4) \in Seq(Uri!Tokens) /\ Len(SubSeq(p, 1, 4)) = 4
        BY <1>1, <3>1
      <3>3. \A i \in 1..4 : SubSeq(p, 1, 4)[i] = p[i]
        BY <1>1, <3>1
      <3>4. \A i \in 1..4 : p[i] = x[i]
        <4>1. p[1] = w[1] /\ p[2] = w[2] /\ p[3] = w[3] /\ p[4] = Uri!Slash
          BY <1>1, <3>1
        <4>2. QED
          BY <2>3, <2>5, <4>1
      <3>5. SubSeq(p, 1, 4) = x
        BY <2>3, <3>2, <3>3, <3>4
      <3>6. QED
        BY <2>3, <3>1, <3>5 DEF Uri!StartsWith
    <2>6. QED
      BY <2>0, <2>4, <2>5 DEF v
  <1>6. CASE \E c \in Uri!NestedCatalogs : w = Uri!CatalogPath(c)
    <2>1. PICK c \in Uri!NestedCatalogs : w = Uri!CatalogPath(c)
      BY <1>6
    <2>2. c \in nested /\ \A d \in nested : Uri!CatalogPath(d) = w
      BY <1>5, <2>1
    <2>3. Uri!After(p, w \o <<Uri!Slash>>) = e
      <3>1. Len(w \o <<Uri!Slash>>) = Len(w) + 1 /\ Len(w) + 1 + 1 = Len(w) + 2
        BY <1>2, PlacesAre, TokensAre
      <3>2. QED
        BY <1>1, <3>1 DEF Uri!After
    <2>4. QED
      BY <1>4, <2>2, <2>3 DEF p
  <1>7. CASE \A c \in Uri!NestedCatalogs : w # Uri!CatalogPath(c)
    <2>1. nested = {}
      BY <1>5, <1>7
    <2>2. Len(w) = 1 /\ w[1] # Uri!Slash
      BY <1>7, PlacesAre
    <2>3. p[1] # Uri!Slash /\ p[2] = Uri!Slash /\ 2 \in DOMAIN p
      BY <1>1, <1>2, <2>2
    <2>4. {j \in slashes : \A k \in slashes : j <= k} = {2}
      <3>1. \A k \in slashes : 2 <= k /\ k \in Nat
        <4>1. SUFFICES ASSUME NEW k \in 1..Len(p), p[k] = Uri!Slash PROVE 2 <= k
          BY <1>1
        <4>2. QED
          BY <2>3, <4>1
      <3>2. 2 \in slashes
        BY <2>3
      <3> HIDE DEF slashes
      <3>3. QED
        BY <3>1, <3>2
    <2>5. SubSeq(p, 1, 2 - 1) = w /\ SubSeq(p, 2 + 1, Len(p)) = e
      BY <1>1, <2>2
    <2> HIDE DEF nested, slashes
    <2>6. Uri!Split(p) = {Piece(SubSeq(p, 1, 2 - 1), SubSeq(p, 2 + 1, Len(p)), FALSE)}
      BY <1>4, <2>1, <2>4
    <2>7. QED
      BY <2>5, <2>6 DEF p
  <1>8. QED
    BY <1>6, <1>7

\* And so is the URI of the traces of an automation.
LEMMA SplitTraces ==
    ASSUME NEW e \in Seq(Uri!Tokens), Len(e) >= 1
    PROVE  Uri!Split(<<Uri!Raw("automations")>> \o <<Uri!Slash>> \o e \o Ending(TRUE))
             = {Piece(<<Uri!Raw("automations")>>, e, TRUE)}
  <1> DEFINE w == <<Uri!Raw("automations")>>
             q == w \o <<Uri!Slash>> \o e
             p == q \o <<Uri!Slash, Uri!Raw("traces")>>
  <1>1. w \in Places /\ Len(w) = 1 /\ w[1] = Uri!Raw("automations")
    BY DEF Places, Catalogs, Uri!PlainCatalogs, Uri!CatalogPath, Uri!NestedCatalogs, Uri!Nested
  <1>2. Uri!Raw("traces") \in Uri!Tokens /\ Uri!Slash \in Uri!Tokens
    BY TokensAre DEF Uri!Bytes, Uri!Plain
  <1>3. /\ q \in Seq(Uri!Tokens) /\ Len(q) = 2 + Len(e) /\ q[1] = Uri!Raw("automations")
        /\ q[2] = Uri!Slash /\ SubSeq(q, 3, Len(q)) = e
    <2> HIDE DEF w
    <2>1. /\ q \in Seq(Uri!Tokens) /\ Len(q) = Len(w) + 1 + Len(e)
          /\ \A i \in 1..Len(w) : q[i] = w[i]
          /\ q[Len(w) + 1] = Uri!Slash
          /\ SubSeq(q, Len(w) + 2, Len(q)) = e
      BY <1>1, JoinedIs
    <2>2. QED
      BY <1>1, <2>1
  <1> HIDE DEF q
  <1>4. /\ p \in Seq(Uri!Tokens) /\ Len(p) = Len(q) + 2
        /\ \A i \in 1..Len(q) : p[i] = q[i]
        /\ p[Len(q) + 1] = Uri!Slash /\ p[Len(q) + 2] = Uri!Raw("traces")
    BY <1>2, <1>3
  <1> HIDE DEF p
  <1>5. Len(p) >= 4 /\ Len(e) \in Nat /\ Len(p) - 2 = Len(q)
    BY <1>3, <1>4
  <1>6. SubSeq(p, 1, 2) = <<Uri!Raw("automations"), Uri!Slash>>
    <2>1. p[1] = Uri!Raw("automations") /\ p[2] = Uri!Slash
      BY <1>3, <1>4, <1>5
    <2> DEFINE s == SubSeq(p, 1, 2)
    <2>2. s \in Seq(Uri!Tokens) /\ Len(s) = 2 /\ s[1] = p[1] /\ s[2] = p[2]
      BY <1>4, <1>5
    <2> HIDE DEF s
    <2>3. s = <<Uri!Raw("automations"), Uri!Slash>>
      BY <2>1, <2>2, PairOfTokens, WordsAreTokens
    <2>4. QED
      BY <2>3 DEF s
  <1>7. SubSeq(p, Len(p) - 1, Len(p)) = <<Uri!Slash, Uri!Raw("traces")>>
    <2> DEFINE s == SubSeq(p, Len(p) - 1, Len(p))
    <2>1. p[Len(p) - 1] = Uri!Slash /\ p[Len(p)] = Uri!Raw("traces")
      BY <1>4, <1>5
    <2>2. /\ s \in Seq(Uri!Tokens) /\ Len(s) = 2
          /\ s[1] = p[Len(p) - 1] /\ s[2] = p[Len(p)]
      BY <1>4, <1>5
    <2> HIDE DEF s
    <2>3. s = <<Uri!Slash, Uri!Raw("traces")>>
      BY <2>1, <2>2, PairOfTokens, WordsAreTokens
    <2>4. QED
      BY <2>3 DEF s
  <1>8. SubSeq(p, 3, Len(p) - 2) = e
    <2>1. \A i \in 1..Len(e) : SubSeq(p, 3, Len(p) - 2)[i] = p[i + 2]
                              /\ SubSeq(q, 3, Len(q))[i] = q[i + 2] /\ p[i + 2] = q[i + 2]
      BY <1>3, <1>4, <1>5
    <2>2. SubSeq(p, 3, Len(p) - 2) \in Seq(Uri!Tokens) /\ Len(SubSeq(p, 3, Len(p) - 2)) = Len(e)
      BY <1>3, <1>4, <1>5
    <2>3. QED
      BY <1>3, <2>1, <2>2
  <1>9. Uri!Split(p) = {Piece(w, e, TRUE)}
    BY <1>5, <1>6, <1>7, <1>8 DEF Uri!Split, Piece
  <1>10. QED
    BY <1>9 DEF p, q, Ending

-----------------------------------------------------------------------------
(* URIs: encoding and parsing *)

Letters == Uri!Bytes \cup Uri!Words

\* What an item's identifier has escaped is decoded: it is not too long.
LEMMA DecodeIs ==
    ASSUME NEW id \in Seq(Uri!Bytes \ Uri!Control), Len(id) \in 1..MaxIdBytes
    PROVE  Uri!DecodeItemId(Encoded(id)) = <<id>>
  <1> DEFINE e == Encoded(id)
             escaped == {i \in DOMAIN e : e[i].how # "raw"}
  <1>1. id \in Seq(Letters)
    BY DEF Letters
  <1>2. /\ e \in Seq(Uri!Tokens) /\ Len(e) = Len(id)
        /\ \A i \in 1..Len(id) : e[i].byte = id[i] /\ e[i].how # "broken"
    BY <1>1, EncodedIs DEF Letters
  <1>3. DOMAIN e = 1..Len(id) /\ Len(id) \in Nat /\ \A i \in 1..Len(id) : id[i] \notin Uri!Control
    BY <1>2
  <1>4. Uri!Size(e) \in 1..MaxEncoded
    <2>1. \A S : Uri!Cardinality(S) = Cardinality(S)
      BY DEF Uri!Cardinality, Cardinality
    <2>2. IsFiniteSet(1..Len(id)) /\ Cardinality(1..Len(id)) = Len(id)
      BY <1>3, FS_Interval
    <2> HIDE DEF e
    <2>3. escaped \subseteq 1..Len(id)
      BY <1>3
    <2>4. IsFiniteSet(escaped) /\ Cardinality(escaped) <= Len(id) /\ Cardinality(escaped) \in Nat
      BY <2>2, <2>3, FS_Subset, FS_CardinalityType
    <2>5. Uri!Size(e) = Len(e) + 2 * Cardinality(escaped)
      BY <2>1 DEF Uri!Size
    <2>6. /\ MaxIdBytes \in Nat /\ MaxEncoded \in Nat /\ 3 * MaxIdBytes <= MaxEncoded
      BY UriAssumption DEF Uri!LimitsAssumption
    <2> HIDE DEF escaped
    <2>7. QED
      BY <1>2, <2>4, <2>5, <2>6
  <1>5. \A i \in DOMAIN e : e[i].how # "broken" /\ e[i].byte \notin Uri!Control
    BY <1>2, <1>3
  <1>6. [i \in DOMAIN e |-> e[i].byte] = id
    BY <1>2, <1>3
  <1> HIDE DEF e
  <1>7. QED
    BY <1>4, <1>5, <1>6 DEF Uri!DecodeItemId, e

\* The URI of an item in a catalog, with that of its traces.
PathOf(w, id, traces) == Uri!ItemUri(w, id) \o Ending(traces)

\* The path of an item.
LEMMA PathIs ==
    ASSUME NEW w, NEW id
    PROVE  Uri!ItemUri(w, id) = w \o <<Uri!Slash>> \o Encoded(id)
  BY DEF Uri!ItemUri, Encoded

\* An item is understood: its URI is parsed to it and to nothing else.
LEMMA ParseIs ==
    ASSUME NEW w \in Places, NEW id \in Seq(Uri!Bytes \ Uri!Control), NEW traces \in BOOLEAN,
           Len(id) \in 1..MaxIdBytes,
           traces => w = <<Uri!Raw("automations")>>,
           w \in Uri!Authored => Uri!ValidKey(w, id)
    PROVE  Uri!Parse(PathOf(w, id, traces)) = {[catalog |-> w, id |-> id, traces |-> traces]}
  <1> DEFINE e == Encoded(id)
             p == PathOf(w, id, traces)
             item == [catalog |-> w, id |-> id, traces |-> traces]
  <1>1. id \in Seq(Letters) /\ Len(id) >= 1
    BY DEF Letters
  <1>2. /\ e \in Seq(Uri!Tokens) /\ Len(e) = Len(id)
        /\ \A i \in 1..Len(id) : e[i] # Uri!Slash
    BY <1>1, EncodedIs DEF Letters
  <1>3. Uri!ItemUri(w, id) = w \o <<Uri!Slash>> \o e
    BY PathIs
  <1>4. Uri!DecodeItemId(e) = <<id>>
    BY DecodeIs
  <1> HIDE DEF e
  <1>5. Uri!ItemUri(w, id) \in Seq(Uri!Tokens)
    BY <1>2, <1>3, JoinedIs
  <1>6. Uri!Split(p) = {Piece(w, e, traces)}
    <2>1. CASE traces
      <3>1. p = <<Uri!Raw("automations")>> \o <<Uri!Slash>> \o e \o Ending(TRUE)
        BY <1>3, <2>1 DEF PathOf
      <3>2. QED
        BY <1>1, <1>2, <2>1, <3>1, SplitTraces
    <2>2. CASE ~traces
      <3>1. p = Uri!ItemUri(w, id)
        BY <1>5, <2>2 DEF PathOf, Ending
      <3>2. QED
        BY <1>1, <1>2, <1>3, <2>2, <3>1, SplitItem
    <2>3. QED
      BY <2>1, <2>2
  <1>7. Uri!ItemUri(w, id) = IF traces THEN SubSeq(p, 1, Len(p) - 2) ELSE p
    <2>1. CASE traces
      <3> DEFINE q == Uri!ItemUri(w, id)
      <3>1. q \in Seq(Uri!Tokens) /\ Uri!Slash \in Uri!Tokens /\ Uri!Raw("traces") \in Uri!Tokens
        BY <1>5, WordsAreTokens
      <3>2. p = q \o <<Uri!Slash, Uri!Raw("traces")>>
        BY <2>1 DEF PathOf, Ending
      <3> HIDE DEF q, p
      <3>3. SubSeq(p, 1, Len(p) - 2) = q
        <4>1. /\ p \in Seq(Uri!Tokens) /\ Len(p) = Len(q) + 2
              /\ \A i \in 1..Len(q) : p[i] = q[i]
          BY <3>1, <3>2
        <4>2. QED
          BY <3>1, <4>1
      <3>4. QED
        BY <2>1, <3>3 DEF q
    <2>2. CASE ~traces
      BY <1>5, <2>2 DEF PathOf, Ending
    <2>3. QED
      BY <2>1, <2>2
  <1> HIDE DEF p
  <1>8. Uri!ParseAnyForm(p) = {item}
    <2> DEFINE x == Piece(w, e, traces)
    <2>1. x.catalog = w /\ x.encoded = e /\ x.traces = traces
      BY DEF Piece
    <2> HIDE DEF x
    <2>2. Uri!DecodeItemId(x.encoded) # <<>> /\ Uri!DecodeItemId(x.encoded)[1] = id
      <3>1. Uri!DecodeItemId(x.encoded) = <<id>>
        BY <1>4, <2>1
      <3>2. <<id>> # <<>> /\ <<id>>[1] = id
        OBVIOUS
      <3>3. QED
        BY <3>1, <3>2, Zenon
    <2>3. {t \in Uri!Split(p) : Uri!DecodeItemId(t.encoded) # <<>>} = {x}
      BY <1>6, <2>2 DEF x
    <2>4. Uri!ParseAnyForm(p)
            = {[catalog |-> s.catalog, id |-> Uri!DecodeItemId(s.encoded)[1], traces |-> s.traces] :
                  s \in {x}}
      BY <2>3 DEF Uri!ParseAnyForm
    <2>5. QED
      BY <2>1, <2>2, <2>4
  <1>9. Uri!Parse(p) = {item}
    <2>1. item.catalog = w /\ item.id = id /\ item.traces = traces
      OBVIOUS
    <2>2. /\ Uri!ItemUri(item.catalog, item.id)
                = IF item.traces THEN SubSeq(p, 1, Len(p) - 2) ELSE p
          /\ item.catalog \in Uri!Authored /\ ~item.traces => Uri!ValidKey(item.catalog, item.id)
      BY <1>7, <2>1
    <2> HIDE DEF item
    <2>3. QED
      BY <1>8, <2>2 DEF Uri!Parse
  <1>10. QED
    BY <1>9 DEF p

\* What a URI of a client is parsed to has that URI.
LEMMA ParsedIs ==
    ASSUME NEW path \in Seq(Uri!Tokens), NEW p \in Uri!Parse(path)
    PROVE  /\ p.id \in Seq(Letters) /\ p.traces \in BOOLEAN
           /\ path = PathOf(p.catalog, p.id, p.traces)
           /\ p.traces => p.catalog = <<Uri!Raw("automations")>>
           /\ p.catalog \in Seq(Uri!Tokens)
  <1>1. PICK s \in Uri!Split(path) :
           /\ Uri!DecodeItemId(s.encoded) # <<>>
           /\ p = [catalog |-> s.catalog, id |-> Uri!DecodeItemId(s.encoded)[1], traces |-> s.traces]
    BY DEF Uri!Parse, Uri!ParseAnyForm
  <1>2. p.catalog = s.catalog /\ p.id = Uri!DecodeItemId(s.encoded)[1] /\ p.traces = s.traces
    BY <1>1
  <1> DEFINE automations == <<Uri!Raw("automations"), Uri!Slash>>
             traces == <<Uri!Slash, Uri!Raw("traces")>>
             L == Len(path)
  <1>3. L \in Nat
    OBVIOUS
  <1>4. /\ s.encoded \in Seq(Uri!Tokens) /\ s.catalog \in Seq(Uri!Tokens) /\ s.traces \in BOOLEAN
        /\ s.traces => /\ s.catalog = <<Uri!Raw("automations")>>
                       /\ L >= 4 /\ SubSeq(path, L - 1, L) = traces
    <2>1. CASE /\ L >= 4 /\ SubSeq(path, 1, 2) = automations
               /\ SubSeq(path, L - 1, L) = traces
      <3>1. s = Piece(<<Uri!Raw("automations")>>, SubSeq(path, 3, L - 2), TRUE)
        BY <1>1, <2>1 DEF Uri!Split, Piece
      <3>2. SubSeq(path, 3, L - 2) \in Seq(Uri!Tokens)
        BY <2>1
      <3>3. <<Uri!Raw("automations")>> \in Seq(Uri!Tokens)
        BY WordsAreTokens
      <3>4. QED
        BY <2>1, <3>1, <3>2, <3>3 DEF Piece
    <2>2. CASE ~(/\ L >= 4 /\ SubSeq(path, 1, 2) = automations
                 /\ SubSeq(path, L - 1, L) = traces)
      <3>1. \/ \E c \in Uri!NestedCatalogs :
                  /\ Uri!StartsWith(path, Uri!CatalogPath(c) \o <<Uri!Slash>>)
                  /\ s = Piece(Uri!CatalogPath(c),
                               Uri!After(path, Uri!CatalogPath(c) \o <<Uri!Slash>>), FALSE)
            \/ \E i \in DOMAIN path :
                  s = Piece(SubSeq(path, 1, i - 1), SubSeq(path, i + 1, L), FALSE)
        BY <1>1, <2>2 DEF Uri!Split, Piece
      <3>2. ASSUME NEW c \in Uri!NestedCatalogs,
                   Uri!StartsWith(path, Uri!CatalogPath(c) \o <<Uri!Slash>>),
                   s = Piece(Uri!CatalogPath(c),
                             Uri!After(path, Uri!CatalogPath(c) \o <<Uri!Slash>>), FALSE)
            PROVE  s.encoded \in Seq(Uri!Tokens) /\ s.catalog \in Seq(Uri!Tokens) /\ ~s.traces
                   /\ s.traces \in BOOLEAN
        <4> DEFINE x == Uri!CatalogPath(c) \o <<Uri!Slash>>
        <4>1. Uri!CatalogPath(c) \in Places
          BY DEF Places, Catalogs
        <4>2. Uri!CatalogPath(c) \in Seq(Uri!Tokens) /\ x \in Seq(Uri!Tokens)
          BY <4>1, PlacesAre, SlashedIs
        <4> HIDE DEF x
        <4>3. Uri!After(path, x) \in Seq(Uri!Tokens)
          BY <3>2, <4>2 DEF Uri!After
        <4>4. QED
          BY <3>2, <4>2, <4>3 DEF Piece, x
      <3>3. ASSUME NEW i \in DOMAIN path,
                   s = Piece(SubSeq(path, 1, i - 1), SubSeq(path, i + 1, L), FALSE)
            PROVE  s.encoded \in Seq(Uri!Tokens) /\ s.catalog \in Seq(Uri!Tokens) /\ ~s.traces
                   /\ s.traces \in BOOLEAN
        <4>1. SubSeq(path, 1, i - 1) \in Seq(Uri!Tokens) /\ SubSeq(path, i + 1, L) \in Seq(Uri!Tokens)
          OBVIOUS
        <4>2. QED
          BY <3>3, <4>1 DEF Piece
      <3>4. QED
        BY <3>1, <3>2, <3>3
    <2>3. QED
      BY <2>1, <2>2
  <1>5. p.id \in Seq(Letters)
    <2> DEFINE e == s.encoded
    <2>1. p.id = [i \in DOMAIN e |-> e[i].byte]
      BY <1>1, <1>2 DEF Uri!DecodeItemId
    <2>2. e \in Seq(Uri!Tokens) /\ \A t \in Uri!Tokens : t.byte \in Letters
      BY <1>4 DEF Uri!Tokens, Letters
    <2> HIDE DEF e
    <2>3. [i \in DOMAIN e |-> e[i].byte] \in Seq(Letters)
      BY <2>2
    <2>4. QED
      BY <2>1, <2>3
  <1>6. Uri!ItemUri(p.catalog, p.id) = IF p.traces THEN SubSeq(path, 1, L - 2) ELSE path
    BY DEF Uri!Parse
  <1>7. path = PathOf(p.catalog, p.id, p.traces)
    <2>1. CASE p.traces
      <3>1. L >= 4 /\ SubSeq(path, L - 1, L) = traces
        BY <1>2, <1>4, <2>1
      <3> DEFINE a == SubSeq(path, 1, L - 2)
                 b == SubSeq(path, L - 1, L)
      <3>2. path = a \o b
        <4>1. 1 \in 1..L + 1 /\ L - 2 \in (1 - 1)..L /\ L \in (L - 2)..L
          BY <1>3, <3>1
        <4>2. SubSeq(path, 1, L - 2) \o SubSeq(path, L - 2 + 1, L) = SubSeq(path, 1, L)
          BY <4>1, ConcatAdjacentSubSeq
        <4>3. L - 2 + 1 = L - 1
          BY <1>3, <3>1
        <4>4. QED
          BY <4>2, <4>3, SubSeqFull
      <3> HIDE DEF a, b
      <3>3. QED
        BY <1>6, <2>1, <3>1, <3>2 DEF PathOf, Ending, a, b
    <2>2. CASE ~p.traces
      BY <1>6, <2>2 DEF PathOf, Ending
    <2>3. QED
      BY <2>1, <2>2
  <1>8. QED
    BY <1>2, <1>4, <1>5, <1>7

-----------------------------------------------------------------------------
(* URIs: catalogs *)

\* What is known of each item.
LEMMA ItemIs ==
    ASSUME NEW i \in Items
    PROVE  /\ i.catalog \in Catalogs /\ i.rank \in Nat
           /\ i.id \in Seq(Uri!Bytes \ Uri!Control) /\ Len(i.id) \in 1..MaxIdBytes
           /\ i.id \in Seq(Letters)
           /\ Uri!CatalogPath(i.catalog) \in Places
           /\ Uri!CatalogPath(i.catalog) \in Uri!Authored =>
                 Uri!ValidKey(Uri!CatalogPath(i.catalog), i.id)
  <1>1. /\ i.catalog \in Catalogs /\ i.rank \in Nat
        /\ i.id \in Seq(Uri!Bytes \ Uri!Control) /\ Len(i.id) \in 1..MaxIdBytes
    BY UriAssumption DEF Uri!ItemsAssumption, Catalogs
  <1>2. i.id \in Seq(Letters)
    BY <1>1 DEF Letters
  <1>3. Uri!CatalogPath(i.catalog) \in Places
    BY <1>1 DEF Places
  <1>4. Uri!CatalogPath(i.catalog) \in Uri!Authored => Uri!ValidKey(Uri!CatalogPath(i.catalog), i.id)
    BY UriAssumption DEF Uri!KeysAssumption
  <1>5. QED
    BY <1>1, <1>2, <1>3, <1>4

\* The items of a catalog can be put in order, and InOrder does it.
LEMMA InOrderIs ==
    ASSUME NEW S, S \subseteq Items,
           \A i, j \in S : i.catalog = j.catalog
    PROVE  /\ Uri!InOrder(S) \in Seq(S)
           /\ \A i, j \in 1..Len(Uri!InOrder(S)) :
                 i < j => Uri!InOrder(S)[i].rank < Uri!InOrder(S)[j].rank
  <1> DEFINE n == Cardinality(S)
             Good(s) == /\ s \in [1..n -> S]
                        /\ \A i, j \in 1..n : i < j => s[i].rank < s[j].rank
  <1>1. Uri!Cardinality(S) = n
    BY DEF Uri!Cardinality, Cardinality
  <1>2. IsFiniteSet(S) /\ n \in Nat /\ ExistsBijection(1..n, S)
    <2>1. IsFiniteSet(Items)
      BY UriAssumption DEF Uri!ItemsAssumption, IsFiniteSet, Uri!IsFiniteSet
    <2>2. QED
      BY <2>1, FS_Subset, FS_CardinalityType
  <1> HIDE DEF n
  <1>3. \E s : Good(s)
    <2>1. PICK f : f \in Bijection(1..n, S)
      BY <1>2 DEF ExistsBijection
    <2>2. f \in [1..n -> S] /\ \A i, j \in 1..n : f[i] = f[j] => i = j
      BY <2>1 DEF Bijection, Injection, IsInjective
    <2> DEFINE ids == [k \in 1..n |-> f[k].rank]
    <2>3. ids \in [1..n -> Nat]
      <3>1. \A i \in S : i.rank \in Nat
        BY ItemIs
      <3>2. QED
        BY <2>2, <3>1
    <2>4. PICK p : Ordering(p, ids, n)
      BY <1>2, <2>3, OrderingExists
    <2>5. /\ p \in [1..n -> 1..n]
          /\ \A i, j \in 1..n : p[i] = p[j] => i = j
          /\ \A i, j \in 1..n : i < j => ids[p[i]] <= ids[p[j]]
      BY <2>4 DEF Ordering
    <2> DEFINE s == [k \in 1..n |-> f[p[k]]]
    <2>6. s \in [1..n -> S]
      BY <2>2, <2>5
    <2>7. ASSUME NEW i \in 1..n, NEW j \in 1..n, i < j
          PROVE  s[i].rank < s[j].rank
      <3>1. s[i].rank = ids[p[i]] /\ s[j].rank = ids[p[j]] /\ s[i] = f[p[i]] /\ s[j] = f[p[j]]
        BY <2>5
      <3>2. ids[p[i]] <= ids[p[j]] /\ ids[p[i]] \in Nat /\ ids[p[j]] \in Nat
        BY <2>3, <2>5, <2>7
      <3>3. i # j
        BY <2>7
      <3>4. s[i] # s[j]
        BY <2>2, <2>5, <3>1, <3>3
      <3>5. s[i].rank # s[j].rank
        <4>1. s[i] \in S /\ s[j] \in S
          BY <2>6
        <4>2. QED
          BY <3>4, <4>1, UriAssumption DEF Uri!ItemsAssumption
      <3>6. QED
        BY <3>1, <3>2, <3>5
    <2> HIDE DEF s
    <2>8. QED
      BY <2>6, <2>7
  <1>4. Uri!InOrder(S) = CHOOSE s \in [1..n -> S] :
                            \A i, j \in 1..n : i < j => s[i].rank < s[j].rank
    BY <1>1 DEF Uri!InOrder
  <1>5. Good(Uri!InOrder(S))
    BY <1>3, <1>4
  <1>6. Uri!InOrder(S) \in Seq(S) /\ Len(Uri!InOrder(S)) = n
    BY <1>2, <1>5
  <1>7. QED
    BY <1>5, <1>6

\* What a catalog lists exists, and is of that catalog.
LEMMA CatalogIs ==
    ASSUME present \subseteq Items, NEW c, NEW i \in Uri!ToSet(Uri!Catalog(c))
    PROVE  i \in present /\ i.catalog = c
  <1> DEFINE S == {j \in present : j.catalog = c}
             all == Uri!InOrder(S)
             n == IF Len(all) < CatalogLimit THEN Len(all) ELSE CatalogLimit
  <1>1. all \in Seq(S)
    BY InOrderIs
  <1>2. CatalogLimit \in Nat
    BY UriAssumption DEF Uri!LimitsAssumption
  <1> HIDE DEF all
  <1>3. n \in 0..Len(all)
    BY <1>1, <1>2
  <1> HIDE DEF n
  <1>4. SubSeq(all, 1, n) \in Seq(S)
    BY <1>1, <1>3
  <1>5. Uri!Catalog(c) = SubSeq(all, 1, n)
    BY DEF Uri!Catalog, all, n
  <1>6. i \in S
    BY <1>4, <1>5 DEF Uri!ToSet
  <1>7. QED
    BY <1>6

\* The catalogs apart from each other, and from what else entities are read by.
LEMMA CatalogsApart ==
    /\ \A c, d \in Catalogs : Uri!CatalogPath(c) = Uri!CatalogPath(d) => c = d
    /\ \A c \in Catalogs : /\ Uri!CatalogPath(c) # <<Uri!Raw("states")>>
                           /\ Uri!CatalogPath(c) # <<Uri!Raw("cameras")>>
    /\ \A c \in Catalogs : Uri!CatalogPath(c) \in Uri!Listed =>
                              c \in {"devices"} \cup Uri!NestedCatalogs
    /\ <<Uri!Raw("states")>> \notin Uri!Listed /\ <<Uri!Raw("cameras")>> \notin Uri!Listed
    /\ <<Uri!Raw("states")>> \notin Uri!Authored /\ <<Uri!Raw("cameras")>> \notin Uri!Authored
    /\ "entities" \in Catalogs /\ Uri!CatalogPath("entities") = <<Uri!Raw("entities")>>
    /\ "automations" \in Catalogs /\ Uri!CatalogPath("automations") = <<Uri!Raw("automations")>>
    /\ <<Uri!Raw("states")>> # <<Uri!Raw("cameras")>>
    /\ Uri!Listed \subseteq Places
  <1>1. Catalogs = {"entities", "devices", "scenes", "automations", "blueprints",
                    "thread_networks", "matter_devices"}
        /\ Uri!NestedCatalogs = {"thread_networks", "matter_devices"}
    BY DEF Catalogs, Uri!PlainCatalogs, Uri!NestedCatalogs, Uri!Nested
  <1>2. /\ Uri!CatalogPath("thread_networks") = <<Uri!Raw("thread"), Uri!Slash, Uri!Raw("networks")>>
        /\ Uri!CatalogPath("matter_devices") = <<Uri!Raw("matter"), Uri!Slash, Uri!Raw("devices")>>
        /\ \A c \in {"entities", "devices", "scenes", "automations", "blueprints"} :
              Uri!CatalogPath(c) = <<Uri!Raw(c)>>
    BY <1>1 DEF Uri!CatalogPath, Uri!Nested
  <1>3. \A a, b : Uri!Raw(a) = Uri!Raw(b) => a = b
    BY TokensAre
  <1> DEFINE First(c) == IF c = "thread_networks" THEN "thread"
                         ELSE IF c = "matter_devices" THEN "matter" ELSE c
  <1>4. \A c \in Catalogs : Uri!CatalogPath(c)[1] = Uri!Raw(First(c))
    BY <1>1, <1>2
  <1>5. \A c, d \in Catalogs : First(c) = First(d) => c = d
    BY <1>1
  <1>6. \A c \in Catalogs : First(c) # "states" /\ First(c) # "cameras"
    BY <1>1
  <1> HIDE DEF First
  <1>7. \A c, d \in Catalogs : Uri!CatalogPath(c) = Uri!CatalogPath(d) => c = d
    BY <1>3, <1>4, <1>5
  <1>8. \A a : <<Uri!Raw(a)>>[1] = Uri!Raw(a)
    OBVIOUS
  <1>9. \A c \in Catalogs : /\ Uri!CatalogPath(c) # <<Uri!Raw("states")>>
                            /\ Uri!CatalogPath(c) # <<Uri!Raw("cameras")>>
    <2>1. SUFFICES ASSUME NEW c \in Catalogs, NEW a \in {"states", "cameras"},
                          Uri!CatalogPath(c) = <<Uri!Raw(a)>>
                   PROVE  FALSE
      BY Zenon
    <2>2. Uri!Raw(First(c)) = Uri!Raw(a)
      BY <1>4, <1>8, <2>1
    <2>3. QED
      BY <1>3, <1>6, <2>2
  <1>10. /\ {"devices"} \cup Uri!NestedCatalogs \subseteq Catalogs
         /\ {"scenes", "automations", "blueprints"} \subseteq Catalogs
    BY <1>1
  <1>11. Uri!Listed = {Uri!CatalogPath(c) : c \in {"devices"} \cup Uri!NestedCatalogs}
         /\ Uri!Listed \subseteq Places
    BY <1>10 DEF Uri!Listed, Places
  <1>12. Uri!Authored = {Uri!CatalogPath(c) : c \in {"scenes", "automations", "blueprints"}}
    BY <1>2 DEF Uri!Authored
  <1>13. \A c \in Catalogs : Uri!CatalogPath(c) \in Uri!Listed =>
                                c \in {"devices"} \cup Uri!NestedCatalogs
    BY <1>7, <1>10, <1>11, Zenon
  <1>14. <<Uri!Raw("states")>> \notin Uri!Listed /\ <<Uri!Raw("cameras")>> \notin Uri!Listed
    BY <1>9, <1>10, <1>11, Zenon
  <1>15. <<Uri!Raw("states")>> \notin Uri!Authored /\ <<Uri!Raw("cameras")>> \notin Uri!Authored
    BY <1>9, <1>10, <1>12, Zenon
  <1>16. /\ "entities" \in Catalogs /\ Uri!CatalogPath("entities") = <<Uri!Raw("entities")>>
         /\ "automations" \in Catalogs /\ Uri!CatalogPath("automations") = <<Uri!Raw("automations")>>
    BY <1>1, <1>2
  <1>17. <<Uri!Raw("states")>> # <<Uri!Raw("cameras")>>
    <2>1. Uri!Raw("states") # Uri!Raw("cameras")
      BY <1>3
    <2>2. QED
      BY <1>8, <2>1
  <1>18. QED
    BY <1>7, <1>9, <1>11, <1>13, <1>14, <1>15, <1>16, <1>17

\* Places and identifiers that give the same URI are the same.
LEMMA OnePath ==
    ASSUME NEW v \in Places, NEW w \in Places, NEW id \in Seq(Letters), NEW other \in Seq(Letters),
           Uri!ItemUri(v, id) = Uri!ItemUri(w, other)
    PROVE  v = w /\ id = other
  <1> DEFINE d == Encoded(id)
             e == Encoded(other)
  <1>1. d \in Seq(Uri!Tokens) /\ e \in Seq(Uri!Tokens)
    BY EncodedIs DEF Letters
  <1>2. v \o <<Uri!Slash>> \o d = w \o <<Uri!Slash>> \o e
    BY PathIs
  <1> HIDE DEF d, e
  <1>3. 1 \in 1..Len(v) /\ 1 \in 1..Len(w)
    BY PlacesAre
  <1>4. v[1] = w[1]
    <2>1. (v \o <<Uri!Slash>> \o d)[1] = v[1] /\ (w \o <<Uri!Slash>> \o e)[1] = w[1]
      BY <1>1, <1>3, JoinedIs
    <2>2. QED
      BY <1>2, <2>1
  <1>5. v = w
    BY <1>4, PlacesAre
  <1>6. d = e
    <2>1. /\ SubSeq(v \o <<Uri!Slash>> \o d, Len(v) + 2, Len(v \o <<Uri!Slash>> \o d)) = d
          /\ SubSeq(w \o <<Uri!Slash>> \o e, Len(w) + 2, Len(w \o <<Uri!Slash>> \o e)) = e
      BY <1>1, JoinedIs
    <2>2. QED
      BY <1>2, <1>5, <2>1
  <1>7. QED
    BY <1>5, <1>6, EncodedOnce DEF d, e, Letters

\* What a read finds is the item that its URI names.
LEMMA FoundIs ==
    ASSUME present \subseteq Items, NEW path \in Seq(Uri!Tokens), NEW t \in Uri!Parse(path),
           NEW i \in Uri!Found(t)
    PROVE  /\ i \in present /\ i.id = t.id /\ t.catalog \in Places
           /\ \/ t.catalog = Uri!CatalogPath(i.catalog)
              \/ /\ t.catalog \in {<<Uri!Raw("states")>>, <<Uri!Raw("cameras")>>}
                 /\ i.catalog = "entities"
  <1>1. t.id \in Seq(Letters) /\ (t.traces => t.catalog = <<Uri!Raw("automations")>>)
    BY ParsedIs
  <1>2. CASE t.catalog \in Uri!Listed \/ t.traces
    <2>1. PICK c \in {"devices", "automations"} \cup Uri!NestedCatalogs :
             /\ i \in Uri!ToSet(Uri!Catalog(c))
             /\ Uri!ItemUri(Uri!CatalogPath(i.catalog), i.id) = Uri!ItemUri(t.catalog, t.id)
      BY <1>2 DEF Uri!Found
    <2>2. i \in present
      BY <2>1, CatalogIs
    <2>3. i.id \in Seq(Letters) /\ Uri!CatalogPath(i.catalog) \in Places
      BY <2>2, ItemIs
    <2>4. t.catalog \in Places
      BY <1>1, <1>2, CatalogsApart DEF Places
    <2>5. QED
      BY <1>1, <2>1, <2>2, <2>3, <2>4, OnePath
  <1>3. CASE ~(t.catalog \in Uri!Listed \/ t.traces)
    <2>1. /\ i \in present /\ i.id = t.id
          /\ Uri!CatalogPath(i.catalog)
                = IF t.catalog \in {<<Uri!Raw("states")>>, <<Uri!Raw("cameras")>>}
                  THEN <<Uri!Raw("entities")>> ELSE t.catalog
      BY <1>3 DEF Uri!Found
    <2>2. i.catalog \in Catalogs /\ Uri!CatalogPath(i.catalog) \in Places
      BY <2>1, ItemIs
    <2>3. CASE t.catalog \in {<<Uri!Raw("states")>>, <<Uri!Raw("cameras")>>}
      <3>1. i.catalog = "entities"
        BY <2>1, <2>2, <2>3, CatalogsApart
      <3>2. t.catalog \in Places
        BY <2>3 DEF Places
      <3>3. QED
        BY <2>1, <2>3, <3>1, <3>2
    <2>4. CASE t.catalog \notin {<<Uri!Raw("states")>>, <<Uri!Raw("cameras")>>}
      BY <2>1, <2>2, <2>4
    <2>5. QED
      BY <2>3, <2>4
  <1>4. QED
    BY <1>2, <1>3

-----------------------------------------------------------------------------
(* URIs: the invariant *)

\* g.item was handed out under the URI of place w.
Under(g, w) ==
    /\ g.item \in Items /\ g.traces \in BOOLEAN /\ g.uri = PathOf(w, g.item.id, g.traces)
    /\ g.traces => w = <<Uri!Raw("automations")>>
    /\ \/ w = Uri!CatalogPath(g.item.catalog)
       \/ /\ w \in {<<Uri!Raw("states")>>, <<Uri!Raw("cameras")>>} /\ g.item.catalog = "entities"
          /\ w = <<Uri!Raw("cameras")>> => Head(g.item.id) = "camera."

\* What was handed out are URIs of items, and as long as nothing changes of items that
\* their catalogs still list.
HandedOut ==
    /\ \A g \in given : \E w \in Places : Under(g, w)
    /\ changes = 0 => /\ present = Items
                      /\ \A g \in given : g.item \in Uri!ToSet(Uri!Catalog(g.item.catalog))

\* The answer is what the catalogs came to when it was given: they do not change after it.
Answered ==
    \/ answer = <<"refused">> /\ Uri!Parse(uri) = {}
    \/ answer = <<"not_found">> /\ target \in Uri!Parse(uri) /\ Uri!Found(target) = {}
    \/ /\ target \in Uri!Parse(uri)
       /\ \E i \in Uri!Found(target) : answer = <<"item", i>> /\ i \in seen

\* What was handed out, and how far the read has come.
UriInv ==
    /\ present \subseteq Items /\ changes \in Nat
    /\ HandedOut
    /\ \/ pc = "idle" /\ answer = <<"none">>
       \/ /\ pc = "parsed" /\ answer = <<"none">> /\ present \subseteq seen
          /\ uri \in Seq(Uri!Tokens) /\ target \in Uri!Parse(uri)
       \/ pc = "answered" /\ uri \in Seq(Uri!Tokens) /\ Answered

\* A URI that was handed out is understood, as its item.
LEMMA UnderIs ==
    ASSUME NEW g, NEW w \in Places, Under(g, w)
    PROVE  /\ Uri!Parse(g.uri)
                = {[catalog |-> w, id |-> g.item.id, traces |-> g.traces]}
           /\ g.uri \in Seq(Uri!Tokens) /\ Head(g.uri) = w[1]
  <1> DEFINE id == g.item.id
  <1>1. /\ id \in Seq(Uri!Bytes \ Uri!Control) /\ Len(id) \in 1..MaxIdBytes /\ id \in Seq(Letters)
        /\ Uri!CatalogPath(g.item.catalog) \in Uri!Authored =>
              Uri!ValidKey(Uri!CatalogPath(g.item.catalog), id)
    BY ItemIs DEF Under
  <1>2. w \in Uri!Authored => Uri!ValidKey(w, id)
    BY <1>1, CatalogsApart DEF Under
  <1> HIDE DEF id
  <1>3. g.uri = PathOf(w, id, g.traces) /\ g.traces \in BOOLEAN
        /\ (g.traces => w = <<Uri!Raw("automations")>>)
    BY DEF Under, id
  <1>4. Uri!Parse(g.uri) = {[catalog |-> w, id |-> id, traces |-> g.traces]}
    BY <1>1, <1>2, <1>3, ParseIs
  <1> DEFINE q == Uri!ItemUri(w, id)
             e == Encoded(id)
  <1>5. e \in Seq(Uri!Tokens)
    BY <1>1, EncodedIs DEF Letters
  <1>6. q = w \o <<Uri!Slash>> \o e
    BY PathIs
  <1> HIDE DEF e
  <1>7. 1 \in 1..Len(w) /\ Len(w) \in Nat
    BY PlacesAre
  <1>8. q \in Seq(Uri!Tokens) /\ Len(q) = Len(w) + 1 + Len(e) /\ q[1] = w[1] /\ Len(e) \in Nat
    BY <1>5, <1>6, <1>7, JoinedIs
  <1>9. Ending(g.traces) \in Seq(Uri!Tokens)
    BY <1>3, WordsAreTokens DEF Ending
  <1> HIDE DEF q
  <1>10. /\ q \o Ending(g.traces) \in Seq(Uri!Tokens)
         /\ Head(q \o Ending(g.traces)) = q[1]
    BY <1>7, <1>8, <1>9
  <1>11. QED
    BY <1>3, <1>4, <1>8, <1>10 DEF PathOf, q, id

\* What a read finds, once answered.
LEMMA AnswerIs ==
    ASSUME UriInv, answer[1] = "item"
    PROVE  /\ pc = "answered" /\ uri \in Seq(Uri!Tokens) /\ target \in Uri!Parse(uri)
           /\ answer[2] \in Uri!Found(target) /\ answer[2] \in seen
  <1>1. <<"none">>[1] # "item" /\ <<"refused">>[1] # "item" /\ <<"not_found">>[1] # "item"
    OBVIOUS
  <1>2. pc = "answered" /\ uri \in Seq(Uri!Tokens) /\ Answered
    BY <1>1 DEF UriInv
  <1>3. PICK i \in Uri!Found(target) : answer = <<"item", i>> /\ i \in seen
    BY <1>1, <1>2 DEF Answered
  <1>4. target \in Uri!Parse(uri)
    BY <1>1, <1>2 DEF Answered
  <1>5. answer[2] = i
    BY <1>3
  <1>6. QED
    BY <1>2, <1>3, <1>4, <1>5

\* The invariant says that the URIs are true.
LEMMA UriImplies == ASSUME UriInv PROVE UrisAreTrue
  <1>1. Uri!GivenIsUnderstood
    <2>1. SUFFICES ASSUME NEW g \in given
                   PROVE  \E p \in Uri!Parse(g.uri) : p.id = g.item.id /\ p.traces = g.traces
      BY DEF Uri!GivenIsUnderstood
    <2>2. PICK w \in Places : Under(g, w)
      BY DEF UriInv, HandedOut
    <2> DEFINE p == [catalog |-> w, id |-> g.item.id, traces |-> g.traces]
    <2>3. p \in Uri!Parse(g.uri)
      BY <2>2, UnderIs
    <2>4. p.id = g.item.id /\ p.traces = g.traces
      OBVIOUS
    <2>5. QED
      BY <2>3, <2>4
  <1>2. ASSUME answer[1] = "item"
        PROVE  /\ answer[2] \in seen /\ answer[2].id = target.id /\ target.catalog \in Places
               /\ \/ target.catalog = Uri!CatalogPath(answer[2].catalog)
                  \/ /\ target.catalog \in {<<Uri!Raw("states")>>, <<Uri!Raw("cameras")>>}
                     /\ answer[2].catalog = "entities"
               /\ uri = PathOf(target.catalog, target.id, target.traces)
               /\ target.id \in Seq(Letters) /\ Uri!Parse(uri) # {}
               /\ uri \in Seq(Uri!Tokens) /\ target \in Uri!Parse(uri)
    <2>1. /\ uri \in Seq(Uri!Tokens) /\ target \in Uri!Parse(uri)
          /\ answer[2] \in Uri!Found(target) /\ answer[2] \in seen /\ present \subseteq Items
      BY <1>2, AnswerIs DEF UriInv
    <2>2. QED
      BY <2>1, FoundIs, ParsedIs
  <1>3. Uri!ReadsItsItem
    BY <1>2 DEF Uri!ReadsItsItem
  <1>4. Uri!OneUri
    <2>1. SUFFICES ASSUME NEW g \in given, answer[1] = "item", answer[2] = g.item,
                          Head(uri) = Head(g.uri), target.traces = g.traces
                   PROVE  uri = g.uri
      BY DEF Uri!OneUri
    <2>2. PICK w \in Places : Under(g, w)
      BY DEF UriInv, HandedOut
    <2>3. Head(g.uri) = w[1] /\ g.uri = PathOf(w, g.item.id, g.traces)
      BY <2>2, UnderIs DEF Under
    <2>4. Head(uri) = target.catalog[1]
      <3>1. Uri!ItemUri(target.catalog, target.id)
               = target.catalog \o <<Uri!Slash>> \o Encoded(target.id)
        BY PathIs
      <3> DEFINE q == target.catalog \o <<Uri!Slash>> \o Encoded(target.id)
      <3>2. Encoded(target.id) \in Seq(Uri!Tokens)
        BY <1>2, <2>1, EncodedIs DEF Letters
      <3>3. 1 \in 1..Len(target.catalog) /\ Len(target.catalog) \in Nat
        BY <1>2, <2>1, PlacesAre
      <3>4. q \in Seq(Uri!Tokens) /\ q[1] = target.catalog[1] /\ Len(q) >= 1
        <4> DEFINE v == target.catalog
                   e == Encoded(target.id)
        <4>1. v \in Places /\ e \in Seq(Uri!Tokens) /\ 1 \in 1..Len(v) /\ Len(v) \in Nat
          BY <1>2, <2>1, <3>2, <3>3
        <4> HIDE DEF v, e
        <4>2. /\ v \o <<Uri!Slash>> \o e \in Seq(Uri!Tokens)
              /\ (v \o <<Uri!Slash>> \o e)[1] = v[1]
              /\ Len(v \o <<Uri!Slash>> \o e) = Len(v) + 1 + Len(e)
          BY <4>1, JoinedIs
        <4>3. Len(e) \in Nat
          BY <4>1
        <4>4. Len(v \o <<Uri!Slash>> \o e) >= 1
          BY <4>1, <4>2, <4>3
        <4>5. QED
          BY <4>2, <4>4, Zenon DEF v, e
      <3>5. Ending(target.traces) \in Seq(Uri!Tokens)
        BY WordsAreTokens DEF Ending
      <3> HIDE DEF q
      <3>6. Head(q \o Ending(target.traces)) = q[1]
        BY <3>4, <3>5
      <3>7. QED
        BY <1>2, <2>1, <3>1, <3>4, <3>6 DEF PathOf, q
    <2>5. target.catalog = w
      BY <1>2, <2>1, <2>3, <2>4, PlacesAre
    <2>6. QED
      BY <1>2, <2>1, <2>3, <2>5
  <1>5. Uri!ListedIsReadable
    <2>1. SUFFICES ASSUME changes = 0, pc = "answered", NEW g \in given, uri = g.uri,
                          answer[1] # "item"
                   PROVE  FALSE
      BY DEF Uri!ListedIsReadable
    <2>2. PICK w \in Places : Under(g, w)
      BY DEF UriInv, HandedOut
    <2> DEFINE t == [catalog |-> w, id |-> g.item.id, traces |-> g.traces]
               i == g.item
    <2>3. Uri!Parse(uri) = {t}
      BY <2>1, <2>2, UnderIs
    <2>4. Uri!Found(target) = {} /\ target = t
      <3>1. \A x : <<"item", x>>[1] = "item"
        OBVIOUS
      <3>2. Answered
        BY <2>1 DEF UriInv
      <3> HIDE DEF t
      <3>3. QED
        BY <2>1, <2>3, <3>1, <3>2 DEF Answered
    <2>5. t.catalog = w /\ t.id = i.id /\ t.traces = g.traces
      OBVIOUS
    <2>6. i \in Items /\ i \in present /\ i \in Uri!ToSet(Uri!Catalog(i.catalog))
          /\ i.catalog \in Catalogs
      BY <2>1, <2>2, ItemIs DEF UriInv, HandedOut, Under
    <2>7. \/ w = Uri!CatalogPath(i.catalog)
          \/ /\ w \in {<<Uri!Raw("states")>>, <<Uri!Raw("cameras")>>} /\ i.catalog = "entities"
             /\ w = <<Uri!Raw("cameras")>> => Head(i.id) = "camera."
      BY <2>2 DEF Under
    <2>8. g.traces => w = <<Uri!Raw("automations")>>
      BY <2>2 DEF Under
    <2> HIDE DEF t, i
    <2>9. i \in Uri!Found(t)
      <3>1. CASE w \in Uri!Listed \/ g.traces
        <4>1. w = Uri!CatalogPath(i.catalog)
          BY <2>7, <2>8, <3>1, CatalogsApart
        <4>2. i.catalog \in {"devices", "automations"} \cup Uri!NestedCatalogs
          BY <2>6, <2>8, <3>1, <4>1, CatalogsApart
        <4>3. QED
          BY <2>5, <2>6, <3>1, <4>1, <4>2 DEF Uri!Found
      <3>2. CASE ~(w \in Uri!Listed \/ g.traces)
        <4>1. CASE w = Uri!CatalogPath(i.catalog)
          <5>1. w # <<Uri!Raw("states")>> /\ w # <<Uri!Raw("cameras")>>
            BY <2>6, <4>1, CatalogsApart
          <5>2. QED
            BY <2>5, <2>6, <3>2, <4>1, <5>1 DEF Uri!Found
        <4>2. CASE /\ w \in {<<Uri!Raw("states")>>, <<Uri!Raw("cameras")>>}
                   /\ i.catalog = "entities"
                   /\ w = <<Uri!Raw("cameras")>> => Head(i.id) = "camera."
          <5>1. Uri!CatalogPath(i.catalog) = <<Uri!Raw("entities")>>
            BY <4>2, CatalogsApart
          <5>2. QED
            BY <2>5, <2>6, <3>2, <4>2, <5>1 DEF Uri!Found
        <4>3. QED
          BY <2>7, <4>1, <4>2
      <3>3. QED
        BY <3>1, <3>2
    <2>10. QED
      BY <2>4, <2>9
  <1>6. QED
    BY <1>1, <1>3, <1>4, <1>5 DEF UrisAreTrue

\* At the start nothing was handed out.
LEMMA UriInit == ASSUME Uri!Init PROVE UriInv
  BY DEF Uri!Init, UriInv, HandedOut

\* Catalogs are what exists, and what a read finds comes from them.
LEMMA SameCatalogs ==
    ASSUME present' = present
    PROVE  /\ \A c : Uri!Catalog(c)' = Uri!Catalog(c)
           /\ target' = target => Uri!Found(target)' = Uri!Found(target)
  <1>1. \A c : Uri!Catalog(c)' = Uri!Catalog(c)
    BY DEF Uri!Catalog
  <1>2. target' = target => Uri!Found(target)' = Uri!Found(target)
    BY <1>1 DEF Uri!Found
  <1>3. QED
    BY <1>1, <1>2

\* A listing hands out URIs of what the catalog lists.
LEMMA UrisAre ==
    ASSUME NEW c \in Catalogs, NEW i \in Items, i.catalog = c, NEW g \in Uri!Uris(c, i)
    PROVE  g.item = i /\ \E w \in Places : Under(g, w)
  <1> DEFINE at(w, traces) == [uri |-> Uri!ItemUri(w, i.id) \o (IF traces THEN <<Uri!Slash, Uri!Raw("traces")>> ELSE <<>>),
                               item |-> i, traces |-> traces]
  <1>1. \A w : \A traces \in BOOLEAN :
           at(w, traces).item = i /\ at(w, traces).traces = traces
           /\ at(w, traces).uri = PathOf(w, i.id, traces)
    BY DEF PathOf, Ending
  <1>2. \/ g = at(Uri!CatalogPath(c), FALSE)
        \/ c = "entities" /\ g = at(<<Uri!Raw("states")>>, FALSE)
        \/ c = "entities" /\ Head(i.id) = "camera." /\ g = at(<<Uri!Raw("cameras")>>, FALSE)
        \/ c = "automations" /\ g = at(Uri!CatalogPath(c), TRUE)
    BY DEF Uri!Uris
  <1> HIDE DEF at
  <1>3. /\ Uri!CatalogPath(c) \in Places
        /\ <<Uri!Raw("states")>> \in Places /\ <<Uri!Raw("cameras")>> \in Places
    BY DEF Places
  <1>4. CASE g = at(Uri!CatalogPath(c), FALSE)
    BY <1>1, <1>3, <1>4 DEF Under
  <1>5. CASE c = "entities" /\ g = at(<<Uri!Raw("states")>>, FALSE)
    <2>1. Under(g, <<Uri!Raw("states")>>) /\ g.item = i
      BY <1>1, <1>5, CatalogsApart DEF Under
    <2>2. QED
      BY <1>3, <2>1
  <1>6. CASE c = "entities" /\ Head(i.id) = "camera." /\ g = at(<<Uri!Raw("cameras")>>, FALSE)
    <2>1. Under(g, <<Uri!Raw("cameras")>>) /\ g.item = i
      BY <1>1, <1>6 DEF Under
    <2>2. QED
      BY <1>3, <2>1
  <1>7. CASE c = "automations" /\ g = at(Uri!CatalogPath(c), TRUE)
    <2>1. Under(g, Uri!CatalogPath(c)) /\ g.item = i
      BY <1>1, <1>7, CatalogsApart DEF Under
    <2>2. QED
      BY <1>3, <2>1
  <1>8. QED
    BY <1>2, <1>4, <1>5, <1>6, <1>7

\* Every step keeps the invariant.
LEMMA UriNext == ASSUME UriInv, [Uri!Next]_(Uri!vars) PROVE UriInv'
  <1>1. CASE UNCHANGED Uri!vars
    <2>1. /\ present' = present /\ given' = given /\ uri' = uri /\ pc' = pc /\ target' = target
          /\ answer' = answer /\ seen' = seen /\ changes' = changes
      BY <1>1 DEF Uri!vars
    <2>2. HandedOut'
      BY <2>1, SameCatalogs DEF UriInv, HandedOut
    <2>3. Answered <=> Answered'
      BY <2>1, SameCatalogs DEF Answered
    <2>4. QED
      BY <2>1, <2>2, <2>3 DEF UriInv
  <1>2. ASSUME NEW c \in Uri!PlainCatalogs \cup Uri!NestedCatalogs, Uri!List(c)
        PROVE  UriInv'
    <2>1. /\ present' = present /\ uri' = uri /\ pc' = pc /\ target' = target /\ pc = "idle"
          /\ answer' = answer /\ seen' = seen /\ changes' = changes
          /\ given' = Uri!CatalogValue(c)
      BY <1>2 DEF Uri!List
    <2>2. ASSUME NEW g \in given'
          PROVE  /\ \E w \in Places : Under(g, w)
                 /\ g.item \in Uri!ToSet(Uri!Catalog(g.item.catalog))
      <3>1. PICK i \in Uri!ToSet(Uri!Catalog(c)) : g \in Uri!Uris(c, i)
        BY <2>1 DEF Uri!CatalogValue
      <3>2. i \in Items /\ i.catalog = c
        BY CatalogIs DEF UriInv
      <3>3. g.item = i /\ \E w \in Places : Under(g, w)
        BY <3>1, <3>2, UrisAre DEF Catalogs
      <3>4. QED
        BY <3>1, <3>2, <3>3
    <2>3. HandedOut'
      BY <2>1, <2>2, SameCatalogs DEF UriInv, HandedOut
    <2>4. QED
      BY <2>1, <2>3 DEF UriInv
  <1>3. CASE Uri!ReadResource
    <2>1. PICK path \in Requested \cup {g.uri : g \in given} :
             /\ uri' = path
             /\ \/ Uri!Parse(path) = {} /\ pc' = "answered" /\ answer' = <<"refused">>
                \/ pc' = "parsed" /\ target' \in Uri!Parse(path) /\ answer' = answer
      BY <1>3 DEF Uri!ReadResource
    <2>2. /\ pc = "idle" /\ seen' = present /\ present' = present /\ given' = given
          /\ changes' = changes
      BY <1>3 DEF Uri!ReadResource
    <2>3. path \in Seq(Uri!Tokens)
      <3>1. CASE path \in Requested
        BY <3>1, UriAssumption DEF Uri!RequestedAssumption
      <3>2. CASE path \notin Requested
        <4>1. PICK g \in given : path = g.uri
          BY <3>2
        <4>2. QED
          BY <4>1, UnderIs DEF UriInv, HandedOut
      <3>3. QED
        BY <3>1, <3>2
    <2>4. HandedOut'
      BY <2>2, SameCatalogs DEF UriInv, HandedOut
    <2>5. answer = <<"none">>
      BY <2>2 DEF UriInv
    <2>6. QED
      BY <2>1, <2>2, <2>3, <2>4, <2>5 DEF UriInv, Answered
  <1>4. CASE Uri!Fetch
    <2>1. /\ pc = "parsed" /\ pc' = "answered" /\ present' = present /\ given' = given
          /\ uri' = uri /\ target' = target /\ seen' = seen /\ changes' = changes
      BY <1>4 DEF Uri!Fetch
    <2>2. /\ uri \in Seq(Uri!Tokens) /\ target \in Uri!Parse(uri) /\ present \subseteq seen
          /\ present \subseteq Items
      BY <2>1 DEF UriInv
    <2>3. HandedOut'
      BY <2>1, SameCatalogs DEF UriInv, HandedOut
    <2>4. Uri!Found(target)' = Uri!Found(target)
      BY <2>1, SameCatalogs
    <2>5. Answered'
      <3>1. CASE Uri!Found(target) = {}
        <4>1. answer' = <<"not_found">>
          BY <1>4, <3>1 DEF Uri!Fetch
        <4>2. QED
          BY <2>1, <2>2, <2>4, <3>1, <4>1 DEF Answered
      <3>2. CASE Uri!Found(target) # {}
        <4>1. PICK i \in Uri!Found(target) : answer' = <<"item", i>>
          BY <1>4, <3>2 DEF Uri!Fetch
        <4>2. i \in seen
          BY <2>2, FoundIs
        <4>3. QED
          BY <2>1, <2>2, <2>4, <4>1, <4>2 DEF Answered
      <3>3. QED
        BY <3>1, <3>2
    <2>6. QED
      BY <2>1, <2>2, <2>3, <2>5 DEF UriInv
  <1>5. CASE Uri!Change
    <2>1. /\ pc # "answered" /\ changes' = changes + 1 /\ given' = given /\ uri' = uri
          /\ pc' = pc /\ target' = target /\ answer' = answer
          /\ pc = "parsed" => present' \subseteq seen'
      BY <1>5 DEF Uri!Change
    <2>2. present' \subseteq Items /\ changes' \in Nat /\ changes' # 0
      BY <1>5 DEF Uri!Change, UriInv
    <2>3. HandedOut'
      BY <2>1, <2>2 DEF UriInv, HandedOut
    <2>4. QED
      BY <2>1, <2>2, <2>3 DEF UriInv
  <1>6. QED
    BY <1>1, <1>2, <1>3, <1>4, <1>5 DEF Uri!Next

\* The URIs are true of every behaviour (UrisAreTrue; item_uri, decode_item_id,
\* read_resource, catalog_value).
THEOREM UrisAreSafe == Uri!Spec => []UrisAreTrue
  <1>1. UriInv /\ [Uri!Next]_(Uri!vars) => UriInv'
    BY UriNext
  <1>2. QED
    BY <1>1, UriInit, UriImplies, PTL DEF Uri!Spec

-----------------------------------------------------------------------------
(* Sets in order *)

\* R is a strict order of S.
Orderly(R, S) ==
    /\ \A x \in S : <<x, x>> \notin R
    /\ \A x, y, z \in S : <<x, y>> \in R /\ <<y, z>> \in R => <<x, z>> \in R
    /\ \A x, y \in S : x = y \/ <<x, y>> \in R \/ <<y, x>> \in R

\* s is S in the order R.
Enumeration(s, S, R) ==
    /\ s \in [1..Cardinality(S) -> S]
    /\ \A i, j \in 1..Cardinality(S) : i < j => <<s[i], s[j]>> \in R

\* Every finite set can be put in order: by how many elements go before each.
LEMMA EnumerationExists ==
    ASSUME NEW S, IsFiniteSet(S), NEW R, Orderly(R, S)
    PROVE  \E s : Enumeration(s, S, R)
  <1> DEFINE n == Cardinality(S)
             Before(x) == {y \in S : <<y, x>> \in R}
             Rank(x) == Cardinality(Before(x))
  <1>1. n \in Nat /\ ExistsBijection(1..n, S)
    BY FS_CardinalityType
  <1>2. PICK f \in [1..n -> S] : \A i, j \in 1..n : f[i] = f[j] => i = j
    BY <1>1 DEF ExistsBijection, Bijection, Injection, IsInjective
  <1>3. \A x \in S : IsFiniteSet(Before(x)) /\ Rank(x) \in Nat
    BY FS_Subset, FS_CardinalityType
  <1>4. ASSUME NEW x \in S, NEW y \in S, <<x, y>> \in R
        PROVE  Rank(x) < Rank(y)
    <2>1. Before(x) \subseteq Before(y) /\ x \in Before(y) /\ x \notin Before(x)
      BY <1>4 DEF Orderly
    <2>2. Rank(x) <= Rank(y) /\ (Rank(x) = Rank(y) => Before(x) = Before(y))
      <3>1. IsFiniteSet(Before(y)) /\ Before(x) \in SUBSET Before(y)
        BY <1>3, <2>1
      <3> HIDE DEF Before
      <3>2. QED
        BY <3>1, FS_Subset
    <2>3. Rank(x) \in Nat /\ Rank(y) \in Nat
      BY <1>3
    <2> HIDE DEF Rank, Before
    <2>4. QED
      BY <2>1, <2>2, <2>3
  <1> DEFINE ids == [k \in 1..n |-> Rank(f[k])]
  <1> HIDE DEF Rank, n
  <1>5. ids \in [1..n -> Nat]
    BY <1>2, <1>3
  <1>6. PICK p : Ordering(p, ids, n)
    BY <1>1, <1>5, OrderingExists
  <1>7. /\ p \in [1..n -> 1..n]
        /\ \A i, j \in 1..n : p[i] = p[j] => i = j
        /\ \A i, j \in 1..n : i < j => ids[p[i]] <= ids[p[j]]
    BY <1>6 DEF Ordering
  <1> DEFINE s == [k \in 1..n |-> f[p[k]]]
  <1>8. s \in [1..n -> S]
    BY <1>2, <1>7
  <1>9. ASSUME NEW i \in 1..n, NEW j \in 1..n, i < j
        PROVE  <<s[i], s[j]>> \in R
    <2>1. /\ s[i] = f[p[i]] /\ s[j] = f[p[j]] /\ s[i] \in S /\ s[j] \in S
          /\ ids[p[i]] = Rank(s[i]) /\ ids[p[j]] = Rank(s[j])
      BY <1>7, <1>8
    <2>2. i # j /\ p[i] # p[j]
      BY <1>7, <1>9
    <2>3. s[i] # s[j]
      BY <1>2, <1>7, <2>1, <2>2
    <2>4. Rank(s[i]) <= Rank(s[j]) /\ Rank(s[i]) \in Nat /\ Rank(s[j]) \in Nat
      BY <1>3, <1>7, <1>9, <2>1
    <2>5. ~(Rank(s[j]) < Rank(s[i]))
      BY <2>4
    <2> HIDE DEF s
    <2>6. <<s[j], s[i]>> \notin R
      BY <1>4, <2>1, <2>5
    <2>7. QED
      BY <2>1, <2>3, <2>6 DEF Orderly
  <1> HIDE DEF s
  <1>10. QED
    BY <1>8, <1>9 DEF Enumeration, n

\* A set in order has each of its elements once.
LEMMA EnumerationIs ==
    ASSUME NEW S, IsFiniteSet(S), NEW R, Orderly(R, S), NEW s, Enumeration(s, S, R)
    PROVE  /\ Cardinality(S) \in Nat /\ s \in [1..Cardinality(S) -> S]
           /\ s \in Seq(S) /\ Len(s) = Cardinality(S)
           /\ \A i, j \in 1..Cardinality(S) : s[i] = s[j] => i = j
           /\ \A x \in S : \E i \in 1..Cardinality(S) : s[i] = x
           /\ \A i, j \in 1..Cardinality(S) : <<s[i], s[j]>> \in R => i < j
  <1> DEFINE n == Cardinality(S)
  <1>1. n \in Nat
    BY FS_CardinalityType
  <1>2. s \in [1..n -> S] /\ \A i, j \in 1..n : i < j => <<s[i], s[j]>> \in R
    BY DEF Enumeration
  <1> HIDE DEF n
  <1>3. \A i, j \in 1..n : i < j \/ j < i \/ i = j
    BY <1>1
  <1>4. ASSUME NEW i \in 1..n, NEW j \in 1..n, s[i] = s[j]
        PROVE  i = j
    <2>1. s[i] \in S
      BY <1>2
    <2>2. QED
      BY <1>2, <1>3, <1>4, <2>1 DEF Orderly
  <1>5. ASSUME NEW i \in 1..n, NEW j \in 1..n, <<s[i], s[j]>> \in R
        PROVE  i < j
    <2>1. s[i] \in S /\ s[j] \in S
      BY <1>2
    <2>2. ~(j < i)
      <3>1. SUFFICES ASSUME j < i PROVE FALSE
        OBVIOUS
      <3>2. <<s[j], s[i]>> \in R
        BY <1>2, <3>1
      <3>3. QED
        BY <1>5, <2>1, <3>2 DEF Orderly
    <2>3. i # j
      BY <1>5, <2>1 DEF Orderly
    <2>4. QED
      BY <1>3, <2>2, <2>3
  <1>6. \A x \in S : \E i \in 1..n : s[i] = x
    <2>1. s \in Injection(1..n, S)
      BY <1>2, <1>4 DEF Injection, IsInjective
    <2>2. Cardinality(1..n) = n
      BY <1>1, FS_Interval
    <2>3. s \in Surjection(1..n, S)
      BY <2>1, <2>2, FS_Injection DEF n
    <2>4. QED
      BY <2>3 DEF Surjection
  <1>7. s \in Seq(S) /\ Len(s) = n
    BY <1>1, <1>2
  <1>8. QED
    BY <1>1, <1>2, <1>4, <1>5, <1>6, <1>7 DEF n

\* The place of an element is the number of elements up to it.
LEMMA PlaceIs ==
    ASSUME NEW S, IsFiniteSet(S), NEW R, Orderly(R, S), NEW s, Enumeration(s, S, R),
           NEW k \in 1..Cardinality(S)
    PROVE  Cardinality({y \in S : y = s[k] \/ <<y, s[k]>> \in R}) = k
  <1> DEFINE n == Cardinality(S)
             T == {y \in S : y = s[k] \/ <<y, s[k]>> \in R}
             f == [j \in 1..k |-> s[j]]
  <1>1. /\ n \in Nat /\ s \in [1..n -> S]
        /\ \A i, j \in 1..n : s[i] = s[j] => i = j
        /\ \A x \in S : \E i \in 1..n : s[i] = x
        /\ \A i, j \in 1..n : <<s[i], s[j]>> \in R => i < j
    BY EnumerationIs
  <1>2. \A i, j \in 1..n : i < j => <<s[i], s[j]>> \in R
    BY DEF Enumeration
  <1> HIDE DEF n
  <1>3. k \in 1..n
    BY DEF n
  <1>4. k \in Nat /\ \A j \in 1..k : j \in 1..n /\ (j = k \/ j < k)
    BY <1>1, <1>3
  <1>5. f \in [1..k -> T]
    <2>1. \A j \in 1..k : s[j] \in T
      BY <1>1, <1>2, <1>3, <1>4
    <2> HIDE DEF T
    <2>2. QED
      BY <2>1
  <1>6. \A i, j \in 1..k : f[i] = f[j] => i = j
    BY <1>1, <1>4
  <1>7. \A y \in T : \E j \in 1..k : f[j] = y
    <2>1. SUFFICES ASSUME NEW y \in T PROVE \E j \in 1..k : f[j] = y
      OBVIOUS
    <2>2. PICK j \in 1..n : s[j] = y
      BY <1>1
    <2>3. j = k \/ j < k
      BY <1>1, <1>3, <2>2
    <2>4. j \in 1..k
      BY <1>4, <2>2, <2>3
    <2>5. QED
      BY <2>2, <2>4
  <1> HIDE DEF T, f
  <1>8. f \in Bijection(1..k, T)
    BY <1>5, <1>6, <1>7 DEF Bijection, Injection, Surjection, IsInjective
  <1>9. QED
    BY <1>4, <1>8, FS_CountingElements DEF ExistsBijection, T

-----------------------------------------------------------------------------
(* Devices: what is listed *)

\* Numbers in order.
LEMMA NumbersInOrder ==
    ASSUME NEW S, S \subseteq Nat, IsFiniteSet(S)
    PROVE  LET s == Home!Sorted(S)
               n == Cardinality(S)
           IN /\ n \in Nat /\ s \in [1..n -> S] /\ s \in Seq(S) /\ Len(s) = n
              /\ \A i, j \in 1..n : i < j => s[i] < s[j]
              /\ \A i, j \in 1..n : s[i] = s[j] => i = j
              /\ \A x \in S : \E i \in 1..n : s[i] = x
              /\ \A k \in 1..n : Cardinality({y \in S : y <= s[k]}) = k
  <1> DEFINE n == Cardinality(S)
             s == Home!Sorted(S)
             R == {p \in S \X S : p[1] < p[2]}
  <1>1. Orderly(R, S)
    BY DEF Orderly
  <1>2. \A x, y \in S : <<x, y>> \in R <=> x < y
    OBVIOUS
  <1>3. Home!Cardinality(S) = n
    BY DEF Home!Cardinality, Cardinality
  <1> HIDE DEF R
  <1>4. \A t : t \in [1..n -> S] => (DOMAIN t = 1..n)
    OBVIOUS
  <1>5. \A t \in [1..n -> S] :
           (\A i, j \in DOMAIN t : i < j => t[i] < t[j]) <=> Enumeration(t, S, R)
    BY <1>2 DEF Enumeration
  <1>6. \E t \in [1..n -> S] : \A i, j \in DOMAIN t : i < j => t[i] < t[j]
    <2>1. PICK t : Enumeration(t, S, R)
      BY <1>1, EnumerationExists
    <2>2. QED
      BY <1>5, <2>1 DEF Enumeration
  <1>7. s = CHOOSE t \in [1..n -> S] : \A i, j \in DOMAIN t : i < j => t[i] < t[j]
    BY <1>3 DEF Home!Sorted
  <1>8. s \in [1..n -> S] /\ \A i, j \in DOMAIN s : i < j => s[i] < s[j]
    BY <1>6, <1>7
  <1> HIDE DEF s, n
  <1>9. Enumeration(s, S, R)
    BY <1>5, <1>8
  <1>10. /\ n \in Nat /\ s \in [1..n -> S] /\ s \in Seq(S) /\ Len(s) = n
         /\ \A i, j \in 1..n : s[i] = s[j] => i = j
         /\ \A x \in S : \E i \in 1..n : s[i] = x
    BY <1>1, <1>9, EnumerationIs DEF n
  <1>11. ASSUME NEW k \in 1..n
         PROVE  Cardinality({y \in S : y <= s[k]}) = k
    <2>1. s[k] \in S
      BY <1>8
    <2> DEFINE m == s[k]
    <2>4. \A y \in S : y \in Nat /\ m \in Nat
      BY <2>1
    <2>5. \A y \in S : y <= m <=> y = m \/ y < m
      <3> HIDE DEF m
      <3>1. QED
        BY <2>4
    <2>2. {y \in S : y <= s[k]} = {y \in S : y = s[k] \/ <<y, s[k]>> \in R}
      <3>1. \A y \in S : y < m <=> <<y, m>> \in R
        BY <1>2, <2>1
      <3> HIDE DEF m
      <3>2. {y \in S : y <= m} = {y \in S : y = m \/ <<y, m>> \in R}
        BY <2>5, <3>1
      <3>3. QED
        BY <3>2 DEF m
    <2>3. QED
      BY <1>1, <1>9, <2>2, PlaceIs DEF n
  <1>12. \A i, j \in 1..n : i < j => s[i] < s[j]
    BY <1>8
  <1>13. QED
    BY <1>10, <1>11, <1>12 DEF s, n

\* Entities in order, cut at a limit.
Listed(entities, visible, limit) ==
    /\ entities \in Seq(visible) /\ Len(entities) \in Nat /\ Len(entities) <= limit
    /\ \A i, j \in 1..Len(entities) : i < j => entities[i] < entities[j]

\* The entities that are listed are the first of what is visible, up to the limit.
LEMMA CutIs ==
    ASSUME NEW V, V \subseteq Home!Entities, NEW limit \in Nat, query.limit = limit
    PROVE  LET entities == Home!Cut(Home!Sorted(V))
               listed == {e \in V : Home!Cardinality({f \in V : f <= e}) <= limit}
           IN /\ Listed(entities, V, limit)
              /\ Home!ToSet(entities) = listed
              /\ (Len(Home!Sorted(V)) > limit) = (listed # V)
              /\ Home!Sorted(V) = <<>> => V = {}
  <1> DEFINE s == Home!Sorted(V)
             n == Cardinality(V)
             m == IF Len(s) < limit THEN Len(s) ELSE limit
             c == SubSeq(s, 1, m)
             listed == {e \in V : Cardinality({f \in V : f <= e}) <= limit}
  <1>0. NumEntities \in Nat
    BY HomeAssumption DEF Home!ConstantsAssumption
  <1>1. V \subseteq Nat /\ IsFiniteSet(V)
    <2>1. IsFiniteSet(Home!Entities) /\ Home!Entities \subseteq Nat
      BY <1>0, FS_Interval DEF Home!Entities
    <2>2. QED
      BY <2>1, FS_Subset
  <1>2. /\ n \in Nat /\ s \in [1..n -> V] /\ s \in Seq(V) /\ Len(s) = n
        /\ \A i, j \in 1..n : i < j => s[i] < s[j]
        /\ \A x \in V : \E i \in 1..n : s[i] = x
        /\ \A k \in 1..n : Cardinality({y \in V : y <= s[k]}) = k
    BY <1>1, NumbersInOrder
  <1>3. Home!Cut(s) = c
    BY DEF Home!Cut
  <1>4. listed = {e \in V : Home!Cardinality({f \in V : f <= e}) <= limit}
    BY DEF Home!Cardinality, Cardinality
  <1> HIDE DEF s, n
  <1>5. m \in 0..n /\ m <= limit
    BY <1>2
  <1>6. c \in Seq(V) /\ Len(c) = m /\ \A i \in 1..m : c[i] = s[i]
    BY <1>2, <1>5
  <1> HIDE DEF c
  <1>7. Listed(c, V, limit)
    BY <1>2, <1>5, <1>6 DEF Listed
  <1>8. \A k \in 1..n : s[k] \in listed <=> k <= limit
    BY <1>2
  <1>9. Home!ToSet(c) = {c[i] : i \in 1..m}
    BY <1>6 DEF Home!ToSet
  <1>10. \A k \in 1..n : k <= limit <=> k \in 1..m
    BY <1>2
  <1> HIDE DEF m
  <1>11. Home!ToSet(c) = listed
    <2>1. ASSUME NEW e \in listed PROVE e \in Home!ToSet(c)
      <3>1. PICK k \in 1..n : s[k] = e
        BY <1>2
      <3>2. k \in 1..m
        BY <1>8, <1>10, <3>1
      <3>3. QED
        BY <1>6, <1>9, <3>1, <3>2
    <2>2. ASSUME NEW k \in 1..m PROVE c[k] \in listed
      <3>1. k \in 1..n
        BY <1>2, <1>5
      <3>2. QED
        BY <1>6, <1>8, <1>10, <3>1
    <2> HIDE DEF listed
    <2>3. QED
      BY <1>9, <2>1, <2>2
  <1>12. (n > limit) = (listed # V)
    <2>1. CASE n > limit
      <3>1. limit + 1 \in 1..n /\ ~(limit + 1 <= limit)
        BY <1>2, <2>1
      <3>2. s[limit + 1] \in V /\ s[limit + 1] \notin listed
        BY <1>2, <1>8, <3>1
      <3>3. listed # V
        BY <3>2
      <3> HIDE DEF listed
      <3>4. QED
        BY <2>1, <3>3
    <2>2. CASE ~(n > limit)
      <3>1. \A k \in 1..n : k <= limit
        BY <1>2, <2>2
      <3>2. \A x \in V : x \in listed
        <4>1. SUFFICES ASSUME NEW x \in V PROVE x \in listed
          OBVIOUS
        <4>2. PICK k \in 1..n : s[k] = x
          BY <1>2
        <4> HIDE DEF listed
        <4>3. QED
          BY <1>8, <3>1, <4>2
      <3>3. listed = V
        BY <3>2
      <3> HIDE DEF listed
      <3>4. QED
        BY <2>2, <3>3
    <2>3. QED
      BY <2>1, <2>2
  <1>13. s = <<>> => V = {}
    <2>1. SUFFICES ASSUME s = <<>> PROVE V = {}
      OBVIOUS
    <2>2. n = 0
      BY <1>2, <2>1
    <2>3. QED
      BY <1>2, <2>2
  <1> HIDE DEF listed
  <1>14. QED
    BY <1>2, <1>3, <1>4, <1>7, <1>11, <1>12, <1>13 DEF s

-----------------------------------------------------------------------------
(* Devices: the groups *)

\* What the reads have returned: entities in order, an entry for each of them, one for each
\* device that they refer to, and areas.
Reads(entities, entries, found, known) ==
    /\ entities \in Seq(Home!Entities) /\ Len(entities) \in Nat
    /\ \A i, j \in 1..Len(entities) : i < j => entities[i] < entities[j]
    /\ entries \in [Home!ToSet(entities) -> Home!EntityEntries]
    /\ found \in [{entries[e].device : e \in Home!ToSet(entities)} \ {Home!None} -> Home!DeviceEntries]
    /\ known \subseteq Home!Areas

\* What an entry of a registry has in it.
LEMMA EntriesTyped ==
    /\ \A r \in Home!EntityEntries :
          r.device \in Home!Devices \cup {0} /\ r.area \in Home!Areas \cup {0}
    /\ \A r \in Home!DeviceEntries : r.known \in BOOLEAN /\ r.area \in Home!Areas \cup {0}
  <1>1. \A r \in Home!Registered : r.device \in Home!Devices \cup {0} /\ r.area \in Home!Areas \cup {0}
    BY DEF Home!Registered, Home!None
  <1>2. \A r \in {[known |-> FALSE, device |-> 0, area |-> 0]} : r.device = 0 /\ r.area = 0
    OBVIOUS
  <1>3. \A r \in [known : {TRUE}, area : Home!Areas \cup {0}] :
           r.known \in BOOLEAN /\ r.area \in Home!Areas \cup {0}
    OBVIOUS
  <1>4. \A r \in {[known |-> FALSE, area |-> 0]} : r.known = FALSE /\ r.area = 0
    OBVIOUS
  <1>5. /\ Home!EntityEntries = Home!Registered \cup {[known |-> FALSE, device |-> 0, area |-> 0]}
        /\ Home!DeviceEntries = [known : {TRUE}, area : Home!Areas \cup {0}]
                                    \cup {[known |-> FALSE, area |-> 0]}
    BY DEF Home!EntityEntries, Home!DeviceEntries, Home!None
  <1>6. \A r \in Home!EntityEntries :
           r.device \in Home!Devices \cup {0} /\ r.area \in Home!Areas \cup {0}
    BY <1>1, <1>2, <1>5
  <1>7. \A r \in Home!DeviceEntries : r.known \in BOOLEAN /\ r.area \in Home!Areas \cup {0}
    BY <1>3, <1>4, <1>5
  <1>8. QED
    BY <1>6, <1>7

\* An entity's device, area and what is found of its device are of their types.
LEMMA ReadsTyped ==
    ASSUME NEW entities, NEW entries, NEW found, NEW known, Reads(entities, entries, found, known),
           NEW e \in Home!ToSet(entities)
    PROVE  /\ entries[e].device \in Home!Devices \cup {0}
           /\ Home!Found(e, entries, found).known \in BOOLEAN
           /\ Home!Found(e, entries, found).known => entries[e].device \in Home!Devices
           /\ Home!AreaOf(e, entries, found) \in Home!Areas \cup {0}
  <1>1. entries[e] \in Home!EntityEntries
    BY DEF Reads
  <1>2. entries[e].device \in Home!Devices \cup {0} /\ entries[e].area \in Home!Areas \cup {0}
    BY <1>1, EntriesTyped
  <1>3. entries[e].device # 0 => found[entries[e].device] \in Home!DeviceEntries
    BY DEF Reads, Home!None
  <1>4. entries[e].device # 0 => /\ found[entries[e].device].known \in BOOLEAN
                                 /\ found[entries[e].device].area \in Home!Areas \cup {0}
    BY <1>3, EntriesTyped
  <1>5. QED
    BY <1>2, <1>4 DEF Home!Found, Home!AreaOf, Home!None

\* Two entities have one key if they are the same or belong to one device in one area.
LEMMA KeysAgree ==
    ASSUME NEW entities, NEW entries, NEW found, NEW known, Reads(entities, entries, found, known),
           NEW e \in Home!ToSet(entities), NEW f \in Home!ToSet(entities)
    PROVE  Home!Key(e, entries, found) = Home!Key(f, entries, found) <=>
             \/ e = f
             \/ /\ entries[e].device # 0 /\ entries[e].device = entries[f].device
                /\ Home!AreaOf(e, entries, found) = Home!AreaOf(f, entries, found)
  <1> DEFINE a == Home!AreaOf(e, entries, found)
             b == Home!AreaOf(f, entries, found)
             c == entries[e].device
             d == entries[f].device
  <1>1. Home!Key(e, entries, found) = IF c # 0 THEN <<"device", c, a>> ELSE <<"standalone", e, 0>>
    BY DEF Home!Key, Home!None
  <1>2. Home!Key(f, entries, found) = IF d # 0 THEN <<"device", d, b>> ELSE <<"standalone", f, 0>>
    BY DEF Home!Key, Home!None
  <1>3. e = f => a = b /\ c = d
    OBVIOUS
  <1> HIDE DEF a, b, c, d
  <1>4. <<"device", c, a>> = <<"device", d, b>> <=> c = d /\ a = b
    OBVIOUS
  <1>5. <<"standalone", e, 0>> = <<"standalone", f, 0>> <=> e = f
    OBVIOUS
  <1>6. <<"device", c, a>> # <<"standalone", f, 0>> /\ <<"standalone", e, 0>> # <<"device", d, b>>
    OBVIOUS
  <1>7. QED
    BY <1>1, <1>2, <1>3, <1>4, <1>5, <1>6 DEF a, b, c, d

\* The area and the name under which a group with e in it is listed.
AreaName(area, known) == IF area \in known THEN AreaNames[area] ELSE 0
NameOf(e, entries, found) ==
    IF Home!Found(e, entries, found).known THEN Home!DeviceName(entries[e].device) ELSE 0

\* A group has the entities of its key, in order, and each of them would give it the same names.
LEMMA GroupIs ==
    ASSUME NEW entities, NEW entries, NEW found, NEW known, Reads(entities, entries, found, known),
           NEW e \in Home!ToSet(entities)
    PROVE  LET g == Home!Group(Home!Key(e, entries, found), entities, entries, found, known)
               alike == {f \in Home!ToSet(entities) :
                           Home!Key(f, entries, found) = Home!Key(e, entries, found)}
           IN /\ Home!ToSet(g.entities) = alike
              /\ Home!IsInjective(g.entities)
              /\ g.entities[1] \in alike
              /\ g.area = AreaName(Home!AreaOf(e, entries, found), known)
              /\ g.name = NameOf(e, entries, found)
              /\ g.area \in Nat /\ g.name \in Nat /\ g.entities[1] \in Nat
  <1> DEFINE key == Home!Key(e, entries, found)
             at == {i \in DOMAIN entities : Home!Key(entities[i], entries, found) = key}
             order == Home!Sorted(at)
             members == [i \in DOMAIN order |-> entities[order[i]]]
             alike == {f \in Home!ToSet(entities) : Home!Key(f, entries, found) = key}
             first == members[1]
             n == Len(entities)
             g == Home!Group(key, entities, entries, found, known)
             m == Cardinality(at)
  <1>0. /\ n \in Nat /\ entities \in [1..n -> Home!Entities]
        /\ \A i, j \in 1..n : entities[i] = entities[j] => i = j
        /\ Home!ToSet(entities) = {entities[i] : i \in 1..n}
    <2>1. n \in Nat /\ entities \in [1..n -> Home!Entities] /\ DOMAIN entities = 1..n
      BY DEF Reads
    <2>2. \A i \in 1..n : entities[i] \in Nat
      BY <2>1, HomeAssumption DEF Home!Entities, Home!ConstantsAssumption
    <2>3. \A i, j \in 1..n : entities[i] = entities[j] => i = j
      <3>1. \A i, j \in 1..n : i < j => entities[i] < entities[j]
        BY DEF Reads
      <3> HIDE DEF n
      <3>2. QED
        BY <2>1, <2>2, <3>1
    <2>4. QED
      BY <2>1, <2>3 DEF Home!ToSet
  <1>1. at \subseteq 1..n /\ IsFiniteSet(at) /\ at \subseteq Nat
    <2>1. at \subseteq 1..n
      BY <1>0
    <2>2. IsFiniteSet(1..n) /\ 1..n \subseteq Nat
      BY <1>0, FS_Interval
    <2> HIDE DEF at, n
    <2>3. IsFiniteSet(at)
      BY <2>1, <2>2, FS_Subset
    <2>4. QED
      BY <2>1, <2>2, <2>3
  <1>2. /\ m \in Nat /\ order \in [1..m -> at]
        /\ \A i, j \in 1..m : order[i] = order[j] => i = j
        /\ \A x \in at : \E i \in 1..m : order[i] = x
    <2> HIDE DEF at
    <2>1. QED
      BY <1>1, NumbersInOrder
  <1>3. g = [name |-> IF Home!Found(first, entries, found).known
                      THEN Home!DeviceName(entries[first].device) ELSE 0,
             area |-> IF Home!AreaOf(first, entries, found) \in known
                      THEN AreaNames[Home!AreaOf(first, entries, found)] ELSE 0,
             entities |-> members]
    BY DEF Home!Group, Home!None
  <1> HIDE DEF g
  <1>4. \A i \in 1..n : i \in at <=> entities[i] \in alike
    BY <1>0
  <1> HIDE DEF at, m, n, order
  <1>5. members = [i \in 1..m |-> entities[order[i]]]
    BY <1>2
  <1> HIDE DEF members, alike
  <1>6. \A i \in 1..m : order[i] \in 1..n /\ members[i] = entities[order[i]] /\ members[i] \in alike
    BY <1>1, <1>2, <1>4, <1>5
  <1>7. \A f \in alike : \E i \in 1..m : members[i] = f
    <2>1. SUFFICES ASSUME NEW f \in alike PROVE \E i \in 1..m : members[i] = f
      OBVIOUS
    <2>2. PICK x \in 1..n : entities[x] = f
      BY <1>0 DEF alike
    <2>3. PICK i \in 1..m : order[i] = x
      BY <1>2, <1>4, <2>2
    <2>4. QED
      BY <1>6, <2>2, <2>3
  <1>8. DOMAIN members = 1..m
    BY <1>5
  <1>9. Home!ToSet(members) = alike
    BY <1>6, <1>7, <1>8 DEF Home!ToSet
  <1>10. Home!IsInjective(members)
    <2>1. \A i, j \in 1..m : members[i] = members[j] => i = j
      BY <1>0, <1>2, <1>6
    <2>2. QED
      BY <1>8, <2>1 DEF Home!IsInjective
  <1>11. e \in alike
    BY DEF alike
  <1>12. first \in alike
    <2>1. 1 \in 1..m
      BY <1>2, <1>7, <1>11
    <2>2. QED
      BY <1>6, <2>1
  <1> HIDE DEF first
  <1>13. first \in Home!ToSet(entities) /\ Home!Key(first, entries, found) = key
    BY <1>12 DEF alike
  <1>14. \/ e = first
         \/ /\ entries[e].device # 0 /\ entries[e].device = entries[first].device
            /\ Home!AreaOf(e, entries, found) = Home!AreaOf(first, entries, found)
    BY <1>13, KeysAgree
  <1>15. /\ Home!AreaOf(e, entries, found) = Home!AreaOf(first, entries, found)
         /\ entries[e].device = entries[first].device
         /\ Home!Found(e, entries, found) = Home!Found(first, entries, found)
    <2>1. entries[e].device = entries[first].device
          /\ Home!AreaOf(e, entries, found) = Home!AreaOf(first, entries, found)
      BY <1>14
    <2>2. QED
      BY <2>1 DEF Home!Found
  <1>16. /\ g.entities = members
         /\ g.area = AreaName(Home!AreaOf(e, entries, found), known)
         /\ g.name = NameOf(e, entries, found)
    BY <1>3, <1>15 DEF AreaName, NameOf
  <1>17. g.area \in Nat
    <2>1. known \subseteq Home!Areas /\ \A a \in Home!Areas : AreaNames[a] \in Nat
      BY HomeAssumption DEF Reads, Home!ConstantsAssumption
    <2>2. QED
      BY <1>16, <2>1 DEF AreaName
  <1>18. g.name \in Nat
    <2>1. \A d \in Home!Devices : Home!DeviceName(d) \in Nat
      <3>1. DeviceNames \in [Home!Devices -> [name : Nat, name_by_user : Nat]]
        BY HomeAssumption DEF Home!ConstantsAssumption
      <3>2. QED
        BY <3>1 DEF Home!DeviceName
    <2>2. Home!Found(e, entries, found).known => entries[e].device \in Home!Devices
      BY ReadsTyped
    <2>3. QED
      BY <1>16, <2>1, <2>2 DEF NameOf
  <1>19. first \in Nat
    <2>1. Home!Entities \subseteq Nat
      BY HomeAssumption DEF Home!Entities, Home!ConstantsAssumption
    <2>2. Home!ToSet(entities) \subseteq Home!Entities
      BY <1>0
    <2>3. QED
      BY <1>13, <2>1, <2>2
  <1>20. QED
    BY <1>9, <1>10, <1>12, <1>16, <1>17, <1>18, <1>19 DEF alike, first, g

\* A listing has a group for each key, in order: the entities of a key are together, once,
\* under the names that each of them gives.
Grouped(groups, entities, entries, found, known) ==
    LET E == Home!ToSet(entities)
        Alike(e) == {f \in E : Home!Key(f, entries, found) = Home!Key(e, entries, found)}
    IN /\ \E n \in Nat : DOMAIN groups = 1..n
       /\ \A i \in DOMAIN groups :
             /\ Home!IsInjective(groups[i].entities)
             /\ \E e \in E : /\ Home!ToSet(groups[i].entities) = Alike(e)
                             /\ groups[i].area = AreaName(Home!AreaOf(e, entries, found), known)
                             /\ groups[i].name = NameOf(e, entries, found)
       /\ \A e \in E : \E i \in DOMAIN groups : Home!ToSet(groups[i].entities) = Alike(e)
       /\ \A i, j \in DOMAIN groups : i < j => Home!Before(groups[i], groups[j])
       /\ \A i, j \in DOMAIN groups :
             i # j => Home!ToSet(groups[i].entities) \cap Home!ToSet(groups[j].entities) = {}

\* group_devices makes such a listing.
LEMMA GroupDevicesIs ==
    ASSUME NEW entities, NEW entries, NEW found, NEW known, Reads(entities, entries, found, known)
    PROVE  Grouped(Home!GroupDevices(entities, entries, found, known), entities, entries, found, known)
  <1> DEFINE E == Home!ToSet(entities)
             K(e) == Home!Key(e, entries, found)
             G(e) == Home!Group(K(e), entities, entries, found, known)
             Alike(e) == {f \in E : K(f) = K(e)}
             S == {G(e) : e \in E}
             R == {p \in S \X S : Home!Before(p[1], p[2])}
             n == Cardinality(S)
             groups == Home!GroupDevices(entities, entries, found, known)
             First(g) == g.entities[1]
  <1>1. \A e \in E : /\ Home!ToSet(G(e).entities) = Alike(e)
                     /\ Home!IsInjective(G(e).entities)
                     /\ First(G(e)) \in Alike(e)
                     /\ G(e).area = AreaName(Home!AreaOf(e, entries, found), known)
                     /\ G(e).name = NameOf(e, entries, found)
                     /\ G(e).area \in Nat /\ G(e).name \in Nat /\ First(G(e)) \in Nat
    BY GroupIs
  <1>2. \A e, f \in E : First(G(e)) = First(G(f)) => G(e) = G(f)
    <2>1. SUFFICES ASSUME NEW e \in E, NEW f \in E, First(G(e)) = First(G(f))
                   PROVE  K(e) = K(f)
      OBVIOUS
    <2>2. First(G(e)) \in Alike(e) /\ First(G(f)) \in Alike(f)
      BY <1>1
    <2> HIDE DEF G, K, First
    <2>3. QED
      BY <2>1, <2>2
  <1>3. IsFiniteSet(S)
    <2>1. IsFiniteSet(E)
      <3>1. E \subseteq Home!Entities
        BY DEF Reads, Home!ToSet
      <3>2. IsFiniteSet(Home!Entities)
        BY HomeAssumption, FS_Interval DEF Home!Entities, Home!ConstantsAssumption
      <3> HIDE DEF E
      <3>3. QED
        BY <3>1, <3>2, FS_Subset
    <2>2. [e \in E |-> G(e)] \in Surjection(E, S)
      <3> HIDE DEF G, E
      <3>1. QED
        BY DEF Surjection
    <2> HIDE DEF E, S, G
    <2>3. QED
      BY <2>1, <2>2, FS_Surjection
  <1>4. S = {Home!Group(k, entities, entries, found, known) : k \in {K(e) : e \in E}}
    <2> HIDE DEF K, E
    <2>1. QED
      OBVIOUS
  <1> HIDE DEF G, K, Alike
  <1>5. \A g \in S : g.area \in Nat /\ g.name \in Nat /\ First(g) \in Nat
    BY <1>1
  <1>6. \A g, h \in S : First(g) = First(h) => g = h
    BY <1>2
  <1>7. \A g, h \in S : <<g, h>> \in R <=> Home!Before(g, h)
    OBVIOUS
  <1>8. Orderly(R, S)
    <2> HIDE DEF S, R
    <2>1. \A g \in S : ~Home!Before(g, g)
      BY <1>5 DEF Home!Before
    <2>2. \A g, h, k \in S : Home!Before(g, h) /\ Home!Before(h, k) => Home!Before(g, k)
      BY <1>5 DEF Home!Before
    <2>3. \A g, h \in S : First(g) = First(h) \/ Home!Before(g, h) \/ Home!Before(h, g)
      BY <1>5 DEF Home!Before
    <2> HIDE DEF First
    <2>4. QED
      BY <1>6, <1>7, <2>1, <2>2, <2>3 DEF Orderly
  <1>9. groups = CHOOSE s \in [1..n -> S] : \A i, j \in DOMAIN s : i < j => Home!Before(s[i], s[j])
    <2>1. groups = Home!InOrder(S)
      BY <1>4 DEF Home!GroupDevices, K, E
    <2>2. Home!Cardinality(S) = n
      BY DEF Home!Cardinality, Cardinality
    <2> HIDE DEF S, n, groups
    <2>3. QED
      BY <2>1, <2>2 DEF Home!InOrder
  <1> HIDE DEF groups, S, R
  <1>10. \A s \in [1..n -> S] :
            (\A i, j \in DOMAIN s : i < j => Home!Before(s[i], s[j])) <=> Enumeration(s, S, R)
    BY <1>7 DEF Enumeration
  <1>11. groups \in [1..n -> S] /\ Enumeration(groups, S, R)
    <2>1. PICK s : Enumeration(s, S, R)
      BY <1>3, <1>8, EnumerationExists
    <2>2. s \in [1..n -> S]
      BY <2>1 DEF Enumeration
    <2>3. \E t \in [1..n -> S] : \A i, j \in DOMAIN t : i < j => Home!Before(t[i], t[j])
      BY <1>10, <2>1, <2>2
    <2>4. groups \in [1..n -> S] /\ \A i, j \in DOMAIN groups : i < j => Home!Before(groups[i], groups[j])
      BY <1>9, <2>3
    <2>5. QED
      BY <1>10, <2>4
  <1>12. /\ n \in Nat
         /\ \A i, j \in 1..n : groups[i] = groups[j] => i = j
         /\ \A g \in S : \E i \in 1..n : groups[i] = g
    BY <1>3, <1>8, <1>11, EnumerationIs
  <1> HIDE DEF n
  <1>13. DOMAIN groups = 1..n /\ \A i \in 1..n : groups[i] \in S
    BY <1>11
  <1>14. \A i \in 1..n : \E e \in E : groups[i] = G(e)
    BY <1>13 DEF S
  <1>15. \A i \in 1..n :
            /\ Home!IsInjective(groups[i].entities)
            /\ \E e \in E : /\ Home!ToSet(groups[i].entities) = Alike(e)
                            /\ groups[i].area = AreaName(Home!AreaOf(e, entries, found), known)
                            /\ groups[i].name = NameOf(e, entries, found)
    <2>1. SUFFICES ASSUME NEW i \in 1..n, NEW e \in E, groups[i] = G(e)
                   PROVE  /\ Home!IsInjective(groups[i].entities)
                                        /\ Home!ToSet(groups[i].entities) = Alike(e)
                          /\ groups[i].area = AreaName(Home!AreaOf(e, entries, found), known)
                          /\ groups[i].name = NameOf(e, entries, found)
      <3> HIDE DEF E, First
      <3>1. QED
        BY <1>14
    <2>2. QED
      BY <1>1, <2>1
  <1>16. \A e \in E : \E i \in 1..n : Home!ToSet(groups[i].entities) = Alike(e)
    <2>1. SUFFICES ASSUME NEW e \in E PROVE \E i \in 1..n : Home!ToSet(groups[i].entities) = Alike(e)
      OBVIOUS
    <2>2. G(e) \in S
      BY DEF S
    <2>3. PICK i \in 1..n : groups[i] = G(e)
      BY <1>12, <2>2
    <2>4. QED
      BY <1>1, <2>3
  <1>17. \A i, j \in 1..n : i < j => Home!Before(groups[i], groups[j])
    BY <1>7, <1>11, <1>13 DEF Enumeration, n
  <1>18. \A i, j \in 1..n :
            i # j => Home!ToSet(groups[i].entities) \cap Home!ToSet(groups[j].entities) = {}
    <2>1. SUFFICES ASSUME NEW i \in 1..n, NEW j \in 1..n,
                          NEW x, x \in Home!ToSet(groups[i].entities),
                          x \in Home!ToSet(groups[j].entities)
                   PROVE  i = j
      OBVIOUS
    <2>2. PICK e \in E : groups[i] = G(e)
      BY <1>14
    <2>3. PICK f \in E : groups[j] = G(f)
      BY <1>14
    <2>4. x \in Alike(e) /\ x \in Alike(f)
      BY <1>1, <2>1, <2>2, <2>3
    <2>5. K(e) = K(f)
      BY <2>4 DEF Alike
    <2>6. groups[i] = groups[j]
      BY <2>2, <2>3, <2>5 DEF G
    <2>7. QED
      BY <1>12, <2>6
  <1> HIDE DEF First
  <1>19. QED
    BY <1>12, <1>13, <1>15, <1>16, <1>17, <1>18 DEF Grouped, groups, Alike, K, First

-----------------------------------------------------------------------------
(* Devices: the invariant *)

\* The types of what a listing reads.
HomeTypes ==
    /\ exposed \subseteq Home!Entities /\ present \subseteq Home!Entities
    /\ registry \in [Home!Entities -> Home!EntityEntries]
    /\ devices \in [Home!Devices -> Home!DeviceEntries]
    /\ areas \subseteq Home!Areas /\ changes \in Nat
    /\ pc \in {"idle", "exposure", "states", "entity_registry", "device_registry",
               "area_registry", "answered"}
    /\ pc # "idle" => query \in Home!Queries /\ exposed \subseteq shown
    /\ got = [exposed |-> got.exposed, entities |-> got.entities, truncated |-> got.truncated,
              registry |-> got.registry, devices |-> got.devices]

\* The exposure that was read, the states that were and the entries of both registries: each is
\* of its moment, which is the present one if nothing has changed.
ExposureRead == got.exposed \subseteq shown /\ (changes = 0 => got.exposed = exposed)

\* What is listed was visible when the states were read, and is the first of it.
StatesRead ==
    \E V \in SUBSET (got.exposed \cap query.admits \cap Home!Entities) :
        /\ got.entities = Home!Cut(Home!Sorted(V))
        /\ got.truncated = (Len(Home!Sorted(V)) > query.limit)
        /\ changes = 0 => V = exposed \cap present \cap query.admits

\* There is an entry for each entity that is listed.
RegistryRead ==
    /\ got.registry \in [Home!ToSet(got.entities) -> Home!EntityEntries]
    /\ changes = 0 => got.registry = [e \in Home!ToSet(got.entities) |-> registry[e]]

Referred == {got.registry[e].device : e \in Home!ToSet(got.entities)} \ {Home!None}

\* There is an entry for each device that is referred to.
DevicesRead ==
    /\ got.devices \in [Referred -> Home!DeviceEntries]
    /\ changes = 0 => got.devices = [d \in Referred |-> devices[d]]

\* How far the listing has come, and that its answer is made of what was read.
HomeInv ==
    /\ HomeTypes
    /\ pc \notin {"idle", "exposure"} => ExposureRead
    /\ pc \notin {"idle", "exposure", "states"} => StatesRead
    /\ pc \in {"device_registry", "area_registry"} => RegistryRead
    /\ pc = "area_registry" => DevicesRead
    /\ pc = "answered" /\ query.action = "device.list" =>
          \/ Home!ToSet(got.entities) = {} /\ answer = <<>>
          \/ /\ RegistryRead /\ DevicesRead
             /\ answer = Home!GroupDevices(got.entities, got.registry, got.devices, areas)

\* What is asked.
LEMMA QueriesTyped ==
    ASSUME query \in Home!Queries
    PROVE  query.limit \in Nat \ {0} /\ query.admits \subseteq Home!Entities
  <1>1. ListLimits \subseteq Nat \ {0}
    BY HomeAssumption DEF Home!ConstantsAssumption
  <1>2. CASE query \in [action : {"device.list"}, admits : {Home!Entities}, limit : ListLimits]
    BY <1>1, <1>2
  <1>3. CASE query \in [action : {"entity.list"}, admits : SUBSET Home!Entities, limit : ListLimits]
    BY <1>1, <1>3
  <1>4. QED
    BY <1>2, <1>3 DEF Home!Queries

\* What follows of the reads for the entities that are listed.
LEMMA ListedIs ==
    ASSUME query \in Home!Queries, StatesRead
    PROVE  /\ got.entities \in Seq(Home!Entities) /\ Len(got.entities) \in Nat
           /\ Len(got.entities) <= query.limit
           /\ \A i, j \in 1..Len(got.entities) : i < j => got.entities[i] < got.entities[j]
           /\ Home!ToSet(got.entities) \subseteq got.exposed \cap Home!Entities
           /\ changes = 0 =>
                 LET visible == {e \in exposed \cap present : e \in query.admits}
                     listed == {e \in visible : Home!Cardinality({f \in visible : f <= e}) <= query.limit}
                 IN Home!ToSet(got.entities) = listed /\ got.truncated = (listed # visible)
  <1>1. PICK V \in SUBSET (got.exposed \cap query.admits \cap Home!Entities) :
            /\ got.entities = Home!Cut(Home!Sorted(V))
            /\ got.truncated = (Len(Home!Sorted(V)) > query.limit)
            /\ changes = 0 => V = exposed \cap present \cap query.admits
    BY DEF StatesRead
  <1> DEFINE listed == {e \in V : Home!Cardinality({f \in V : f <= e}) <= query.limit}
  <1>2. query.limit \in Nat
    BY QueriesTyped
  <1>3. /\ Listed(got.entities, V, query.limit) /\ Home!ToSet(got.entities) = listed
        /\ got.truncated = (listed # V)
    <2>1. V \subseteq Home!Entities
      BY <1>1
    <2>2. /\ Listed(Home!Cut(Home!Sorted(V)), V, query.limit)
          /\ Home!ToSet(Home!Cut(Home!Sorted(V))) = listed
          /\ (Len(Home!Sorted(V)) > query.limit) = (listed # V)
      BY <1>2, <2>1, CutIs
    <2> HIDE DEF listed
    <2>3. QED
      BY <1>1, <2>2
  <1>4. got.entities \in Seq(Home!Entities)
    <2>1. got.entities \in Seq(V) /\ V \subseteq Home!Entities
      BY <1>1, <1>3 DEF Listed
    <2>2. QED
      BY <2>1
  <1>5. Home!ToSet(got.entities) \subseteq got.exposed \cap Home!Entities
    <2>1. listed \subseteq V
      OBVIOUS
    <2> HIDE DEF listed
    <2>2. QED
      BY <1>1, <1>3, <2>1
  <1>6. changes = 0 => V = {e \in exposed \cap present : e \in query.admits}
    BY <1>1
  <1>7. QED
    BY <1>3, <1>4, <1>5, <1>6 DEF Listed

\* What the listing was made of.
LEMMA ReadsAre ==
    ASSUME HomeTypes, pc # "idle", StatesRead, RegistryRead, DevicesRead
    PROVE  Reads(got.entities, got.registry, got.devices, areas)
  <1>1. query \in Home!Queries
    BY DEF HomeTypes
  <1>2. QED
    BY <1>1, ListedIs DEF Reads, HomeTypes, RegistryRead, DevicesRead, Referred

\* The invariant holds before the call.
LEMMA HomeInit == Home!Init => HomeInv
  <1> SUFFICES ASSUME Home!Init PROVE HomeInv
    OBVIOUS
  <1>1. got = Home!Nothing /\ pc = "idle"
    BY DEF Home!Init
  <1>2. got = [exposed |-> got.exposed, entities |-> got.entities, truncated |-> got.truncated,
               registry |-> got.registry, devices |-> got.devices]
    BY <1>1 DEF Home!Nothing
  <1>3. HomeTypes
    BY <1>1, <1>2 DEF HomeTypes, Home!Init
  <1>4. QED
    BY <1>1, <1>3 DEF HomeInv

\* The steps of the call.
LEMMA HomeReads ==
    ASSUME HomeInv, \/ Home!Call \/ Home!ReadExposure \/ Home!ReadEntityRegistry
                    \/ Home!ReadDeviceRegistry \/ Home!ReadAreaRegistry
    PROVE  HomeInv'
  <1>1. CASE Home!Call
    <2>1. HomeTypes'
      <3>1. got' = Home!Nothing
        BY <1>1 DEF Home!Call
      <3>2. got' = [exposed |-> got'.exposed, entities |-> got'.entities,
                    truncated |-> got'.truncated,
                    registry |-> got'.registry, devices |-> got'.devices]
        BY <3>1 DEF Home!Nothing
      <3> HIDE DEF Home!Nothing
      <3>3. QED
        BY <1>1, <3>2 DEF Home!Call, Home!world, HomeInv, HomeTypes
    <2>2. pc' = "exposure"
      BY <1>1 DEF Home!Call
    <2>3. QED
      BY <2>1, <2>2 DEF HomeInv
  <1>2. CASE Home!ReadExposure
    <2>1. /\ pc = "exposure" /\ pc' = "states" /\ got' = [got EXCEPT !.exposed = exposed]
          /\ UNCHANGED <<exposed, present, registry, devices, areas, query, answer, changes, shown>>
      BY <1>2 DEF Home!ReadExposure, Home!world
    <2>2. HomeTypes
      BY DEF HomeInv
    <2>3. got'.exposed = exposed
      BY <2>1, <2>2 DEF HomeTypes
    <2>4. HomeTypes'
      BY <2>1, <2>2 DEF HomeTypes
    <2>5. ExposureRead'
      BY <2>1, <2>2, <2>3 DEF ExposureRead, HomeTypes
    <2>6. QED
      BY <2>1, <2>4, <2>5 DEF HomeInv
  <1>3. CASE Home!ReadEntityRegistry
    <2> DEFINE entries == [e \in Home!ToSet(got.entities) |-> registry[e]]
    <2>1. HomeTypes /\ ExposureRead /\ StatesRead /\ pc = "entity_registry"
      BY <1>3 DEF HomeInv, Home!ReadEntityRegistry
    <2>2. /\ pc' = "device_registry" /\ got' = [got EXCEPT !.registry = entries]
          /\ UNCHANGED <<exposed, present, registry, devices, areas, query, answer, changes, shown>>
      <3>1. Home!GetEntries(Home!ToSet(got.entities)) = entries
        BY DEF Home!GetEntries
      <3>2. DOMAIN entries = Home!ToSet(got.entities)
        OBVIOUS
      <3> HIDE DEF entries
      <3>3. QED
        BY <1>3, <3>1, <3>2 DEF Home!ReadEntityRegistry, Home!world
    <2>3. HomeTypes'
      <3> HIDE DEF entries
      <3>1. QED
        BY <2>1, <2>2 DEF HomeTypes
    <2>4. /\ got'.exposed = got.exposed /\ got'.entities = got.entities
          /\ got'.truncated = got.truncated /\ got'.registry = entries
      <3> HIDE DEF entries
      <3>1. QED
        BY <2>1, <2>2 DEF HomeTypes
    <2>5. entries \in [Home!ToSet(got.entities) -> Home!EntityEntries]
      <3>1. Home!ToSet(got.entities) \subseteq Home!Entities
        BY <2>1, ListedIs DEF HomeTypes
      <3>2. QED
        BY <2>1, <3>1 DEF HomeTypes
    <2>6. RegistryRead'
      <3>1. Home!ToSet(got'.entities) = Home!ToSet(got.entities) /\ registry' = registry
        BY <2>2, <2>4
      <3>2. QED
        BY <2>4, <2>5, <3>1 DEF RegistryRead
    <2> HIDE DEF entries
    <2>7. ExposureRead'
      BY <2>1, <2>2, <2>4 DEF ExposureRead
    <2>8. StatesRead'
      BY <2>1, <2>2, <2>4 DEF StatesRead, Home!Cut
    <2>9. QED
      BY <2>2, <2>3, <2>6, <2>7, <2>8 DEF HomeInv
  <1>4. CASE Home!ReadDeviceRegistry
    <2> DEFINE found == [d \in Referred |-> devices[d]]
    <2>1. HomeTypes /\ ExposureRead /\ StatesRead /\ RegistryRead /\ pc = "device_registry"
      BY <1>4 DEF HomeInv, Home!ReadDeviceRegistry
    <2>2. /\ pc' = "area_registry" /\ got' = [got EXCEPT !.devices = found]
          /\ UNCHANGED <<exposed, present, registry, devices, areas, query, answer, changes, shown>>
      BY <1>4 DEF Home!ReadDeviceRegistry, Home!world, Referred
    <2>5. found \in [Referred -> Home!DeviceEntries]
      <3>1. \A e \in Home!ToSet(got.entities) : got.registry[e].device \in Home!Devices \cup {0}
        BY <2>1, EntriesTyped DEF RegistryRead
      <3>2. Referred \subseteq Home!Devices
        BY <3>1 DEF Referred, Home!None
      <3>3. QED
        BY <2>1, <3>2 DEF HomeTypes
    <2> HIDE DEF found
    <2>3. HomeTypes'
      BY <2>1, <2>2 DEF HomeTypes
    <2>4. /\ got'.exposed = got.exposed /\ got'.entities = got.entities
          /\ got'.truncated = got.truncated /\ got'.registry = got.registry /\ got'.devices = found
      BY <2>1, <2>2 DEF HomeTypes
    <2>6. RegistryRead' /\ Referred' = Referred
      BY <2>1, <2>2, <2>4 DEF RegistryRead, Referred
    <2>7. ExposureRead'
      BY <2>1, <2>2, <2>4 DEF ExposureRead
    <2>8. StatesRead'
      BY <2>1, <2>2, <2>4 DEF StatesRead, Home!Cut
    <2>10. DevicesRead'
      BY <2>2, <2>4, <2>5, <2>6 DEF DevicesRead, found
    <2>9. QED
      BY <2>2, <2>3, <2>6, <2>7, <2>8, <2>10 DEF HomeInv
  <1>5. CASE Home!ReadAreaRegistry
    <2>1. /\ HomeTypes /\ ExposureRead /\ StatesRead /\ RegistryRead /\ DevicesRead
          /\ pc = "area_registry"
      BY <1>5 DEF HomeInv, Home!ReadAreaRegistry
    <2>2. DOMAIN got.registry = Home!ToSet(got.entities)
      BY <2>1 DEF RegistryRead
    <2>3. /\ pc' = "answered"
          /\ answer' = Home!GroupDevices(got.entities, got.registry, got.devices, areas)
          /\ UNCHANGED <<exposed, present, registry, devices, areas, query, got, changes, shown>>
      BY <1>5, <2>2 DEF Home!ReadAreaRegistry, Home!world, Home!Finish
    <2>4. HomeTypes'
      BY <2>1, <2>3 DEF HomeTypes
    <2>5. /\ ExposureRead' /\ StatesRead' /\ RegistryRead' /\ DevicesRead'
      <3>1. ExposureRead'
        BY <2>1, <2>3 DEF ExposureRead
      <3>2. StatesRead'
        BY <2>1, <2>3 DEF StatesRead, Home!Cut
      <3>3. RegistryRead'
        BY <2>1, <2>3 DEF RegistryRead
      <3>4. DevicesRead'
        <4>1. Referred' = Referred
          BY <2>3 DEF Referred
        <4>2. QED
          BY <2>1, <2>3, <4>1 DEF DevicesRead
      <3>5. QED
        BY <3>1, <3>2, <3>3, <3>4
    <2>6. QED
      BY <2>3, <2>4, <2>5 DEF HomeInv
  <1>6. QED
    BY <1>1, <1>2, <1>3, <1>4, <1>5

\* The read of the states keeps the invariant: what is listed is what was visible, cut.
LEMMA HomeReadStates ==
    ASSUME HomeInv, Home!ReadStates
    PROVE  HomeInv'
  <1> DEFINE V == present \cap got.exposed \cap query.admits
             visible == Home!Sorted(V)
             cut == Home!Cut(visible)
  <1>1. HomeTypes /\ ExposureRead /\ pc = "states"
    BY DEF HomeInv, Home!ReadStates
  <1>2. /\ got' = [got EXCEPT !.entities = cut, !.truncated = (Len(visible) > query.limit)]
        /\ UNCHANGED <<exposed, present, registry, devices, areas, query, changes, shown>>
        /\ \/ pc' = "entity_registry"
           \/ pc' = "answered" /\ answer' = <<>> /\ (query.action = "entity.list" \/ visible = <<>>)
    BY DEF Home!ReadStates, Home!world, Home!Finish
  <1>3. query.limit \in Nat /\ query \in Home!Queries
    BY <1>1, QueriesTyped DEF HomeTypes
  <1>4. V \subseteq Home!Entities /\ V \subseteq got.exposed \cap query.admits \cap Home!Entities
    BY <1>1 DEF HomeTypes
  <1>5. visible = <<>> => Home!ToSet(cut) = {}
    <2>1. /\ Home!ToSet(cut) = {e \in V : Home!Cardinality({f \in V : f <= e}) <= query.limit}
          /\ visible = <<>> => V = {}
      BY <1>3, <1>4, CutIs
    <2> HIDE DEF V, cut, visible
    <2>2. QED
      BY <2>1
  <1>6. changes = 0 => V = exposed \cap present \cap query.admits
    BY <1>1 DEF ExposureRead
  <1> HIDE DEF V, visible, cut
  <1>7. HomeTypes'
    BY <1>1, <1>2 DEF HomeTypes
  <1>8. /\ got'.exposed = got.exposed /\ got'.entities = cut
        /\ got'.truncated = (Len(visible) > query.limit)
    BY <1>1, <1>2 DEF HomeTypes
  <1>9. ExposureRead'
    BY <1>1, <1>2, <1>8 DEF ExposureRead
  <1>10. StatesRead'
    <2>1. /\ got'.entities = Home!Cut(Home!Sorted(V))'
          /\ got'.truncated = (Len(Home!Sorted(V)) > query'.limit)
          /\ changes' = 0 => V = exposed' \cap present' \cap query'.admits
          /\ V \in SUBSET (got'.exposed \cap query'.admits \cap Home!Entities)
      <3>1. V' = V
        BY <1>2, <1>8 DEF V
      <3>2. Home!Sorted(V)' = visible
        BY <3>1 DEF visible
      <3>3. Home!Cut(Home!Sorted(V))' = cut
        BY <1>2, <3>2 DEF cut, Home!Cut
      <3>4. QED
        BY <1>2, <1>4, <1>6, <1>8, <3>3 DEF visible
    <2>2. V' = V
      BY <1>2, <1>8 DEF V
    <2>3. QED
      BY <2>1, <2>2 DEF StatesRead, Home!Cut
  <1>11. QED
    BY <1>2, <1>5, <1>7, <1>8, <1>9, <1>10 DEF HomeInv

\* A change of Home Assistant keeps the invariant: what was read is no longer the present.
LEMMA HomeChange ==
    ASSUME HomeInv, Home!Change
    PROVE  HomeInv'
  <1>1. HomeTypes /\ pc # "answered"
    BY DEF HomeInv, Home!Change
  <1>2. /\ changes' = changes + 1 /\ shown' = shown \cup exposed'
        /\ UNCHANGED <<query, pc, got, answer>>
    BY DEF Home!Change
  <1>3. changes' \in Nat /\ changes' # 0
    BY <1>1, <1>2 DEF HomeTypes
  <1>4. /\ exposed' \subseteq Home!Entities /\ present' \subseteq Home!Entities
        /\ registry' \in [Home!Entities -> Home!EntityEntries]
        /\ devices' \in [Home!Devices -> Home!DeviceEntries]
        /\ areas' \subseteq Home!Areas
    <2>1. \A S, T : \A x \in T : S \subseteq T => Home!Toggle(S, x) \subseteq T
      BY DEF Home!Toggle
    <2>2. CASE /\ \E e \in Home!Entities : exposed' = Home!Toggle(exposed, e)
               /\ UNCHANGED <<present, registry, devices, areas>>
      BY <1>1, <2>1, <2>2 DEF HomeTypes
    <2>3. CASE /\ \E e \in Home!Entities : present' = Home!Toggle(present, e)
               /\ UNCHANGED <<exposed, registry, devices, areas>>
      BY <1>1, <2>1, <2>3 DEF HomeTypes
    <2>4. CASE /\ \E e \in Home!Entities, r \in Home!EntityEntries : registry' = [registry EXCEPT ![e] = r]
               /\ UNCHANGED <<exposed, present, devices, areas>>
      BY <1>1, <2>4 DEF HomeTypes
    <2>5. CASE /\ \E d \in Home!Devices, r \in Home!DeviceEntries : devices' = [devices EXCEPT ![d] = r]
               /\ UNCHANGED <<exposed, present, registry, areas>>
      BY <1>1, <2>5 DEF HomeTypes
    <2>6. CASE /\ \E a \in Home!Areas : areas' = Home!Toggle(areas, a)
               /\ UNCHANGED <<exposed, present, registry, devices>>
      BY <1>1, <2>1, <2>6 DEF HomeTypes
    <2>7. QED
      BY <2>2, <2>3, <2>4, <2>5, <2>6 DEF Home!Change
  <1>5. HomeTypes'
    BY <1>1, <1>2, <1>3, <1>4 DEF HomeTypes
  <1>6. ASSUME ExposureRead PROVE ExposureRead'
    BY <1>2, <1>3, <1>6 DEF ExposureRead
  <1>7. ASSUME StatesRead PROVE StatesRead'
    BY <1>2, <1>3, <1>7 DEF StatesRead, Home!Cut
  <1>8. ASSUME RegistryRead PROVE RegistryRead'
    BY <1>2, <1>3, <1>8 DEF RegistryRead
  <1>9. ASSUME DevicesRead PROVE DevicesRead'
    <2>1. Referred' = Referred
      BY <1>2 DEF Referred
    <2>2. QED
      BY <1>2, <1>3, <1>9, <2>1 DEF DevicesRead
  <1>10. QED
    BY <1>1, <1>2, <1>5, <1>6, <1>7, <1>8, <1>9 DEF HomeInv

\* The invariant is about the variables of the listing only.
LEMMA HomeStutter ==
    ASSUME HomeInv, UNCHANGED Home!vars
    PROVE  HomeInv'
  <1>1. UNCHANGED <<exposed, present, registry, devices, areas, query, pc, got, answer, changes, shown>>
    BY DEF Home!vars, Home!world
  <1>2. HomeTypes' = HomeTypes
    BY <1>1 DEF HomeTypes
  <1>3. ExposureRead' = ExposureRead
    BY <1>1 DEF ExposureRead
  <1>4. StatesRead' = StatesRead
    BY <1>1 DEF StatesRead, Home!Cut
  <1>5. RegistryRead' = RegistryRead
    BY <1>1 DEF RegistryRead
  <1>6. Referred' = Referred
    BY <1>1 DEF Referred
  <1>7. DevicesRead' = DevicesRead
    BY <1>1, <1>6 DEF DevicesRead
  <1>8. QED
    BY <1>1, <1>2, <1>3, <1>4, <1>5, <1>7 DEF HomeInv

\* Every step keeps the invariant.
LEMMA HomeStep == HomeInv /\ [Home!Next]_(Home!vars) => HomeInv'
  BY HomeReads, HomeReadStates, HomeChange, HomeStutter DEF Home!Next

-----------------------------------------------------------------------------
(* Devices: what the invariant says of the answer *)

\* Each of the entities of a group would give it its names.
LEMMA NamesOfAll ==
    ASSUME NEW entities, NEW entries, NEW found, NEW known, Reads(entities, entries, found, known),
           NEW groups, Grouped(groups, entities, entries, found, known),
           NEW i \in DOMAIN groups, NEW e \in Home!ToSet(groups[i].entities)
    PROVE  /\ e \in Home!ToSet(entities)
           /\ groups[i].area = AreaName(Home!AreaOf(e, entries, found), known)
           /\ groups[i].name = NameOf(e, entries, found)
  <1>1. PICK f \in Home!ToSet(entities) :
            /\ Home!ToSet(groups[i].entities) = {x \in Home!ToSet(entities) :
                   Home!Key(x, entries, found) = Home!Key(f, entries, found)}
            /\ groups[i].area = AreaName(Home!AreaOf(f, entries, found), known)
            /\ groups[i].name = NameOf(f, entries, found)
    BY DEF Grouped
  <1>2. e \in Home!ToSet(entities) /\ Home!Key(e, entries, found) = Home!Key(f, entries, found)
    BY <1>1
  <1>3. /\ Home!AreaOf(e, entries, found) = Home!AreaOf(f, entries, found)
        /\ entries[e].device = entries[f].device
    BY <1>2, KeysAgree
  <1>4. NameOf(e, entries, found) = NameOf(f, entries, found)
    BY <1>3 DEF NameOf, Home!Found
  <1>5. QED
    BY <1>1, <1>2, <1>3, <1>4

\* A grouped listing has each entity once.
LEMMA GroupedOnce ==
    ASSUME NEW entities, NEW entries, NEW found, NEW known, NEW groups,
           Grouped(groups, entities, entries, found, known)
    PROVE  /\ UNION {Home!ToSet(groups[i].entities) : i \in DOMAIN groups} = Home!ToSet(entities)
           /\ \A i, j \in DOMAIN groups :
                 i # j => Home!ToSet(groups[i].entities) \cap Home!ToSet(groups[j].entities) = {}
           /\ \A i \in DOMAIN groups : Home!IsInjective(groups[i].entities)
  <1>1. \A i \in DOMAIN groups : Home!ToSet(groups[i].entities) \subseteq Home!ToSet(entities)
    BY DEF Grouped
  <1>2. \A e \in Home!ToSet(entities) : \E i \in DOMAIN groups : e \in Home!ToSet(groups[i].entities)
    BY DEF Grouped
  <1>3. /\ \A i, j \in DOMAIN groups :
              i # j => Home!ToSet(groups[i].entities) \cap Home!ToSet(groups[j].entities) = {}
        /\ \A i \in DOMAIN groups : Home!IsInjective(groups[i].entities)
    BY DEF Grouped
  <1>4. UNION {Home!ToSet(groups[i].entities) : i \in DOMAIN groups} = Home!ToSet(entities)
    BY <1>1, <1>2
  <1>5. QED
    BY <1>3, <1>4

\* In a Home Assistant that stays as it is the keys say who is together, and where.
LEMMA KeysAreTrue ==
    ASSUME HomeTypes, pc # "idle", StatesRead, RegistryRead, DevicesRead, changes = 0,
           NEW e \in Home!ToSet(got.entities)
    PROVE  /\ got.registry[e] = registry[e]
           /\ Home!AreaOf(e, got.registry, got.devices) = Home!Place(e)
           /\ Home!Found(e, got.registry, got.devices).known <=>
                 (registry[e].device # 0 /\ devices[registry[e].device].known)
  <1>1. got.registry[e] = registry[e]
    BY DEF RegistryRead
  <1> DEFINE d == registry[e].device
  <1>2. d # 0 => d \in Referred
    BY <1>1 DEF Referred, Home!None
  <1>3. d # 0 => got.devices[d] = devices[d]
    BY <1>2 DEF DevicesRead
  <1>4. Home!Found(e, got.registry, got.devices)
            = IF d = 0 THEN [known |-> FALSE, area |-> 0] ELSE devices[d]
    BY <1>1, <1>3 DEF Home!Found, Home!None
  <1>5. got.registry[e].area = registry[e].area
    BY <1>1
  <1>6. Home!AreaOf(e, got.registry, got.devices) = Home!Place(e)
    BY <1>4, <1>5 DEF Home!AreaOf, Home!Place, Home!None
  <1>7. d # 0 => devices[d].known \in BOOLEAN
    <2>1. d # 0 => devices[d] \in Home!DeviceEntries
      BY <1>3, <1>2 DEF DevicesRead
    <2>2. QED
      BY <2>1, EntriesTyped
  <1>8. Home!Found(e, got.registry, got.devices).known <=> (d # 0 /\ devices[d].known)
    <2>1. CASE d = 0
      BY <1>4, <2>1
    <2>2. CASE d # 0
      BY <1>4, <1>7, <2>2
    <2>3. QED
      BY <2>1, <2>2
  <1>9. QED
    BY <1>1, <1>6, <1>8

\* If nothing has changed the listing of devices is the reference.
LEMMA ListingExact ==
    ASSUME HomeInv, pc = "answered", changes = 0
    PROVE  Home!ListingIsExact
  <1> DEFINE visible == {e \in exposed \cap present : e \in query.admits}
             listed == {e \in visible : Home!Cardinality({f \in visible : f <= e}) <= query.limit}
  <1>1. HomeTypes /\ StatesRead /\ query \in Home!Queries /\ pc # "idle"
    BY DEF HomeInv, HomeTypes
  <1>2. Home!ToSet(got.entities) = listed /\ got.truncated = (listed # visible)
    BY <1>1, ListedIs
  <1>3. ASSUME query.action = "device.list"
        PROVE  /\ {Home!Members(answer[i]) : i \in DOMAIN answer}
                      = {{f \in listed : Home!Together(e, f)} : e \in listed}
               /\ \A i \in DOMAIN answer : \A e \in Home!Members(answer[i]) :
                     /\ answer[i].area = IF Home!Place(e) \in areas THEN AreaNames[Home!Place(e)] ELSE Home!None
                     /\ answer[i].name =
                           IF registry[e].device # Home!None /\ devices[registry[e].device].known
                           THEN Home!DeviceName(registry[e].device) ELSE Home!None
               /\ \A i, j \in DOMAIN answer : i < j => Home!Before(answer[i], answer[j])
    <2>1. CASE Home!ToSet(got.entities) = {} /\ answer = <<>>
      <3>1. listed = {} /\ DOMAIN answer = {}
        BY <1>2, <2>1
      <3> HIDE DEF listed
      <3>2. QED
        BY <3>1
    <2>2. CASE /\ RegistryRead /\ DevicesRead
               /\ answer = Home!GroupDevices(got.entities, got.registry, got.devices, areas)
      <3> DEFINE E == Home!ToSet(got.entities)
                 K(e) == Home!Key(e, got.registry, got.devices)
      <3>1. Reads(got.entities, got.registry, got.devices, areas)
        BY <1>1, <2>2, ReadsAre
      <3>2. Grouped(answer, got.entities, got.registry, got.devices, areas)
        BY <2>2, <3>1, GroupDevicesIs
      <3>3. \A e \in E : /\ got.registry[e] = registry[e]
                         /\ Home!AreaOf(e, got.registry, got.devices) = Home!Place(e)
                         /\ Home!Found(e, got.registry, got.devices).known <=>
                               (registry[e].device # 0 /\ devices[registry[e].device].known)
        BY <1>1, <2>2, KeysAreTrue
      <3>4. \A e, f \in E : K(f) = K(e) <=> Home!Together(e, f)
        <4>1. SUFFICES ASSUME NEW e \in E, NEW f \in E
                       PROVE  K(e) = K(f) <=> Home!Together(e, f)
          <5> HIDE DEF E, K
          <5>1. QED
            OBVIOUS
        <4>2. K(e) = K(f) <=>
                 \/ e = f
                 \/ /\ got.registry[e].device # 0 /\ got.registry[e].device = got.registry[f].device
                    /\ Home!AreaOf(e, got.registry, got.devices) = Home!AreaOf(f, got.registry, got.devices)
          BY <3>1, KeysAgree
        <4> HIDE DEF E, K
        <4>3. QED
          BY <3>3, <4>2 DEF Home!Together, Home!None
      <3> DEFINE Alike(e) == {f \in E : K(f) = K(e)}
      <3>5. /\ \A i \in DOMAIN answer : \E e \in E : Home!Members(answer[i]) = Alike(e)
            /\ \A e \in E : \E i \in DOMAIN answer : Home!Members(answer[i]) = Alike(e)
        BY <3>2 DEF Grouped, Home!Members
      <3>6. E = listed
        BY <1>2
      <3>7. \A e \in E : Alike(e) = {f \in listed : Home!Together(e, f)}
        <4> HIDE DEF K, listed
        <4>1. QED
          BY <3>4, <3>6
      <3>8. \A i \in DOMAIN answer : \A e \in Home!Members(answer[i]) :
               /\ e \in E
               /\ answer[i].area = AreaName(Home!AreaOf(e, got.registry, got.devices), areas)
               /\ answer[i].name = NameOf(e, got.registry, got.devices)
        BY <3>1, <3>2, NamesOfAll DEF Home!Members
      <3>9. \A i, j \in DOMAIN answer : i < j => Home!Before(answer[i], answer[j])
        BY <3>2 DEF Grouped
      <3> HIDE DEF E, K, Alike, listed
      <3>10. {Home!Members(answer[i]) : i \in DOMAIN answer}
                = {{f \in listed : Home!Together(e, f)} : e \in listed}
        <4> DEFINE Group(e) == {f \in listed : Home!Together(e, f)}
        <4>1. \A i \in DOMAIN answer : \E e \in listed : Home!Members(answer[i]) = Group(e)
          BY <3>5, <3>6, <3>7
        <4>2. \A e \in listed : \E i \in DOMAIN answer : Home!Members(answer[i]) = Group(e)
          BY <3>5, <3>6, <3>7
        <4> HIDE DEF Group
        <4>3. {Home!Members(answer[i]) : i \in DOMAIN answer} = {Group(e) : e \in listed}
          BY <4>1, <4>2
        <4>4. QED
          BY <4>3 DEF Group
      <3>11. ASSUME NEW i \in DOMAIN answer, NEW e \in Home!Members(answer[i])
             PROVE  /\ answer[i].area = IF Home!Place(e) \in areas
                                        THEN AreaNames[Home!Place(e)] ELSE Home!None
                    /\ answer[i].name =
                          IF registry[e].device # Home!None /\ devices[registry[e].device].known
                          THEN Home!DeviceName(registry[e].device) ELSE Home!None
        <4>1. e \in E
          BY <3>8
        <4>2. answer[i].area = AreaName(Home!Place(e), areas)
          BY <3>3, <3>8, <4>1
        <4>3. answer[i].name = IF registry[e].device # 0 /\ devices[registry[e].device].known
                               THEN Home!DeviceName(registry[e].device) ELSE 0
          BY <3>3, <3>8, <4>1 DEF NameOf
        <4>4. QED
          BY <4>2, <4>3 DEF AreaName, Home!None
      <3>12. QED
        BY <3>9, <3>10, <3>11
    <2>3. QED
      BY <1>3, <2>1, <2>2 DEF HomeInv
  <1> HIDE DEF visible, listed
  <1>4. QED
    BY <1>2, <1>3 DEF Home!ListingIsExact, visible, listed

\* The listing of devices and entities is true of Home Assistant: exact if it stays as it is,
\* and if it changes never more than was exposed, each entity once, and never a failure
\* (DevicesAreTrue).
THEOREM DevicesAreSafe == Home!Spec => []DevicesAreTrue
  <1>1. HomeInv => DevicesAreTrue
    <2> SUFFICES ASSUME HomeInv PROVE DevicesAreTrue
      OBVIOUS
    <2>1. HomeTypes
      BY DEF HomeInv
    <2>2. Home!RacesNeverFail
      BY <2>1 DEF HomeTypes, Home!RacesNeverFail
    <2>3. Home!ListingIsExact
      BY ListingExact DEF Home!ListingIsExact, Home!Answered
    <2>4. pc = "answered" => query \in Home!Queries /\ StatesRead /\ ExposureRead
      BY DEF HomeInv, HomeTypes
    <2>5. Home!OnlyExposed
      BY <2>4, ListedIs DEF Home!OnlyExposed, Home!Answered, ExposureRead
    <2>6. Home!EachOnce
      <3>1. SUFFICES ASSUME pc = "answered", query.action = "device.list"
                     PROVE  /\ UNION {Home!Members(answer[i]) : i \in DOMAIN answer}
                                  = Home!ToSet(got.entities)
                            /\ \A i, j \in DOMAIN answer :
                                  i # j => Home!Members(answer[i]) \cap Home!Members(answer[j]) = {}
                            /\ \A i \in DOMAIN answer : Home!IsInjective(answer[i].entities)
        BY DEF Home!EachOnce, Home!Answered
      <3>2. CASE Home!ToSet(got.entities) = {} /\ answer = <<>>
        <4>1. DOMAIN answer = {}
          BY <3>2
        <4>2. QED
          BY <3>2, <4>1
      <3>3. CASE /\ RegistryRead /\ DevicesRead
                 /\ answer = Home!GroupDevices(got.entities, got.registry, got.devices, areas)
        <4>1. Reads(got.entities, got.registry, got.devices, areas)
          BY <2>1, <2>4, <3>1, <3>3, ReadsAre
        <4>2. Grouped(answer, got.entities, got.registry, got.devices, areas)
          BY <3>3, <4>1, GroupDevicesIs
        <4>3. QED
          BY <4>2, GroupedOnce DEF Home!Members
      <3>4. QED
        BY <3>1, <3>2, <3>3 DEF HomeInv
    <2>7. QED
      BY <2>2, <2>3, <2>5, <2>6 DEF DevicesAreTrue
  <1>2. QED
    BY HomeInit, HomeStep, <1>1, PTL DEF Home!Spec

-----------------------------------------------------------------------------
(* Listings: what is kept of an answer *)

\* order has each of n positions once, by key and else as they are.
Arrangement(order, positions, key, n) ==
    /\ n \in Nat /\ order \in [1..n -> positions]
    /\ \A i, j \in 1..n : order[i] = order[j] => i = j
    /\ \A p \in positions : \E i \in 1..n : order[i] = p
    /\ \A i, j \in 1..n :
          i < j => \/ key[order[i]] < key[order[j]]
                   \/ key[order[i]] = key[order[j]] /\ order[i] < order[j]

\* What is arranged is at such positions.
LEMMA ArrangedIs ==
    ASSUME NEW entries, NEW positions, positions \subseteq Nat, IsFiniteSet(positions),
           NEW key, \A p \in positions : key[p] \in Int
    PROVE  \E order :
              /\ Arrangement(order, positions, key, Cardinality(positions))
              /\ Listing!Arranged(entries, positions, key)
                    = [i \in 1..Cardinality(positions) |-> entries[order[i]]]
  <1> DEFINE n == Cardinality(positions)
             Less(p, q) == key[p] < key[q] \/ (key[p] = key[q] /\ p < q)
             R == {p \in positions \X positions : Less(p[1], p[2])}
             Ordered(s) == \A i, j \in DOMAIN s : i < j => Less(s[i], s[j])
             m == Listing!Cardinality(positions)
             order == CHOOSE s \in [1..m -> positions] : Ordered(s)
  <1>1. \A p, q \in positions : <<p, q>> \in R <=> Less(p, q)
    OBVIOUS
  <1>2. Orderly(R, positions)
    <2> HIDE DEF R
    <2>1. \A p \in positions : ~Less(p, p)
      OBVIOUS
    <2>2. \A p, q, r \in positions : Less(p, q) /\ Less(q, r) => Less(p, r)
      OBVIOUS
    <2>3. \A p, q \in positions : p = q \/ Less(p, q) \/ Less(q, p)
      <3>1. SUFFICES ASSUME NEW p \in positions, NEW q \in positions
                     PROVE  p = q \/ Less(p, q) \/ Less(q, p)
        <4> HIDE DEF Less
        <4>1. QED
          OBVIOUS
      <3>2. p \in Nat /\ q \in Nat /\ key[p] \in Int /\ key[q] \in Int
        OBVIOUS
      <3>3. QED
        BY <3>2
    <2> HIDE DEF Less
    <2>4. QED
      BY <1>1, <2>1, <2>2, <2>3 DEF Orderly
  <1>3. Listing!Arranged(entries, positions, key) = [i \in 1..m |-> entries[order[i]]]
    BY DEF Listing!Arranged
  <1>0. m = n
    BY DEF Listing!Cardinality, Cardinality
  <1> HIDE DEF m, R, Less
  <1>4. \A s \in [1..n -> positions] : Ordered(s) <=> Enumeration(s, positions, R)
    BY <1>1 DEF Enumeration
  <1>5. Enumeration(order, positions, R)
    <2>1. PICK s : Enumeration(s, positions, R)
      BY <1>2, EnumerationExists
    <2>2. s \in [1..n -> positions]
      BY <2>1 DEF Enumeration
    <2> HIDE DEF n
    <2>3. Ordered(s)
      BY <1>4, <2>1, <2>2
    <2> HIDE DEF Ordered
    <2>4. order \in [1..n -> positions] /\ Ordered(order)
      BY <1>0, <2>2, <2>3
    <2> HIDE DEF order
    <2>5. QED
      BY <1>4, <2>4
  <1> HIDE DEF order
  <1>6. /\ n \in Nat /\ order \in [1..n -> positions]
        /\ \A i, j \in 1..n : order[i] = order[j] => i = j
        /\ \A p \in positions : \E i \in 1..n : order[i] = p
    BY <1>2, <1>5, EnumerationIs
  <1>7. \A i, j \in 1..n : i < j => Less(order[i], order[j])
    BY <1>1, <1>5, <1>6 DEF Enumeration
  <1> HIDE DEF n
  <1>8. Arrangement(order, positions, key, n)
    BY <1>6, <1>7 DEF Arrangement, Less
  <1>9. QED
    BY <1>0, <1>3, <1>8 DEF n

\* The positions of a list are finitely many.
LEMMA PositionsAre ==
    ASSUME NEW X, NEW entries \in Seq(X), NEW positions \in SUBSET (DOMAIN entries)
    PROVE  /\ positions \subseteq Nat /\ IsFiniteSet(positions) /\ Cardinality(positions) \in Nat
           /\ positions \in SUBSET (1..Len(entries))
  <1>1. Len(entries) \in Nat /\ DOMAIN entries = 1..Len(entries)
    OBVIOUS
  <1>2. IsFiniteSet(1..Len(entries)) /\ 1..Len(entries) \subseteq Nat
    BY <1>1, FS_Interval
  <1>3. IsFiniteSet(positions)
    BY <1>1, <1>2, FS_Subset
  <1>4. QED
    BY <1>1, <1>2, <1>3, FS_CardinalityType

\* The entries at some positions, in the order of an integer key.
LEMMA KeyedIs ==
    ASSUME NEW X, NEW entries \in Seq(X), NEW positions \in SUBSET (DOMAIN entries),
           NEW key, \A p \in positions : key[p] \in Int
    PROVE  LET s == Listing!Arranged(entries, positions, key)
               n == Cardinality(positions)
           IN /\ n \in Nat /\ s \in Seq(X) /\ Len(s) = n /\ DOMAIN s = 1..n
              /\ \E order : /\ Arrangement(order, positions, key, n)
                            /\ \A i \in 1..n : s[i] = entries[order[i]] /\ order[i] \in positions
              /\ \A p \in positions : \E i \in 1..n : s[i] = entries[p]
  <1> DEFINE n == Cardinality(positions)
             s == Listing!Arranged(entries, positions, key)
  <1>1. /\ positions \subseteq Nat /\ IsFiniteSet(positions) /\ n \in Nat
        /\ positions \in SUBSET (1..Len(entries))
    BY PositionsAre
  <1>2. \E order : /\ Arrangement(order, positions, key, Cardinality(positions))
                   /\ Listing!Arranged(entries, positions, key)
                         = [i \in 1..Cardinality(positions) |-> entries[order[i]]]
    <2>1. positions \subseteq Nat /\ IsFiniteSet(positions)
      BY <1>1
    <2> HIDE DEF n, s
    <2>2. QED
      BY <2>1, ArrangedIs
  <1>4. PICK order : Arrangement(order, positions, key, n) /\ s = [i \in 1..n |-> entries[order[i]]]
    BY <1>2
  <1> HIDE DEF n, s
  <1>5. \A i \in 1..n : order[i] \in positions /\ s[i] = entries[order[i]]
    BY <1>4 DEF Arrangement
  <1>6. \A p \in positions : \E i \in 1..n : s[i] = entries[p]
    BY <1>4, <1>5 DEF Arrangement
  <1>7. s \in Seq(X) /\ Len(s) = n /\ DOMAIN s = 1..n
    <2>1. \A p \in positions : entries[p] \in X
      OBVIOUS
    <2>2. s \in [1..n -> X]
      BY <1>4, <1>5, <2>1
    <2>3. QED
      BY <1>1, <2>2 DEF n
  <1>8. QED
    BY <1>1, <1>4, <1>5, <1>6, <1>7 DEF n, s

\* A page has as many entries as there are, or as the limit allows.
LEMMA PageIs ==
    ASSUME NEW X, NEW entries \in Seq(X), NEW limit \in Nat
    PROVE  LET page == Listing!Page(entries, limit)
               cut == Listing!Cut(entries, limit)
               n == IF Len(entries) < limit THEN Len(entries) ELSE limit
           IN /\ page.status = "ok" /\ page.total = Len(entries) /\ page.entries = cut
              /\ page.truncated = (n < Len(entries))
              /\ cut \in Seq(X) /\ Len(cut) = n /\ n <= Len(entries)
              /\ \A i \in 1..n : cut[i] = entries[i]
  <1> DEFINE n == IF Len(entries) < limit THEN Len(entries) ELSE limit
             cut == SubSeq(entries, 1, n)
  <1>1. Len(entries) \in Nat /\ n \in 0..Len(entries)
    OBVIOUS
  <1>2. cut \in Seq(X) /\ Len(cut) = n /\ \A i \in 1..n : cut[i] = entries[i]
    BY <1>1
  <1>3. Listing!Cut(entries, limit) = cut
    BY DEF Listing!Cut
  <1>4. (Len(entries) > limit) = (n < Len(entries))
    BY <1>1
  <1> HIDE DEF n, cut
  <1>5. /\ Listing!Page(entries, limit).status = "ok" /\ Listing!Page(entries, limit).total = Len(entries)
        /\ Listing!Page(entries, limit).entries = cut
        /\ Listing!Page(entries, limit).truncated = (n < Len(entries))
    BY <1>3, <1>4 DEF Listing!Page
  <1>6. QED
    BY <1>1, <1>2, <1>3, <1>5 DEF n

-----------------------------------------------------------------------------
(* Listings: pages and wholes *)

\* An entry of a listing.
Entry == [id : Nat, name : Nat, ours : BOOLEAN, good : BOOLEAN]

Lists == {"network.list", "matter.device.list", "config.list", "blueprint.list",
          "automation.traces", "device.ping", "device.diagnostics"}

\* What Home Assistant answers to each kind of request.
LEMMA RawIs ==
    ASSUME request \in RawAnswers
    PROVE  /\ request.kind \in Lists => request.raw \in Seq(Entry)
           /\ request.kind \in Listing!Pages => request.limit \in Nat
           /\ request.kind = "history.get" => request.raw \in Seq(Seq([entity : Nat, good : BOOLEAN]))
           /\ request.kind = "state.get" =>
                 /\ request.asked \in Seq(Nat) /\ Len(request.raw) = Len(request.asked)
                 /\ request.raw \in Seq([id : Nat, good : BOOLEAN])
           /\ request.kind = "readiness.get" =>
                 /\ request.raw \in Seq([id : Nat, preferred : BOOLEAN, pan : Nat, name : Nat])
                 /\ \A i, j \in DOMAIN request.raw : i # j => request.raw[i].id # request.raw[j].id
           /\ request.kind = "automation.validate" =>
                 \A s \in DOMAIN request.raw : request.raw[s].valid \in BOOLEAN
           /\ MaxEntries \in Nat /\ MaxPoints \in Nat
  <1> DEFINE q == request
  <1>1. (CASE q.kind = "history.get" -> q.raw \in Seq(Seq([entity : Nat, good : BOOLEAN]))
          [] q.kind = "state.get" -> q.asked \in Seq(Nat) /\ Len(q.raw) = Len(q.asked)
                                        /\ q.raw \in Seq([id : Nat, good : BOOLEAN])
          [] q.kind = "readiness.get" ->
                /\ q.raw \in Seq([id : Nat, preferred : BOOLEAN, pan : Nat, name : Nat])
                /\ \A i, j \in DOMAIN q.raw : i # j => q.raw[i].id # q.raw[j].id
                /\ q.routers \subseteq [pan : Nat, name : Nat]
          [] q.kind = "automation.validate" ->
                \A s \in DOMAIN q.raw : q.raw[s].valid \in BOOLEAN
          [] OTHER -> /\ q.raw \in Seq(Entry)
                      /\ q.kind \in {"matter.device.list", "config.list", "blueprint.list",
                                     "automation.traces"} => q.limit \in Nat)
    BY AnswersAssumption DEF Listing!AnswersAssumption, Entry
  <1>2. MaxEntries \in Nat /\ MaxPoints \in Nat
    BY AnswersAssumption DEF Listing!AnswersAssumption
  <1>3. q.kind = "history.get" => q.raw \in Seq(Seq([entity : Nat, good : BOOLEAN]))
    BY <1>1
  <1>4. q.kind = "state.get" => q.asked \in Seq(Nat) /\ Len(q.raw) = Len(q.asked)
                                   /\ q.raw \in Seq([id : Nat, good : BOOLEAN])
    BY <1>1
  <1>5. q.kind = "readiness.get" =>
                /\ q.raw \in Seq([id : Nat, preferred : BOOLEAN, pan : Nat, name : Nat])
                /\ \A i, j \in DOMAIN q.raw : i # j => q.raw[i].id # q.raw[j].id
    BY <1>1
  <1>6. q.kind = "automation.validate" => \A s \in DOMAIN q.raw : q.raw[s].valid \in BOOLEAN
    BY <1>1
  <1>7. q.kind \in Lists => q.raw \in Seq(Entry)
    BY <1>1 DEF Lists
  <1>8. q.kind \in Listing!Pages => q.limit \in Nat
    BY <1>1 DEF Listing!Pages
  <1>9. QED
    BY <1>2, <1>3, <1>4, <1>5, <1>6, <1>7, <1>8

\* s has the entries at some positions, each once.
Selection(s, X, entries, positions) ==
    /\ s \in Seq(X) /\ Len(s) \in Nat /\ Len(s) = Cardinality(positions)
    /\ \E order \in [1..Len(s) -> positions] :
          /\ \A i, j \in 1..Len(s) : order[i] = order[j] => i = j
          /\ \A p \in positions : \E i \in 1..Len(s) : order[i] = p
          /\ \A i \in 1..Len(s) : s[i] = entries[order[i]]

\* What is arranged by an integer is such a selection.
LEMMA Selects ==
    ASSUME NEW X, NEW entries \in Seq(X), NEW positions \in SUBSET (DOMAIN entries),
           NEW key, \A p \in positions : key[p] \in Int
    PROVE  Selection(Listing!Arranged(entries, positions, key), X, entries, positions)
  <1> DEFINE n == Cardinality(positions)
             s == Listing!Arranged(entries, positions, key)
  <1>1. /\ n \in Nat /\ s \in Seq(X) /\ Len(s) = n
        /\ \E order : /\ Arrangement(order, positions, key, n)
                      /\ \A i \in 1..n : s[i] = entries[order[i]] /\ order[i] \in positions
    BY KeyedIs
  <1> HIDE DEF n, s
  <1>2. PICK order : /\ Arrangement(order, positions, key, n)
                     /\ \A i \in 1..n : s[i] = entries[order[i]] /\ order[i] \in positions
    BY <1>1
  <1>3. /\ order \in [1..n -> positions]
        /\ \A i, j \in 1..n : order[i] = order[j] => i = j
        /\ \A p \in positions : \E i \in 1..n : order[i] = p
    BY <1>2 DEF Arrangement
  <1>4. \A i \in 1..n : s[i] = entries[order[i]]
    BY <1>2
  <1>5. \E o \in [1..Len(s) -> positions] :
           /\ \A i, j \in 1..Len(s) : o[i] = o[j] => i = j
           /\ \A p \in positions : \E i \in 1..Len(s) : o[i] = p
           /\ \A i \in 1..Len(s) : s[i] = entries[o[i]]
    <2>1. Len(s) = n
      BY <1>1
    <2>2. order \in [1..Len(s) -> positions]
      BY <1>3, <2>1
    <2> WITNESS order \in [1..Len(s) -> positions]
    <2>3. QED
      BY <1>3, <1>4, <2>1
  <1>6. s \in Seq(X) /\ Len(s) \in Nat /\ Len(s) = Cardinality(positions)
    BY <1>1 DEF n
  <1>7. Selection(s, X, entries, positions)
    BY <1>5, <1>6 DEF Selection
  <1>8. QED
    BY <1>7 DEF s

\* By identifier, by name, by time and as they are.
LEMMA OrdersSelect ==
    ASSUME NEW entries \in Seq(Entry), NEW positions \in SUBSET (DOMAIN entries)
    PROVE  /\ Selection(Listing!ById(entries, positions), Entry, entries, positions)
           /\ Selection(Listing!ByName(entries, positions), Entry, entries, positions)
           /\ Selection(Listing!Newest(entries), Entry, entries, DOMAIN entries)
  <1>1. \A p \in DOMAIN entries : entries[p].id \in Nat /\ entries[p].name \in Nat
    <2>1. \A p \in DOMAIN entries : entries[p] \in Entry
      OBVIOUS
    <2>2. QED
      BY <2>1 DEF Entry
  <1> DEFINE id == [i \in DOMAIN entries |-> entries[i].id]
             name == [i \in DOMAIN entries |-> Listing!Place(entries, i)]
             time == [i \in DOMAIN entries |-> -entries[i].name]
  <1>2. \A p \in DOMAIN entries : id[p] \in Int /\ name[p] \in Int /\ time[p] \in Int
    <2>1. \A p \in DOMAIN entries : Listing!Place(entries, p) \in Int
      <3> SUFFICES ASSUME NEW p \in DOMAIN entries
                   PROVE  Listing!Place(entries, p) \in Int
        OBVIOUS
      <3> DEFINE before == {j \in DOMAIN entries :
                              \/ entries[j].name < entries[p].name
                              \/ entries[j].name = entries[p].name /\ entries[j].id < entries[p].id}
      <3>1. before \in SUBSET (DOMAIN entries)
        OBVIOUS
      <3>2. Listing!Place(entries, p) = Cardinality(before)
        BY DEF Listing!Place, Listing!Cardinality, Cardinality
      <3> HIDE DEF before
      <3>3. Cardinality(before) \in Nat
        BY <3>1, PositionsAre
      <3>4. QED
        BY <3>2, <3>3
    <2>2. \A p \in DOMAIN entries : name[p] \in Int
      BY <2>1
    <2>3. QED
      BY <1>1, <2>2
  <1> HIDE DEF id, name, time
  <1>3. Selection(Listing!Arranged(entries, positions, id), Entry, entries, positions)
    BY <1>2, Selects
  <1>4. Selection(Listing!Arranged(entries, positions, name), Entry, entries, positions)
    BY <1>2, Selects
  <1>5. Selection(Listing!Arranged(entries, DOMAIN entries, time), Entry, entries, DOMAIN entries)
    BY <1>2, Selects
  <1>6. QED
    BY <1>3, <1>4, <1>5 DEF Listing!ById, Listing!ByName, Listing!Newest, id, name, time

\* A page of such a selection tells the truth about what it was made of.
LEMMA PageOf ==
    ASSUME request.limit \in Nat, NEW X, NEW entries, NEW s, NEW positions,
           Selection(s, X, entries, positions),
           positions = {i \in DOMAIN request.raw : Listing!Wanted(i)},
           answer = Listing!Page(s, request.limit)
    PROVE  Listing!PageIsTrue
  <1> DEFINE wanted == Cardinality(positions)
             n == IF wanted < request.limit THEN wanted ELSE request.limit
  <1>1. s \in Seq(X) /\ Len(s) = wanted /\ wanted \in Nat
    BY DEF Selection
  <1>2. /\ answer.total = wanted /\ answer.truncated = (n < wanted)
        /\ Len(answer.entries) = n
    BY <1>1, PageIs
  <1>3. Listing!Cardinality(positions) = wanted
    BY DEF Listing!Cardinality, Cardinality
  <1> HIDE DEF wanted
  <1>4. QED
    BY <1>2, <1>3 DEF Listing!PageIsTrue

\* The answer is the one that is made of the request.
Served ==
    \/ request.kind = "network.list" /\ answer = Listing!ThreadDatasets(request.raw)
    \/ /\ request.kind = "matter.device.list"
       /\ answer = Listing!MatterDevices(request.raw, request.limit)
    \/ /\ request.kind = "config.list"
       /\ answer = Listing!ListConfigs(request.raw, request.limit, request.needle)
    \/ /\ request.kind = "blueprint.list"
       /\ answer = Listing!ListBlueprints(request.raw, request.limit, request.needle)
    \/ /\ request.kind = "automation.traces"
       /\ answer = Listing!AutomationTraces(request.raw, request.limit)
    \/ request.kind = "device.ping" /\ answer = Listing!NormalizePing(request.raw)
    \/ request.kind = "device.diagnostics" /\ answer = Listing!NormalizeDiagnostics(request.raw)
    \/ request.kind = "state.get" /\ answer = Listing!GetStates(request.asked, request.raw)
    \/ request.kind = "history.get" /\ answer = Listing!GetHistory(request.asked, request.raw)
    \/ request.kind = "readiness.get" /\ answer = Listing!ThreadReadiness(request.raw, request.routers)
    \/ /\ request.kind = "automation.validate"
       /\ answer = Listing!NormalizeValidationResult(request.asked, request.raw)

\* The request is one of those that are made, and its answer the one that is made of it.
ListInv == request \in RawAnswers /\ (pc = "answered" => Served)

\* A refusal is not an answer.
LEMMA RefusalsAre ==
    Listing!InvalidResponse.status # "ok" /\ Listing!ResponseTooLarge.status # "ok"
  BY DEF Listing!InvalidResponse, Listing!ResponseTooLarge, Listing!Fail

\* Every listing that has pages tells the truth about them.
LEMMA PagesAreTrue == ASSUME ListInv PROVE Listing!PageIsTrue
  <1> DEFINE raw == request.raw
             wanted == {i \in DOMAIN raw : Listing!Wanted(i)}
  <1>0. SUFFICES ASSUME pc = "answered", request.kind \in Listing!Pages, answer.status = "ok"
                 PROVE  Listing!PageIsTrue
    BY DEF Listing!PageIsTrue, Listing!Done
  <1>1. Served /\ raw \in Seq(Entry) /\ request.limit \in Nat
    BY <1>0, RawIs DEF ListInv, Lists, Listing!Pages
  <1>2. CASE request.kind = "matter.device.list"
    <2> DEFINE matter == Listing!ById(raw, wanted)
    <2>1. wanted = {i \in DOMAIN raw : raw[i].ours}
      BY <1>2 DEF Listing!Wanted
    <2>2. answer = Listing!MatterDevices(raw, request.limit)
      BY <1>1, <1>2 DEF Served
    <2>3. answer = Listing!Page(matter, request.limit)
      <3> HIDE DEF wanted
      <3>1. QED
        BY <1>0, <2>1, <2>2, RefusalsAre DEF Listing!MatterDevices
    <2>4. Selection(matter, Entry, raw, wanted)
      <3>1. wanted \in SUBSET (DOMAIN raw)
        OBVIOUS
      <3> HIDE DEF wanted
      <3>2. QED
        BY <1>1, <3>1, OrdersSelect
    <2> HIDE DEF matter
    <2>5. QED
      BY <1>1, <2>3, <2>4, PageOf
  <1>3. CASE request.kind = "config.list"
    <2> DEFINE stored == Listing!Stored(raw)
               configs == Listing!ByName(stored, wanted)
    <2>1. stored \in Seq(Entry) /\ DOMAIN stored = DOMAIN raw
          /\ \A i \in DOMAIN raw : stored[i] = Listing!NormalizeStoredConfig(raw[i])
      <3>1. Len(raw) \in Nat /\ DOMAIN raw = 1..Len(raw) /\ \A i \in DOMAIN raw : raw[i] \in Entry
        BY <1>1
      <3>2. \A e \in Entry : Listing!NormalizeStoredConfig(e) \in Entry
        BY DEF Listing!NormalizeStoredConfig, Entry
      <3>3. stored \in [1..Len(raw) -> Entry]
        BY <3>1, <3>2 DEF Listing!Stored
      <3>4. stored \in Seq(Entry)
        BY <3>1, <3>3
      <3>5. QED
        BY <3>1, <3>3, <3>4 DEF Listing!Stored
    <2> HIDE DEF stored
    <2>2. wanted = {i \in DOMAIN raw : /\ Listing!OursAndGood(raw[i])
                                       /\ Listing!Matches(stored[i], request.needle)}
      BY <1>3, <2>1 DEF Listing!Wanted
    <2>3. answer = Listing!Page(configs, request.limit)
      <3>1. answer = Listing!ListConfigs(raw, request.limit, request.needle)
        BY <1>1, <1>3 DEF Served
      <3> HIDE DEF wanted
      <3>2. QED
        BY <2>2, <3>1 DEF Listing!ListConfigs, stored
    <2>4. Selection(configs, Entry, stored, wanted)
      <3>1. wanted \in SUBSET (DOMAIN stored)
        BY <2>1
      <3> HIDE DEF wanted
      <3>2. QED
        BY <2>1, <3>1, OrdersSelect
    <2> HIDE DEF configs
    <2>5. QED
      BY <1>1, <2>3, <2>4, PageOf
  <1>4. CASE request.kind = "blueprint.list"
    <2> DEFINE blueprints == Listing!ByName(raw, wanted)
    <2>1. wanted = {i \in DOMAIN raw : /\ Listing!NormalizeBlueprint(raw[i])
                                       /\ Listing!Matches(raw[i], request.needle)}
      BY <1>4 DEF Listing!Wanted, Listing!NormalizeBlueprint
    <2>3. answer = Listing!Page(blueprints, request.limit)
      <3>1. answer = Listing!ListBlueprints(raw, request.limit, request.needle)
        BY <1>1, <1>4 DEF Served
      <3> HIDE DEF wanted
      <3>2. QED
        BY <1>0, <2>1, <3>1, RefusalsAre DEF Listing!ListBlueprints
    <2>4. Selection(blueprints, Entry, raw, wanted)
      <3>1. wanted \in SUBSET (DOMAIN raw)
        OBVIOUS
      <3> HIDE DEF wanted
      <3>2. QED
        BY <1>1, <3>1, OrdersSelect
    <2> HIDE DEF blueprints
    <2>5. QED
      BY <1>1, <2>3, <2>4, PageOf
  <1>5. CASE request.kind = "automation.traces"
    <2> DEFINE traces == Listing!Newest(raw)
    <2>1. wanted = DOMAIN raw
      BY <1>5 DEF Listing!Wanted
    <2>3. answer = Listing!Page(traces, request.limit)
      <3>1. answer = Listing!AutomationTraces(raw, request.limit)
        BY <1>1, <1>5 DEF Served
      <3>2. QED
        BY <1>0, <3>1, RefusalsAre DEF Listing!AutomationTraces
    <2>4. Selection(traces, Entry, raw, wanted)
      BY <1>1, <2>1, OrdersSelect
    <2> HIDE DEF traces
    <2>5. QED
      BY <1>1, <2>3, <2>4, PageOf
  <1>6. QED
    BY <1>0, <1>2, <1>3, <1>4, <1>5 DEF Listing!Pages

\* No duplicates among the devices that are kept: none among those of the answer.
LEMMA NoDuplicates ==
    ASSUME NEW entries \in Seq(Entry), NEW positions \in SUBSET (DOMAIN entries),
           NEW s, Selection(s, Entry, entries, positions),
           ~Listing!Duplicate(s), Listing!AllGood(s)
    PROVE  /\ \A p \in positions : entries[p].good
           /\ \A p, q \in positions : p # q => entries[p].id # entries[q].id
  <1>1. /\ s \in Seq(Entry) /\ Len(s) \in Nat /\ DOMAIN s = 1..Len(s)
    BY DEF Selection
  <1>2. PICK order \in [1..Len(s) -> positions] :
           /\ \A p \in positions : \E i \in 1..Len(s) : order[i] = p
           /\ \A i \in 1..Len(s) : s[i] = entries[order[i]]
    BY DEF Selection
  <1>3. ASSUME NEW p \in positions PROVE entries[p].good
    <2>1. PICK i \in 1..Len(s) : order[i] = p
      BY <1>2
    <2>2. QED
      BY <1>1, <1>2, <2>1 DEF Listing!AllGood
  <1>4. ASSUME NEW p \in positions, NEW q \in positions, p # q, entries[p].id = entries[q].id
        PROVE  FALSE
    <2>1. PICK i \in 1..Len(s) : order[i] = p
      BY <1>2
    <2>2. PICK j \in 1..Len(s) : order[j] = q
      BY <1>2
    <2>3. i # j /\ s[i].id = s[j].id
      BY <1>2, <1>4, <2>1, <2>2
    <2>4. i < j \/ j < i
      BY <1>1, <2>3
    <2>5. QED
      BY <1>1, <2>3, <2>4 DEF Listing!Duplicate
  <1>5. QED
    BY <1>3, <1>4

\* What stands for a whole has all of it.
LEMMA WholesAreTrue == ASSUME ListInv PROVE Listing!AllOrNothing
  <1> DEFINE raw == request.raw
             Whole == /\ \A i \in DOMAIN raw : Listing!Wanted(i) => raw[i].good
                      /\ request.kind \in {"network.list", "matter.device.list"} =>
                            \A i, j \in DOMAIN raw :
                               i # j /\ Listing!Wanted(i) /\ Listing!Wanted(j) => raw[i].id # raw[j].id
                      /\ request.kind = "automation.traces" => \A i \in DOMAIN raw : raw[i].ours
  <1>1. ASSUME pc = "answered", answer.status = "ok", request.kind = "automation.validate"
        PROVE  \A s \in request.asked : answer.verdicts[s] <=> raw[s].error = "null"
    <2>1. answer = Listing!NormalizeValidationResult(request.asked, raw)
      BY <1>1 DEF ListInv, Served
    <2>2. /\ DOMAIN raw = request.asked
          /\ \A s \in DOMAIN raw : /\ raw[s].error \in {"null", "text"}
                                   /\ raw[s].valid # (raw[s].error = "text")
          /\ answer.verdicts = [s \in request.asked |-> raw[s].valid]
      BY <1>1, <2>1, RefusalsAre DEF Listing!NormalizeValidationResult
    <2>3. \A s \in DOMAIN raw : raw[s].valid \in BOOLEAN
      BY <1>1, RawIs DEF ListInv
    <2>4. SUFFICES ASSUME NEW s \in request.asked
                   PROVE  answer.verdicts[s] <=> raw[s].error = "null"
      OBVIOUS
    <2>5. answer.verdicts[s] = raw[s].valid /\ raw[s].valid \in BOOLEAN
      BY <2>2, <2>3
    <2>6. CASE raw[s].error = "null"
      BY <2>2, <2>5, <2>6
    <2>7. CASE raw[s].error = "text"
      BY <2>2, <2>5, <2>7
    <2>8. QED
      BY <2>2, <2>6, <2>7
  <1>2. ASSUME pc = "answered", answer.status = "ok",
               request.kind \in {"network.list", "matter.device.list", "automation.traces",
                                 "device.ping", "device.diagnostics", "state.get"}
        PROVE  Whole
    <2>1. Served /\ (request.kind \in Lists => raw \in Seq(Entry))
      BY <1>2, RawIs DEF ListInv
    <2>2. CASE request.kind = "network.list"
      <3>1. answer = Listing!ThreadDatasets(raw)
        BY <2>1, <2>2 DEF Served
      <3>2. (\A i \in DOMAIN raw : raw[i].good) /\ ~Listing!Duplicate(raw)
        BY <1>2, <3>1, RefusalsAre DEF Listing!ThreadDatasets, Listing!NormalizeDataset
      <3>3. Len(raw) \in Nat /\ DOMAIN raw = 1..Len(raw)
        BY <2>1, <2>2 DEF Lists
      <3>4. \A i, j \in DOMAIN raw : i # j => i < j \/ j < i
        BY <3>3
      <3>5. \A i, j \in DOMAIN raw : i # j => raw[i].id # raw[j].id
        BY <3>2, <3>4 DEF Listing!Duplicate
      <3>6. QED
        BY <2>2, <3>2, <3>5
    <2>3. CASE request.kind = "matter.device.list"
      <3> DEFINE positions == {i \in DOMAIN raw : raw[i].ours}
                 matter == Listing!ById(raw, positions)
      <3>1. answer = Listing!MatterDevices(raw, request.limit)
        BY <2>1, <2>3 DEF Served
      <3>2. Listing!AllGood(matter) /\ ~Listing!Duplicate(matter)
        BY <1>2, <3>1, RefusalsAre DEF Listing!MatterDevices
      <3>3. raw \in Seq(Entry) /\ positions \in SUBSET (DOMAIN raw)
        BY <2>1, <2>3 DEF Lists
      <3>4. \A i \in DOMAIN raw : Listing!Wanted(i) <=> i \in positions
        BY <2>3 DEF Listing!Wanted
      <3> HIDE DEF positions
      <3>5. Selection(matter, Entry, raw, positions)
        BY <3>3, OrdersSelect
      <3> HIDE DEF matter
      <3>6. /\ \A p \in positions : raw[p].good
            /\ \A p, q \in positions : p # q => raw[p].id # raw[q].id
        BY <3>2, <3>3, <3>5, NoDuplicates
      <3>7. QED
        BY <2>3, <3>4, <3>6
    <2>4. CASE request.kind = "automation.traces"
      <3>1. answer = Listing!AutomationTraces(raw, request.limit)
        BY <2>1, <2>4 DEF Served
      <3>2. \A i \in DOMAIN raw : raw[i].ours /\ raw[i].good
        BY <1>2, <3>1, RefusalsAre DEF Listing!AutomationTraces, Listing!NormalizeTraces, Listing!OursAndGood
      <3>3. QED
        BY <2>4, <3>2
    <2>5. CASE request.kind = "device.ping"
      <3>1. answer = Listing!NormalizePing(raw)
        BY <2>1, <2>5 DEF Served
      <3>2. \A i \in DOMAIN raw : raw[i].good
        BY <1>2, <3>1, RefusalsAre DEF Listing!NormalizePing, Listing!AllGood
      <3>3. QED
        BY <2>5, <3>2
    <2>6. CASE request.kind = "device.diagnostics"
      <3>1. answer = Listing!NormalizeDiagnostics(raw)
        BY <2>1, <2>6 DEF Served
      <3>2. \A i \in DOMAIN raw : raw[i].good
        BY <1>2, <3>1, RefusalsAre DEF Listing!NormalizeDiagnostics, Listing!AllGood
      <3>3. QED
        BY <2>6, <3>2
    <2>7. CASE request.kind = "state.get"
      <3>1. answer = Listing!GetStates(request.asked, raw)
        BY <2>1, <2>7 DEF Served
      <3>2. \A i \in DOMAIN request.asked : raw[i].good
        BY <1>2, <3>1, RefusalsAre DEF Listing!GetStates
      <3>3. DOMAIN raw = DOMAIN request.asked
        <4>1. /\ request.asked \in Seq(Nat) /\ Len(raw) = Len(request.asked)
              /\ raw \in Seq([id : Nat, good : BOOLEAN])
          BY <2>7, RawIs DEF ListInv
        <4>2. QED
          BY <4>1
      <3>4. QED
        BY <2>7, <3>2, <3>3
    <2>8. QED
      BY <1>2, <2>2, <2>3, <2>4, <2>5, <2>6, <2>7
  <1>3. QED
    BY <1>1, <1>2 DEF Listing!AllOrNothing, Listing!Done

-----------------------------------------------------------------------------
(* Listings: readiness *)

\* A dataset of the Thread readiness.
Network == [id : Nat, preferred : BOOLEAN, pan : Nat, name : Nat]

\* What is kept of a list is a selection, in its order.
LEMMA KeptIs ==
    ASSUME NEW X, NEW entries \in Seq(X), NEW positions \in SUBSET (DOMAIN entries)
    PROVE  Selection(Listing!Kept(entries, positions), X, entries, positions)
  <1> DEFINE key == [i \in DOMAIN entries |-> 0]
  <1>1. \A p \in positions : key[p] \in Int
    OBVIOUS
  <1> HIDE DEF key
  <1>2. Selection(Listing!Arranged(entries, positions, key), X, entries, positions)
    BY <1>1, Selects
  <1>3. QED
    BY <1>2 DEF Listing!Kept, key

\* There are no issues exactly if the one preferred network has a router.
LEMMA ReadinessIsTrue == ASSUME ListInv PROVE Listing!ReadyIsReady
  <1> DEFINE raw == request.raw
             routers == request.routers
             datasets == Listing!ById(raw, DOMAIN raw)
             positions == {i \in DOMAIN datasets : datasets[i].preferred}
             preferred == Listing!Preferred(datasets)
  <1>0. SUFFICES ASSUME pc = "answered", request.kind = "readiness.get", answer.status = "ok"
                 PROVE  answer.issues = {}
                           <=> \E d \in Listing!ToSet(raw) :
                                  /\ \A e \in Listing!ToSet(raw) : e.preferred <=> e = d
                                  /\ \E r \in routers : r.pan = d.pan \/ (r.name = d.name /\ d.name # 0)
    BY DEF Listing!ReadyIsReady, Listing!Done
  <1>1. /\ raw \in Seq(Network)
        /\ \A i, j \in DOMAIN raw : i # j => raw[i].id # raw[j].id
        /\ answer = Listing!ThreadReadiness(raw, routers)
    BY <1>0, RawIs DEF ListInv, Served, Network
  <1>2. Selection(datasets, Network, raw, DOMAIN raw)
    <2> DEFINE id == [i \in DOMAIN raw |-> raw[i].id]
    <2>1. \A p \in DOMAIN raw : id[p] \in Int
      <3>1. \A p \in DOMAIN raw : raw[p] \in Network
        BY <1>1
      <3>2. \A p \in DOMAIN raw : raw[p].id \in Nat
        BY <3>1 DEF Network
      <3>3. QED
        BY <3>2
    <2> HIDE DEF id
    <2>2. Selection(Listing!Arranged(raw, DOMAIN raw, id), Network, raw, DOMAIN raw)
      BY <1>1, <2>1, Selects
    <2>3. QED
      BY <2>2 DEF Listing!ById, id
  <1> HIDE DEF datasets
  <1>3. /\ datasets \in Seq(Network) /\ Len(datasets) \in Nat /\ DOMAIN datasets = 1..Len(datasets)
        /\ \A i, j \in 1..Len(datasets) : datasets[i] = datasets[j] => i = j
        /\ Listing!ToSet(raw) = {datasets[i] : i \in 1..Len(datasets)}
    <2>1. datasets \in Seq(Network) /\ Len(datasets) \in Nat /\ DOMAIN datasets = 1..Len(datasets)
      BY <1>2 DEF Selection
    <2>2. PICK order \in [1..Len(datasets) -> DOMAIN raw] :
             /\ \A i, j \in 1..Len(datasets) : order[i] = order[j] => i = j
             /\ \A p \in DOMAIN raw : \E i \in 1..Len(datasets) : order[i] = p
             /\ \A i \in 1..Len(datasets) : datasets[i] = raw[order[i]]
      BY <1>2 DEF Selection
    <2>3. \A i, j \in 1..Len(datasets) : datasets[i] = datasets[j] => i = j
      BY <1>1, <2>2
    <2>4. Listing!ToSet(raw) = {raw[p] : p \in DOMAIN raw}
      BY DEF Listing!ToSet
    <2>5. {raw[p] : p \in DOMAIN raw} = {datasets[i] : i \in 1..Len(datasets)}
      BY <2>2
    <2>6. QED
      BY <2>1, <2>3, <2>4, <2>5
  <1>4. Selection(preferred, Network, datasets, positions)
    <2>1. positions \in SUBSET (DOMAIN datasets)
      OBVIOUS
    <2>2. preferred = Listing!Kept(datasets, positions)
      BY DEF Listing!Preferred
    <2> HIDE DEF positions, preferred
    <2>3. QED
      BY <1>3, <2>1, <2>2, KeptIs
  <1> HIDE DEF preferred
  <1> DEFINE n == Len(preferred)
  <1>5. PICK order \in [1..n -> positions] :
           /\ \A i, j \in 1..n : order[i] = order[j] => i = j
           /\ \A p \in positions : \E i \in 1..n : order[i] = p
           /\ \A i \in 1..n : preferred[i] = datasets[order[i]]
    <2> HIDE DEF positions
    <2>1. QED
      BY <1>4 DEF Selection
  <1>6. n \in Nat /\ (preferred = <<>> <=> n = 0)
    <2>1. preferred \in Seq(Network)
      BY <1>4 DEF Selection
    <2>2. QED
      BY <2>1, EmptySeq
  <1> DEFINE issue(i) ==
               CASE i = "no_datasets" -> datasets = <<>>
                 [] i = "no_preferred_dataset" -> preferred = <<>>
                 [] i = "multiple_preferred_datasets" -> Len(preferred) > 1
                 [] i = "no_routers_discovered" -> routers = {}
                 [] OTHER -> /\ preferred # <<>>
                             /\ \A r \in routers : ~Listing!RouterMatches(r, preferred[1])
             names == {"no_datasets", "no_preferred_dataset", "multiple_preferred_datasets",
                       "no_routers_discovered", "no_router_matches_preferred_network"}
             match(d) == \E r \in routers : r.pan = d.pan \/ (r.name = d.name /\ d.name # 0)
  <1>7. answer.issues = {i \in names : issue(i)}
    BY <1>1 DEF Listing!ThreadReadiness, datasets, preferred
  <1>8. answer.issues = {} <=> \A i \in names : ~issue(i)
    <2> HIDE DEF issue, names
    <2>1. QED
      BY <1>7
  <1>9. (\A i \in names : ~issue(i)) <=>
           /\ datasets # <<>> /\ preferred # <<>> /\ ~(n > 1) /\ routers # {}
           /\ preferred # <<>> => match(preferred[1])
    <2>1. issue("no_datasets") <=> datasets = <<>>
      OBVIOUS
    <2>2. issue("no_preferred_dataset") <=> preferred = <<>>
      OBVIOUS
    <2>3. issue("multiple_preferred_datasets") <=> n > 1
      OBVIOUS
    <2>4. issue("no_routers_discovered") <=> routers = {}
      OBVIOUS
    <2>5. issue("no_router_matches_preferred_network") <=> preferred # <<>> /\ ~match(preferred[1])
      BY DEF Listing!RouterMatches
    <2> HIDE DEF issue, n, match
    <2>6. QED
      BY <2>1, <2>2, <2>3, <2>4, <2>5
  <1>10. ASSUME answer.issues = {}
         PROVE  \E d \in Listing!ToSet(raw) :
                   /\ \A e \in Listing!ToSet(raw) : e.preferred <=> e = d
                   /\ match(d)
    <2>1. preferred # <<>> /\ ~(n > 1) /\ match(preferred[1])
      BY <1>8, <1>9, <1>10
    <2>2. n = 1
      <3> HIDE DEF n
      <3>1. QED
        BY <1>6, <2>1
    <2>3. 1 \in 1..n /\ \A i \in 1..n : i = 1
      BY <2>2
    <2> HIDE DEF n, match
    <2>4. order[1] \in positions /\ preferred[1] = datasets[order[1]] /\ \A p \in positions : p = order[1]
      <3> HIDE DEF positions
      <3>1. QED
        BY <1>5, <2>3
    <2>5. \A i \in 1..Len(datasets) : datasets[i].preferred <=> i = order[1]
      BY <1>3, <2>4
    <2>6. order[1] \in 1..Len(datasets)
      BY <1>3, <2>4
    <2>7. \A i \in 1..Len(datasets) : datasets[i].preferred <=> datasets[i] = datasets[order[1]]
      BY <1>3, <2>5, <2>6
    <2>8. preferred[1] \in Listing!ToSet(raw)
      BY <1>3, <2>4, <2>6
    <2>9. \A e \in Listing!ToSet(raw) : e.preferred <=> e = preferred[1]
      BY <1>3, <2>4, <2>7
    <2>10. QED
      BY <2>1, <2>8, <2>9
  <1>11. ASSUME NEW d \in Listing!ToSet(raw),
                \A e \in Listing!ToSet(raw) : e.preferred <=> e = d, match(d)
         PROVE  answer.issues = {}
    <2>1. PICK p \in 1..Len(datasets) : datasets[p] = d
      BY <1>3
    <2>2. p \in positions /\ \A q \in positions : q = p
      BY <1>3, <1>11, <2>1
    <2> HIDE DEF positions
    <2>3. PICK i \in 1..n : order[i] = p
      BY <1>5, <2>2
    <2>4. \A j \in 1..n : j = i
      BY <1>5, <2>2, <2>3
    <2>5. n = 1 /\ i = 1
      <3> HIDE DEF n
      <3>1. 1 \in 1..n /\ n \in 1..n
        BY <1>6, <2>3
      <3>2. QED
        BY <2>4, <3>1
    <2>6. preferred[1] = d
      BY <1>5, <2>1, <2>3, <2>5
    <2>7. preferred # <<>> /\ ~(n > 1)
      <3> HIDE DEF n
      <3>1. QED
        BY <1>6, <2>5
    <2>8. datasets # <<>>
      BY <1>3, <2>1
    <2>9. routers # {}
      BY <1>11
    <2>10. match(preferred[1])
      <3> HIDE DEF match
      <3>1. QED
        BY <1>11, <2>6
    <2> HIDE DEF n, match, issue, names
    <2>11. QED
      BY <1>8, <1>9, <2>7, <2>8, <2>9, <2>10
  <1>12. QED
    BY <1>10, <1>11

-----------------------------------------------------------------------------
(* Listings: groups of points, one after the other *)

\* J[n] is the first n of the groups, joined.
IsJoin(J, groups, N) ==
    /\ DOMAIN J = 0..N /\ J[0] = <<>>
    /\ \A n \in 1..N : J[n] = J[n - 1] \o groups[n]

\* There is such a function, for any number of groups.
LEMMA JoinExists ==
    ASSUME NEW groups
    PROVE  \A N \in Nat : \E J : IsJoin(J, groups, N)
  <1> DEFINE S == {N \in Nat : \E J : IsJoin(J, groups, N)}
  <1>1. 0 \in S
    <2> DEFINE J == [n \in 0..0 |-> <<>>]
    <2>1. DOMAIN J = 0..0 /\ J[0] = <<>> /\ 1..0 = {}
      OBVIOUS
    <2> HIDE DEF J
    <2>2. IsJoin(J, groups, 0)
      BY <2>1 DEF IsJoin
    <2>3. QED
      BY <2>2
  <1>2. ASSUME NEW N \in Nat, N \in S
        PROVE  N + 1 \in S
    <2>1. PICK J : IsJoin(J, groups, N)
      BY <1>2
    <2> DEFINE K == [n \in 0..N + 1 |-> IF n = N + 1 THEN J[N] \o groups[N + 1] ELSE J[n]]
    <2>2. ASSUME NEW n \in 1..N + 1 PROVE K[n] = K[n - 1] \o groups[n]
      <3>1. n - 1 \in 0..N + 1 /\ n - 1 # N + 1 /\ n \in 0..N + 1
        OBVIOUS
      <3>2. CASE n = N + 1
        <4>1. n - 1 = N
          BY <3>2
        <4>2. QED
          BY <3>1, <3>2, <4>1
      <3>3. CASE n # N + 1
        <4>1. n \in 1..N
          BY <3>3
        <4>2. J[n] = J[n - 1] \o groups[n]
          BY <2>1, <4>1 DEF IsJoin
        <4>3. QED
          BY <3>1, <3>3, <4>2
      <3>4. QED
        BY <3>2, <3>3
    <2>3. DOMAIN K = 0..N + 1 /\ K[0] = <<>>
      <3>1. 0 \in 0..N + 1 /\ 0 # N + 1
        OBVIOUS
      <3>2. QED
        BY <2>1, <3>1 DEF IsJoin
    <2> HIDE DEF K
    <2>4. IsJoin(K, groups, N + 1)
      BY <2>2, <2>3 DEF IsJoin
    <2>5. QED
      BY <2>4
  <1> HIDE DEF S
  <1>3. \A N \in Nat : N \in S
    BY <1>1, <1>2, SetInduction
  <1>4. QED
    BY <1>3 DEF S

\* The definition of Joined, unfolded.
LEMMA JoinedIsJoin ==
    ASSUME NEW groups, Len(groups) \in Nat
    PROVE  \E J : IsJoin(J, groups, Len(groups)) /\ Listing!Joined(groups) = J[Len(groups)]
  <1> DEFINE N == Len(groups)
             body(f) == [n \in 0..N |-> IF n = 0 THEN <<>> ELSE f[n - 1] \o groups[n]]
             J == CHOOSE f : f = body(f)
  <1>1. Listing!Joined(groups) = J[N]
    BY DEF Listing!Joined
  <1>2. PICK K : IsJoin(K, groups, N)
    BY JoinExists
  <1> HIDE DEF N
  <1>3. N \in Nat
    BY DEF N
  <1>4. \E f : f = body(f)
    <2> DEFINE f == [n \in 0..N |-> K[n]]
    <2>1. \A n \in 0..N : n # 0 => n - 1 \in 0..N /\ n \in 1..N
      BY <1>3
    <2>2. \A n \in 0..N : f[n] = IF n = 0 THEN <<>> ELSE f[n - 1] \o groups[n]
      BY <1>2, <2>1 DEF IsJoin
    <2>3. f = body(f)
      BY <2>2
    <2>4. QED
      BY <2>3
  <1>5. J = body(J)
    <2> HIDE DEF body
    <2>1. QED
      BY <1>4
  <1> HIDE DEF J
  <1>6. IsJoin(J, groups, N)
    BY <1>3, <1>5 DEF IsJoin
  <1>7. QED
    BY <1>1, <1>6 DEF N

\* What is joined is a sequence of points.
LEMMA JoinTyped ==
    ASSUME NEW X, NEW groups \in Seq(Seq(X)), NEW J, IsJoin(J, groups, Len(groups))
    PROVE  /\ \A n \in 0..Len(groups) : J[n] \in Seq(X)
           /\ \A n \in 1..Len(groups) : Len(J[n]) = Len(J[n - 1]) + Len(groups[n])
  <1> DEFINE N == Len(groups)
             S == {n \in Nat : n <= N => J[n] \in Seq(X)}
  <1>1. N \in Nat /\ \A n \in 1..N : groups[n] \in Seq(X)
    OBVIOUS
  <1>8. \A n \in 1..N : J[n] = J[n - 1] \o groups[n]
    BY DEF IsJoin
  <1> HIDE DEF N
  <1>2. 0 \in S
    <2>1. <<>> \in Seq(X)
      BY EmptySeq
    <2>2. QED
      BY <2>1 DEF IsJoin
  <1>3. ASSUME NEW n \in Nat, n \in S
        PROVE  n + 1 \in S
    <2>1. SUFFICES ASSUME n + 1 <= N PROVE J[n + 1] \in Seq(X)
      OBVIOUS
    <2>2. n + 1 \in 1..N /\ (n + 1) - 1 = n /\ n <= N
      BY <1>1, <2>1
    <2>3. J[n + 1] = J[n] \o groups[n + 1] /\ J[n] \in Seq(X)
      BY <1>3, <2>2 DEF IsJoin, N
    <2>4. QED
      BY <1>1, <2>2, <2>3, ConcatProperties
  <1> HIDE DEF S
  <1>4. \A n \in Nat : n \in S
    BY <1>2, <1>3, SetInduction
  <1>5. \A n \in 0..N : J[n] \in Seq(X)
    BY <1>1, <1>4 DEF S
  <1>6. ASSUME NEW n \in 1..N PROVE Len(J[n]) = Len(J[n - 1]) + Len(groups[n])
    <2>0. n - 1 \in 0..N
      BY <1>1
    <2>1. J[n] = J[n - 1] \o groups[n]
      BY <1>8
    <2>2. J[n - 1] \in Seq(X) /\ groups[n] \in Seq(X)
      BY <1>1, <1>5, <2>0
    <2>3. QED
      BY <2>1, <2>2, ConcatProperties
  <1>7. QED
    BY <1>5, <1>6 DEF N

\* The points of the first n groups are as many as those joined.
LEMMA PointsAre ==
    ASSUME NEW X, NEW groups \in Seq(Seq(X)), NEW J, IsJoin(J, groups, Len(groups))
    PROVE  \A n \in 0..Len(groups) : Listing!Points(groups)[n] = Len(J[n])
  <1> DEFINE N == Len(groups)
             body(f) == [n \in 0..N |-> IF n = 0 THEN 0 ELSE f[n - 1] + Len(groups[n])]
             P == CHOOSE f : f = body(f)
  <1>1. Listing!Points(groups) = P
    BY DEF Listing!Points
  <1>2. /\ \A n \in 0..N : J[n] \in Seq(X)
        /\ \A n \in 1..N : Len(J[n]) = Len(J[n - 1]) + Len(groups[n])
    BY JoinTyped
  <1>3. N \in Nat /\ J[0] = <<>>
    BY DEF IsJoin
  <1> HIDE DEF N
  <1>4. \A n \in 0..N : n # 0 => n - 1 \in 0..N /\ n \in 1..N
    BY <1>3
  <1>5. \E f : f = body(f)
    <2> DEFINE f == [n \in 0..N |-> Len(J[n])]
    <2>1. ASSUME NEW n \in 0..N PROVE f[n] = IF n = 0 THEN 0 ELSE f[n - 1] + Len(groups[n])
      <3>1. CASE n = 0
        BY <1>3, <3>1, EmptySeq
      <3>2. CASE n # 0
        <4>1. n - 1 \in 0..N /\ n \in 1..N
          BY <1>4, <3>2
        <4>2. Len(J[n]) = Len(J[n - 1]) + Len(groups[n])
          BY <1>2, <4>1
        <4>3. QED
          BY <3>2, <4>1, <4>2
      <3>3. QED
        BY <3>1, <3>2
    <2>2. f = body(f)
      BY <2>1
    <2>3. QED
      BY <2>2
  <1>6. P = body(P)
    <2> HIDE DEF body
    <2>1. QED
      BY <1>5
  <1> HIDE DEF P
  <1>7. \A n \in 0..N : P[n] = IF n = 0 THEN 0 ELSE P[n - 1] + Len(groups[n])
    BY <1>6
  <1> DEFINE S == {n \in Nat : n <= N => P[n] = Len(J[n])}
  <1>8. 0 \in S
    BY <1>3, <1>7
  <1>9. ASSUME NEW n \in Nat, n \in S
        PROVE  n + 1 \in S
    <2>1. SUFFICES ASSUME n + 1 <= N PROVE P[n + 1] = Len(J[n + 1])
      OBVIOUS
    <2>2. n + 1 \in 1..N /\ n + 1 \in 0..N /\ n + 1 # 0 /\ (n + 1) - 1 = n /\ n <= N
      BY <1>3, <2>1
    <2>3. P[n + 1] = P[n] + Len(groups[n + 1]) /\ P[n] = Len(J[n])
      BY <1>7, <1>9, <2>2
    <2>4. QED
      BY <1>2, <2>2, <2>3
  <1> HIDE DEF S
  <1>10. \A n \in Nat : n \in S
    BY <1>8, <1>9, SetInduction
  <1>11. QED
    BY <1>1, <1>3, <1>10 DEF S, N

\* The beginning of two sequences, one after the other.
LEMMA CutConcat ==
    ASSUME NEW X, NEW a \in Seq(X), NEW b \in Seq(X), NEW M \in Nat
    PROVE  Listing!Cut(a \o b, M)
              = Listing!Cut(a, M) \o Listing!Cut(b, IF Len(a) < M THEN M - Len(a) ELSE 0)
  <1> DEFINE rest == IF Len(a) < M THEN M - Len(a) ELSE 0
             s == Listing!Cut(a \o b, M)
             u == Listing!Cut(a, M)
             v == Listing!Cut(b, rest)
             m == IF Len(a) + Len(b) < M THEN Len(a) + Len(b) ELSE M
             k == IF Len(a) < M THEN Len(a) ELSE M
             l == IF Len(b) < rest THEN Len(b) ELSE rest
  <1>1. Len(a) \in Nat /\ Len(b) \in Nat /\ rest \in Nat
    OBVIOUS
  <1>2. /\ a \o b \in Seq(X) /\ Len(a \o b) = Len(a) + Len(b)
        /\ \A i \in 1..Len(a) + Len(b) : (a \o b)[i] = IF i <= Len(a) THEN a[i] ELSE b[i - Len(a)]
    BY ConcatProperties
  <1>3. s \in Seq(X) /\ Len(s) = m /\ \A i \in 1..m : s[i] = (a \o b)[i]
    <2> DEFINE c == a \o b
    <2>1. c \in Seq(X) /\ Len(c) = Len(a) + Len(b)
      BY <1>2
    <2> HIDE DEF c
    <2>2. /\ Listing!Cut(c, M) \in Seq(X)
          /\ Len(Listing!Cut(c, M)) = IF Len(c) < M THEN Len(c) ELSE M
          /\ \A i \in 1..(IF Len(c) < M THEN Len(c) ELSE M) : Listing!Cut(c, M)[i] = c[i]
      BY <2>1, PageIs
    <2>3. QED
      BY <2>1, <2>2 DEF c
  <1>4. u \in Seq(X) /\ Len(u) = k /\ \A i \in 1..k : u[i] = a[i]
    BY PageIs
  <1>5. v \in Seq(X) /\ Len(v) = l /\ \A i \in 1..l : v[i] = b[i]
    <2> HIDE DEF rest
    <2>1. QED
      BY <1>1, PageIs
  <1> HIDE DEF s, u, v
  <1>6. /\ u \o v \in Seq(X) /\ Len(u \o v) = Len(u) + Len(v)
        /\ \A i \in 1..Len(u) + Len(v) : (u \o v)[i] = IF i <= Len(u) THEN u[i] ELSE v[i - Len(u)]
    BY <1>4, <1>5, ConcatProperties
  <1>7. m = k + l /\ k \in Nat /\ l \in Nat /\ k <= Len(a) /\ l <= Len(b) /\ (l # 0 => k = Len(a))
    <2>1. CASE Len(a) < M
      BY <1>1, <2>1
    <2>2. CASE ~(Len(a) < M)
      <3>1. rest = 0 /\ k = M /\ l = 0
        BY <1>1, <2>2
      <3>2. m = M
        BY <1>1, <2>2
      <3> HIDE DEF rest, k, l, m
      <3>3. QED
        BY <1>1, <2>2, <3>1, <3>2
    <2>3. QED
      BY <2>1, <2>2
  <1> HIDE DEF m, k, l
  <1>8. ASSUME NEW i \in 1..m PROVE s[i] = (u \o v)[i]
    <2>1. CASE i <= k
      <3>1. i \in 1..k /\ i \in 1..Len(a) + Len(b) /\ i <= Len(a) /\ i \in 1..Len(u) + Len(v) /\ i <= Len(u)
        BY <1>1, <1>4, <1>5, <1>7, <2>1
      <3>2. s[i] = a[i]
        BY <1>2, <1>3, <3>1
      <3>3. (u \o v)[i] = a[i]
        BY <1>4, <1>6, <3>1
      <3>4. QED
        BY <3>2, <3>3
    <2>2. CASE ~(i <= k)
      <3>1. k = Len(a) /\ i - k \in 1..l
        BY <1>7, <2>2
      <3>2. i \in 1..Len(a) + Len(b) /\ ~(i <= Len(a)) /\ i \in 1..Len(u) + Len(v) /\ ~(i <= Len(u))
        BY <1>1, <1>4, <1>5, <1>7, <2>2, <3>1
      <3>3. s[i] = b[i - Len(a)]
        BY <1>2, <1>3, <3>2
      <3>4. (u \o v)[i] = v[i - k] /\ v[i - k] = b[i - k]
        BY <1>4, <1>5, <1>6, <3>1, <3>2
      <3>5. QED
        BY <3>1, <3>3, <3>4
    <2>3. QED
      BY <2>1, <2>2
  <1>9. Len(s) = Len(u \o v)
    BY <1>3, <1>4, <1>5, <1>6, <1>7
  <1>10. s = u \o v
    BY <1>3, <1>6, <1>8, <1>9, SeqEqual
  <1>11. QED
    BY <1>10 DEF s, u, v

\* What is taken of each group, joined, is the beginning of the groups joined.
LEMMA TakenJoin ==
    ASSUME NEW X, NEW groups \in Seq(Seq(X)), NEW states,
           \A n \in 1..Len(groups) : states[n] = Listing!Cut(groups[n], Listing!Remaining(groups, n)),
           NEW J, IsJoin(J, groups, Len(groups)), NEW T, IsJoin(T, states, Len(groups)),
           MaxPoints \in Nat
    PROVE  \A n \in 0..Len(groups) : T[n] = Listing!Cut(J[n], MaxPoints)
  <1> DEFINE N == Len(groups)
             S == {n \in Nat : n <= N => T[n] = Listing!Cut(J[n], MaxPoints)}
  <1>1. N \in Nat /\ \A n \in 1..N : groups[n] \in Seq(X)
    OBVIOUS
  <1>2. \A n \in 0..N : J[n] \in Seq(X) /\ Listing!Points(groups)[n] = Len(J[n])
    BY JoinTyped, PointsAre
  <1>3. /\ J[0] = <<>> /\ T[0] = <<>>
        /\ \A n \in 1..N : J[n] = J[n - 1] \o groups[n] /\ T[n] = T[n - 1] \o states[n]
    BY DEF IsJoin
  <1>4. \A n \in 1..N : states[n] = Listing!Cut(groups[n], Listing!Remaining(groups, n))
    OBVIOUS
  <1> HIDE DEF N
  <1>5. 0 \in S
    <2>1. <<>> \in Seq(X) /\ Len(<<>>) = 0
      BY EmptySeq
    <2> DEFINE e == <<>>
    <2>5. e \in Seq(X) /\ Len(e) = 0
      BY <2>1
    <2> HIDE DEF e
    <2>6. Listing!Cut(e, MaxPoints) \in Seq(X) /\ Len(Listing!Cut(e, MaxPoints)) = 0
      <3> DEFINE m == IF Len(e) < MaxPoints THEN Len(e) ELSE MaxPoints
      <3>1. m = 0
        BY <2>5
      <3>2. Listing!Cut(e, MaxPoints) \in Seq(X) /\ Len(Listing!Cut(e, MaxPoints)) = m
        BY <2>5, PageIs
      <3>3. QED
        BY <3>1, <3>2
    <2>2. Listing!Cut(<<>>, MaxPoints) \in Seq(X) /\ Len(Listing!Cut(<<>>, MaxPoints)) = 0
      BY <2>6 DEF e
    <2>3. Listing!Cut(<<>>, MaxPoints) = <<>>
      BY <2>2, EmptySeq
    <2>4. QED
      BY <1>3, <2>3
  <1>6. ASSUME NEW n \in Nat, n \in S
        PROVE  n + 1 \in S
    <2>1. SUFFICES ASSUME n + 1 <= N PROVE T[n + 1] = Listing!Cut(J[n + 1], MaxPoints)
      OBVIOUS
    <2>2. n + 1 \in 1..N /\ (n + 1) - 1 = n /\ n \in 0..N
      BY <1>1, <2>1
    <2>3. /\ J[n + 1] = J[n] \o groups[n + 1] /\ T[n + 1] = T[n] \o states[n + 1]
      BY <1>3, <2>2
    <2>4. T[n] = Listing!Cut(J[n], MaxPoints)
      BY <1>6, <2>2
    <2>5. Listing!Remaining(groups, n + 1) = IF Len(J[n]) < MaxPoints THEN MaxPoints - Len(J[n]) ELSE 0
      BY <1>2, <2>2 DEF Listing!Remaining
    <2>6. states[n + 1] = Listing!Cut(groups[n + 1], IF Len(J[n]) < MaxPoints THEN MaxPoints - Len(J[n]) ELSE 0)
      BY <1>4, <2>2, <2>5
    <2>7. J[n] \in Seq(X) /\ groups[n + 1] \in Seq(X)
      BY <1>1, <1>2, <2>2
    <2> DEFINE a == J[n]
               b == groups[n + 1]
    <2> HIDE DEF a, b
    <2>8. a \in Seq(X) /\ b \in Seq(X)
      BY <2>7 DEF a, b
    <2>9. Listing!Cut(a \o b, MaxPoints)
            = Listing!Cut(a, MaxPoints)
                 \o Listing!Cut(b, IF Len(a) < MaxPoints THEN MaxPoints - Len(a) ELSE 0)
      BY <2>8, CutConcat
    <2>10. QED
      BY <2>3, <2>4, <2>6, <2>9 DEF a, b
  <1> HIDE DEF S
  <1>7. \A n \in Nat : n \in S
    BY <1>5, <1>6, SetInduction
  <1>8. QED
    BY <1>1, <1>7 DEF S, N

\* s has the entries at some positions, in their order.
Keeps(order, s, entries, positions) ==
    /\ Len(s) \in Nat /\ order \in [1..Len(s) -> positions]
    /\ \A p \in positions : \E i \in 1..Len(s) : order[i] = p
    /\ \A i, j \in 1..Len(s) : i < j => order[i] < order[j]
    /\ \A i \in 1..Len(s) : s[i] = entries[order[i]]

\* What is kept of a list is in the order of the list.
LEMMA KeptInOrder ==
    ASSUME NEW X, NEW entries \in Seq(X), NEW positions \in SUBSET (DOMAIN entries)
    PROVE  /\ Listing!Kept(entries, positions) \in Seq(X)
           /\ \E order : Keeps(order, Listing!Kept(entries, positions), entries, positions)
  <1> DEFINE key == [i \in DOMAIN entries |-> 0]
             s == Listing!Kept(entries, positions)
             n == Cardinality(positions)
  <1>1. \A p \in positions : key[p] = 0
    OBVIOUS
  <1>2. s = Listing!Arranged(entries, positions, key)
    BY DEF Listing!Kept
  <1>3. \A p \in positions : key[p] \in Int
    BY <1>1
  <1> HIDE DEF key, s
  <1>4. /\ n \in Nat /\ s \in Seq(X) /\ Len(s) = n
        /\ \E order : /\ Arrangement(order, positions, key, n)
                      /\ \A i \in 1..n : s[i] = entries[order[i]] /\ order[i] \in positions
    BY <1>2, <1>3, KeyedIs
  <1> HIDE DEF n
  <1>5. PICK order : /\ Arrangement(order, positions, key, n)
                     /\ \A i \in 1..n : s[i] = entries[order[i]] /\ order[i] \in positions
    BY <1>4
  <1>6. order \in [1..n -> positions] /\ \A p \in positions : \E i \in 1..n : order[i] = p
    BY <1>5 DEF Arrangement
  <1>7. ASSUME NEW i \in 1..n, NEW j \in 1..n, i < j PROVE order[i] < order[j]
    <2>1. \/ key[order[i]] < key[order[j]]
          \/ key[order[i]] = key[order[j]] /\ order[i] < order[j]
      BY <1>5, <1>7 DEF Arrangement
    <2>2. key[order[i]] = 0 /\ key[order[j]] = 0
      BY <1>1, <1>5
    <2>3. QED
      BY <2>1, <2>2
  <1>8. \A i \in 1..n : s[i] = entries[order[i]]
    BY <1>5
  <1>9. Keeps(order, s, entries, positions)
    BY <1>4, <1>6, <1>7, <1>8 DEF Keeps
  <1>10. QED
    BY <1>4, <1>9 DEF s

\* Groups without points make no difference to what is joined.
LEMMA KeptJoin ==
    ASSUME NEW X, NEW groups \in Seq(Seq(X)), NEW J, IsJoin(J, groups, Len(groups)),
           NEW positions, positions = {i \in DOMAIN groups : groups[i] # <<>>},
           NEW order, NEW kept, Keeps(order, kept, groups, positions),
           NEW K, IsJoin(K, kept, Len(kept))
    PROVE  K[Len(kept)] = J[Len(groups)]
  <1> DEFINE N == Len(groups)
             m == Len(kept)
             \* k of those that are kept are among the first n.
             First(k, n) == \A i \in 1..m : order[i] <= n <=> i <= k
             S == {n \in Nat : n <= N => \A k \in 0..m : First(k, n) => J[n] = K[k]}
  <1>1. N \in Nat /\ DOMAIN groups = 1..N
    OBVIOUS
  <1>2. \A n \in 1..N : J[n] = J[n - 1] \o groups[n]
    BY DEF IsJoin
  <1>3. \A k \in 1..m : K[k] = K[k - 1] \o groups[order[k]]
    BY DEF IsJoin, Keeps
  <1>4. \A n \in 0..N : J[n] \in Seq(X)
    BY JoinTyped
  <1>5. /\ \A i \in 1..m : order[i] \in 1..N /\ groups[order[i]] # <<>>
        /\ \A p \in 1..N : groups[p] # <<>> => \E i \in 1..m : order[i] = p
    BY <1>1 DEF Keeps
  <1>6. m \in Nat /\ \A i, j \in 1..m : i < j => order[i] < order[j]
    BY DEF Keeps
  <1>14. \A i \in 1..m : order[i] \in Nat
    <2>1. 1..N \subseteq Nat
      BY <1>1
    <2> HIDE DEF N
    <2>2. QED
      BY <1>5, <2>1
  <1>7. J[0] = <<>> /\ K[0] = <<>>
    BY DEF IsJoin
  <1> HIDE DEF N, m
  <1>8. 0 \in S
    <2>1. SUFFICES ASSUME NEW k \in 0..m, First(k, 0) PROVE J[0] = K[k]
      OBVIOUS
    <2>2. k = 0
      <3>1. SUFFICES ASSUME k # 0 PROVE FALSE
        OBVIOUS
      <3>2. k \in 1..m /\ k <= k
        BY <1>6, <3>1
      <3>3. order[k] <= 0 /\ order[k] \in 1..N
        BY <1>5, <2>1, <3>2
      <3>4. QED
        BY <1>1, <3>3
    <2>3. QED
      BY <1>7, <2>2
  <1>9. ASSUME NEW n \in Nat, n \in S
        PROVE  n + 1 \in S
    <2>1. SUFFICES ASSUME n + 1 <= N, NEW k \in 0..m, First(k, n + 1) PROVE J[n + 1] = K[k]
      <3> HIDE DEF First
      <3>1. QED
        OBVIOUS
    <2>2. n + 1 \in 1..N /\ (n + 1) - 1 = n /\ n \in 0..N /\ n <= N
      BY <1>1, <2>1
    <2>3. J[n + 1] = J[n] \o groups[n + 1] /\ J[n] \in Seq(X)
      BY <1>2, <1>4, <2>2
    <2>4. \A j \in 0..m : First(j, n) => J[n] = K[j]
      BY <1>9, <2>2
    <2>5. CASE groups[n + 1] = <<>>
      <3>1. \A i \in 1..m : order[i] # n + 1 /\ order[i] \in 1..N
        BY <1>5, <2>5
      <3>2. ASSUME NEW i \in 1..m PROVE order[i] <= n <=> order[i] <= n + 1
        <4>1. order[i] # n + 1 /\ order[i] \in Nat
          BY <1>1, <3>1
        <4>2. QED
          BY <4>1
      <3>3. First(k, n)
        BY <2>1, <3>2
      <3> HIDE DEF First
      <3>4. J[n] = K[k]
        BY <2>4, <3>3
      <3>5. J[n] \o <<>> = J[n]
        BY <2>3, ConcatEmptySeq
      <3>6. QED
        BY <2>3, <2>5, <3>4, <3>5
    <2>6. CASE groups[n + 1] # <<>>
      <3>1. PICK j \in 1..m : order[j] = n + 1
        BY <1>5, <2>2, <2>6
      <3>2. j <= k
        BY <2>1, <3>1
      <3>3. ~(j < k)
        <4>1. SUFFICES ASSUME j < k PROVE FALSE
          OBVIOUS
        <4>2. k \in 1..m /\ k <= k
          BY <1>6, <4>1
        <4>3. order[k] <= n + 1 /\ order[j] < order[k] /\ order[k] \in Nat
          BY <1>1, <1>5, <1>6, <2>1, <4>1, <4>2
        <4>4. QED
          BY <3>1, <4>3
      <3>4. j = k /\ k \in 1..m /\ k - 1 \in 0..m
        BY <1>6, <3>2, <3>3
      <3>5. ASSUME NEW i \in 1..m PROVE order[i] <= n <=> i <= k - 1
        <4>1. order[i] \in Nat
          BY <1>14
        <4>2. CASE i < k
          <5>1. order[i] < n + 1
            BY <1>6, <3>1, <3>4, <4>2
          <5>2. QED
            BY <3>4, <4>1, <4>2, <5>1
        <4>3. CASE i = k
          BY <3>1, <3>4, <4>3
        <4>4. CASE k < i
          <5>1. n + 1 < order[i]
            BY <1>6, <3>1, <3>4, <4>4
          <5>2. QED
            BY <3>4, <4>1, <4>4, <5>1
        <4>5. QED
          BY <1>6, <3>4, <4>2, <4>3, <4>4
      <3>6. First(k - 1, n)
        BY <3>5
      <3> HIDE DEF First
      <3>7. J[n] = K[k - 1]
        BY <2>4, <3>4, <3>6
      <3>8. K[k] = K[k - 1] \o groups[n + 1]
        BY <1>3, <3>1, <3>4
      <3>9. QED
        BY <2>3, <3>7, <3>8
    <2>7. QED
      BY <2>5, <2>6
  <1> HIDE DEF S
  <1>10. N \in S
    BY <1>1, <1>8, <1>9, SetInduction
  <1>11. First(m, N)
    <2>1. ASSUME NEW i \in 1..m PROVE order[i] <= N /\ i <= m
      BY <1>1, <1>5, <1>6
    <2>2. QED
      BY <2>1
  <1>12. m \in 0..m /\ N <= N
    BY <1>1, <1>6
  <1> HIDE DEF First
  <1>13. QED
    BY <1>10, <1>11, <1>12 DEF S, N, m

\* The history is the beginning of what Home Assistant gave.
LEMMA HistoryIsTrue == ASSUME ListInv PROVE Listing!HistoryIsPrefix
  <1> DEFINE Point == [entity : Nat, good : BOOLEAN]
             raw == request.raw
             asked == request.asked
             groups == Listing!Nonempty(raw)
             N == Len(groups)
             taken == [i \in DOMAIN groups |-> [entity |-> Listing!GroupEntity(groups[i]),
                                                states |-> Listing!Cut(groups[i], Listing!Remaining(groups, i))]]
             states == [i \in DOMAIN taken |-> taken[i].states]
             history == Listing!Kept(taken, {i \in DOMAIN taken : taken[i].states # <<>>})
             mine == [i \in DOMAIN history |-> history[i].states]
             m == Len(history)
  <1>0. SUFFICES ASSUME pc = "answered", request.kind = "history.get", answer.status = "ok"
                 PROVE  /\ Listing!Joined([i \in DOMAIN answer.history |-> answer.history[i].states])
                              = Listing!Cut(Listing!Joined(raw), MaxPoints)
                        /\ answer.truncated =
                              (Len(Listing!Joined(raw))
                                 > Len(Listing!Joined([i \in DOMAIN answer.history |-> answer.history[i].states])))
                        /\ \A i \in DOMAIN answer.history :
                              /\ answer.history[i].entity \in asked
                              /\ \A n \in DOMAIN answer.history[i].states :
                                    answer.history[i].states[n].entity \in {0, answer.history[i].entity}
    BY DEF Listing!HistoryIsPrefix, Listing!Done
  <1>1. /\ raw \in Seq(Seq(Point)) /\ MaxPoints \in Nat
        /\ answer = Listing!GetHistory(asked, raw)
    BY <1>0, RawIs DEF ListInv, Served
  <1>2. /\ \A i \in DOMAIN groups : Listing!GroupValid(groups[i], asked)
        /\ answer.history = history
        /\ answer.truncated = (Listing!Points(groups)[N] > MaxPoints)
    BY <1>0, <1>1, RefusalsAre DEF Listing!GetHistory
  <1> HIDE DEF Point, raw, asked
  <1> DEFINE nonempty == {i \in DOMAIN raw : raw[i] # <<>>}
             some == {i \in DOMAIN states : states[i] # <<>>}
  <1>3. /\ groups \in Seq(Seq(Point)) /\ N \in Nat
        /\ \E order : Keeps(order, groups, raw, nonempty)
    <2>1. nonempty \in SUBSET (DOMAIN raw)
      OBVIOUS
    <2>2. groups = Listing!Kept(raw, nonempty)
      BY DEF Listing!Nonempty
    <2> HIDE DEF nonempty, groups
    <2>3. groups \in Seq(Seq(Point)) /\ \E order : Keeps(order, groups, raw, nonempty)
      BY <1>1, <2>1, <2>2, KeptInOrder
    <2>4. QED
      BY <2>3 DEF Keeps
  <1> HIDE DEF groups
  <1>4. /\ DOMAIN groups = 1..N /\ \A i \in 1..N : groups[i] \in Seq(Point)
    BY <1>3
  <1>5. \A i \in 1..N : /\ taken[i].entity = Listing!GroupEntity(groups[i])
                        /\ taken[i].states = Listing!Cut(groups[i], Listing!Remaining(groups, i))
    BY <1>4
  <1>6. DOMAIN taken = 1..N
    BY <1>4
  <1> HIDE DEF taken
  \* What is joined of the raw answer and of its groups.
  <1>7. PICK A : IsJoin(A, raw, Len(raw)) /\ Listing!Joined(raw) = A[Len(raw)]
    BY <1>1, JoinedIsJoin
  <1>8. PICK G : IsJoin(G, groups, N)
    BY <1>3, JoinExists
  <1>9. A[Len(raw)] = G[N]
    <2>1. PICK order : Keeps(order, groups, raw, nonempty)
      BY <1>3
    <2>2. nonempty = {i \in DOMAIN raw : raw[i] # <<>>}
      OBVIOUS
    <2> HIDE DEF nonempty
    <2>3. QED
      BY <1>1, <1>7, <1>8, <2>1, <2>2, KeptJoin
  \* What is taken of them.
  <1>10. PICK T : IsJoin(T, states, N)
    BY <1>3, JoinExists
  <1>11. states \in Seq(Seq(Point)) /\ Len(states) = N /\ DOMAIN states = 1..N
         /\ \A i \in 1..N : states[i] = Listing!Cut(groups[i], Listing!Remaining(groups, i))
    <2>1. ASSUME NEW i \in 1..N PROVE states[i] \in Seq(Point)
      <3>1. /\ G[i - 1] \in Seq(Point) /\ Listing!Points(groups)[i - 1] = Len(G[i - 1])
        <4>1. i - 1 \in 0..N
          BY <1>3
        <4>2. QED
          BY <1>3, <1>8, <4>1, JoinTyped, PointsAre
      <3>2. Listing!Remaining(groups, i) \in Nat
        BY <1>1, <3>1 DEF Listing!Remaining
      <3>3. Listing!Cut(groups[i], Listing!Remaining(groups, i)) \in Seq(Point)
        BY <1>4, <3>2, PageIs
      <3>4. QED
        BY <1>5, <1>6, <3>3
    <2>2. states \in [1..N -> Seq(Point)]
      BY <1>6, <2>1
    <2>3. QED
      BY <1>3, <1>5, <1>6, <2>2
  <1>12. T[N] = Listing!Cut(G[N], MaxPoints)
    <2>1. N \in 0..N
      BY <1>3
    <2> HIDE DEF states
    <2>2. \A n \in 1..N : states[n] = Listing!Cut(groups[n], Listing!Remaining(groups, n))
      BY <1>11
    <2>3. \A n \in 0..N : T[n] = Listing!Cut(G[n], MaxPoints)
      <3>1. groups \in Seq(Seq(Point)) /\ MaxPoints \in Nat
        BY <1>1, <1>3
      <3>2. IsJoin(G, groups, Len(groups)) /\ IsJoin(T, states, Len(groups))
        BY <1>8, <1>10
      <3>3. \A n \in 1..Len(groups) :
               states[n] = Listing!Cut(groups[n], Listing!Remaining(groups, n))
        BY <2>2
      <3>4. \A n \in 0..Len(groups) : T[n] = Listing!Cut(G[n], MaxPoints)
        BY <3>1, <3>2, <3>3, TakenJoin
      <3>5. QED
        BY <3>4
    <2>4. QED
      BY <2>1, <2>3
  \* What is in the answer.
  <1>13. /\ m \in Nat /\ DOMAIN history = 1..m
         /\ \E order : Keeps(order, history, taken, some)
    <2> DEFINE Y == {taken[i] : i \in 1..N}
    <2>1. taken \in Seq(Y)
      <3>1. DOMAIN taken = 1..N /\ \A i \in 1..N : taken[i] \in Y
        BY <1>6
      <3>2. taken = [i \in 1..N |-> taken[i]]
        BY <1>4 DEF taken
      <3> HIDE DEF Y
      <3>3. taken \in [1..N -> Y]
        BY <3>1, <3>2
      <3>4. QED
        BY <1>3, <3>3
    <2>2. some \in SUBSET (DOMAIN taken) /\ some = {i \in DOMAIN taken : taken[i].states # <<>>}
      BY <1>6
    <2>3. history = Listing!Kept(taken, some)
      BY <2>2
    <2> HIDE DEF some, history, Y, states
    <2>4. history \in Seq(Y) /\ \E order : Keeps(order, history, taken, some)
      BY <2>1, <2>2, <2>3, KeptInOrder
    <2>5. QED
      BY <2>4 DEF Keeps
  <1> HIDE DEF history
  <1>14. PICK order : Keeps(order, history, taken, some)
    BY <1>13
  <1>15. /\ DOMAIN mine = 1..m
         /\ \A i \in 1..m : mine[i] = states[order[i]] /\ order[i] \in 1..N
                              /\ history[i] = taken[order[i]]
    <2>1. DOMAIN mine = 1..m /\ \A i \in 1..m : mine[i] = history[i].states
      BY <1>13
    <2>2. \A i \in 1..m : history[i] = taken[order[i]] /\ order[i] \in some
      BY <1>14 DEF Keeps
    <2>3. \A i \in 1..m : order[i] \in 1..N
      BY <1>6, <2>2
    <2>4. \A k \in 1..N : states[k] = taken[k].states
      BY <1>6
    <2> HIDE DEF mine, states
    <2>5. QED
      BY <2>1, <2>2, <2>3, <2>4
  <1> HIDE DEF mine
  <1>16. Len(mine) = m
    BY <1>13, <1>15
  <1>17. PICK K : IsJoin(K, mine, Len(mine)) /\ Listing!Joined(mine) = K[Len(mine)]
    BY <1>13, <1>16, JoinedIsJoin
  <1>18. K[Len(mine)] = T[N]
    <2>1. Keeps(order, mine, states, some)
      <3>1. \A i \in 1..m : mine[i] = states[order[i]]
        BY <1>15
      <3> HIDE DEF states, some
      <3>2. QED
        BY <1>14, <1>16, <3>1 DEF Keeps
    <2>2. some = {i \in DOMAIN states : states[i] # <<>>}
      OBVIOUS
    <2> HIDE DEF states, some
    <2>3. IsJoin(T, states, Len(states)) /\ states \in Seq(Seq(Point))
      BY <1>10, <1>11
    <2>4. K[Len(mine)] = T[Len(states)]
      BY <1>17, <2>1, <2>2, <2>3, KeptJoin
    <2>5. QED
      BY <1>11, <2>4
  <1>19. Listing!Joined(mine) = Listing!Cut(Listing!Joined(raw), MaxPoints)
    BY <1>7, <1>9, <1>12, <1>17, <1>18
  <1>20. answer.truncated = (Len(Listing!Joined(raw)) > Len(Listing!Joined(mine)))
    <2> DEFINE all == Listing!Joined(raw)
               n == IF Len(all) < MaxPoints THEN Len(all) ELSE MaxPoints
    <2>1. N \in 0..N
      BY <1>3
    <2>2. G[N] \in Seq(Point) /\ Listing!Points(groups)[N] = Len(G[N])
      BY <1>3, <1>8, <2>1, JoinTyped, PointsAre
    <2>3. all \in Seq(Point) /\ Listing!Points(groups)[N] = Len(all)
      BY <1>7, <1>9, <2>2
    <2> HIDE DEF all
    <2>4. Len(Listing!Cut(all, MaxPoints)) = n
      BY <1>1, <2>3, PageIs
    <2>5. Len(all) \in Nat
      BY <2>3
    <2>6. (Len(all) > MaxPoints) <=> (Len(all) > n)
      BY <1>1, <2>5
    <2>7. answer.truncated = (Len(all) > MaxPoints)
      BY <1>2, <2>3
    <2>8. Len(Listing!Joined(mine)) = n
      BY <1>19, <2>4 DEF all
    <2> HIDE DEF n
    <2>9. answer.truncated = (Len(all) > Len(Listing!Joined(mine)))
      BY <2>6, <2>7, <2>8
    <2>10. QED
      BY <2>9 DEF all
  <1>21. ASSUME NEW i \in DOMAIN history
         PROVE  /\ history[i].entity \in asked
                /\ \A n \in DOMAIN history[i].states :
                      history[i].states[n].entity \in {0, history[i].entity}
    <2> DEFINE p == order[i]
               g == groups[p]
    <2>1. i \in 1..m /\ p \in 1..N /\ history[i] = taken[p]
      BY <1>13, <1>15
    <2> HIDE DEF p
    <2>2. /\ history[i].entity = Listing!GroupEntity(g)
          /\ history[i].states = Listing!Cut(g, Listing!Remaining(groups, p))
      BY <1>5, <2>1
    <2>3. Listing!GroupValid(g, asked) /\ g \in Seq(Point)
      BY <1>2, <1>4, <2>1
    <2>4. Listing!Remaining(groups, p) \in Nat
      <3>1. p - 1 \in 0..N
        BY <1>3, <2>1
      <3>2. G[p - 1] \in Seq(Point) /\ Listing!Points(groups)[p - 1] = Len(G[p - 1])
        BY <1>3, <1>8, <3>1, JoinTyped, PointsAre
      <3>3. QED
        BY <1>1, <3>2 DEF Listing!Remaining
    <2> DEFINE r == Listing!Remaining(groups, p)
               c == Listing!Cut(g, r)
               k == IF Len(g) < r THEN Len(g) ELSE r
    <2> HIDE DEF g, r
    <2>5. c \in Seq(Point) /\ Len(c) = k /\ k <= Len(g) /\ \A n \in 1..k : c[n] = g[n]
      BY <2>3, <2>4, PageIs DEF r
    <2>6. \A n \in DOMAIN c : n \in DOMAIN g /\ c[n] = g[n]
      <3>1. DOMAIN c = 1..k /\ DOMAIN g = 1..Len(g) /\ Len(g) \in Nat /\ k \in Int
        <4>1. DOMAIN c = 1..Len(c) /\ Len(c) \in Nat
          BY <2>5
        <4> HIDE DEF c, k
        <4>2. QED
          BY <2>3, <2>5, <4>1
      <3> HIDE DEF c, k
      <3>2. QED
        BY <2>5, <3>1
    <2>7. /\ Listing!GroupEntity(g) \in asked
          /\ \A n \in DOMAIN g : g[n].entity \in {0, Listing!GroupEntity(g)}
      BY <2>3 DEF Listing!GroupValid
    <2>8. history[i].states = c
      BY <2>2 DEF r
    <2> HIDE DEF c
    <2>9. QED
      BY <2>2, <2>6, <2>7, <2>8
  <1>22. QED
    BY <1>2, <1>19, <1>20, <1>21 DEF mine

\* What is made of an answer of Home Assistant tells the truth about it: a page about what it
\* leaves out, a whole that it is one, the history that it is the beginning, and readiness
\* that there is a router (ListingsAreTrue).
THEOREM ListingsAreSafe == Listing!Spec => []ListingsAreTrue
  <1>1. Listing!Init => ListInv
    BY DEF Listing!Init, ListInv
  <1>2. ListInv /\ [Listing!Next]_(Listing!vars) => ListInv'
    <2>1. CASE Listing!Next
      BY <2>1 DEF Listing!Next, Listing!Serve, Listing!Kind, Listing!Answer, ListInv, Served
    <2>2. CASE UNCHANGED Listing!vars
      BY <2>2 DEF Listing!vars, ListInv, Served
    <2>3. QED
      BY <2>1, <2>2
  <1>3. ListInv => ListingsAreTrue
    BY PagesAreTrue, WholesAreTrue, HistoryIsTrue, ReadinessIsTrue DEF ListingsAreTrue
  <1>4. QED
    BY <1>1, <1>2, <1>3, PTL DEF Listing!Spec

=============================================================================
