-------------------------- MODULE SigningKeyProofs --------------------------
(***************************************************************************)
(* For any number of server processes, keys and clock ticks and any times  *)
(* of the policy: SigningKey is type correct, there is at most one active  *)
(* key, a token can be verified as long as it is valid, and in service the *)
(* active key is replaced only by a process that has lost its session.     *)
(*                                                                         *)
(* Dated is the calendar of a key: what it signed, when it was retired,    *)
(* and that it was not removed before its tokens had ended.  Locking says  *)
(* what the advisory lock protects: whoever found no key and still has its *)
(* session keeps every other process from coming into service.             *)
(***************************************************************************)
EXTENDS SigningKey, FiniteSetTheorems, TLAPS

\* Keys are generated one after the other.
Numbered == \E n \in 0..MaxKeys : {k \in Keys : keys[k] # "none"} = 1..n

OneActive == \A k, l \in Active : k = l

\* The key a process is about to activate is its own and has signed nothing.
Candidates ==
    \A s \in Servers : pc[s] = "activate" =>
        /\ mine[s] \in Keys /\ keys[mine[s]] = "candidate"
        /\ \A t \in Servers : pc[t] = "activate" /\ mine[t] = mine[s] => s = t

\* The tokens of a key, its retirement and its removal.
Dated ==
    \A k \in Keys :
        /\ keys[k] \in {"none", "candidate"} => issued[k] = 0
        /\ keys[k] = "active" => issued[k] <= clock
        /\ keys[k] = "retired" => issued[k] <= retired[k]
        /\ keys[k] = "removed" => issued[k] + AccessTtl + ClockSkew <= clock

\* The advisory lock, and what it protects.
Locking ==
    /\ \A s \in Servers : holder = s <=> session[s] /\ pc[s] \in Locked
    /\ \A s \in Servers : pc[s] \in {"commit", "running"} => Active # {}
    /\ \A s \in Servers : session[s] /\ pc[s] \in {"generate", "activate"} =>
           \A t \in Servers : pc[t] # "running"

Inv == TypeOK /\ Numbered /\ OneActive /\ Candidates /\ Dated /\ Locking

-----------------------------------------------------------------------------
(* The policy, and the numbers of keys *)

\* The overlap of the policy covers the lifetime of a token and the skew.
LEMMA OverlapCovers == Overlap \in Nat /\ Overlap >= AccessTtl + ClockSkew
  <1> DEFINE S == {DefaultOverlap, AccessTtl + ClockSkew}
  <1>1. DefaultOverlap \in Nat /\ AccessTtl + ClockSkew \in Nat
    BY TimesAssumption
  <1>2. \E x \in S : \A y \in S : x >= y
    BY <1>1
  <1>3. Overlap \in S /\ \A y \in S : Overlap >= y
    BY <1>2 DEF Overlap, Max
  <1>4. QED
    BY <1>1, <1>3

\* The number of the next key is one that no key has yet.
LEMMA NextKey ==
    ASSUME Inv, NEW k \in Keys, k = Cardinality({l \in Keys : keys[l] # "none"}) + 1
    PROVE  keys[k] = "none" /\ {l \in Keys : keys[l] # "none"} \cup {k} = 1..k
  <1>1. PICK n \in 0..MaxKeys : {l \in Keys : keys[l] # "none"} = 1..n
    BY DEF Inv, Numbered
  <1>2. n \in Nat /\ MaxKeys \in Nat
    BY TimesAssumption
  <1>3. Cardinality(1..n) = n
    BY <1>2, FS_Interval
  <1>4. k = n + 1
    BY <1>1, <1>3
  <1>5. QED
    BY <1>1, <1>2, <1>4 DEF Keys

\* At most one key is active.
LEMMA OneActiveCount ==
    ASSUME OneActive
    PROVE  Cardinality(Active) <= 1
  <1>1. CASE Active = {}
    BY <1>1, FS_EmptySet
  <1>2. CASE Active # {}
    <2>1. PICK k \in Active : Active = {k}
      BY <1>2 DEF OneActive
    <2>2. Cardinality(Active) = 1
      BY <2>1, FS_Singleton
    <2>3. QED
      BY <2>2
  <1>3. QED
    BY <1>1, <1>2

\* Initially there is no key and no process.
LEMMA InitInv == Init => Inv
  <1> SUFFICES ASSUME Init PROVE Inv
    OBVIOUS
  <1>1. TypeOK
    BY TimesAssumption DEF Init, TypeOK
  <1>2. Numbered
    <2>1. {k \in Keys : keys[k] # "none"} = 1..0
      BY DEF Init
    <2>2. 0 \in 0..MaxKeys
      BY TimesAssumption
    <2>3. QED
      BY <2>1, <2>2 DEF Numbered
  <1>3. OneActive /\ Candidates
    BY DEF Init, OneActive, Active, Candidates
  <1>4. Dated
    BY DEF Init, Dated
  <1>5. Locking
    BY NoOneAssumption DEF Init, Locking, Locked
  <1>6. QED
    BY <1>1, <1>2, <1>3, <1>4, <1>5 DEF Inv

-----------------------------------------------------------------------------
(* The ways the store changes *)

\* A key that has signed nothing takes the place of the active one.
LEMMA MakeActiveKeys ==
    ASSUME Inv, NEW k \in Keys, keys[k] \in {"none", "candidate"}, MakeActive(k),
           issued' = issued, clock' = clock
    PROVE  /\ Active' = {k}
           /\ OneActive' /\ Dated'
           /\ keys' \in [Keys -> {"none", "candidate", "active", "retired", "removed"}]
           /\ retired' \in [Keys -> 0..MaxTime]
           /\ \A l \in Keys \ {k} : keys'[l] \in {"none", "candidate"} \/ keys[l] \in {"none", "candidate"}
                  => keys'[l] = keys[l]
           /\ {l \in Keys : keys'[l] # "none"} = {l \in Keys : keys[l] # "none"} \cup {k}
  <1> USE DEF Inv, MakeActive
  <1>1. Active' = {k}
    BY DEF Active
  <1>2. OneActive'
    BY <1>1 DEF OneActive
  <1>3. keys' \in [Keys -> {"none", "candidate", "active", "retired", "removed"}]
    BY DEF TypeOK
  <1>4. retired' \in [Keys -> 0..MaxTime]
    BY TimesAssumption DEF TypeOK
  <1>5. Dated'
    <2> SUFFICES ASSUME NEW l \in Keys
                 PROVE  /\ keys'[l] \in {"none", "candidate"} => issued[l] = 0
                        /\ keys'[l] = "active" => issued[l] <= clock
                        /\ keys'[l] = "retired" => issued[l] <= retired'[l]
                        /\ keys'[l] = "removed" => issued[l] + AccessTtl + ClockSkew <= clock
      BY DEF Dated
    <2>1. CASE l = k
      BY <2>1 DEF TypeOK, Dated
    <2>2. CASE l # k /\ keys[l] = "active"
      BY <2>2 DEF TypeOK, Dated, Active
    <2>3. CASE l # k /\ keys[l] # "active"
      BY <2>3 DEF TypeOK, Dated, Active
    <2>4. QED
      BY <2>1, <2>2, <2>3
  <1>6. \A l \in Keys \ {k} :
            keys'[l] \in {"none", "candidate"} \/ keys[l] \in {"none", "candidate"}
                => keys'[l] = keys[l]
    BY DEF TypeOK
  <1>7. {l \in Keys : keys'[l] # "none"} = {l \in Keys : keys[l] # "none"} \cup {k}
    BY DEF TypeOK
  <1>8. QED
    BY <1>1, <1>2, <1>3, <1>4, <1>5, <1>6, <1>7

\* A step of a start that leaves the store alone.
LEMMA StoreKept ==
    ASSUME Inv, UNCHANGED <<keys, retired, issued>>, clock' \in Nat, clock' >= clock
    PROVE  Numbered' /\ OneActive' /\ Dated' /\ Active' = Active
  <1>1. Active' = Active
    BY DEF Active
  <1>2. Numbered' /\ OneActive'
    BY <1>1 DEF Inv, Numbered, OneActive
  <1>3. Dated'
    BY TimesAssumption DEF Inv, TypeOK, Dated
  <1>4. QED
    BY <1>1, <1>2, <1>3

-----------------------------------------------------------------------------
(* The actions *)

\* Up to the inspection a start changes nothing but its own place and the lock.
LEMMA EarlySteps ==
    ASSUME Inv, NEW s \in Servers, Start(s) \/ Begin(s) \/ Lock(s)
    PROVE  Inv'
  <1> USE DEF Inv
  <1>1. UNCHANGED <<keys, retired, issued, clock>>
    BY DEF Start, Begin, Lock, store
  <1>2. clock' \in Nat /\ clock' >= clock
    BY <1>1 DEF TypeOK
  <1>3. Numbered' /\ OneActive' /\ Dated' /\ Active' = Active
    BY <1>1, <1>2, StoreKept
  <1>4. TypeOK'
    <2>1. CASE Start(s)
      BY <2>1, TimesAssumption DEF TypeOK, Start, store
    <2>2. CASE Begin(s)
      BY <2>2 DEF TypeOK, Begin, store
    <2>3. CASE Lock(s)
      BY <2>3 DEF TypeOK, Lock, Locked, store
    <2>4. QED
      BY <2>1, <2>2, <2>3
  <1>5. Candidates'
    BY <1>1 DEF Candidates, TypeOK, Start, Begin, Lock
  <1>6. Locking'
    <2>1. CASE Start(s)
      BY <1>3, <2>1, NoOneAssumption DEF Locking, TypeOK, Start, Locked
    <2>2. CASE Begin(s)
      BY <1>3, <2>2, NoOneAssumption DEF Locking, TypeOK, Begin, Locked
    <2>3. CASE Lock(s)
      BY <1>3, <2>3, NoOneAssumption DEF Locking, TypeOK, Lock, Locked
    <2>4. QED
      BY <2>1, <2>2, <2>3
  <1>7. QED
    BY <1>3, <1>4, <1>5, <1>6

\* Who finds no key has found nobody in service either.
LEMMA LookSteps ==
    ASSUME Inv, NEW s \in Servers, Inspect(s) \/ Validate(s)
    PROVE  Inv'
  <1> USE DEF Inv
  <1>1. UNCHANGED <<session, holder, mine, keys, retired, issued, clock>>
    BY DEF Inspect, Validate, store
  <1>2. clock' \in Nat /\ clock' >= clock
    BY <1>1 DEF TypeOK
  <1>3. Numbered' /\ OneActive' /\ Dated' /\ Active' = Active
    BY <1>1, <1>2, StoreKept
  <1>4. TypeOK'
    BY <1>1 DEF TypeOK, Inspect, Validate, Locked
  <1>5. Candidates'
    BY <1>1 DEF Candidates, TypeOK, Inspect, Validate
  <1>6. Locking'
    <2>1. CASE Inspect(s)
      BY <1>1, <1>3, <2>1 DEF Locking, TypeOK, Inspect, Locked
    <2>2. CASE Validate(s)
      BY <1>1, <1>3, <2>2 DEF Locking, TypeOK, Validate, Locked
    <2>3. QED
      BY <2>1, <2>2
  <1>7. QED
    BY <1>3, <1>4, <1>5, <1>6

\* A new key is the next number, and active or a candidate.
LEMMA GenerateStep ==
    ASSUME Inv, NEW s \in Servers, Generate(s)
    PROVE  Inv'
  <1> USE DEF Inv
  <1>1. PICK k \in Keys :
            /\ k = Cardinality({l \in Keys : keys[l] # "none"}) + 1
            /\ mine' = [mine EXCEPT ![s] = k]
            /\ \/ MakeActive(k) /\ pc' = [pc EXCEPT ![s] = "validate"]
               \/ /\ keys' = [keys EXCEPT ![k] = "candidate"] /\ UNCHANGED retired
                  /\ pc' = [pc EXCEPT ![s] = "activate"]
    BY DEF Generate
  <1>2. keys[k] = "none" /\ {l \in Keys : keys[l] # "none"} \cup {k} = 1..k
    BY <1>1, NextKey
  <1>3. k \in 0..MaxKeys /\ k \in Nat
    BY TimesAssumption DEF Keys
  <1>4. pc[s] = "generate" /\ UNCHANGED <<session, holder, issued, clock>>
    BY DEF Generate
  <1>5. \A t \in Servers : pc[t] = "activate" => mine[t] # k /\ t # s
    BY <1>2, <1>4 DEF Candidates
  <1>6. CASE MakeActive(k) /\ pc' = [pc EXCEPT ![s] = "validate"]
    <2>1. /\ Active' = {k}
          /\ OneActive' /\ Dated'
          /\ keys' \in [Keys -> {"none", "candidate", "active", "retired", "removed"}]
          /\ retired' \in [Keys -> 0..MaxTime]
          /\ \A l \in Keys \ {k} :
                 keys'[l] \in {"none", "candidate"} \/ keys[l] \in {"none", "candidate"}
                     => keys'[l] = keys[l]
          /\ {l \in Keys : keys'[l] # "none"} = {l \in Keys : keys[l] # "none"} \cup {k}
      BY <1>2, <1>4, <1>6, MakeActiveKeys
    <2>2. Numbered'
      BY <1>2, <1>3, <2>1 DEF Numbered
    <2>3. TypeOK'
      BY <1>1, <1>3, <1>4, <1>6, <2>1 DEF TypeOK, Locked
    <2>4. Candidates'
      <3> SUFFICES ASSUME NEW t \in Servers, pc'[t] = "activate"
                   PROVE  /\ mine'[t] \in Keys /\ keys'[mine'[t]] = "candidate"
                          /\ \A u \in Servers :
                                 pc'[u] = "activate" /\ mine'[u] = mine'[t] => t = u
        BY DEF Candidates
      <3>1. t # s /\ pc[t] = "activate" /\ mine'[t] = mine[t]
        BY <1>1, <1>6 DEF TypeOK
      <3>2. mine[t] \in Keys /\ keys[mine[t]] = "candidate" /\ mine[t] # k
        BY <1>5, <3>1 DEF Candidates
      <3>3. \A u \in Servers : pc'[u] = "activate" =>
                pc[u] = "activate" /\ mine'[u] = mine[u]
        BY <1>1, <1>6 DEF TypeOK
      <3>4. QED
        BY <2>1, <3>1, <3>2, <3>3 DEF Candidates
    <2>5. Locking'
      BY <1>4, <1>6, <2>1 DEF Locking, TypeOK, Locked
    <2>6. QED
      BY <2>1, <2>2, <2>3, <2>4, <2>5
  <1>7. CASE /\ keys' = [keys EXCEPT ![k] = "candidate"] /\ UNCHANGED retired
             /\ pc' = [pc EXCEPT ![s] = "activate"]
    <2>1. Active' = Active
      BY <1>2, <1>7 DEF Active, TypeOK
    <2>2. OneActive'
      BY <2>1 DEF OneActive
    <2>3. Numbered'
      <3>1. {l \in Keys : keys'[l] # "none"} = {l \in Keys : keys[l] # "none"} \cup {k}
        BY <1>7 DEF TypeOK
      <3>2. QED
        BY <1>2, <1>3, <3>1 DEF Numbered
    <2>4. TypeOK'
      BY <1>1, <1>3, <1>4, <1>7 DEF TypeOK, Locked
    <2>5. Dated'
      BY <1>2, <1>4, <1>7 DEF Dated, TypeOK
    <2>6. Candidates'
      BY <1>1, <1>2, <1>5, <1>7 DEF Candidates, TypeOK
    <2>7. Locking'
      BY <1>4, <1>7, <2>1 DEF Locking, TypeOK, Locked
    <2>8. QED
      BY <2>2, <2>3, <2>4, <2>5, <2>6, <2>7
  <1>8. QED
    BY <1>1, <1>6, <1>7

\* A candidate becomes the active key.
LEMMA ActivateStep ==
    ASSUME Inv, NEW s \in Servers, Activate(s)
    PROVE  Inv'
  <1> USE DEF Inv
  <1> DEFINE k == mine[s]
  <1>1. pc[s] = "activate" /\ k \in Keys /\ keys[k] = "candidate"
    BY DEF Activate, Candidates
  <1>2. /\ MakeActive(k) /\ pc' = [pc EXCEPT ![s] = "validate"]
        /\ UNCHANGED <<session, holder, mine, issued, clock>>
    BY DEF Activate
  <1>3. /\ Active' = {k}
        /\ OneActive' /\ Dated'
        /\ keys' \in [Keys -> {"none", "candidate", "active", "retired", "removed"}]
        /\ retired' \in [Keys -> 0..MaxTime]
        /\ \A l \in Keys \ {k} :
               keys'[l] \in {"none", "candidate"} \/ keys[l] \in {"none", "candidate"}
                   => keys'[l] = keys[l]
        /\ {l \in Keys : keys'[l] # "none"} = {l \in Keys : keys[l] # "none"} \cup {k}
    BY <1>1, <1>2, MakeActiveKeys
  <1>4. Numbered'
    BY <1>1, <1>3 DEF Numbered
  <1>5. TypeOK'
    BY <1>2, <1>3 DEF TypeOK, Locked
  <1>6. Candidates'
    <2> SUFFICES ASSUME NEW t \in Servers, pc'[t] = "activate"
                 PROVE  /\ mine[t] \in Keys /\ keys'[mine[t]] = "candidate"
                        /\ \A u \in Servers :
                               pc'[u] = "activate" /\ mine[u] = mine[t] => t = u
      BY <1>2 DEF Candidates
    <2>1. t # s /\ pc[t] = "activate"
      BY <1>2 DEF TypeOK
    <2>2. mine[t] \in Keys \ {k} /\ keys[mine[t]] = "candidate"
      BY <1>1, <2>1 DEF Candidates
    <2>3. \A u \in Servers : pc'[u] = "activate" => pc[u] = "activate"
      BY <1>2 DEF TypeOK
    <2>4. QED
      BY <1>3, <2>1, <2>2, <2>3 DEF Candidates
  <1>7. Locking'
    BY <1>1, <1>2, <1>3 DEF Locking, TypeOK, Locked
  <1>8. QED
    BY <1>3, <1>4, <1>5, <1>6, <1>7

\* Whatever ends the session gives the lock back.
LEMMA ReleaseSteps ==
    ASSUME Inv, NEW s \in Servers, Commit(s) \/ Fail(s) \/ LoseSession(s)
    PROVE  Inv'
  <1> USE DEF Inv
  <1>1. /\ UNCHANGED <<mine, keys, retired, issued, clock>> /\ Release(s)
        /\ pc' \in {pc, [pc EXCEPT ![s] = "running"], [pc EXCEPT ![s] = "off"]}
    BY DEF Commit, Fail, LoseSession, store
  <1>2. clock' \in Nat /\ clock' >= clock
    BY <1>1 DEF TypeOK
  <1>3. Numbered' /\ OneActive' /\ Dated' /\ Active' = Active
    BY <1>1, <1>2, StoreKept
  <1>4. TypeOK'
    BY <1>1 DEF TypeOK, Release
  <1>5. Candidates'
    BY <1>1 DEF Candidates, TypeOK
  <1>6. Locking'
    <2>1. CASE Commit(s)
      <3>1. holder = s
        BY <2>1 DEF Commit, Locking, Locked
      <3>2. QED
        BY <1>1, <1>3, <2>1, <3>1, NoOneAssumption DEF Locking, TypeOK, Commit, Release, Locked
    <2>2. CASE Fail(s)
      BY <1>1, <1>3, <2>2, NoOneAssumption DEF Locking, TypeOK, Fail, Release, Locked
    <2>3. CASE LoseSession(s)
      BY <1>1, <1>3, <2>3, NoOneAssumption DEF Locking, TypeOK, LoseSession, Release, Locked
    <2>4. QED
      BY <2>1, <2>2, <2>3
  <1>7. QED
    BY <1>3, <1>4, <1>5, <1>6

\* Tokens are signed with the active key, now.
LEMMA IssueStep ==
    ASSUME Inv, NEW s \in Servers, Issue(s)
    PROVE  Inv'
  <1> USE DEF Inv
  <1>1. PICK k \in Active : issued' = [issued EXCEPT ![k] = clock]
    BY DEF Issue
  <1>2. UNCHANGED <<pc, session, holder, mine, keys, retired, clock>> /\ Active' = Active
    BY DEF Issue, Active
  <1>3. TypeOK'
    BY <1>1, <1>2, TimesAssumption DEF TypeOK, Active
  <1>4. Numbered' /\ OneActive' /\ Candidates' /\ Locking'
    BY <1>2 DEF Numbered, OneActive, Candidates, Locking
  <1>5. Dated'
    BY <1>1, <1>2 DEF Dated, TypeOK, Active
  <1>6. QED
    BY <1>3, <1>4, <1>5

\* A key is removed when the overlap is over, so after the last of its tokens.
LEMMA CleanupStep ==
    ASSUME Inv, NEW s \in Servers, Cleanup(s)
    PROVE  Inv'
  <1> USE DEF Inv
  <1>1. /\ keys' = [k \in Keys |-> IF keys[k] = "retired" /\ clock >= retired[k] + Overlap
                                   THEN "removed" ELSE keys[k]]
        /\ UNCHANGED <<pc, session, holder, mine, retired, issued, clock>>
    BY DEF Cleanup
  <1>2. Active' = Active
    BY <1>1 DEF Active, TypeOK
  <1>3. TypeOK'
    BY <1>1 DEF TypeOK
  <1>4. Numbered'
    <2>1. {k \in Keys : keys'[k] # "none"} = {k \in Keys : keys[k] # "none"}
      BY <1>1
    <2>2. QED
      BY <2>1 DEF Numbered
  <1>5. OneActive' /\ Candidates' /\ Locking'
    BY <1>1, <1>2 DEF OneActive, Candidates, Locking
  <1>6. Dated'
    <2> SUFFICES ASSUME NEW k \in Keys
                 PROVE  /\ keys'[k] \in {"none", "candidate"} => issued[k] = 0
                        /\ keys'[k] = "active" => issued[k] <= clock
                        /\ keys'[k] = "retired" => issued[k] <= retired[k]
                        /\ keys'[k] = "removed" => issued[k] + AccessTtl + ClockSkew <= clock
      BY <1>1 DEF Dated
    <2>1. CASE keys[k] = "retired" /\ clock >= retired[k] + Overlap
      <3>1. issued[k] <= retired[k] /\ issued[k] \in Nat /\ retired[k] \in Nat /\ clock \in Nat
        BY <2>1 DEF Dated, TypeOK
      <3>2. keys'[k] = "removed"
        BY <1>1, <2>1
      <3>3. QED
        BY <2>1, <3>1, <3>2, OverlapCovers, TimesAssumption
    <2>2. CASE ~(keys[k] = "retired" /\ clock >= retired[k] + Overlap)
      BY <1>1, <2>2 DEF Dated
    <2>3. QED
      BY <2>1, <2>2
  <1>7. QED
    BY <1>3, <1>4, <1>5, <1>6

\* Time passes, or nothing happens.
LEMMA TickStep ==
    ASSUME Inv, Tick \/ UNCHANGED vars
    PROVE  Inv'
  <1> USE DEF Inv
  <1>1. /\ UNCHANGED <<pc, session, holder, mine, keys, retired, issued>>
        /\ clock' \in 1..MaxTime /\ clock' >= clock
    BY TimesAssumption DEF Tick, vars, store, TypeOK
  <1>2. clock' \in Nat
    BY <1>1
  <1>3. Numbered' /\ OneActive' /\ Dated' /\ Active' = Active
    BY <1>1, <1>2, StoreKept
  <1>4. TypeOK' /\ Candidates' /\ Locking'
    BY <1>1, <1>3 DEF TypeOK, Candidates, Locking
  <1>5. QED
    BY <1>3, <1>4

\* Every step keeps the invariant.
LEMMA NextInv == Inv /\ [Next]_vars => Inv'
  <1> SUFFICES ASSUME Inv, [Next]_vars PROVE Inv'
    OBVIOUS
  <1>1. ASSUME NEW s \in Servers, StartStep(s) \/ Fail(s) \/ LoseSession(s) \/ Issue(s) \/ Cleanup(s)
        PROVE  Inv'
    BY <1>1, EarlySteps, LookSteps, GenerateStep, ActivateStep, ReleaseSteps, IssueStep,
       CleanupStep DEF StartStep
  <1>2. CASE Tick \/ UNCHANGED vars
    BY <1>2, TickStep
  <1>3. QED
    BY <1>1, <1>2 DEF Next

-----------------------------------------------------------------------------
(* Theorems *)

\* The invariant holds throughout.
THEOREM Invariance == Spec => []Inv
  BY InitInv, NextInv, PTL DEF Spec

\* Every state of the key store and of the starts is of its type, and there is at most
\* one active key, however many processes generate one at once.
THEOREM TypeCorrect == Spec => [](TypeOK /\ Cardinality(Active) <= 1)
  <1>1. Inv => TypeOK /\ Cardinality(Active) <= 1
    BY OneActiveCount DEF Inv
  <1>2. QED
    BY <1>1, Invariance, PTL

\* A token can be verified as long as it is valid, however keys were replaced: the
\* overlap of authorization_server_policy covers its lifetime and the skew.
THEOREM TokensAreVerifiable == Spec => []TokensVerify
  <1>1. Inv => TokensVerify
    <2> SUFFICES ASSUME Inv, NEW k \in Keys, issued[k] # 0,
                        clock < issued[k] + AccessTtl + ClockSkew
                 PROVE  keys[k] \in {"active", "retired"}
      BY DEF TokensVerify
    <2>1. issued[k] \in Nat /\ clock \in Nat /\ AccessTtl \in Nat /\ ClockSkew \in Nat
      BY TimesAssumption DEF Inv, TypeOK
    <2>2. keys[k] # "removed"
      BY <2>1 DEF Inv, Dated
    <2>3. QED
      BY <2>2 DEF Inv, TypeOK, Dated
  <1>2. QED
    BY <1>1, Invariance, PTL

\* Once a process is in service the active key is replaced only by one that had found no
\* key and then lost its session, and with it the lock (initialize_signing_key).
THEOREM ActiveKeyIsKept == Spec => ActiveKeyStands
  <1>1. Inv /\ [Next]_vars =>
            [(\E s \in Servers : pc[s] = "running") /\ (\E k \in Active : keys'[k] # "active") =>
                 \E s \in Servers : pc[s] \in {"generate", "activate"} /\ pc'[s] = "validate"
                                    /\ ~session[s]]_vars
    <2> SUFFICES ASSUME Inv, Next,
                        NEW r \in Servers, pc[r] = "running",
                        NEW k \in Active, keys'[k] # "active"
                 PROVE  \E s \in Servers : /\ pc[s] \in {"generate", "activate"}
                                           /\ pc'[s] = "validate" /\ ~session[s]
      BY DEF vars
    <2>1. k \in Keys /\ keys[k] = "active" /\ keys' # keys
      BY DEF Active
    <2>2. ASSUME NEW s \in Servers,
                 pc[s] \in {"generate", "activate"}, pc' = [pc EXCEPT ![s] = "validate"]
          PROVE  pc'[s] = "validate" /\ ~session[s]
      BY <2>2 DEF Inv, TypeOK, Locking
    <2>3. PICK s \in Servers : Generate(s) \/ Activate(s) \/ Cleanup(s)
      BY <2>1 DEF Next, StartStep, Start, Begin, Lock, Inspect, Validate, Commit, Fail,
         LoseSession, Issue, Tick, store
    <2>4. ~Cleanup(s)
      BY <2>1 DEF Cleanup
    <2>5. CASE Activate(s)
      BY <2>2, <2>5 DEF Activate
    <2>6. CASE Generate(s)
      <3>1. PICK l \in Keys :
                /\ l = Cardinality({m \in Keys : keys[m] # "none"}) + 1
                /\ \/ MakeActive(l) /\ pc' = [pc EXCEPT ![s] = "validate"]
                   \/ keys' = [keys EXCEPT ![l] = "candidate"]
        BY <2>6 DEF Generate
      <3>2. keys[l] = "none"
        BY <3>1, NextKey
      <3>3. ~(keys' = [keys EXCEPT ![l] = "candidate"])
        BY <2>1, <3>2 DEF Inv, TypeOK
      <3>4. QED
        BY <2>2, <2>6, <3>1, <3>3 DEF Generate
    <2>7. QED
      BY <2>3, <2>4, <2>5, <2>6
  <1>2. QED
    BY <1>1, Invariance, PTL DEF Spec, ActiveKeyStands

=============================================================================
