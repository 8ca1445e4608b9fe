-------------------------- MODULE DeployLockProofs --------------------------
(***************************************************************************)
(* Proofs about DeployLock for at most two server processes, for every     *)
(* number of tokens, every clock bound and all times that the lease        *)
(* covers.  Three processes do break the lock, as a run shows: a slow      *)
(* observer moves a live lock to the claim while a third one, which had    *)
(* verified the old claim before, removes it.                              *)
(*                                                                         *)
(* The argument.  A deployment that has created its lock holds the host:   *)
(* no other one has created its own since, and its file is in the lock or, *)
(* moved there by a slow observer, in the claim (Held, Alone).  A          *)
(* deployment about to create finds a live one's file in the way           *)
(* (NoRoom), because what it took over is stale and a live deployment is   *)
(* never stale for anybody (Known with Timely).  And as long as a stale    *)
(* claim is being taken over, it blocks the rename of a slow observer      *)
(* (Blocked), so that what is removed in the end is what was observed.     *)
(***************************************************************************)
EXTENDS DeployLock, TLAPS

\* A deployment that created its lock.
Post == {"fill", "reverifyClaim", "verifyLock", "removeClaim", "ownLock", "ownClaim"}
            \cup Transacting \cup Unlocking

\* Not yet, and sure of a stale claim or lock.
Sure == {"verifyStaleClaim", "verifyClaim", "checkLockGone", "create"}

\* From the moment the stale claim was verified to its removal.
Taking == {"checkLockGone", "create", "fill", "reverifyClaim", "verifyLock", "removeClaim"}

TwoDeployers ==
    \A d, e, f \in Deployers : d = e \/ e = f \/ d = f

\* The lease covers a whole deployment, and two acquisitions.
LeaseCovers ==
    /\ Lease >= AcquireTime + TxnTime + UnlockTime
    /\ Lease >= AcquireTime + AcquireTime

-----------------------------------------------------------------------------
(* The inductive invariant *)

\* A deployment keeps to the bounds of its phases.
Timely(d) ==
    /\ pc[d] # "idle" => leaseAt[d] <= now
    /\ pc[d] \in Acquiring => since[d] = leaseAt[d] /\ now <= leaseAt[d] + AcquireTime
    /\ pc[d] \in Transacting =>
          since[d] <= leaseAt[d] + AcquireTime /\ now <= since[d] + TxnTime
    /\ pc[d] \in Unlocking =>
          since[d] <= leaseAt[d] + AcquireTime + TxnTime /\ now <= since[d] + UnlockTime

\* What it takes over is stale.
Course(d) ==
    /\ pc[d] = "idle" <=> token[d] = None
    /\ pc[d] \in {"idle", "readClaim", "readLock", "checkNoClaim"} => via[d] = "nothing"
    /\ pc[d] \in {"verifyStaleClaim", "renameLock", "verifyClaim", "checkLockGone",
                  "reverifyClaim", "verifyLock", "removeClaim"} => via[d] # "nothing"
    /\ via[d] # "nothing" => seen[d] # NoFile /\ IsStale(seen[d], d)

\* A file with the token of a deployment is the file it created.
Known(f, d) ==
    token[d] # None /\ f.owner = token[d] =>
        /\ pc[d] \in Post
        /\ f.lease = leaseAt[d]
        /\ pc[d] # "fill" => f.full

\* A deployment that created its lock has its file on the host, and no other lock is
\* there; its own one is in place when it removes the claim.
Held(d) ==
    /\ pc[d] \in Post => /\ token[d] \in {lock.owner, claim.owner}
                         /\ lock.owner \in {None, token[d]}
    /\ pc[d] = "removeClaim" => lock.owner = token[d]

\* The claim being taken over is the one observed, and a lock found meanwhile is young.
TakesOver(d) ==
    via[d] # "nothing" =>
        /\ pc[d] \in Taking => claim \in {NoFile, seen[d]}
        /\ pc[d] \in Sure /\ lock # NoFile => leaseAt[d] <= lock.lease + AcquireTime

\* No two deployments share a token, and none has the wrong idea of another's lease.
Apart(d, e) ==
    /\ token[d] = token[e] => token[d] = None
    /\ token[d] # None /\ seen[e].owner = token[d] => seen[e].lease = leaseAt[d]

\* Two deployments never both created a lock that is still theirs to hold.
Alone(d, e) == ~(pc[d] \in Post /\ pc[e] \in Post)

\* Whoever is about to create finds the file of the one that did.
NoRoom(d, e) ==
    pc[d] \in Post /\ pc[e] \in {"checkLockGone", "create"} => lock.owner = token[d]

\* Nobody moves a lock to the claim while a claim is taken over.
Blocked(d, e) ==
    pc[d] \in Taking /\ via[d] # "nothing" /\ pc[e] = "renameLock" => claim # NoFile

Each(d) ==
    Timely(d) /\ Course(d) /\ Known(lock, d) /\ Known(claim, d) /\ Held(d) /\ TakesOver(d)
Pair(d, e) == Apart(d, e) /\ Alone(d, e) /\ NoRoom(d, e) /\ Blocked(d, e)

Inv ==
    /\ TypeOK
    /\ \A d \in Deployers : Each(d)
    /\ \A d, e \in Deployers : d # e => Pair(d, e)

-----------------------------------------------------------------------------
(* What the invariant says of two deployments *)

\* A deployment that created its lock is not stale for anybody.
LEMMA LiveIsFresh ==
    ASSUME LeaseCovers, TypeOK, NEW d \in Deployers, NEW e \in Deployers,
           Timely(d), Timely(e), pc[d] # "idle", pc[e] # "idle"
    PROVE  leaseAt[e] <= leaseAt[d] + Lease
  BY TimesAssumption DEF LeaseCovers, TypeOK, Timely, Acquiring, Transacting, Unlocking

\* What a deployment takes over has no live owner.
LEMMA StaleIsDead ==
    ASSUME LeaseCovers, Inv, NEW d \in Deployers, NEW e \in Deployers,
           pc[d] # "idle", via[e] # "nothing"
    PROVE  d # e => seen[e].owner # token[d]
  <1>1. pc[e] # "idle" /\ Timely(d) /\ Timely(e) /\ Course(d) /\ Course(e) /\ TypeOK
    BY DEF Inv, Each, Course
  <1>2. leaseAt[e] <= leaseAt[d] + Lease
    BY <1>1, LiveIsFresh
  <1>3. leaseAt[e] > seen[e].lease + Lease /\ token[d] # None
    BY <1>1 DEF Course, IsStale
  <1>4. SUFFICES ASSUME d # e, seen[e].owner = token[d] PROVE FALSE
    OBVIOUS
  <1>5. seen[e].lease = leaseAt[d]
    BY <1>3, <1>4 DEF Inv, Pair, Apart
  <1>6. QED
    BY <1>1, <1>2, <1>3, <1>5, TimesAssumption DEF TypeOK

\* A file on the host with the token of a deployment is not what another takes over.
LEMMA ClaimIsDead ==
    ASSUME LeaseCovers, Inv, NEW d \in Deployers, NEW e \in Deployers,
           pc[d] # "idle", via[e] # "nothing", claim = seen[e]
    PROVE  claim.owner # token[d]
  <1>1. CASE d # e
    BY <1>1, StaleIsDead
  <1>2. CASE d = e
    <2>1. Course(e) /\ Known(claim, e) /\ TypeOK
      BY DEF Inv, Each
    <2>2. leaseAt[e] > claim.lease + Lease /\ token[e] # None
      BY <1>2, <2>1 DEF Course, IsStale
    <2>3. claim.owner = token[e] => claim.lease = leaseAt[e]
      BY <2>1, <2>2 DEF Known
    <2>4. QED
      BY <1>2, <2>1, <2>2, <2>3, TimesAssumption DEF TypeOK
  <1>3. QED
    BY <1>1, <1>2

-----------------------------------------------------------------------------
(* How a step is checked *)

\* With two deployments, a step is checked for the one that takes it and for the other.
LEMMA Assemble ==
    ASSUME TwoDeployers, NEW d \in Deployers, TypeOK', Each(d)',
           \A e \in Deployers : e # d => Each(e)' /\ Pair(d, e)' /\ Pair(e, d)'
    PROVE  Inv'
  BY DEF TwoDeployers, Inv

\* A deployment that leaves takes nothing with it.
LEMMA LeaveStep ==
    ASSUME TwoDeployers, Inv, NEW d \in Deployers, Leave(d), UNCHANGED <<now, lock, claim>>
    PROVE  Inv'
  <1>1. TypeOK'
    BY TimesAssumption DEF Inv, TypeOK, Leave, Files
  <1>2. Each(d)'
    BY DEF Inv, TypeOK, Leave, Each, Timely, Course, Known, Held, TakesOver, Acquiring,
       Transacting, Unlocking, Post, Taking, Sure
  <1>3. ASSUME NEW e \in Deployers, e # d
        PROVE  Each(e)' /\ Pair(d, e)' /\ Pair(e, d)'
    <2>1. Each(e) /\ Pair(d, e) /\ Pair(e, d) /\ TypeOK
      BY <1>3 DEF Inv
    <2>2. /\ pc'[e] = pc[e] /\ token'[e] = token[e] /\ leaseAt'[e] = leaseAt[e]
          /\ seen'[e] = seen[e] /\ via'[e] = via[e] /\ since'[e] = since[e]
          /\ pc'[d] = "idle" /\ token'[d] = None /\ seen'[d] = NoFile
      BY <1>3, <2>1 DEF Leave, TypeOK
    <2>3. Each(e)'
      BY <2>1, <2>2 DEF Each, Timely, Course, Known, Held, TakesOver, IsStale
    <2>4. Apart(d, e)' /\ Apart(e, d)'
      BY <2>1, <2>2 DEF Pair, Apart, NoFile
    <2>5. Pair(d, e)' /\ Pair(e, d)'
      BY <2>2, <2>4 DEF Pair, Alone, NoRoom, Blocked, Post, Taking, Transacting, Unlocking
    <2>6. QED
      BY <2>3, <2>5
  <1>4. QED
    BY <1>1, <1>2, <1>3, Assemble

\* A deployment that goes on to its next request, without a change on the host.
Moves(d, p) ==
    /\ pc[d] # "idle" /\ p # "idle"
    /\ pc' = [pc EXCEPT ![d] = p]
    /\ UNCHANGED <<now, lock, claim, token, leaseAt, seen, via>>
    /\ \A e \in Deployers : e # d => since'[e] = since[e]

\* It is enough to check the one that moves, and what its new place means to the other.
LEMMA MoveStep ==
    ASSUME TwoDeployers, Inv, NEW d \in Deployers, NEW p, Moves(d, p),
           TypeOK', Each(d)', p \in Post <=> pc[d] \in Post,
           \A e \in Deployers : e # d => NoRoom(e, d)' /\ Blocked(d, e)' /\ Blocked(e, d)'
    PROVE  Inv'
  <1>1. ASSUME NEW e \in Deployers, e # d
        PROVE  Each(e)' /\ Pair(d, e)' /\ Pair(e, d)'
    <2>1. Each(e) /\ Pair(d, e) /\ Pair(e, d) /\ TypeOK
      BY <1>1 DEF Inv
    <2>2. /\ pc'[e] = pc[e] /\ since'[e] = since[e] /\ pc'[d] = p
          /\ UNCHANGED <<now, lock, claim, token, leaseAt, seen, via>>
      BY <1>1, <2>1 DEF Moves, TypeOK
    <2>3. Each(e)'
      BY <2>1, <2>2 DEF Each, Timely, Course, Known, Held, TakesOver, IsStale
    <2>4. Apart(d, e)' /\ Apart(e, d)'
      BY <2>1, <2>2 DEF Pair, Apart
    <2>5. Alone(d, e)' /\ Alone(e, d)' /\ NoRoom(d, e)'
      BY <2>1, <2>2 DEF Pair, Alone, NoRoom
    <2>6. QED
      BY <1>1, <2>3, <2>4, <2>5 DEF Pair
  <1>2. QED
    BY <1>1, Assemble

\* The same for one that created its lock.
LEMMA PostMove ==
    ASSUME TwoDeployers, Inv, NEW d \in Deployers, NEW p \in Post \ {"fill"}, Moves(d, p),
           TypeOK', Timely(d)', Course(d)', pc[d] \in Post \ {"fill"},
           p \in Taking => pc[d] \in Taking,
           p = "removeClaim" => lock.owner = token[d]
    PROVE  Inv'
  <1>1. Each(d) /\ TypeOK
    BY DEF Inv
  <1>2. pc'[d] = p /\ UNCHANGED <<now, lock, claim, token, leaseAt, seen, via>>
    BY <1>1 DEF Moves, TypeOK
  <1>3. Each(d)'
    BY <1>1, <1>2 DEF Each, Known, Held, TakesOver, Post, Sure, Transacting, Unlocking
  <1>4. ASSUME NEW e \in Deployers, e # d
        PROVE  NoRoom(e, d)' /\ Blocked(d, e)' /\ Blocked(e, d)'
    <2>1. pc'[e] = pc[e] /\ Pair(d, e)
      BY <1>1, <1>4 DEF Inv, Moves, TypeOK
    <2>2. NoRoom(e, d)' /\ Blocked(e, d)'
      BY <1>2 DEF NoRoom, Blocked, Post, Transacting, Unlocking
    <2>3. Blocked(d, e)'
      BY <1>2, <2>1 DEF Pair, Blocked
    <2>4. QED
      BY <2>2, <2>3
  <1>5. QED
    BY <1>3, <1>4, MoveStep

-----------------------------------------------------------------------------
(* The steps of acquire_lock *)

\* Initially there is nothing.
LEMMA InitInv == Init => Inv
  <1> SUFFICES ASSUME Init PROVE Inv
    OBVIOUS
  <1>1. TypeOK
    BY TimesAssumption DEF Init, TypeOK, Files
  <1>2. \A d \in Deployers : Each(d)
    BY DEF Init, Each, Timely, Course, Known, Held, TakesOver, Acquiring, Transacting,
       Unlocking, Post, Taking, Sure
  <1>3. \A d, e \in Deployers : Pair(d, e)
    BY DEF Init, Pair, Apart, Alone, NoRoom, Blocked, Post, Taking, Transacting, Unlocking
  <1>4. QED
    BY <1>1, <1>2, <1>3 DEF Inv

\* A deployment begins with a token nobody uses.
LEMMA BeginStep ==
    ASSUME TwoDeployers, Inv, NEW d \in Deployers, Begin(d)
    PROVE  Inv'
  <1>1. PICK t \in Tokens \ InUse : token' = [token EXCEPT ![d] = t]
    BY DEF Begin
  <1>2. TypeOK /\ Each(d)
    BY DEF Inv
  <1>3. /\ pc'[d] = "readClaim" /\ token'[d] = t /\ leaseAt'[d] = now /\ since'[d] = now
        /\ pc[d] = "idle" /\ t # None
        /\ UNCHANGED <<now, lock, claim, seen, via>>
    BY <1>1, <1>2, NoneAssumption DEF Begin, TypeOK
  <1>4. lock.owner # t /\ claim.owner # t /\ \A e \in Deployers : token[e] # t /\ seen[e].owner # t
    BY <1>1 DEF InUse
  <1>5. TypeOK'
    BY <1>1, <1>2 DEF Begin, TypeOK, Acquiring
  <1>6. Each(d)'
    <2>1. now \in Nat
      BY <1>2, TimesAssumption DEF TypeOK
    <2>2. Timely(d)'
      BY <1>3, <2>1, TimesAssumption DEF Timely, Acquiring, Transacting, Unlocking
    <2>3. Course(d)' /\ Known(lock, d)' /\ Known(claim, d)' /\ Held(d)' /\ TakesOver(d)'
      BY <1>2, <1>3, <1>4 DEF Each, Course, Known, Held, TakesOver, Transacting, Unlocking,
         Post, Taking, Sure
    <2>4. QED
      BY <2>2, <2>3 DEF Each
  <1>7. ASSUME NEW e \in Deployers, e # d
        PROVE  Each(e)' /\ Pair(d, e)' /\ Pair(e, d)'
    <2>1. Each(e) /\ Pair(d, e) /\ Pair(e, d)
      BY <1>7 DEF Inv
    <2>2. /\ pc'[e] = pc[e] /\ token'[e] = token[e] /\ leaseAt'[e] = leaseAt[e]
          /\ seen'[e] = seen[e] /\ via'[e] = via[e] /\ since'[e] = since[e]
      BY <1>2, <1>7 DEF Begin, TypeOK
    <2>3. Each(e)'
      BY <1>3, <2>1, <2>2 DEF Each, Timely, Course, Known, Held, TakesOver, IsStale
    <2>4. Apart(d, e)' /\ Apart(e, d)'
      BY <1>3, <1>4, <2>1, <2>2 DEF Pair, Apart
    <2>5. Pair(d, e)' /\ Pair(e, d)'
      BY <1>3, <2>2, <2>4 DEF Pair, Alone, NoRoom, Blocked, Post, Taking, Transacting, Unlocking
    <2>6. QED
      BY <2>3, <2>5
  <1>8. QED
    BY <1>5, <1>6, <1>7, Assemble

\* Reading the claim.
LEMMA ReadClaimStep ==
    ASSUME TwoDeployers, Inv, NEW d \in Deployers, ReadClaim(d)
    PROVE  Inv'
  <1>1. CASE ~Readable(claim)
    BY <1>1, LeaveStep DEF ReadClaim
  <1>2. CASE Readable(claim)
    <2>1. TypeOK /\ Each(d)
      BY DEF Inv
    <2>2. /\ pc' = [pc EXCEPT ![d] = "readLock"] /\ seen' = [seen EXCEPT ![d] = claim]
          /\ pc[d] = "readClaim"
          /\ UNCHANGED <<now, lock, claim, token, leaseAt, via, since>>
      BY <1>2 DEF ReadClaim
    <2>3. TypeOK'
      BY <2>1, <2>2 DEF TypeOK, Acquiring
    <2>4. pc'[d] = "readLock" /\ seen'[d] = claim
      BY <2>1, <2>2 DEF TypeOK
    <2>5. Each(d)'
      <3>1. Timely(d)'
        BY <2>1, <2>2, <2>4 DEF Each, Timely, Acquiring, Transacting, Unlocking
      <3>2. Course(d)' /\ Known(lock, d)' /\ Known(claim, d)' /\ Held(d)' /\ TakesOver(d)'
        BY <2>1, <2>2, <2>4 DEF Each, Course, Known, Held, TakesOver, Transacting, Unlocking,
           Post, Taking, Sure
      <3>3. QED
        BY <3>1, <3>2 DEF Each
    <2>6. ASSUME NEW e \in Deployers, e # d
          PROVE  Each(e)' /\ Pair(d, e)' /\ Pair(e, d)'
      <3>1. Each(e) /\ Pair(d, e) /\ Pair(e, d)
        BY <2>6 DEF Inv
      <3>2. pc'[e] = pc[e] /\ seen'[e] = seen[e]
        BY <2>1, <2>2, <2>6 DEF TypeOK
      <3>3. Each(e)'
        BY <2>2, <3>1, <3>2 DEF Each, Timely, Course, Known, Held, TakesOver, IsStale
      <3>4. Apart(d, e)' /\ Apart(e, d)'
        BY <2>2, <2>4, <3>1, <3>2 DEF Pair, Apart, Each, Known
      <3>5. Pair(d, e)' /\ Pair(e, d)'
        BY <2>2, <2>4, <3>2, <3>4 DEF Pair, Alone, NoRoom, Blocked, Post, Taking, Transacting, Unlocking
      <3>6. QED
        BY <3>3, <3>5
    <2>7. QED
      BY <2>3, <2>5, <2>6, Assemble
  <1>3. QED
    BY <1>1, <1>2

\* The outcomes of reading the lock.
LEMMA ReadLockCases ==
    ASSUME NEW d \in Deployers, ReadLock(d)
    PROVE  /\ pc[d] = "readLock" /\ UNCHANGED <<now, lock, claim>>
           /\ \/ Leave(d)
              \/ \E w \in {"nothing", "lock", "claim"}, f \in {NoFile, seen[d], lock},
                    q \in {"checkNoClaim", "verifyStaleClaim", "renameLock"} :
                    /\ seen' = [seen EXCEPT ![d] = f]
                    /\ via' = [via EXCEPT ![d] = w]
                    /\ pc' = [pc EXCEPT ![d] = q]
                    /\ UNCHANGED <<token, leaseAt, since>>
                    /\ \/ w = "nothing" /\ f = NoFile /\ q = "checkNoClaim"
                       \/ /\ w = "claim" /\ f = seen[d] /\ q = "verifyStaleClaim"
                          /\ lock = NoFile /\ seen[d] # NoFile /\ IsStale(seen[d], d)
                       \/ /\ w = "lock" /\ f = lock /\ q = "renameLock"
                          /\ lock # NoFile /\ IsStale(lock, d)
  <1>1. CASE lock = NoFile /\ seen[d] = NoFile
    BY <1>1 DEF ReadLock
  <1>2. CASE lock = NoFile /\ seen[d] # NoFile
    BY <1>2 DEF ReadLock
  <1>3. CASE lock # NoFile
    BY <1>3 DEF ReadLock
  <1>4. QED
    BY <1>1, <1>2, <1>3

\* A lock found stale is not one that a deployment sure of its claim has in the way, and
\* the file of a live deployment is then in the claim.
LEMMA StaleLock ==
    ASSUME LeaseCovers, Inv, NEW d \in Deployers, NEW e \in Deployers, d # e,
           lock # NoFile, IsStale(lock, d), pc[d] # "idle",
           pc[e] \in Taking, via[e] # "nothing"
    PROVE  claim # NoFile
  <1>1. TypeOK /\ Each(d) /\ Each(e)
    BY DEF Inv
  <1>2. leaseAt[d] > lock.lease + Lease
    BY DEF IsStale
  <1>3. pc[e] # "idle" /\ pc[e] \in Acquiring /\ token[e] # None
    BY <1>1 DEF Taking, Acquiring, Each, Course
  <1>4. CASE pc[e] \in Post
    <2>1. lock.owner # token[e]
      <3>1. leaseAt[d] <= leaseAt[e] + Lease
        BY <1>1, <1>3, LiveIsFresh DEF Each
      <3>2. lock.owner = token[e] => lock.lease = leaseAt[e]
        BY <1>1, <1>3 DEF Each, Known
      <3>3. QED
        BY <1>1, <1>2, <3>1, <3>2, TimesAssumption DEF TypeOK
    <2>2. claim.owner = token[e]
      BY <1>1, <1>4, <2>1 DEF Each, Held
    <2>3. QED
      BY <1>3, <2>2 DEF NoFile
  <1>5. CASE pc[e] \notin Post
    <2>1. pc[e] \in Sure
      BY <1>5 DEF Taking, Post, Sure
    <2>2. leaseAt[e] <= lock.lease + AcquireTime
      BY <1>1, <2>1 DEF Each, TakesOver
    <2>3. leaseAt[d] <= now /\ now <= leaseAt[e] + AcquireTime
      BY <1>1, <1>3 DEF Each, Timely
    <2>4. lock.lease \in Nat /\ leaseAt[d] \in Nat /\ leaseAt[e] \in Nat /\ now \in Nat
      BY <1>1, TimesAssumption DEF TypeOK, Files, File
    <2>5. QED
      BY <1>2, <2>2, <2>3, <2>4, TimesAssumption DEF LeaseCovers
  <1>6. QED
    BY <1>4, <1>5

\* Reading the lock.
LEMMA ReadLockStep ==
    ASSUME LeaseCovers, TwoDeployers, Inv, NEW d \in Deployers, ReadLock(d)
    PROVE  Inv'
  <1>1. CASE Leave(d)
    BY <1>1, LeaveStep, ReadLockCases
  <1>2. CASE ~Leave(d)
    <2>1. PICK w \in {"nothing", "lock", "claim"}, f \in {NoFile, seen[d], lock},
               q \in {"checkNoClaim", "verifyStaleClaim", "renameLock"} :
                    /\ seen' = [seen EXCEPT ![d] = f]
                    /\ via' = [via EXCEPT ![d] = w]
                    /\ pc' = [pc EXCEPT ![d] = q]
                    /\ UNCHANGED <<token, leaseAt, since>>
                    /\ \/ w = "nothing" /\ f = NoFile /\ q = "checkNoClaim"
                       \/ /\ w = "claim" /\ f = seen[d] /\ q = "verifyStaleClaim"
                          /\ lock = NoFile /\ seen[d] # NoFile /\ IsStale(seen[d], d)
                       \/ /\ w = "lock" /\ f = lock /\ q = "renameLock"
                          /\ lock # NoFile /\ IsStale(lock, d)
      BY <1>2, ReadLockCases
    <2>2. pc[d] = "readLock" /\ UNCHANGED <<now, lock, claim>>
      BY ReadLockCases
    <2>3. TypeOK /\ Each(d)
      BY DEF Inv
    <2>4. pc'[d] = q /\ seen'[d] = f /\ via'[d] = w
      BY <2>1, <2>3 DEF TypeOK
    <2>5. TypeOK'
      BY <2>1, <2>2, <2>3 DEF TypeOK, Acquiring, Files
    <2>6. Each(d)'
      <3>1. Timely(d)'
        BY <2>1, <2>2, <2>3, <2>4 DEF Each, Timely, Acquiring, Transacting, Unlocking
      <3>2. Course(d)'
        BY <2>1, <2>2, <2>3, <2>4 DEF Each, Course, IsStale
      <3>3. Known(lock, d)' /\ Known(claim, d)' /\ Held(d)' /\ TakesOver(d)'
        BY <2>1, <2>2, <2>3, <2>4 DEF Each, Known, Held, TakesOver, Transacting, Unlocking,
           Post, Taking, Sure
      <3>4. QED
        BY <3>1, <3>2, <3>3 DEF Each
    <2>7. ASSUME NEW e \in Deployers, e # d
          PROVE  Each(e)' /\ Pair(d, e)' /\ Pair(e, d)'
      <3>1. Each(e) /\ Pair(d, e) /\ Pair(e, d)
        BY <2>7 DEF Inv
      <3>2. pc'[e] = pc[e] /\ seen'[e] = seen[e] /\ via'[e] = via[e]
        BY <2>1, <2>3, <2>7 DEF TypeOK
      <3>3. Each(e)'
        BY <2>1, <2>2, <3>1, <3>2 DEF Each, Timely, Course, Known, Held, TakesOver, IsStale
      <3>4. Apart(d, e)' /\ Apart(e, d)'
        BY <2>1, <2>2, <2>4, <3>1, <3>2 DEF Pair, Apart, Each, Known, NoFile
      <3>5. Blocked(e, d)'
        <4>1. CASE q = "renameLock"
          BY <2>1, <2>2, <2>3, <2>4, <2>7, <3>2, <4>1, StaleLock DEF Blocked
        <4>2. CASE q # "renameLock"
          BY <2>4, <4>2 DEF Blocked
        <4>3. QED
          BY <4>1, <4>2
      <3>6. Pair(d, e)' /\ Pair(e, d)'
        BY <2>2, <2>4, <3>2, <3>4, <3>5 DEF Pair, Alone, NoRoom, Blocked, Post, Taking,
           Transacting, Unlocking
      <3>7. QED
        BY <3>3, <3>6
    <2>8. QED
      BY <2>5, <2>6, <2>7, Assemble
  <1>3. QED
    BY <1>1, <1>2

\* A deployment that has yet to create goes on, without a change on the host.
LEMMA PreMove ==
    ASSUME TwoDeployers, Inv, NEW d \in Deployers, NEW p \in {"checkLockGone", "create"},
           pc[d] \in {"verifyStaleClaim", "verifyClaim", "checkLockGone", "checkNoClaim"},
           p = "checkLockGone" => pc[d] = "verifyClaim",
           Goto(d, p), UNCHANGED <<now, lock, claim>>,
           via[d] # "nothing" => claim \in {NoFile, seen[d]},
           \A e \in Deployers : e # d => NoRoom(e, d)' /\ Blocked(d, e)'
    PROVE  Inv'
  <1>1. TypeOK /\ Each(d)
    BY DEF Inv
  <1>2. /\ pc'[d] = p /\ pc' = [pc EXCEPT ![d] = p]
        /\ UNCHANGED <<now, lock, claim, token, leaseAt, seen, via, since>>
    BY <1>1 DEF Goto, memory, TypeOK
  <1>3. TypeOK'
    BY <1>1, <1>2 DEF TypeOK, Acquiring
  <1>4. Moves(d, p)
    BY <1>2 DEF Moves
  <1>5. Each(d)'
    <2>1. Timely(d)'
      BY <1>1, <1>2 DEF Each, Timely, Acquiring, Transacting, Unlocking
    <2>2. Course(d)'
      BY <1>1, <1>2 DEF Each, Course, IsStale
    <2>3. Known(lock, d)' /\ Known(claim, d)' /\ Held(d)'
      BY <1>1, <1>2 DEF Each, Known, Held, Transacting, Unlocking, Post
    <2>4. TakesOver(d)'
      BY <1>1, <1>2 DEF Each, Course, TakesOver, Sure
    <2>5. QED
      BY <2>1, <2>2, <2>3, <2>4 DEF Each
  <1>6. \A e \in Deployers : Blocked(e, d)'
    BY <1>2 DEF Blocked
  <1>7. p \notin Post /\ pc[d] \notin Post
    BY DEF Post, Transacting, Unlocking
  <1>8. QED
    BY <1>3, <1>4, <1>5, <1>6, <1>7, MoveStep

\* Verifying the stale claim, as it was found or as it was renamed.
LEMMA VerifySteps ==
    ASSUME LeaseCovers, TwoDeployers, Inv, NEW d \in Deployers,
           VerifyStaleClaim(d) \/ VerifyClaim(d)
    PROVE  Inv'
  <1>1. CASE claim # seen[d]
    BY <1>1, LeaveStep DEF VerifyStaleClaim, VerifyClaim, Look
  <1>2. CASE claim = seen[d]
    <2>1. PICK p \in {"checkLockGone", "create"} :
             /\ pc[d] \in {"verifyStaleClaim", "verifyClaim"}
             /\ p = "checkLockGone" => pc[d] = "verifyClaim"
             /\ Goto(d, p) /\ UNCHANGED <<now, lock, claim>>
      BY <1>2 DEF VerifyStaleClaim, VerifyClaim, Look
    <2>2. TypeOK /\ Each(d)
      BY DEF Inv
    <2>3. via[d] # "nothing" /\ claim # NoFile
      BY <1>2, <2>1, <2>2 DEF Each, Course
    <2>4. UNCHANGED <<token, lock, claim>> /\ pc'[d] = p
      BY <2>1, <2>2 DEF Goto, memory, TypeOK
    <2>5. ASSUME NEW e \in Deployers, e # d
          PROVE  NoRoom(e, d)' /\ Blocked(d, e)'
      <3>1. pc'[e] = pc[e] /\ Each(e)
        BY <2>1, <2>2, <2>5 DEF Inv, Goto, TypeOK
      <3>2. ASSUME pc[e] \in Post PROVE lock.owner = token[e]
        <4>1. pc[e] # "idle"
          BY <3>2 DEF Post, Transacting, Unlocking
        <4>2. claim.owner # token[e]
          BY <1>2, <2>3, <4>1, ClaimIsDead
        <4>3. QED
          BY <3>1, <3>2, <4>2 DEF Each, Held
      <3>3. QED
        BY <2>3, <2>4, <3>1, <3>2 DEF NoRoom, Blocked
    <2>6. QED
      BY <1>2, <2>1, <2>5, PreMove
  <1>3. QED
    BY <1>1, <1>2

\* Checking that the lock is gone, and that there is no claim.
LEMMA CheckSteps ==
    ASSUME TwoDeployers, Inv, NEW d \in Deployers, CheckLockGone(d) \/ CheckNoClaim(d)
    PROVE  Inv'
  <1>1. TypeOK /\ Each(d)
    BY DEF Inv
  <1>2. CASE pc[d] = "checkLockGone"
    <2>1. CASE lock # NoFile
      BY <1>2, <2>1, LeaveStep DEF CheckLockGone, CheckNoClaim, Look
    <2>2. CASE lock = NoFile
      <3>1. Goto(d, "create") /\ UNCHANGED <<now, lock, claim>>
        BY <1>2, <2>2 DEF CheckLockGone, CheckNoClaim, Look
      <3>2. /\ pc'[d] = "create" /\ UNCHANGED <<token, via>>
            /\ via[d] # "nothing" => claim \in {NoFile, seen[d]}
        BY <1>1, <1>2, <3>1 DEF Goto, memory, TypeOK, Each, TakesOver, Taking
      <3>3. ASSUME NEW e \in Deployers, e # d
            PROVE  NoRoom(e, d)' /\ Blocked(d, e)'
        <4>1. pc'[e] = pc[e] /\ Pair(e, d) /\ Pair(d, e)
          BY <1>1, <3>1, <3>3 DEF Inv, Goto, TypeOK
        <4>2. QED
          BY <1>2, <3>1, <3>2, <4>1 DEF Pair, NoRoom, Blocked, Taking
      <3>4. QED
        BY <1>2, <3>1, <3>2, <3>3, PreMove
    <2>3. QED
      BY <2>1, <2>2
  <1>3. CASE pc[d] = "checkNoClaim"
    <2>1. CASE claim # NoFile
      BY <1>3, <2>1, LeaveStep DEF CheckLockGone, CheckNoClaim, Look
    <2>2. CASE claim = NoFile
      <3>1. Goto(d, "create") /\ UNCHANGED <<now, lock, claim>>
        BY <1>3, <2>2 DEF CheckLockGone, CheckNoClaim, Look
      <3>2. pc'[d] = "create" /\ UNCHANGED <<token, via>> /\ via[d] = "nothing"
        BY <1>1, <1>3, <3>1 DEF Goto, memory, TypeOK, Each, Course
      <3>3. ASSUME NEW e \in Deployers, e # d
            PROVE  NoRoom(e, d)' /\ Blocked(d, e)'
        <4>1. pc'[e] = pc[e] /\ Each(e)
          BY <1>1, <3>1, <3>3 DEF Inv, Goto, TypeOK
        <4>2. pc[e] \in Post => token[e] # claim.owner
          BY <2>2, <4>1 DEF Each, Course, NoFile, Post, Transacting, Unlocking
        <4>3. QED
          BY <3>1, <3>2, <4>1, <4>2 DEF Each, Held, NoRoom, Blocked
      <3>4. QED
        BY <1>3, <3>1, <3>2, <3>3, PreMove
    <2>3. QED
      BY <2>1, <2>2
  <1>4. QED
    BY <1>2, <1>3 DEF CheckLockGone, CheckNoClaim, Look

\* The rename moves whatever lock is there.
LEMMA RenameStep ==
    ASSUME TwoDeployers, Inv, NEW d \in Deployers, RenameLock(d)
    PROVE  Inv'
  <1>1. CASE ~(lock # NoFile /\ claim = NoFile)
    <2>1. UNCHANGED <<lock, claim>> /\ Leave(d) /\ UNCHANGED now
      BY <1>1 DEF RenameLock
    <2>2. QED
      BY <2>1, LeaveStep
  <1>2. CASE lock # NoFile /\ claim = NoFile
    <2>1. TypeOK /\ Each(d)
      BY DEF Inv
    <2>2. /\ claim' = lock /\ lock' = NoFile /\ pc[d] = "renameLock"
          /\ pc' = [pc EXCEPT ![d] = "verifyClaim"]
          /\ UNCHANGED <<now, token, leaseAt, seen, via, since>>
      BY <1>2 DEF RenameLock, Goto, memory
    <2>3. TypeOK'
      BY <2>1, <2>2 DEF TypeOK, Acquiring, Files
    <2>4. pc'[d] = "verifyClaim"
      BY <2>1, <2>2 DEF TypeOK
    <2>5. Each(d)'
      <3>1. Timely(d)'
        BY <2>1, <2>2, <2>4 DEF Each, Timely, Acquiring, Transacting, Unlocking
      <3>2. Course(d)'
        BY <2>1, <2>2, <2>4 DEF Each, Course, IsStale
      <3>3. Known(lock, d)' /\ Known(claim, d)' /\ Held(d)' /\ TakesOver(d)'
        BY <2>1, <2>2, <2>4 DEF Each, Known, Held, TakesOver, Transacting, Unlocking, Post,
           Taking, NoFile
      <3>4. QED
        BY <3>1, <3>2, <3>3 DEF Each
    <2>6. ASSUME NEW e \in Deployers, e # d
          PROVE  Each(e)' /\ Pair(d, e)' /\ Pair(e, d)'
      <3>1. Each(e) /\ Pair(d, e) /\ Pair(e, d)
        BY <2>6 DEF Inv
      <3>2. pc'[e] = pc[e]
        BY <2>1, <2>2, <2>6 DEF TypeOK
      <3>3. ~(pc[e] \in Taking /\ via[e] # "nothing")
        BY <1>2, <2>2, <3>1 DEF Pair, Blocked
      <3>4. pc[e] # "removeClaim"
        BY <3>1, <3>3 DEF Each, Course, Taking
      <3>5. Timely(e)' /\ Course(e)'
        BY <2>2, <3>1, <3>2 DEF Each, Timely, Course, IsStale
      <3>6. Known(lock, e)' /\ Known(claim, e)'
        BY <2>2, <3>1, <3>2 DEF Each, Known, NoFile
      <3>7. Held(e)'
        <4>1. claim.owner = None /\ lock'.owner = None
          BY <1>2, <2>2 DEF NoFile
        <4>2. pc[e] \in Post => token[e] # None
          BY <3>1 DEF Each, Course, Post, Transacting, Unlocking
        <4>3. QED
          BY <2>2, <3>1, <3>2, <3>4, <4>1, <4>2 DEF Each, Held
      <3>8. TakesOver(e)'
        BY <2>2, <3>2, <3>3 DEF TakesOver
      <3>9. Apart(d, e)' /\ Apart(e, d)'
        BY <2>2, <3>1 DEF Pair, Apart
      <3>10. Pair(d, e)' /\ Pair(e, d)'
        BY <2>4, <3>9 DEF Pair, Alone, NoRoom, Blocked, Post, Taking, Transacting, Unlocking
      <3>11. QED
        BY <3>5, <3>6, <3>7, <3>8, <3>10 DEF Each
    <2>7. QED
      BY <2>3, <2>5, <2>6, Assemble
  <1>3. QED
    BY <1>1, <1>2

\* The exclusive create succeeds only where nobody holds the host.
LEMMA CreateStep ==
    ASSUME TwoDeployers, Inv, NEW d \in Deployers, CreateLock(d)
    PROVE  Inv'
  <1>1. CASE lock # NoFile
    BY <1>1, LeaveStep DEF CreateLock
  <1>2. CASE lock = NoFile
    <2>1. TypeOK /\ Each(d)
      BY DEF Inv
    <2>2. /\ lock' = [owner |-> token[d], lease |-> leaseAt[d], full |-> FALSE]
          /\ pc[d] = "create" /\ pc' = [pc EXCEPT ![d] = "fill"]
          /\ UNCHANGED <<now, claim, token, leaseAt, seen, via, since>>
      BY <1>2 DEF CreateLock, Goto, memory, Own
    <2>3. token[d] # None
      BY <2>1, <2>2 DEF Each, Course
    <2>4. TypeOK'
      BY <2>1, <2>2, <2>3 DEF TypeOK, Acquiring, Files, File
    <2>5. pc'[d] = "fill" /\ lock'.owner = token[d] /\ lock'.lease = leaseAt[d]
      BY <2>1, <2>2 DEF TypeOK
    <2>6. Each(d)'
      <3>1. Timely(d)'
        BY <2>1, <2>2, <2>5 DEF Each, Timely, Acquiring, Transacting, Unlocking
      <3>2. Course(d)'
        BY <2>1, <2>2, <2>5 DEF Each, Course, IsStale
      <3>3. Known(lock, d)'
        BY <2>2, <2>5 DEF Known, Post
      <3>4. Known(claim, d)'
        BY <2>1, <2>2, <2>3 DEF Each, Known, Post, Transacting, Unlocking
      <3>5. Held(d)' /\ TakesOver(d)'
        BY <2>1, <2>2, <2>5 DEF Each, Held, TakesOver, Taking, Sure
      <3>6. QED
        BY <3>1, <3>2, <3>3, <3>4, <3>5 DEF Each
    <2>7. ASSUME NEW e \in Deployers, e # d
          PROVE  Each(e)' /\ Pair(d, e)' /\ Pair(e, d)'
      <3>1. Each(e) /\ Pair(d, e) /\ Pair(e, d)
        BY <2>7 DEF Inv
      <3>2. pc'[e] = pc[e]
        BY <2>1, <2>2, <2>7 DEF TypeOK
      <3>3. pc[e] \notin Post
        <4>1. pc[e] \in Post => lock.owner = token[e] /\ token[e] # None
          BY <2>2, <3>1 DEF Pair, NoRoom, Each, Course, Post, Transacting, Unlocking
        <4>2. QED
          BY <1>2, <4>1 DEF NoFile
      <3>4. Timely(e)' /\ Course(e)' /\ Known(claim, e)'
        BY <2>2, <3>1, <3>2 DEF Each, Timely, Course, Known, IsStale
      <3>5. Known(lock, e)' /\ Held(e)'
        BY <2>2, <2>3, <2>5, <3>1, <3>2, <3>3 DEF Pair, Apart, Known, Held, Post
      <3>6. TakesOver(e)'
        <4>1. pc[e] # "idle" => leaseAt[e] <= now
          BY <3>1 DEF Each, Timely
        <4>2. now <= leaseAt[d] + AcquireTime
          BY <2>1, <2>2 DEF Each, Timely, Acquiring
        <4>3. pc[e] \in Sure => leaseAt[e] <= leaseAt[d] + AcquireTime
          BY <2>1, <4>1, <4>2, TimesAssumption DEF Sure, TypeOK
        <4>4. QED
          BY <2>2, <2>5, <3>1, <3>2, <4>3 DEF Each, TakesOver
      <3>7. Apart(d, e)' /\ Apart(e, d)'
        BY <2>2, <3>1 DEF Pair, Apart
      <3>8. Alone(d, e)' /\ Alone(e, d)' /\ NoRoom(d, e)' /\ NoRoom(e, d)'
        BY <2>2, <2>5, <3>2, <3>3 DEF Alone, NoRoom
      <3>9. Blocked(d, e)' /\ Blocked(e, d)'
        BY <2>2, <2>5, <3>1, <3>2 DEF Pair, Blocked, Taking
      <3>10. QED
        BY <3>4, <3>5, <3>6, <3>7, <3>8, <3>9 DEF Each, Pair
    <2>8. QED
      BY <2>4, <2>6, <2>7, Assemble
  <1>3. QED
    BY <1>1, <1>2

\* Filling the file writes the bytes of the one that created it, wherever it is by now.
LEMMA FillStep ==
    ASSUME LeaseCovers, TwoDeployers, Inv, NEW d \in Deployers, FillLock(d)
    PROVE  Inv'
  <1>1. TypeOK /\ Each(d)
    BY DEF Inv
  <1>2. PICK p \in {"ownLock", "verifyLock", "reverifyClaim"} :
           /\ pc[d] = "fill" /\ pc' = [pc EXCEPT ![d] = p]
           /\ p # "ownLock" => via[d] # "nothing"
           /\ lock' = IF lock.owner = token[d] THEN Own(d) ELSE lock
           /\ claim' = IF claim.owner = token[d] THEN Own(d) ELSE claim
           /\ UNCHANGED <<now, token, leaseAt, seen, via, since>>
    <2>1. via[d] \in {"nothing", "claim", "lock"}
      BY <1>1 DEF TypeOK
    <2> DEFINE q == [nothing |-> "ownLock", claim |-> "verifyLock",
                     lock |-> "reverifyClaim"][via[d]]
    <2>3. q \in {"ownLock", "verifyLock", "reverifyClaim"}
          /\ (q # "ownLock" => via[d] # "nothing")
      <3>1. CASE via[d] = "nothing"
        BY <3>1
      <3>2. CASE via[d] = "claim"
        BY <3>2
      <3>3. CASE via[d] = "lock"
        BY <3>3
      <3>4. QED
        BY <2>1, <3>1, <3>2, <3>3
    <2>4. /\ pc[d] = "fill" /\ pc' = [pc EXCEPT ![d] = q]
          /\ lock' = IF lock.owner = token[d] THEN Own(d) ELSE lock
          /\ claim' = IF claim.owner = token[d] THEN Own(d) ELSE claim
          /\ UNCHANGED <<now, token, leaseAt, seen, via, since>>
      BY DEF FillLock, Goto, memory
    <2> HIDE DEF q
    <2>5. QED
      BY <2>3, <2>4
  <1>3. token[d] # None /\ pc'[d] = p
    BY <1>1, <1>2 DEF Each, Course, TypeOK
  <1>4. Own(d) \in File
    BY <1>1, <1>3 DEF TypeOK, Own, File
  <1>5. TypeOK'
    BY <1>1, <1>2, <1>4 DEF TypeOK, Acquiring, Files
  <1>6. /\ lock'.owner = lock.owner /\ lock'.lease = lock.lease
        /\ lock.owner = token[d] => lock'.full
        /\ lock.owner # token[d] => lock' = lock
    BY <1>1, <1>2, <1>3 DEF Each, Known, Own
  <1>7. /\ claim'.owner = claim.owner /\ claim'.lease = claim.lease
        /\ claim.owner = token[d] => claim'.full
        /\ claim.owner # token[d] => claim' = claim
    BY <1>1, <1>2, <1>3 DEF Each, Known, Own
  <1>8. (lock' = NoFile => lock = NoFile) /\ (claim = NoFile <=> claim' = NoFile)
    BY <1>1, <1>3, <1>6, <1>7 DEF TypeOK, Files, File, NoFile
  <1>9. ASSUME NEW e \in Deployers, via[e] # "nothing", claim \in {NoFile, seen[e]}
        PROVE  claim' \in {NoFile, seen[e]}
    <2>1. CASE claim = NoFile
      BY <1>8, <2>1
    <2>2. CASE claim = seen[e]
      <3>1. pc[d] # "idle"
        BY <1>2
      <3>2. claim.owner # token[d]
        BY <1>9, <2>2, <3>1, ClaimIsDead
      <3>3. QED
        BY <1>7, <2>2, <3>2
    <2>3. QED
      BY <1>9, <2>1, <2>2
  <1>10. Each(d)'
    <2>1. Timely(d)'
      BY <1>1, <1>2, <1>3 DEF Each, Timely, Acquiring, Transacting, Unlocking
    <2>2. Course(d)'
      BY <1>1, <1>2, <1>3 DEF Each, Course, IsStale
    <2>3. Known(lock, d)' /\ Known(claim, d)' /\ Held(d)'
      BY <1>1, <1>2, <1>3, <1>6, <1>7 DEF Each, Known, Held, Post
    <2>4. TakesOver(d)'
      BY <1>1, <1>2, <1>3, <1>9 DEF Each, TakesOver, Taking, Sure
    <2>5. QED
      BY <2>1, <2>2, <2>3, <2>4 DEF Each
  <1>11. ASSUME NEW e \in Deployers, e # d
         PROVE  Each(e)' /\ Pair(d, e)' /\ Pair(e, d)'
    <2>1. Each(e) /\ Pair(d, e) /\ Pair(e, d)
      BY <1>11 DEF Inv
    <2>2. pc'[e] = pc[e] /\ token[e] # token[d]
      BY <1>1, <1>2, <1>3, <1>11, <2>1 DEF TypeOK, Pair, Apart
    <2>3. Timely(e)' /\ Course(e)' /\ Held(e)'
      BY <1>2, <1>6, <1>7, <2>1, <2>2 DEF Each, Timely, Course, Held, IsStale
    <2>4. Known(lock, e)' /\ Known(claim, e)'
      BY <1>2, <1>6, <1>7, <2>1, <2>2 DEF Each, Known
    <2>5. TakesOver(e)'
      <3>1. via'[e] = via[e] /\ seen'[e] = seen[e] /\ leaseAt'[e] = leaseAt[e]
        BY <1>2
      <3>2. lock' # NoFile => lock # NoFile
        BY <1>6, <1>3 DEF NoFile
      <3>3. QED
        BY <1>6, <1>9, <2>1, <2>2, <3>1, <3>2 DEF Each, TakesOver
    <2>6. Apart(d, e)' /\ Apart(e, d)'
      BY <1>2, <2>1 DEF Pair, Apart
    <2>7. /\ Alone(d, e)' /\ Alone(e, d)' /\ NoRoom(d, e)' /\ NoRoom(e, d)'
          /\ Blocked(d, e)' /\ Blocked(e, d)'
      BY <1>2, <1>3, <1>6, <1>8, <2>1, <2>2 DEF Pair, Alone, NoRoom, Blocked, Post, Taking
    <2>8. QED
      BY <2>3, <2>4, <2>5, <2>6, <2>7 DEF Each, Pair
  <1>12. QED
    BY <1>5, <1>10, <1>11, Assemble

\* Removing the claim is alone with the lock it created.
LEMMA RemoveClaimStep ==
    ASSUME TwoDeployers, Inv, NEW d \in Deployers, RemoveClaim(d)
    PROVE  Inv'
  <1>1. CASE claim = NoFile
    BY <1>1, LeaveStep DEF RemoveClaim
  <1>2. CASE claim # NoFile
    <2>1. TypeOK /\ Each(d)
      BY DEF Inv
    <2>2. /\ claim' = NoFile /\ pc[d] = "removeClaim" /\ pc' = [pc EXCEPT ![d] = "ownLock"]
          /\ UNCHANGED <<now, lock, token, leaseAt, seen, via, since>>
      BY <1>2 DEF RemoveClaim, Goto, memory
    <2>3. TypeOK'
      BY <2>1, <2>2 DEF TypeOK, Acquiring, Files
    <2>4. pc'[d] = "ownLock" /\ pc[d] \in Post
      BY <2>1, <2>2 DEF TypeOK, Post
    <2>5. Each(d)'
      <3>1. Timely(d)'
        BY <2>1, <2>2, <2>4 DEF Each, Timely, Acquiring, Transacting, Unlocking
      <3>2. Course(d)'
        BY <2>1, <2>2, <2>4 DEF Each, Course, IsStale
      <3>3. Known(lock, d)' /\ Known(claim, d)' /\ Held(d)' /\ TakesOver(d)'
        BY <2>1, <2>2, <2>4 DEF Each, Known, Held, TakesOver, Post, Taking, Sure, NoFile
      <3>4. QED
        BY <3>1, <3>2, <3>3 DEF Each
    <2>6. ASSUME NEW e \in Deployers, e # d
          PROVE  Each(e)' /\ Pair(d, e)' /\ Pair(e, d)'
      <3>1. Each(e) /\ Pair(d, e) /\ Pair(e, d)
        BY <2>6 DEF Inv
      <3>2. pc'[e] = pc[e] /\ pc[e] \notin Post
        BY <2>1, <2>2, <2>4, <2>6, <3>1 DEF TypeOK, Pair, Alone
      <3>3. Timely(e)' /\ Course(e)' /\ Known(lock, e)'
        BY <2>2, <3>1, <3>2 DEF Each, Timely, Course, Known, IsStale
      <3>4. Known(claim, e)' /\ Held(e)' /\ TakesOver(e)'
        BY <2>2, <3>1, <3>2 DEF Each, Known, Held, TakesOver, Post, NoFile
      <3>5. Apart(d, e)' /\ Apart(e, d)'
        BY <2>2, <3>1 DEF Pair, Apart
      <3>6. Alone(d, e)' /\ Alone(e, d)' /\ NoRoom(d, e)' /\ NoRoom(e, d)'
        BY <2>2, <2>4, <3>1, <3>2 DEF Pair, Alone, NoRoom
      <3>7. Blocked(d, e)' /\ Blocked(e, d)'
        BY <2>4 DEF Blocked, Taking
      <3>8. QED
        BY <3>3, <3>4, <3>5, <3>6, <3>7 DEF Each, Pair
    <2>7. QED
      BY <2>3, <2>5, <2>6, Assemble
  <1>3. QED
    BY <1>1, <1>2

\* The verifications of a deployment that created its lock.
LEMMA OwnSteps ==
    ASSUME TwoDeployers, Inv, NEW d \in Deployers,
           \/ ReverifyClaim(d) \/ VerifyLock(d) \/ OwnLock(d)
           \/ UnlockLock(d) \/ UnlockClaim(d)
    PROVE  Inv'
  <1>1. CASE Leave(d)
    BY <1>1, LeaveStep DEF ReverifyClaim, VerifyLock, OwnLock, UnlockLock, UnlockClaim, Look
  <1>2. CASE ~Leave(d)
    <2>1. TypeOK /\ Each(d)
      BY DEF Inv
    <2>2. PICK p \in Post \ {"fill"} :
             /\ Goto(d, p) /\ UNCHANGED <<now, lock, claim>>
             /\ <<pc[d], p>> \in {<<"reverifyClaim", "verifyLock">>,
                                  <<"verifyLock", "removeClaim">>, <<"ownLock", "ownClaim">>,
                                  <<"unlockLock", "unlockClaim">>,
                                  <<"unlockClaim", "removeLock">>}
             /\ p = "removeClaim" => lock = Own(d)
      BY <1>2 DEF ReverifyClaim, VerifyLock, OwnLock, UnlockLock, UnlockClaim, Look, Post,
         Transacting, Unlocking
    <2>3. /\ pc' = [pc EXCEPT ![d] = p] /\ pc'[d] = p
          /\ UNCHANGED <<now, lock, claim, token, leaseAt, seen, via, since>>
      BY <2>1, <2>2 DEF Goto, memory, TypeOK
    <2>4. TypeOK'
      BY <2>1, <2>2, <2>3 DEF TypeOK, Acquiring, Unlocking
    <2>5. Timely(d)'
      BY <2>1, <2>2, <2>3 DEF Each, Timely, Acquiring, Transacting, Unlocking
    <2>6. Course(d)'
      BY <2>1, <2>2, <2>3 DEF Each, Course, IsStale
    <2>7. Moves(d, p)
      BY <2>2, <2>3 DEF Moves
    <2>8. pc[d] \in Post \ {"fill"} /\ (p \in Taking => pc[d] \in Taking)
      BY <2>2 DEF Post, Taking, Unlocking
    <2>9. p = "removeClaim" => lock.owner = token[d]
      BY <2>2 DEF Own
    <2>10. QED
      BY <2>4, <2>5, <2>6, <2>7, <2>8, <2>9, PostMove
  <1>3. QED
    BY <1>1, <1>2

-----------------------------------------------------------------------------
(* The transaction, the unlock and the clock *)

\* A deployment enters a phase: it starts its transaction, or begins to unlock.
LEMMA PhaseStep ==
    ASSUME TwoDeployers, Inv, NEW d \in Deployers, NEW p, Phase(d, p),
           UNCHANGED <<now, lock, claim>>,
           \/ pc[d] = "ownClaim" /\ p = "txnLock"
           \/ pc[d] \in Transacting /\ p = "unlockLock"
    PROVE  Inv'
  <1>1. TypeOK /\ Each(d)
    BY DEF Inv
  <1>2. /\ pc' = [pc EXCEPT ![d] = p] /\ since' = [since EXCEPT ![d] = now]
        /\ pc'[d] = p /\ since'[d] = now
        /\ UNCHANGED <<now, lock, claim, token, leaseAt, seen, via>>
    BY <1>1 DEF Phase, memory, TypeOK
  <1>3. TypeOK'
    BY <1>1, <1>2 DEF TypeOK, Transacting, Unlocking
  <1>4. Timely(d)'
    <2>1. now \in Nat /\ leaseAt[d] \in Nat /\ since[d] \in Nat
      BY <1>1, TimesAssumption DEF TypeOK
    <2>2. CASE pc[d] = "ownClaim"
      BY <1>1, <1>2, <2>1, <2>2, TimesAssumption DEF Each, Timely, Acquiring, Transacting,
         Unlocking
    <2>3. CASE pc[d] \in Transacting
      <3>1. p = "unlockLock" /\ pc[d] # "idle"
        BY <2>3 DEF Transacting
      <3>2. leaseAt[d] <= now /\ since[d] <= leaseAt[d] + AcquireTime /\ now <= since[d] + TxnTime
        BY <1>1, <2>3, <3>1 DEF Each, Timely
      <3>3. now <= leaseAt[d] + AcquireTime + TxnTime /\ now <= now + UnlockTime
        BY <2>1, <3>2, TimesAssumption
      <3>4. QED
        BY <1>2, <3>1, <3>2, <3>3 DEF Timely, Acquiring, Transacting, Unlocking
    <2>4. QED
      BY <2>2, <2>3
  <1>5. Course(d)'
    BY <1>1, <1>2 DEF Each, Course, IsStale, Transacting
  <1>6. Moves(d, p)
    BY <1>1, <1>2 DEF Moves, TypeOK, Transacting
  <1>7. p \in Post \ {"fill"} /\ pc[d] \in Post \ {"fill"} /\ p \notin Taking /\ p # "removeClaim"
    BY DEF Post, Taking, Transacting, Unlocking
  <1>8. QED
    BY <1>3, <1>4, <1>5, <1>6, <1>7, PostMove

\* The end of the acquisition, and the steps of the transaction.
LEMMA TransactStep ==
    ASSUME TwoDeployers, Inv, NEW d \in Deployers, OwnClaim(d) \/ Transact(d)
    PROVE  Inv'
  <1>1. CASE OwnClaim(d)
    BY <1>1, LeaveStep, PhaseStep DEF OwnClaim
  <1>2. CASE Transact(d)
    <2>1. pc[d] \in Transacting /\ UNCHANGED <<now, lock, claim>>
      BY <1>2 DEF Transact, TxnLock, TxnClaim, Mutate, EndTransaction, Check, Transacting
    <2>2. CASE Phase(d, "unlockLock")
      BY <2>1, <2>2, PhaseStep
    <2>3. CASE ~Phase(d, "unlockLock")
      <3>1. TypeOK /\ Each(d)
        BY DEF Inv
      <3>2. PICK p \in Transacting : Goto(d, p)
        BY <1>2, <2>3 DEF Transact, TxnLock, TxnClaim, Mutate, EndTransaction, Check, Transacting
      <3>3. /\ pc' = [pc EXCEPT ![d] = p] /\ pc'[d] = p
            /\ UNCHANGED <<now, lock, claim, token, leaseAt, seen, via, since>>
        BY <2>1, <3>1, <3>2 DEF Goto, memory, TypeOK
      <3>4. TypeOK'
        BY <3>1, <3>2, <3>3 DEF TypeOK
      <3>5. Timely(d)'
        BY <2>1, <3>1, <3>2, <3>3 DEF Each, Timely, Acquiring, Transacting, Unlocking
      <3>6. Course(d)'
        BY <2>1, <3>1, <3>2, <3>3 DEF Each, Course, IsStale, Transacting
      <3>7. Moves(d, p)
        BY <2>1, <3>2, <3>3 DEF Moves, Transacting
      <3>8. p \in Post \ {"fill"} /\ pc[d] \in Post \ {"fill"} /\ p \notin Taking /\ p # "removeClaim"
        BY <2>1, <3>2 DEF Post, Taking, Transacting
      <3>9. QED
        BY <3>4, <3>5, <3>6, <3>7, <3>8, PostMove
    <2>4. QED
      BY <2>2, <2>3
  <1>3. QED
    BY <1>1, <1>2

\* Removing the lock leaves nothing of the deployment, and nobody else holds the host.
LEMMA RemoveLockStep ==
    ASSUME TwoDeployers, Inv, NEW d \in Deployers, RemoveLock(d)
    PROVE  Inv'
  <1>1. TypeOK /\ Each(d)
    BY DEF Inv
  <1>2. /\ lock' = NoFile /\ pc[d] = "removeLock" /\ Leave(d) /\ UNCHANGED <<now, claim>>
    BY DEF RemoveLock
  <1>3. TypeOK'
    BY <1>1, <1>2, TimesAssumption DEF TypeOK, Leave, Files
  <1>4. Each(d)'
    BY <1>1, <1>2 DEF TypeOK, Leave, Each, Timely, Course, Known, Held, TakesOver, Acquiring,
       Transacting, Unlocking, Post, Taking, Sure
  <1>5. ASSUME NEW e \in Deployers, e # d
        PROVE  Each(e)' /\ Pair(d, e)' /\ Pair(e, d)'
    <2>1. Each(e) /\ Pair(d, e) /\ Pair(e, d)
      BY <1>5 DEF Inv
    <2>2. /\ pc'[e] = pc[e] /\ token'[e] = token[e] /\ leaseAt'[e] = leaseAt[e]
          /\ seen'[e] = seen[e] /\ via'[e] = via[e] /\ since'[e] = since[e]
          /\ pc'[d] = "idle" /\ token'[d] = None /\ seen'[d] = NoFile
      BY <1>1, <1>2, <1>5 DEF Leave, TypeOK
    <2>3. pc[e] \notin Post
      BY <1>2, <2>1 DEF Pair, Alone, Post, Unlocking
    <2>4. Each(e)'
      BY <1>2, <2>1, <2>2, <2>3 DEF Each, Timely, Course, Known, Held, TakesOver, IsStale, Post,
         NoFile
    <2>5. Apart(d, e)' /\ Apart(e, d)'
      BY <2>1, <2>2 DEF Pair, Apart, NoFile
    <2>6. Pair(d, e)' /\ Pair(e, d)'
      BY <2>2, <2>5 DEF Pair, Alone, NoRoom, Blocked, Post, Taking, Transacting, Unlocking
    <2>7. QED
      BY <2>4, <2>6
  <1>6. QED
    BY <1>3, <1>4, <1>5, Assemble

\* Time passes only within the bounds of every phase.
LEMMA TickStep ==
    ASSUME Inv, Tick
    PROVE  Inv'
  <1>1. /\ now' = now + 1 /\ now < MaxTime
        /\ UNCHANGED <<lock, claim, pc, token, leaseAt, seen, via, since>>
    BY DEF Tick, memory
  <1>2. TypeOK /\ TypeOK'
    BY <1>1, TimesAssumption DEF Inv, TypeOK
  <1>3. ASSUME NEW d \in Deployers PROVE Each(d)'
    <2>1. Each(d)
      BY DEF Inv
    <2>2. Timely(d)'
      BY <1>1, <1>2, <2>1, TimesAssumption DEF Tick, Within, TypeOK, Each, Timely
    <2>3. QED
      BY <1>1, <2>1, <2>2 DEF Each, Course, Known, Held, TakesOver, IsStale
  <1>4. ASSUME NEW d \in Deployers, NEW e \in Deployers, d # e
        PROVE  Pair(d, e)'
    BY <1>1, <1>4 DEF Inv, Pair, Apart, Alone, NoRoom, Blocked
  <1>5. QED
    BY <1>2, <1>3, <1>4 DEF Inv

\* Every step preserves the invariant.
LEMMA NextInv ==
    ASSUME LeaseCovers, TwoDeployers, Inv, [Next]_vars
    PROVE  Inv'
  <1>1. ASSUME NEW d \in Deployers, Acquire(d) PROVE Inv'
    BY <1>1, BeginStep, ReadClaimStep, ReadLockStep, VerifySteps, RenameStep, CheckSteps,
       CreateStep, FillStep, OwnSteps, RemoveClaimStep, TransactStep DEF Acquire
  <1>2. ASSUME NEW d \in Deployers, Unlock(d) PROVE Inv'
    BY <1>2, OwnSteps, RemoveLockStep DEF Unlock
  <1>3. ASSUME NEW d \in Deployers, Crash(d) PROVE Inv'
    BY <1>3, LeaveStep DEF Crash
  <1>4. CASE UNCHANGED vars
    BY <1>4 DEF vars, memory, Inv, TypeOK, Each, Timely, Course, Known, Held, TakesOver, IsStale,
       Pair, Apart, Alone, NoRoom, Blocked
  <1>5. QED
    BY <1>1, <1>2, <1>3, <1>4, TransactStep, TickStep DEF Next

-----------------------------------------------------------------------------
(* Theorems *)

\* With two server processes and a lease that covers a deployment, the invariant holds in
\* every reachable state of acquire_lock, the locked transaction and unlock.
THEOREM Invariance ==
    ASSUME TwoDeployers, LeaseCovers
    PROVE  Spec => []Inv
  <1>1. Inv /\ [Next]_vars => Inv'
    BY NextInv
  <1>2. QED
    BY <1>1, InitInv, PTL DEF Spec

\* Two server processes never change the component at the same time, although ownership is
\* verified by separate requests before each mutation.
THEOREM DeployersExclude ==
    ASSUME TwoDeployers, LeaseCovers
    PROVE  Spec => []MutualExclusion
  <1>1. Inv => MutualExclusion
    BY DEF Inv, Pair, Alone, MutualExclusion, Post, Transacting
  <1>2. QED
    BY <1>1, Invariance, PTL

\* The lock file of a live transaction is in the lock or in the claim, whatever a slow
\* observer of an older lock does.
THEOREM OwnerFileIsKept ==
    ASSUME TwoDeployers, LeaseCovers
    PROVE  Spec => []OwnerFileSurvives
  <1>1. ASSUME Inv, NEW d \in Deployers, pc[d] \in Transacting
        PROVE  Own(d) \in {lock, claim}
    <2>1. pc[d] \in Post \ {"fill"} /\ TypeOK /\ Each(d)
      BY <1>1 DEF Inv, Post, Transacting
    <2>2. token[d] # None
      BY <1>1, <2>1 DEF Each, Course, Transacting
    <2>3. ASSUME NEW f \in Files, f.owner = token[d], Known(f, d)
          PROVE  f = Own(d)
      <3>1. f \in File
        BY <2>2, <2>3 DEF Files, NoFile
      <3>2. f.lease = leaseAt[d] /\ f.full = TRUE
        BY <2>1, <2>2, <2>3, <3>1 DEF Known, File
      <3>3. QED
        BY <2>3, <3>1, <3>2 DEF File, Own
    <2>4. QED
      BY <2>1, <2>3 DEF Each, Held, TypeOK
  <1>2. Inv => OwnerFileSurvives
    BY <1>1 DEF OwnerFileSurvives
  <1>3. QED
    BY <1>2, Invariance, PTL

\* Unlock removes the lock its own deployment created and nothing else, and a takeover
\* removes the very claim it observed.
THEOREM RemovesItsOwn ==
    ASSUME TwoDeployers, LeaseCovers
    PROVE  Spec => RemovalsAreOwn
  <1>1. ASSUME Inv, NEW d \in Deployers, RemoveLock(d)
        PROVE  lock \in {NoFile, Own(d)}
    <2>1. pc[d] \in Post \ {"fill"} /\ TypeOK /\ Each(d) /\ token[d] # None
      BY <1>1 DEF Inv, RemoveLock, Post, Unlocking, Each, Course
    <2>2. CASE lock.owner = None
      BY <2>1, <2>2, NoneAssumption DEF TypeOK, Files, File
    <2>3. CASE lock.owner = token[d]
      <3>1. lock \in File
        BY <2>1, <2>3 DEF TypeOK, Files, NoFile
      <3>2. lock.lease = leaseAt[d] /\ lock.full = TRUE
        BY <2>1, <2>3, <3>1 DEF Each, Known, File
      <3>3. QED
        BY <2>3, <3>1, <3>2 DEF File, Own
    <2>4. QED
      BY <2>1, <2>2, <2>3 DEF Each, Held
  <1>2. ASSUME Inv, NEW d \in Deployers, RemoveClaim(d)
        PROVE  claim \in {NoFile, seen[d]}
    BY <1>2 DEF Inv, RemoveClaim, Each, Course, TakesOver, Taking
  <1>3. Inv /\ [Next]_vars =>
           [\A d \in Deployers : /\ RemoveLock(d) => lock \in {NoFile, Own(d)}
                                 /\ RemoveClaim(d) => claim \in {NoFile, seen[d]}]_vars
    BY <1>1, <1>2
  <1>4. QED
    BY <1>3, Invariance, PTL DEF Spec, RemovalsAreOwn

=============================================================================
