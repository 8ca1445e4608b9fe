----------------------------- MODULE DeployLock -----------------------------
(***************************************************************************)
(* The remote deployment lock of deployment.rs: acquire_lock, the stale    *)
(* takeover through the claim file, OwnedFs and unlock, for several server *)
(* processes that share one Home Assistant host.                           *)
(*                                                                         *)
(* Every action is one SFTP request (verify_exact_private_file's lstat and *)
(* read are one, for the read decides).  A file holds its owner's token    *)
(* and lease time; the handle through which it was created stays valid     *)
(* when the file is renamed, so filling it is a request of its own.        *)
(*                                                                         *)
(* Time is one clock, in units of the run's choice.  An acquisition, the   *)
(* locked transaction and the unlock each take a bounded time: the first   *)
(* and the last because each of their requests times out, the transaction  *)
(* because of TRANSACTION_TIMEOUT.                                         *)
(***************************************************************************)
EXTENDS Naturals

CONSTANTS
    Deployers,    \* server processes, one deployment at a time each
    Tokens,       \* owner tokens; random, so a new one is unlike any in use
    None,         \* no token
    Lease,        \* LOCK_STALE_AFTER_SECS
    AcquireTime,  \* longest acquire_lock
    TxnTime,      \* TRANSACTION_TIMEOUT
    UnlockTime,   \* longest unlock
    MaxTime       \* bound on the clock

ASSUME NoneAssumption == None \notin Tokens
ASSUME TimesAssumption ==
    /\ Lease \in Nat /\ AcquireTime \in Nat /\ TxnTime \in Nat
    /\ UnlockTime \in Nat /\ MaxTime \in Nat

VARIABLES
    now,      \* the clock
    lock,     \* .smarthome_mcp-deploy/lock
    claim,    \* .smarthome_mcp-deploy/lock.claim
    pc,       \* pc[d]: the next request of d's deployment
    token,    \* token[d]: the owner token of that deployment
    leaseAt,  \* leaseAt[d]: the time d read when it began, its lease_at
    seen,     \* seen[d]: the stale lock or claim it means to take over
    via,      \* via[d]: what it takes over, a lock, a claim or nothing
    since     \* since[d]: when its present phase began

memory == <<token, leaseAt, seen, via>>
vars == <<now, lock, claim, pc, memory, since>>

-----------------------------------------------------------------------------

\* full: the bytes have been written, not only the file created.
File == [owner : Tokens, lease : 0..MaxTime, full : BOOLEAN]
NoFile == [owner |-> None, lease |-> 0, full |-> FALSE]
Files == File \cup {NoFile}

\* The bytes of d's lock file.
Own(d) == [owner |-> token[d], lease |-> leaseAt[d], full |-> TRUE]

\* Mutant of IsStale: a lease that is just over.
IsStaleEarly(f, d) == leaseAt[d] >= f.lease + Lease

\* is_stale, against the time read when the acquisition began.
IsStale(f, d) == leaseAt[d] > f.lease + Lease

\* read_lock_file refuses a file that does not parse; an incomplete one.
Readable(f) == f = NoFile \/ f.full

Acquiring == {"readClaim", "readLock", "verifyStaleClaim", "renameLock",
              "verifyClaim", "checkLockGone", "checkNoClaim", "create", "fill",
              "reverifyClaim", "verifyLock", "removeClaim", "ownLock", "ownClaim"}
Transacting == {"txnLock", "txnClaim", "mutate"}
Unlocking == {"unlockLock", "unlockClaim", "removeLock"}

TypeOK ==
    /\ now \in 0..MaxTime
    /\ lock \in Files /\ claim \in Files
    /\ pc \in [Deployers -> {"idle"} \cup Acquiring \cup Transacting \cup Unlocking]
    /\ token \in [Deployers -> Tokens \cup {None}]
    /\ leaseAt \in [Deployers -> 0..MaxTime]
    /\ seen \in [Deployers -> Files]
    /\ via \in [Deployers -> {"nothing", "lock", "claim"}]
    /\ since \in [Deployers -> 0..MaxTime]

InUse == {lock.owner, claim.owner} \cup {token[d] : d \in Deployers}
            \cup {seen[d].owner : d \in Deployers}

-----------------------------------------------------------------------------
(* How a deployment goes on. *)

Goto(d, p) == pc' = [pc EXCEPT ![d] = p] /\ UNCHANGED <<memory, since>>

\* A deployment that is over remembers nothing.
Leave(d) ==
    /\ pc' = [pc EXCEPT ![d] = "idle"]
    /\ token' = [token EXCEPT ![d] = None]
    /\ leaseAt' = [leaseAt EXCEPT ![d] = 0]
    /\ seen' = [seen EXCEPT ![d] = NoFile]
    /\ via' = [via EXCEPT ![d] = "nothing"]
    /\ since' = [since EXCEPT ![d] = 0]

Phase(d, p) ==
    /\ pc' = [pc EXCEPT ![d] = p]
    /\ since' = [since EXCEPT ![d] = now]
    /\ UNCHANGED memory

Look(d, label, ok, next) ==
    /\ pc[d] = label
    /\ IF ok THEN Goto(d, next) ELSE Leave(d)
    /\ UNCHANGED <<now, lock, claim>>

-----------------------------------------------------------------------------
(* acquire_lock *)

Begin(d) ==
    /\ pc[d] = "idle"
    /\ Tokens \ InUse # {}
    /\ token' = [token EXCEPT ![d] = CHOOSE t \in Tokens \ InUse : TRUE]
    /\ leaseAt' = [leaseAt EXCEPT ![d] = now]
    /\ since' = [since EXCEPT ![d] = now]
    /\ pc' = [pc EXCEPT ![d] = "readClaim"]
    /\ UNCHANGED <<now, lock, claim, seen, via>>

ReadClaim(d) ==
    /\ pc[d] = "readClaim"
    /\ IF Readable(claim)
       THEN /\ seen' = [seen EXCEPT ![d] = claim]
            /\ pc' = [pc EXCEPT ![d] = "readLock"]
            /\ UNCHANGED <<token, leaseAt, via, since>>
       ELSE Leave(d)
    /\ UNCHANGED <<now, lock, claim>>

\* The lock decides, with the claim read before it, how to go on.
ReadLock(d) ==
    LET go(what, f, p) ==
                    /\ seen' = [seen EXCEPT ![d] = f]
                    /\ via' = [via EXCEPT ![d] = what]
                    /\ pc' = [pc EXCEPT ![d] = p]
                    /\ UNCHANGED <<token, leaseAt, since>>
    IN  /\ pc[d] = "readLock"
        /\ \/ lock = NoFile /\ seen[d] = NoFile /\ go("nothing", NoFile, "checkNoClaim")
           \/ /\ lock = NoFile /\ seen[d] # NoFile
              /\ IF IsStale(seen[d], d)
                 THEN go("claim", seen[d], "verifyStaleClaim") ELSE Leave(d)
           \/ /\ lock # NoFile
              /\ IF seen[d] = NoFile /\ Readable(lock) /\ IsStale(lock, d)
                 THEN go("lock", lock, "renameLock") ELSE Leave(d)
        /\ UNCHANGED <<now, lock, claim>>

VerifyStaleClaim(d) == Look(d, "verifyStaleClaim", claim = seen[d], "create")

\* An SFTP rename does not replace its destination; it moves whatever file now
\* has the lock's name.
RenameLock(d) ==
    /\ pc[d] = "renameLock"
    /\ IF lock # NoFile /\ claim = NoFile
       THEN claim' = lock /\ lock' = NoFile /\ Goto(d, "verifyClaim")
       ELSE UNCHANGED <<lock, claim>> /\ Leave(d)
    /\ UNCHANGED now

\* Mutant of VerifyClaim: whatever was renamed is taken for the stale lock.
VerifyClaimSkipped(d) ==
    /\ pc[d] = "verifyClaim"
    /\ seen' = [seen EXCEPT ![d] = claim]
    /\ pc' = [pc EXCEPT ![d] = "checkLockGone"]
    /\ UNCHANGED <<now, lock, claim, token, leaseAt, via, since>>

VerifyClaim(d) == Look(d, "verifyClaim", claim = seen[d], "checkLockGone")
CheckLockGone(d) == Look(d, "checkLockGone", lock = NoFile, "create")
CheckNoClaim(d) == Look(d, "checkNoClaim", claim = NoFile, "create")

\* create_owned_lock: the exclusive open, then the bytes.
CreateLock(d) ==
    /\ pc[d] = "create"
    /\ IF lock = NoFile
       THEN lock' = [Own(d) EXCEPT !.full = FALSE] /\ Goto(d, "fill")
       ELSE UNCHANGED lock /\ Leave(d)
    /\ UNCHANGED <<now, claim>>

FillLock(d) ==
    LET fill(f) == IF f.owner = token[d] THEN Own(d) ELSE f
        next == [nothing |-> "ownLock", claim |-> "verifyLock",
                 lock |-> "reverifyClaim"][via[d]]
    IN  /\ pc[d] = "fill"
        /\ lock' = fill(lock) /\ claim' = fill(claim)
        /\ Goto(d, next)
        /\ UNCHANGED now

ReverifyClaim(d) == Look(d, "reverifyClaim", claim = seen[d], "verifyLock")
VerifyLock(d) == Look(d, "verifyLock", lock = Own(d), "removeClaim")

RemoveClaim(d) ==
    /\ pc[d] = "removeClaim"
    /\ claim' = NoFile
    /\ IF claim # NoFile THEN Goto(d, "ownLock") ELSE Leave(d)
    /\ UNCHANGED <<now, lock>>

OwnLock(d) == Look(d, "ownLock", lock = Own(d), "ownClaim")

OwnClaim(d) ==
    /\ pc[d] = "ownClaim"
    /\ IF claim = NoFile THEN Phase(d, "txnLock") ELSE Leave(d)
    /\ UNCHANGED <<now, lock, claim>>

-----------------------------------------------------------------------------
(* The locked transaction: OwnedFs verifies the owner before each mutation. *)

\* A failed check is an error of the transaction, which then unlocks.
Check(d, label, ok, next) ==
    /\ pc[d] = label
    /\ IF ok THEN Goto(d, next) ELSE Phase(d, "unlockLock")
    /\ UNCHANGED <<now, lock, claim>>

TxnLock(d) == Check(d, "txnLock", lock = Own(d), "txnClaim")
TxnClaim(d) == Check(d, "txnClaim", claim = NoFile, "mutate")
Mutate(d) == Check(d, "mutate", TRUE, "txnLock")

\* The transaction is complete, fails, or runs into its deadline.
EndTransaction(d) ==
    /\ pc[d] \in Transacting
    /\ Phase(d, "unlockLock")
    /\ UNCHANGED <<now, lock, claim>>

UnlockLock(d) == Look(d, "unlockLock", lock = Own(d), "unlockClaim")
UnlockClaim(d) == Look(d, "unlockClaim", claim = NoFile, "removeLock")

RemoveLock(d) ==
    /\ pc[d] = "removeLock"
    /\ lock' = NoFile
    /\ Leave(d)
    /\ UNCHANGED <<now, claim>>

\* The process dies, or a request fails in acquire_lock or unlock: what is on
\* the host stays there.
Crash(d) ==
    /\ pc[d] # "idle"
    /\ Leave(d)
    /\ UNCHANGED <<now, lock, claim>>

Within(d, phase, bound) == pc[d] \in phase => now < since[d] + bound

Tick ==
    /\ now < MaxTime
    /\ \A d \in Deployers : /\ Within(d, Acquiring, AcquireTime)
                            /\ Within(d, Transacting, TxnTime)
                            /\ Within(d, Unlocking, UnlockTime)
    /\ now' = now + 1
    /\ UNCHANGED <<lock, claim, pc, memory, since>>

-----------------------------------------------------------------------------

Init ==
    /\ now = 0
    /\ lock = NoFile /\ claim = NoFile
    /\ pc = [d \in Deployers |-> "idle"]
    /\ token = [d \in Deployers |-> None]
    /\ leaseAt = [d \in Deployers |-> 0]
    /\ seen = [d \in Deployers |-> NoFile]
    /\ via = [d \in Deployers |-> "nothing"]
    /\ since = [d \in Deployers |-> 0]

Acquire(d) ==
    \/ Begin(d) \/ ReadClaim(d) \/ ReadLock(d)
    \/ VerifyStaleClaim(d) \/ RenameLock(d) \/ VerifyClaim(d) \/ CheckLockGone(d)
    \/ CheckNoClaim(d) \/ CreateLock(d) \/ FillLock(d) \/ ReverifyClaim(d)
    \/ VerifyLock(d) \/ RemoveClaim(d) \/ OwnLock(d) \/ OwnClaim(d)

Transact(d) == TxnLock(d) \/ TxnClaim(d) \/ Mutate(d) \/ EndTransaction(d)

Unlock(d) == UnlockLock(d) \/ UnlockClaim(d) \/ RemoveLock(d)

Next ==
    \/ \E d \in Deployers : Acquire(d) \/ Transact(d) \/ Unlock(d) \/ Crash(d)
    \/ Tick

Spec == Init /\ [][Next]_vars

-----------------------------------------------------------------------------
(* Properties *)

\* Two server processes never change the component at the same time, although
\* ownership is verified by separate requests before each mutation and a stale
\* lock may be taken over meanwhile.
MutualExclusion ==
    \A d, e \in Deployers : pc[d] = "mutate" /\ pc[e] = "mutate" => d = e

\* The lock file of a live transaction is never lost: a slow observer of an older
\* stale lock may move it to the claim by mistake, but nobody removes it.
OwnerFileSurvives ==
    \A d \in Deployers : pc[d] \in Transacting => Own(d) \in {lock, claim}

\* Whoever unlocks removes the lock its own deployment created, although the owner is
\* verified in earlier requests, and whoever takes over removes the very stale claim it
\* observed, never the lock of a deployment that began meanwhile.
RemovalsAreOwn ==
    [][\A d \in Deployers :
          /\ RemoveLock(d) => lock \in {NoFile, Own(d)}
          /\ RemoveClaim(d) => claim \in {NoFile, seen[d]}]_vars

=============================================================================
