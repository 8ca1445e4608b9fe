----------------------------- MODULE SigningKey -----------------------------
(***************************************************************************)
(* The token signing key of the hosted issuer: initialize_signing_key and  *)
(* authorization_server_policy of oauth.rs, for several server processes   *)
(* on one database.                                                        *)
(*                                                                         *)
(* A starting process holds an advisory lock through a transaction on a    *)
(* connection of its own, while the key store works through other          *)
(* connections of the pool: what it stores stays when the transaction      *)
(* fails, and the lock goes with the connection although the process works *)
(* on.  The key store, the issuing of tokens and the removal of retired    *)
(* keys belong to the mcp crate and are modelled from their use here.      *)
(***************************************************************************)
EXTENDS Naturals, FiniteSets, FiniteSetsExt

CONSTANTS
    Servers,         \* server processes
    NoOne,           \* the lock is free
    MaxKeys,         \* bound on the keys ever generated
    MaxTime,         \* bound on the clock
    AccessTtl,       \* lifetime of an access token
    ClockSkew,       \* tolerated difference of clocks
    DefaultOverlap   \* the overlap of the mcp crate's default policy

ASSUME NoOneAssumption == NoOne \notin Servers
ASSUME TimesAssumption ==
    MaxKeys \in Nat /\ MaxTime \in Nat \ {0} /\ AccessTtl \in Nat \ {0}
        /\ ClockSkew \in Nat /\ DefaultOverlap \in Nat

VARIABLES
    pc,        \* pc[s]: where the start of s is, or "running" or "off"
    session,   \* session[s]: the connection of its transaction is alive
    holder,    \* who has the advisory lock
    mine,      \* mine[s]: the key that s generated, 0 for none
    keys,      \* keys[k]: the state of key k
    retired,   \* retired[k]: when k was retired
    issued,    \* issued[k]: since when no token was signed with k, 0 for never
    clock

vars == <<pc, session, holder, mine, keys, retired, issued, clock>>

-----------------------------------------------------------------------------

Keys == 1..MaxKeys
Locked == {"inspect", "generate", "activate", "validate", "commit"}
Active == {k \in Keys : keys[k] = "active"}

\* The policy: the overlap covers every token a retired key has signed.
OverlapDefault == DefaultOverlap

Overlap == Max({DefaultOverlap, AccessTtl + ClockSkew})

TypeOK ==
    /\ pc \in [Servers -> Locked \cup {"off", "begin", "lock", "running"}]
    /\ session \in [Servers -> BOOLEAN]
    /\ holder \in Servers \cup {NoOne}
    /\ mine \in [Servers -> 0..MaxKeys]
    /\ keys \in [Keys -> {"none", "candidate", "active", "retired", "removed"}]
    /\ retired \in [Keys -> 0..MaxTime]
    /\ issued \in [Keys -> 0..MaxTime]
    /\ clock \in 1..MaxTime

Init ==
    /\ pc = [s \in Servers |-> "off"]
    /\ session = [s \in Servers |-> FALSE]
    /\ holder = NoOne
    /\ mine = [s \in Servers |-> 0]
    /\ keys = [k \in Keys |-> "none"]
    /\ retired = [k \in Keys |-> 0]
    /\ issued = [k \in Keys |-> 0]
    /\ clock = 1

store == <<keys, retired, issued>>

-----------------------------------------------------------------------------
(* A start *)

Start(s) ==
    /\ pc[s] = "off"
    /\ pc' = [pc EXCEPT ![s] = "begin"]
    /\ mine' = [mine EXCEPT ![s] = 0]
    /\ UNCHANGED <<session, holder, store, clock>>

Begin(s) ==
    /\ pc[s] = "begin"
    /\ pc' = [pc EXCEPT ![s] = "lock"]
    /\ session' = [session EXCEPT ![s] = TRUE]
    /\ UNCHANGED <<holder, mine, store, clock>>

\* pg_advisory_xact_lock waits until the lock is free.
LockNotWaiting(s) ==
    /\ pc[s] = "lock" /\ session[s]
    /\ pc' = [pc EXCEPT ![s] = "inspect"]
    /\ UNCHANGED <<session, holder, mine, store, clock>>

Lock(s) ==
    /\ pc[s] = "lock" /\ session[s]
    /\ holder = NoOne
    /\ holder' = s
    /\ pc' = [pc EXCEPT ![s] = "inspect"]
    /\ UNCHANGED <<session, mine, store, clock>>

Inspect(s) ==
    /\ pc[s] = "inspect"
    /\ pc' = [pc EXCEPT ![s] = IF Active = {} THEN "generate" ELSE "validate"]
    /\ UNCHANGED <<session, holder, mine, store, clock>>

\* The store makes k the active key in place of any other (external).
MakeActive(k) ==
    /\ keys' = [l \in Keys |-> IF l = k THEN "active"
                               ELSE IF keys[l] = "active" THEN "retired" ELSE keys[l]]
    /\ retired' = [l \in Keys |-> IF l \in Active \ {k} THEN clock ELSE retired[l]]

\* A new key is stored, active already or as a candidate.
Generate(s) ==
    /\ pc[s] = "generate"
    /\ \E k \in Keys :
         /\ k = Cardinality({l \in Keys : keys[l] # "none"}) + 1
         /\ mine' = [mine EXCEPT ![s] = k]
         /\ \/ MakeActive(k) /\ pc' = [pc EXCEPT ![s] = "validate"]
            \/ /\ keys' = [keys EXCEPT ![k] = "candidate"] /\ UNCHANGED retired
               /\ pc' = [pc EXCEPT ![s] = "activate"]
    /\ UNCHANGED <<session, holder, issued, clock>>

Activate(s) ==
    /\ pc[s] = "activate"
    /\ MakeActive(mine[s])
    /\ pc' = [pc EXCEPT ![s] = "validate"]
    /\ UNCHANGED <<session, holder, mine, issued, clock>>

Validate(s) ==
    /\ pc[s] = "validate"
    /\ Active # {}
    /\ pc' = [pc EXCEPT ![s] = "commit"]
    /\ UNCHANGED <<session, holder, mine, store, clock>>

\* The commit ends the transaction, and with it the lock.
Release(s) ==
    /\ session' = [session EXCEPT ![s] = FALSE]
    /\ holder' = IF holder = s THEN NoOne ELSE holder

Commit(s) ==
    /\ pc[s] = "commit" /\ session[s]
    /\ pc' = [pc EXCEPT ![s] = "running"]
    /\ Release(s)
    /\ UNCHANGED <<mine, store, clock>>

\* A query fails, the transaction is dropped and the start with it; or the
\* process dies, starting or running.
Fail(s) ==
    /\ pc[s] # "off"
    /\ pc' = [pc EXCEPT ![s] = "off"]
    /\ Release(s)
    /\ UNCHANGED <<mine, store, clock>>

\* The database ends the connection: it takes the lock back, and the process
\* learns of it no sooner than at the commit.
LoseSession(s) ==
    /\ session[s]
    /\ Release(s)
    /\ UNCHANGED <<pc, mine, store, clock>>

-----------------------------------------------------------------------------
(* In service *)

\* A token is signed with the active key (external).
Issue(s) ==
    /\ pc[s] = "running"
    /\ \E k \in Active : issued' = [issued EXCEPT ![k] = clock]
    /\ UNCHANGED <<pc, session, holder, mine, keys, retired, clock>>

\* OAuthRuntime::cleanup: retired keys go once the overlap is over.
Cleanup(s) ==
    /\ pc[s] = "running"
    /\ keys' = [k \in Keys |-> IF keys[k] = "retired" /\ clock >= retired[k] + Overlap
                               THEN "removed" ELSE keys[k]]
    /\ keys' # keys
    /\ UNCHANGED <<pc, session, holder, mine, retired, issued, clock>>

Tick ==
    /\ clock < MaxTime
    /\ clock' = clock + 1
    /\ UNCHANGED <<pc, session, holder, mine, store>>

StartStep(s) == Start(s) \/ Begin(s) \/ Lock(s) \/ Inspect(s) \/ Generate(s)
                  \/ Activate(s) \/ Validate(s) \/ Commit(s)

Next ==
    \/ \E s \in Servers : StartStep(s) \/ Fail(s) \/ LoseSession(s) \/ Issue(s) \/ Cleanup(s)
    \/ Tick

Spec == Init /\ [][Next]_vars

-----------------------------------------------------------------------------
(* Properties *)

\* However many processes start at once, fail and start again: once one is in
\* service the active key is replaced only by a process that had found no key
\* and then lost its session, and with it the lock.
ActiveKeyStands ==
    [][(\E s \in Servers : pc[s] = "running") /\ (\E k \in Active : keys'[k] # "active") =>
          \E s \in Servers : pc[s] \in {"generate", "activate"} /\ pc'[s] = "validate"
                             /\ ~session[s]]_vars

\* A token can be verified as long as it is valid: the key that signed it is
\* active or retired and not yet removed, however keys were replaced
\* (access-authentication.md: "at least the access-token lifetime plus
\* Waltr's 30-second clock skew").
TokensVerify ==
    \A k \in Keys :
        issued[k] # 0 /\ clock < issued[k] + AccessTtl + ClockSkew
            => keys[k] \in {"active", "retired"}
=============================================================================
