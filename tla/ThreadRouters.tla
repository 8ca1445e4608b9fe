--------------------------- MODULE ThreadRouters ---------------------------
(***************************************************************************)
(* Discovery of Thread border routers over one Home Assistant websocket:   *)
(* thread_routers and apply_router_event of home_assistant/client.rs.      *)
(*                                                                         *)
(* The client subscribes, follows events for a while, unsubscribes and     *)
(* reads on until the answer to that.  Home Assistant reports the routers  *)
(* it knows and every change while the subscription lasts, in order, on    *)
(* the same connection as its answers; the first events may come before    *)
(* the answer to the subscription, the last ones after the unsubscription  *)
(* was sent.                                                               *)
(***************************************************************************)
EXTENDS Naturals, Sequences, FiniteSets

CONSTANTS
    Keys,        \* router keys
    Data,        \* what is known of a router; a later event may change it
    None,        \* no such router
    MaxRouters,  \* MAX_THREAD_ITEMS
    MaxChanges   \* bound on the changes of the network

DataAssumption == None \notin Data
LimitsAssumption == IsFiniteSet(Keys) /\ MaxRouters \in Nat /\ MaxChanges \in Nat

VARIABLES
    network,   \* network[k]: what Home Assistant knows of router k
    listening, \* the subscription is in force
    asked,     \* the client's commands Home Assistant has not processed
    inbox,     \* messages on their way to the client
    routers,   \* routers[k]: what the client has recorded of k
    pc,        \* where the client is
    changes,   \* changes of the network so far
    final,     \* history: the network when the subscription ended
    peak       \* history: the most routers known at a time while subscribed

vars == <<network, listening, asked, inbox, routers, pc, changes, final, peak>>

-----------------------------------------------------------------------------

Routers == [Keys -> Data \cup {None}]
NoRouters == [k \in Keys |-> None]
Known(r) == {k \in Keys : r[k] # None}

\* data is None in the event of a router's removal.
Events == [type : {"event"}, key : Keys, data : Data \cup {None}]
Results == [type : {"subscribed", "unsubscribed", "rejected"}]
Event(k, d) == [type |-> "event", key |-> k, data |-> d]
Result(t) == [type |-> t]

TypeOK ==
    /\ network \in Routers /\ routers \in Routers /\ final \in Routers
    /\ listening \in BOOLEAN
    /\ asked \in Seq({"subscribe", "unsubscribe"})
    /\ inbox \in Seq(Events \cup Results)
    /\ pc \in {"start", "subscribing", "following", "leaving", "done", "RequestRejected",
               "ResponseTooLarge", "UpstreamUnavailable", "Timeout"}
    /\ changes \in 0..MaxChanges
    /\ peak \in 0..Cardinality(Keys)

Running == pc \in {"start", "subscribing", "following", "leaving"}

-----------------------------------------------------------------------------
(* The client *)

Ask(from, command, to) ==
    /\ pc = from
    /\ pc' = to
    /\ asked' = Append(asked, command)
    /\ UNCHANGED <<network, listening, inbox, routers, changes, final, peak>>

Subscribe == Ask("start", "subscribe", "subscribing")

\* The deadline of the discovery, not of the operation.
Unsubscribe == Ask("following", "unsubscribe", "leaving")

\* Mutant of Apply: the event is recorded as it came, not normalized.
ApplyRaw(m, p) == routers' = [routers EXCEPT ![m.key] = m] /\ pc' = p

\* Mutant of Apply: the late events of the third loop are read and dropped.
ApplyInTime(m, p) ==
    LET seen == IF p = "leaving" THEN routers ELSE [routers EXCEPT ![m.key] = m.data]
    IN  /\ routers' = seen
        /\ pc' = IF Cardinality(Known(seen)) > MaxRouters THEN "ResponseTooLarge" ELSE p

\* Mutant of Apply: the limit is checked against what was known before.
ApplyLate(m, p) ==
    /\ routers' = [routers EXCEPT ![m.key] = m.data]
    /\ pc' = IF Cardinality(Known(routers)) > MaxRouters THEN "ResponseTooLarge" ELSE p

\* apply_router_event; a discovery that makes too many routers fails.
Apply(m, p) ==
    LET seen == [routers EXCEPT ![m.key] = m.data]
    IN  /\ routers' = seen
        /\ pc' = IF Cardinality(Known(seen)) > MaxRouters THEN "ResponseTooLarge" ELSE p

\* One message, in any of the three loops.
Receive ==
    /\ pc \in {"subscribing", "following", "leaving"}
    /\ inbox # <<>>
    /\ LET m == Head(inbox)
       IN  \/ m.type = "event" /\ Apply(m, pc)
           \/ m.type = "subscribed" /\ pc' = "following" /\ UNCHANGED routers
           \/ m.type = "unsubscribed" /\ pc' = "done" /\ UNCHANGED routers
           \/ m.type = "rejected" /\ pc' = "RequestRejected" /\ UNCHANGED routers
    /\ inbox' = Tail(inbox)
    /\ UNCHANGED <<network, listening, asked, changes, final, peak>>

\* The connection breaks, or the deadline of the whole operation passes.
Abandon ==
    /\ Running
    /\ pc' \in {"UpstreamUnavailable", "Timeout"}
    /\ UNCHANGED <<network, listening, asked, inbox, routers, changes, final, peak>>

-----------------------------------------------------------------------------
(* Home Assistant *)

\* One event per known router, in any order.
Reports(r) ==
    {s \in [1..Cardinality(Known(r)) -> {Event(k, r[k]) : k \in Known(r)}] :
        \A i, j \in DOMAIN s : s[i] = s[j] => i = j}

Peak(n) == IF Cardinality(Known(n)) > peak THEN Cardinality(Known(n)) ELSE peak

Accept ==
    /\ asked # <<>> /\ Head(asked) = "subscribe"
    /\ listening' = TRUE
    /\ \E s \in Reports(network), n \in 0..Cardinality(Known(network)) :
          inbox' = inbox \o SubSeq(s, 1, n) \o <<Result("subscribed")>>
                         \o SubSeq(s, n + 1, Len(s))
    /\ asked' = Tail(asked)
    /\ peak' = Peak(network)
    /\ UNCHANGED <<network, routers, pc, changes, final>>

Reject ==
    /\ asked # <<>>
    /\ inbox' = Append(inbox, Result("rejected"))
    /\ asked' = Tail(asked)
    /\ UNCHANGED <<network, listening, routers, pc, changes, final, peak>>

Release ==
    /\ asked # <<>> /\ Head(asked) = "unsubscribe"
    /\ listening' = FALSE
    /\ inbox' = Append(inbox, Result("unsubscribed"))
    /\ asked' = Tail(asked)
    /\ final' = network
    /\ UNCHANGED <<network, routers, pc, changes, peak>>

\* A router appears, changes or disappears.
Change ==
    /\ changes < MaxChanges /\ changes' = changes + 1
    /\ \E k \in Keys, d \in Data \cup {None} :
          /\ d # network[k]
          /\ network' = [network EXCEPT ![k] = d]
          /\ inbox' = IF listening THEN Append(inbox, Event(k, d)) ELSE inbox
    /\ peak' = IF listening THEN Peak(network') ELSE peak
    /\ UNCHANGED <<listening, asked, routers, pc, final>>

-----------------------------------------------------------------------------

Init ==
    /\ network \in Routers
    /\ listening = FALSE /\ asked = <<>> /\ inbox = <<>>
    /\ routers = NoRouters /\ pc = "start"
    /\ changes = 0 /\ final = NoRouters /\ peak = 0

Next ==
    \/ Subscribe \/ Unsubscribe \/ Receive \/ Abandon
    \/ Accept \/ Reject \/ Release \/ Change

Spec == Init /\ [][Next]_vars

-----------------------------------------------------------------------------
(* Properties *)

\* A discovery that succeeds returns the routers Home Assistant knew when the
\* subscription ended: no event is lost or applied twice, whether it came before
\* the answer to the subscription or after the unsubscription was sent.
DiscoveryIsExact == pc = "done" => routers = final

\* The limit is exceeded only if it really was: a router that came and went does
\* not count twice, and a discovery that succeeds never had more to record.
LimitIsExact ==
    /\ pc = "done" => peak <= MaxRouters
    /\ pc = "ResponseTooLarge" => peak > MaxRouters

=============================================================================
