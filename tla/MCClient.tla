------------------------------ MODULE MCClient ------------------------------
(***************************************************************************)
(* The running server for TLC, one of five parts, chosen at the start: the *)
(* operations of the client (ClientOperations), those that call a service  *)
(* (ServiceCalls), one REST exchange (RestExchange), the discovery of      *)
(* Thread routers on a websocket (ThreadRouters) and the process around    *)
(* them (Lifecycle).                                                       *)
(***************************************************************************)
EXTENDS ClientOperations, ServiceParts, ServerParts

CONSTANTS
    Racing,                               \* operations that are run at once
    RaceChanges                           \* bound on the changes during those

VARIABLE part

restVars == <<call, status, body, exchange, read, finished, outcomes, erred, returned, whole>>
threadVars == <<network, listening, asked, inbox, routers, discovery, moved, final, peak>>
lifeVars == <<main, exports, shut, agent, watch, cleanup, requests, active, counted>>
callVars ==
    <<reachable, revision, matching, permits, service, expected, progress, dispatched,
      response, sent, verdict, ran, authorized, altered>>
otherVars == <<restVars, threadVars, lifeVars>>
allVars == <<part, vars, callVars, otherVars>>

-----------------------------------------------------------------------------

\* A part that is not chosen stays at one of its initial states.
ClientRests == Init /\ ~exposed /\ matter = "none" /\ ~configured /\ \A c \in Callers : op[c] = "setup"
RestRests == Rest!Init /\ call = "get_json"
ThreadRests == Thread!Init /\ \A k \in Keys : network[k] = 0
OthersRest == RestRests /\ ThreadRests /\ Life!Init

\* Routers are alike, so that the known ones may as well be the first, and so are
\* revisions, so that the automation may as well be at the first.
ThreadInit == Thread!Init /\ \A k, l \in Keys : k < l => network[k] >= network[l]
CallsInit == Calls!Init /\ \A r \in Revisions : revision <= r

CallsRest ==
    /\ CallsInit /\ ~reachable /\ matching = 0
    /\ \A c \in Invokers : service[c] = "control" /\ expected[c] = revision

\* Every operation alone, in every world, or two operations at once.
First == CHOOSE c \in Callers : \A d \in Callers : c <= d
Alone == Init /\ \A c \in Callers \ {First} : op[c] = "setup"
AtOnce == Init /\ matter = "none" /\ \A c \in Callers : op[c] \in Racing

AllInit ==
    \/ part = "alone" /\ Alone /\ CallsRest /\ OthersRest
    \/ part = "at_once" /\ AtOnce /\ CallsRest /\ OthersRest
    \/ part = "calls" /\ ClientRests /\ CallsInit /\ OthersRest
    \/ part = "rest" /\ ClientRests /\ CallsRest /\ Rest!Init /\ ThreadRests /\ Life!Init
    \/ part = "thread" /\ ClientRests /\ CallsRest /\ RestRests /\ ThreadInit /\ Life!Init
    \/ part = "life" /\ ClientRests /\ CallsRest /\ OthersRest

\* Callers are alike, so that they may as well call in the order of their numbers.
InTurn == \A c, d \in Callers : c < d /\ pc'[d] # "idle" => pc'[c] # "idle"
CallsInTurn ==
    \A c, d \in Invokers : c < d /\ progress'[d] # "idle" => progress'[c] # "idle"

Client(A) ==
    /\ part \in {"alone", "at_once"} /\ A
    /\ UNCHANGED <<part, callVars, otherVars>>

Process(A) ==
    /\ part = "life" /\ A
    /\ UNCHANGED <<part, vars, callVars, restVars, threadVars>>

AllNext ==
    \/ Client(Next /\ part = "alone" /\ \A c \in Callers \ {First} : pc'[c] = "idle")
    \/ Client(Next /\ part = "at_once" /\ InTurn /\ changes' <= RaceChanges /\ matter' = matter)
    \/ part = "calls" /\ Calls!Next /\ CallsInTurn /\ UNCHANGED <<part, vars, otherVars>>
    \/ part = "rest" /\ Rest!Next /\ UNCHANGED <<part, vars, callVars, threadVars, lifeVars>>
    \/ part = "thread" /\ Thread!Next /\ UNCHANGED <<part, vars, callVars, restVars, lifeVars>>
    \/ Process(Life!Next)

\* The fairness of ClientOperations and of Lifecycle.
AllSpec ==
    /\ AllInit /\ [][AllNext]_allVars
    /\ \A c \in Callers :
          WF_allVars(Client(DeadlinePasses(c))) /\ WF_allVars(Client(Timeout(c)))
    /\ WF_allVars(Process(Life!Stop))
    /\ WF_allVars(Process(Life!LoopHead))
    /\ WF_allVars(Process(Life!SeeShutdown))
    /\ \A r \in Requests :
          WF_allVars(Process(\E o \in {"success", "error"} : Life!Respond(r, o)))

-----------------------------------------------------------------------------

\* Every call ends although Home Assistant is silent, and a signal ends the process
\* although the database or the profiler hangs.
NothingHangs == CallsEnd /\ Life!ShutdownEnds

=============================================================================
