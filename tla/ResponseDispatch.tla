-------------------------- MODULE ResponseDispatch --------------------------
(* The response engine and the agents together: ResponseEngine's threads
   broadcast a command (websocket_manager.broadcast_sync sends it on every
   open connection), each agent's CommandChannel takes the copies that reach
   it, and its status reports come back as POST /responses/{id}/status.

   The network may lose, delay, reorder and duplicate copies of a command (an
   agent that reconnected has two connections until the old one is removed);
   a report arrives once or is lost.                                         *)
EXTENDS ResponseEngine

CONSTANTS Threads, Host, Runnable, Dispatches, CacheLimit, MaxRestarts, MaxReceived

\* ChannelAssumption of the instance below
ASSUME DispatchAssumption ==
    /\ Host \in [Threads -> Devices]
    /\ Runnable \subseteq Kinds
    /\ CacheLimit \in Nat \ {0} /\ Dispatches \in Nat
    /\ MaxRestarts \in Nat /\ MaxReceived \in Nat

VARIABLES cache, tpc, cmd, executed, admitted, refused, forgotten, outbox,
          restarts, received

Channel == INSTANCE CommandChannel
           WITH Agents <- Devices, Ids <- ActionIds, Types <- Kinds

agentVars == <<cache, tpc, cmd, executed, admitted, refused, forgotten, restarts,
               received>>
allVars   == <<vars, agentVars, outbox>>

DispatchInit == Init /\ Channel!ChannelInit

\* One copy of the n-th broadcast of action a reaches thread t of some agent:
\* broadcast does not select the target's connection.
Deliver(t, a, n) ==
    /\ n <= sent[a]
    /\ Channel!Receive(t, [id |-> a, type |-> target[a][2], n |-> n])
    /\ UNCHANGED vars

\* A report arrives at the backend and a request thread takes it.
Callback(h, r) ==
    /\ StatusCallback(h, r.id, r.status) /\ Alone(h)
    /\ outbox' = outbox \ {r}
    /\ UNCHANGED agentVars

Backend(h) ==
    /\ \/ Step(h) \/ Abort(h)
       \/ \E d \in Devices, k \in Kinds : Trigger(h, d, k)
       \/ \E a \in ActionIds : Retry(h, a) \/ Cancel(h, a)
    /\ Alone(h)
    /\ UNCHANGED <<agentVars, outbox>>

Agent ==
    /\ \/ \E t \in Threads : Channel!Process(t)
       \/ \E g \in Devices : Channel!Restart(g)
    /\ UNCHANGED vars

DispatchNext ==
    \/ \E h \in Handlers : Backend(h) \/ \E r \in outbox : Callback(h, r)
    \/ \E t \in Threads, a \in ActionIds, n \in 1..Dispatches : Deliver(t, a, n)
    \/ Agent

DispatchSpec == DispatchInit /\ [][DispatchNext]_allVars

-----------------------------------------------------------------------------
\* FAILED is never the backend's own word (its dispatch cannot fail): an agent
\* ran the action and it failed there, however reports and handlers overtook
\* each other.
FailureIsReal ==
    \A a \in ActionIds : status[a] = "FAILED" =>
        /\ target[a][2] \notin Runnable
        /\ \E g \in Devices : executed[g][a] > 0

\* An agent runs an action only after the backend broadcast it and opened its
\* trail, or while the thread that will open it is still there (a retry may
\* overtake it) or after it died; the row then names a device and a type.
OnlyDispatchedRuns ==
    \A g \in Devices, a \in ActionIds : executed[g][a] > 0 =>
        /\ sent[a] > 0
        /\ \/ \E i \in 1..Len(audit[a]) : audit[a][i] = "INITIATED"
           \/ a \in orphaned
           \/ \E h \in Handlers : Acts(h) = a /\ pc[h] = "initiated"

-----------------------------------------------------------------------------
(* What the documents say of the pair.                                       *)

\* A reported failure stands until an operator retries or cancels the action.
FailureStands ==
    [][\A a \in ActionIds : status[a] = "FAILED" => status'[a] # "SUCCESS"]_allVars

\* A retry re-dispatches the action for execution: no agent turns it away.
RetryAdmitted ==
    \A g \in Devices : refused[g] \subseteq admitted[g]
=============================================================================
