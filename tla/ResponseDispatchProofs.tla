------------------------ MODULE ResponseDispatchProofs ------------------------
(* Proofs about ResponseDispatch, for any number of threads, devices, actions,
   agents and messages, and for any bounds.  The lemmas of the two components
   are used as they are: those of the engine because it is extended, those of
   the command channel because its proofs are instantiated.                  *)
EXTENDS ResponseDispatch, ResponseEngineProofs

Proven == INSTANCE CommandChannelProofs
          WITH Agents <- Devices, Ids <- ActionIds, Types <- Kinds

-----------------------------------------------------------------------------
(* What relates the two sides.                                               *)

\* An agent ran action a, of a type that it cannot run.
Blamed(a) == target[a][2] \notin Runnable /\ \E g \in Devices : executed[g][a] > 0

\* The trail of a is begun, its thread is about to, or it died.
Opened(a) ==
    \/ \E i \in 1..Len(audit[a]) : audit[a][i] = "INITIATED"
    \/ a \in orphaned
    \/ \E h \in Handlers : Acts(h) = a /\ pc[h] = "initiated"

\* A thread past the dispatch holds an action that exists; what exists is
\* opened, and what was sent exists.
BackendInv ==
    /\ \A a \in ActionIds : Exists(a) => Opened(a)
    /\ \A a \in ActionIds : sent[a] > 0 => Exists(a)

\* What an agent holds or ran was sent, and says what the row says.
AgentInv ==
    /\ \A t \in Threads : tpc[t] # "idle" =>
          sent[cmd[t].id] > 0 /\ cmd[t].type = target[cmd[t].id][2]
    /\ \A t \in Threads : tpc[t] = "report" => executed[Host[t]][cmd[t].id] > 0
    /\ \A g \in Devices, a \in ActionIds : executed[g][a] > 0 => sent[a] > 0

\* A failure under way, to the backend or in one of its threads, is an agent's.
BlameInv ==
    /\ \A r \in outbox : r.status = "FAILED" => Blamed(r.id)
    /\ \A h \in Handlers : req[h].goal = "FAILED" =>
          pc[h] \in {"commit", "outcome"} /\ Blamed(Acts(h))
    /\ \A a \in ActionIds : status[a] = "FAILED" => Blamed(a)

DispatchInv ==
    /\ ThreadsTypeOK /\ Proven!ChannelInv
    /\ BackendInv /\ AgentInv /\ BlameInv

-----------------------------------------------------------------------------
(* Steps of the backend                                                      *)

\* No step takes back an action, its target or a broadcast.
LEMMA RowsKept ==
    ASSUME ThreadsTypeOK, [Next]_vars, NEW a \in ActionIds
    PROVE  /\ Exists(a) => Exists(a)' /\ target'[a] = target[a]
           /\ sent[a] > 0 => sent'[a] > 0
<1> USE DEF rowVars, boundVars, Exists, WriteStatus
<1>0. Status \cap {"ABSENT"} = {} /\ "RUNNING" # "ABSENT" /\ Outcomes \subseteq Status
  BY Literals
<1>1. CASE UNCHANGED vars
  BY <1>1 DEF vars
<1>2. CASE \E h \in Handlers : Insert(h)
  BY <1>2 DEF Insert, ThreadsTypeOK
<1>3. CASE \E h \in Handlers : UpdateCommit(h)
  <2>1. PICK h \in Handlers : UpdateCommit(h)
    BY <1>3
  <2>2. req[h].goal # "ABSENT"
    BY DEF ThreadsTypeOK, Requests, Outcomes
  <2> QED
    BY <2>1, <2>2 DEF UpdateCommit, ThreadsTypeOK
<1>4. CASE \E h \in Handlers : MarkRunning(h) \/ RetryCommit(h) \/ CancelCommit(h)
  BY <1>4 DEF MarkRunning, RetryCommit, CancelCommit, ThreadsTypeOK
<1>5. CASE \E h \in Handlers : Dispatch(h)
  BY <1>5 DEF Dispatch, ThreadsTypeOK
<1>6. CASE \E h \in Handlers : AuditInitiated(h) \/ MarkLoad(h) \/ Acknowledge(h) \/ UpdateLoad(h)
                                 \/ AuditOutcome(h) \/ Abort(h)
  BY <1>6 DEF AuditInitiated, MarkLoad, Acknowledge, UpdateLoad, AuditOutcome, Abort
<1>7. CASE \E h \in Handlers : Request(h)
  BY <1>7 DEF Request, Trigger, StatusCallback, Retry, Cancel
<1> QED
  BY <1>1, <1>2, <1>3, <1>4, <1>5, <1>6, <1>7 DEF Next, Step

\* An entry stays in the trail, and a dead thread's action stays orphaned.
LEMMA TrailKept ==
    ASSUME ThreadsTypeOK, [Next]_vars, NEW a \in ActionIds
    PROVE  /\ orphaned \subseteq orphaned'
           /\ (\E i \in 1..Len(audit[a]) : audit[a][i] = "INITIATED")
                => \E i \in 1..Len(audit'[a]) : audit'[a][i] = "INITIATED"
<1> USE DEF rowVars, boundVars
<1>0. audit[a] \in Seq(Stages)
  BY DEF ThreadsTypeOK
<1>1. CASE audit' = audit
  <2>1. orphaned \subseteq orphaned'
    BY DEF vars, Next, Step, Request, Insert, AuditInitiated, MarkLoad, MarkRunning, Dispatch,
           Acknowledge, UpdateLoad, UpdateCommit, AuditOutcome, RetryCommit, CancelCommit, Abort,
           Trigger, StatusCallback, Retry, Cancel
  <2> QED
    BY <1>1, <2>1
<1>2. ASSUME NEW h \in Handlers, NEW stage, Log(h, stage), orphaned' = orphaned
      PROVE  /\ orphaned \subseteq orphaned'
             /\ (\E i \in 1..Len(audit[a]) : audit[a][i] = "INITIATED")
                  => \E i \in 1..Len(audit'[a]) : audit'[a][i] = "INITIATED"
  <2>1. audit'[a] = audit[a] \/ audit'[a] = Append(audit[a], stage)
    BY <1>2 DEF Log, ThreadsTypeOK
  <2>2. CASE audit'[a] = Append(audit[a], stage)
    <3>1. /\ Len(audit'[a]) = Len(audit[a]) + 1 /\ Len(audit[a]) \in Nat
          /\ \A i \in 1..Len(audit[a]) : audit'[a][i] = audit[a][i]
      BY <1>0, <2>2
    <3> QED
      BY <1>2, <3>1
  <2> QED
    BY <1>2, <2>1, <2>2
<1>3. audit' = audit \/ \E h \in Handlers, stage \in Stages : Log(h, stage) /\ orphaned' = orphaned
  BY Literals DEF vars, Next, Step, Request, Insert, AuditInitiated, MarkLoad, MarkRunning, Dispatch,
         Acknowledge, UpdateLoad, UpdateCommit, AuditOutcome, RetryCommit, CancelCommit, Abort,
         Trigger, StatusCallback, Retry, Cancel, ThreadsTypeOK, Requests
<1> QED
  BY <1>1, <1>2, <1>3

LEMMA BackendStep ==
    ASSUME ThreadsTypeOK, BackendInv, [Next]_vars
    PROVE  BackendInv'
<1> USE DEF rowVars, boundVars
<1>1. ASSUME NEW a \in ActionIds, sent'[a] > 0 PROVE Exists(a)'
  <2>1. CASE sent[a] > 0
    BY <2>1, RowsKept DEF BackendInv
  <2>2. CASE ~(sent[a] > 0)
    <3>1. PICK h \in Handlers : Dispatch(h) /\ Acts(h) = a
      BY <1>1, <2>2 DEF vars, Next, Step, Request, Insert, AuditInitiated, MarkLoad, MarkRunning, Dispatch,
         Acknowledge, UpdateLoad, UpdateCommit, AuditOutcome, RetryCommit, CancelCommit, Abort,
         Trigger, StatusCallback, Retry, Cancel, ThreadsTypeOK
    <3>2. Exists(a)
      BY <3>1 DEF Dispatch, Move, ThreadsTypeOK
    <3> QED
      BY <3>2, RowsKept
  <2> QED
    BY <2>1, <2>2
<1>2. ASSUME NEW a \in ActionIds, Exists(a)' PROVE Opened(a)'
  <2>1. CASE Exists(a) /\ ~(\E h \in Handlers : Acts(h) = a /\ pc[h] = "initiated")
    <3>1. Opened(a)
      BY <2>1 DEF BackendInv
    <3> QED
      BY <2>1, <3>1, TrailKept DEF Opened
  <2>2. ASSUME NEW h \in Handlers, Acts(h) = a, pc[h] = "initiated" PROVE Opened(a)'
    <3>1. CASE pc'[h] = pc[h] /\ req'[h] = req[h]
      BY <2>2, <3>1 DEF Opened, Acts
    <3>2. CASE AuditInitiated(h)
      <4>1. audit'[a] = Append(audit[a], "INITIATED") /\ audit[a] \in Seq(Stages)
        BY <2>2, <3>2 DEF AuditInitiated, Log, ThreadsTypeOK
      <4>2. /\ Len(audit'[a]) = Len(audit[a]) + 1 /\ Len(audit[a]) \in Nat
            /\ audit'[a][Len(audit[a]) + 1] = "INITIATED"
        BY <4>1
      <4>3. Len(audit[a]) + 1 \in 1..Len(audit'[a])
        BY <4>2
      <4> QED
        BY <4>2, <4>3 DEF Opened
    <3>3. CASE Abort(h)
      <4>1. a \in orphaned'
        BY <2>2, <3>3, EngineAssumption DEF Abort
      <4> QED
        BY <4>1 DEF Opened
    <3>4. (pc'[h] = pc[h] /\ req'[h] = req[h]) \/ AuditInitiated(h) \/ Abort(h)
      BY <2>2 DEF vars, Next, Step, Request, Insert, AuditInitiated, MarkLoad, MarkRunning, Dispatch,
         Acknowledge, UpdateLoad, UpdateCommit, AuditOutcome, RetryCommit, CancelCommit, Abort,
         Trigger, StatusCallback, Retry, Cancel, ThreadsTypeOK, Move, Open, Load, Finish
    <3> QED
      BY <3>1, <3>2, <3>3, <3>4
  <2>3. CASE ~Exists(a)
    <3>1. ASSUME NEW h \in Handlers,
                 MarkRunning(h) \/ UpdateCommit(h) \/ RetryCommit(h) \/ CancelCommit(h)
          PROVE  Exists(a)
      <4>1. Exists(Acts(h)) /\ Acts(h) \in ActionIds
        BY <3>1 DEF MarkRunning, UpdateCommit, RetryCommit, CancelCommit, Move, Finish, ThreadsTypeOK
      <4>2. status' = status \/ \E s : status' = [status EXCEPT ![Acts(h)] = s]
        BY <3>1 DEF MarkRunning, UpdateCommit, RetryCommit, CancelCommit, WriteStatus
      <4> QED
        BY <1>2, <4>1, <4>2 DEF Exists, ThreadsTypeOK
    <3>2. CASE status' = status
      BY <1>2, <2>3, <3>2 DEF Exists
    <3>3. ASSUME NEW h \in Handlers, Insert(h) PROVE Opened(a)'
      <4>1. req'[h].act = a
        BY <1>2, <2>3, <3>3 DEF Insert, Exists, ThreadsTypeOK, Requests
      <4>2. pc'[h] = "initiated"
        BY <3>3 DEF Insert, Move, ThreadsTypeOK
      <4> QED
        BY <4>1, <4>2 DEF Opened, Acts
    <3> QED
      BY <2>3, <3>1, <3>2, <3>3
      DEF vars, Next, Step, Request, AuditInitiated, MarkLoad, Dispatch, Acknowledge, UpdateLoad,
          AuditOutcome, Abort, Trigger, StatusCallback, Retry, Cancel
  <2> QED
    BY <2>1, <2>2, <2>3
<1> QED
  BY <1>1, <1>2 DEF BackendInv

-----------------------------------------------------------------------------
(* Blame through a step of the backend                                       *)

\* The step is one of the engine, and the agents rest.
LEMMA MoveIsNext ==
    ASSUME Proven!ChannelInv, NEW h \in Handlers, Backend(h) \/ \E r \in outbox : Callback(h, r)
    PROVE  [Next]_vars /\ UNCHANGED agentVars /\ outbox' \subseteq outbox
<1>1. CASE Backend(h)
  BY <1>1, Zenon DEF Backend, Next, Request
<1>2. ASSUME NEW r \in outbox, Callback(h, r) PROVE Next /\ UNCHANGED agentVars /\ outbox' \subseteq outbox
  <2>1. r.id \in ActionIds /\ r.status \in Outcomes
    BY DEF Proven!ChannelInv, Proven!ChannelTypeOK, Proven!Report, Outcomes
  <2>2. Request(h) /\ Alone(h)
    BY <1>2, <2>1, Zenon DEF Callback, Request
  <2> QED
    BY <1>2, <2>2 DEF Callback, Next
<1> QED
  BY <1>1, <1>2

LEMMA BlameKept ==
    ASSUME ThreadsTypeOK, BackendInv, AgentInv, [Next]_vars, executed' = executed,
           NEW a \in ActionIds, Blamed(a)
    PROVE  Blamed(a)'
<1>1. Exists(a)
  BY DEF Blamed, AgentInv, BackendInv
<1> QED
  BY <1>1, RowsKept DEF Blamed

LEMMA BlameMove ==
    ASSUME ThreadsTypeOK, BackendInv, AgentInv, BlameInv, Proven!ChannelInv,
           NEW h \in Handlers, Backend(h) \/ \E r \in outbox : Callback(h, r)
    PROVE  BlameInv'
<1> USE DEF rowVars, boundVars, Acts, Move, Finish
<1>1. [Next]_vars /\ executed' = executed /\ outbox' \subseteq outbox
  BY MoveIsNext DEF agentVars
<1>2. \A a \in ActionIds : Blamed(a) => Blamed(a)'
  BY <1>1, BlameKept
<1>3. \A r \in outbox : r.id \in ActionIds /\ r.status \in Outcomes
  BY DEF Proven!ChannelInv, Proven!ChannelTypeOK, Proven!Report, Outcomes
<1>4. \A r \in outbox' : r.status = "FAILED" => Blamed(r.id)'
  BY <1>1, <1>2, <1>3 DEF BlameInv
<1>5. ASSUME NEW g \in Handlers, req'[g].goal = "FAILED"
      PROVE  pc'[g] \in {"commit", "outcome"} /\ Blamed(Acts(g))'
  <2>1. CASE pc'[g] = pc[g] /\ req'[g] = req[g]
    <3>1. Acts(g) \in ActionIds /\ Acts(g)' = Acts(g)
      BY <1>5, <2>1 DEF BlameInv, ThreadsTypeOK
    <3>2. pc'[g] \in {"commit", "outcome"} /\ Blamed(Acts(g))
      BY <1>5, <2>1 DEF BlameInv
    <3>3. Blamed(Acts(g))'
      BY <1>2, <3>1, <3>2 DEF Blamed
    <3> QED
      BY <3>2, <3>3
  <2>2. CASE UpdateCommit(g)
    <3>1. pc'[g] = "outcome" /\ req' = req /\ pc[g] = "commit"
      BY <2>2 DEF UpdateCommit, ThreadsTypeOK
    <3>2. req[g].act \in ActionIds /\ Blamed(req[g].act)
      BY <1>5, <3>1 DEF BlameInv, ThreadsTypeOK
    <3>3. Blamed(req[g].act)'
      BY <1>2, <3>1, <3>2 DEF Blamed
    <3> QED
      BY <3>1, <3>3
  <2>3. ASSUME NEW r \in outbox, StatusCallback(g, r.id, r.status)
        PROVE  pc'[g] \in {"commit", "outcome"} /\ Blamed(Acts(g))'
    <3>1. pc'[g] = "commit" /\ req'[g].act = r.id /\ req'[g].goal = r.status
      BY <2>3 DEF StatusCallback, Open, ThreadsTypeOK
    <3>2. Blamed(r.id)
      BY <1>5, <3>1 DEF BlameInv
    <3>3. Blamed(r.id)'
      BY <1>2, <1>3, <3>2
    <3> QED
      BY <3>1, <3>3 DEF Blamed
  <2>4. CASE \/ Insert(g) \/ MarkLoad(g) \/ UpdateLoad(g) \/ \E d \in Devices, k \in Kinds : Trigger(g, d, k)
    <3>1. req'[g].goal = req[g].goal /\ pc[g] \in {"insert", "mark", "load", "idle"}
      BY <2>4 DEF Insert, MarkLoad, UpdateLoad, Load, Trigger, ThreadsTypeOK, Requests
    <3> QED
      BY <1>5, <3>1 DEF BlameInv
  <2>5. CASE \/ AuditInitiated(g) \/ MarkRunning(g) \/ Dispatch(g) \/ RetryCommit(g)
    <3>1. req' = req /\ pc[g] \in {"initiated", "marking", "dispatch", "retrying"}
      BY <2>5 DEF AuditInitiated, MarkRunning, Dispatch, RetryCommit
    <3> QED
      BY <1>5, <3>1 DEF BlameInv
  <2>6. CASE \/ Acknowledge(g) \/ AuditOutcome(g) \/ CancelCommit(g) \/ Abort(g)
             \/ \E a \in ActionIds : Retry(g, a) \/ Cancel(g, a)
    <3>1. req'[g].goal = "SUCCESS"
      BY <2>6 DEF Acknowledge, AuditOutcome, CancelCommit, Abort, Retry, Cancel, Open, Idle,
                  ThreadsTypeOK, Requests
    <3> QED
      BY <1>5, <3>1
  <2>7. CASE g # h
    <3>1. \E to, q : pc' = [pc EXCEPT ![h] = to] /\ (req' = req \/ req' = [req EXCEPT ![h] = q])
      BY DEF Backend, Callback, Step, Insert, AuditInitiated, MarkLoad, MarkRunning, Dispatch,
         Acknowledge, UpdateLoad, UpdateCommit, AuditOutcome, RetryCommit, CancelCommit, Abort,
         Trigger, StatusCallback, Retry, Cancel, Open, Load
    <3>2. pc'[g] = pc[g] /\ req'[g] = req[g]
      BY <2>7, <3>1 DEF ThreadsTypeOK
    <3> QED
      BY <2>1, <3>2
  <2> QED
    BY <2>2, <2>3, <2>4, <2>5, <2>6, <2>7 DEF Backend, Callback, Step
<1>6. ASSUME NEW a \in ActionIds, status'[a] = "FAILED" PROVE Blamed(a)'
  <2>1. CASE status[a] = "FAILED"
    BY <1>2, <2>1 DEF BlameInv
  <2>2. CASE status[a] # "FAILED"
    <3>1. UpdateCommit(h) /\ req[h].goal = "FAILED" /\ Acts(h) = a
      BY <1>6, <2>2 DEF Backend, Callback, Step, Insert, AuditInitiated, MarkLoad, MarkRunning, Dispatch,
         Acknowledge, UpdateLoad, UpdateCommit, AuditOutcome, RetryCommit, CancelCommit, Abort,
         Trigger, StatusCallback, Retry, Cancel, WriteStatus, ThreadsTypeOK
    <3> QED
      BY <1>2, <3>1 DEF BlameInv
  <2> QED
    BY <2>1, <2>2
<1> QED
  BY <1>4, <1>5, <1>6 DEF BlameInv

\* The agents' invariants through a step of the backend, which leaves them alone.
LEMMA AgentsRest ==
    ASSUME ThreadsTypeOK, BackendInv, AgentInv, Proven!ChannelInv, [Next]_vars,
           UNCHANGED agentVars, outbox' \subseteq outbox
    PROVE  AgentInv' /\ Proven!ChannelInv'
<1> USE DEF agentVars
<1>1. Proven!ChannelInv'
  BY DEF Proven!ChannelInv, Proven!ChannelTypeOK, Proven!Once, Proven!Running
<1>2. \A t \in Threads : tpc[t] # "idle" => cmd[t].id \in ActionIds
  BY DEF Proven!ChannelInv, Proven!ChannelTypeOK, Proven!Message
<1>3. \A a \in ActionIds : sent[a] > 0 => sent'[a] > 0 /\ target'[a] = target[a]
  BY RowsKept DEF BackendInv
<1>4. AgentInv'
  BY <1>2, <1>3 DEF AgentInv
<1> QED
  BY <1>1, <1>4

-----------------------------------------------------------------------------
(* Steps of the agents                                                       *)

\* Both instances of the channel count alike.
LEMMA SameCardinality == \A S : Channel!Cardinality(S) = Proven!Cardinality(S)
  BY Zenon DEF Channel!Cardinality, Proven!Cardinality

\* A step of an agent, or a copy of a broadcast that reaches it, is a step of
\* the command channel and leaves the backend alone.
AgentStep == Agent \/ \E t \in Threads, a \in ActionIds, n \in 1..Dispatches : Deliver(t, a, n)

LEMMA DeliveryIsMessage ==
    ASSUME ThreadsTypeOK, BackendInv, NEW a \in ActionIds, NEW n \in 1..Dispatches, n <= sent[a]
    PROVE  [id |-> a, type |-> target[a][2], n |-> n] \in Proven!Message
<1>1. sent[a] > 0
  BY DEF ThreadsTypeOK
<1>2. target[a] \in Devices \X Kinds
  BY <1>1 DEF BackendInv, ThreadsTypeOK
<1> QED
  BY <1>2 DEF Proven!Message

Delivered(t) ==
    \E a \in ActionIds, n \in 1..Dispatches :
        n <= sent[a] /\ Proven!Receive(t, [id |-> a, type |-> target[a][2], n |-> n])

LEMMA ProcessIsProven ==
    ASSUME NEW t \in Threads, Channel!Process(t)
    PROVE  Proven!Process(t)
<1>1. CASE \/ Channel!RefuseReplay(t) \/ Channel!RefuseStale(t) \/ Channel!Execute(t)
           \/ \E delivered \in BOOLEAN : Channel!ReportStatus(t, delivered)
  <2>1. \/ Proven!RefuseReplay(t) \/ Proven!RefuseStale(t) \/ Proven!Execute(t)
        \/ \E delivered \in BOOLEAN : Proven!ReportStatus(t, delivered)
    BY <1>1 DEF Channel!RefuseReplay, Channel!RefuseStale, Channel!Execute,
         Channel!ReportStatus, Channel!Verdict, Channel!At, Channel!None,
         Proven!RefuseReplay, Proven!RefuseStale, Proven!Execute,
         Proven!ReportStatus, Proven!Verdict, Proven!At, Proven!None
  <2> QED
    BY <2>1, Zenon DEF Proven!Process
<1>2. CASE Channel!Remember(t)
  <2> DEFINE g == Host[t]
             id == cmd[t].id
  <2>1. PICK c \in Channel!Remembered(g, id) :
          /\ cache' = [cache EXCEPT ![g] = c]
          /\ forgotten' = [forgotten EXCEPT ![g] = @ \cup ((cache[g] \cup {id}) \ c)]
    BY <1>2, Zenon DEF Channel!Remember
  <2>2. c \in Proven!Remembered(g, id)
    BY <2>1, SameCardinality DEF Channel!Remembered, Proven!Remembered
  <2>3. /\ id \notin cache[g] /\ Proven!At(t, "replay", "age")
        /\ admitted' = [admitted EXCEPT ![g] = @ \cup {cmd[t]}]
        /\ UNCHANGED <<cmd, executed, refused, outbox, restarts, received>>
    BY <1>2 DEF Channel!Remember, Channel!At, Proven!At
  <2>4. Proven!Remember(t)
    BY <2>1, <2>2, <2>3, Zenon DEF Proven!Remember
  <2> QED
    BY <2>4, Zenon DEF Proven!Process
<1> QED
  BY <1>1, <1>2, Zenon DEF Channel!Process

LEMMA AgentIsChannel ==
    ASSUME AgentStep
    PROVE  /\ UNCHANGED vars
           /\ \/ \E t \in Threads : Proven!Process(t) \/ Delivered(t)
              \/ \E g \in Devices : Proven!Restart(g)
<1>1. ASSUME NEW t \in Threads, NEW a \in ActionIds, NEW n \in 1..Dispatches, Deliver(t, a, n)
      PROVE  UNCHANGED vars /\ Delivered(t)
  <2>1. UNCHANGED vars /\ n <= sent[a]
        /\ Proven!Receive(t, [id |-> a, type |-> target[a][2], n |-> n])
    BY <1>1 DEF Deliver, Channel!Receive, Proven!Receive, Channel!At, Proven!At
  <2> QED
    BY <2>1, Zenon DEF Delivered
<1>2. ASSUME NEW g \in Devices, Channel!Restart(g)
      PROVE  Proven!Restart(g)
  BY <1>2 DEF Channel!Restart, Proven!Restart, Channel!None, Proven!None
<1> QED
  BY <1>1, <1>2, ProcessIsProven, Zenon DEF AgentStep, Agent

LEMMA AgentIsNext ==
    ASSUME ThreadsTypeOK, BackendInv, AgentStep
    PROVE  Proven!ChannelNext
<1>1. ASSUME NEW t \in Threads, Delivered(t) PROVE \E m \in Proven!Message : Proven!Receive(t, m)
  <2>1. PICK a \in ActionIds, n \in 1..Dispatches :
            n <= sent[a] /\ Proven!Receive(t, [id |-> a, type |-> target[a][2], n |-> n])
    BY <1>1, Zenon DEF Delivered
  <2>2. [id |-> a, type |-> target[a][2], n |-> n] \in Proven!Message
    BY <2>1, DeliveryIsMessage
  <2> QED
    BY <2>1, <2>2, Zenon
<1> QED
  BY <1>1, AgentIsChannel, Zenon DEF Proven!ChannelNext

\* What AgentInv and BlameInv say of a thread, when it runs what it holds.
LEMMA AgentExecutes ==
    ASSUME DispatchInv, NEW t \in Threads, Proven!Execute(t), UNCHANGED vars
    PROVE  AgentInv' /\ BlameInv'
<1> USE DEF vars, Exists, Acts
<1> DEFINE g == Host[t]
           id == cmd[t].id
<1>1. /\ tpc[t] = "age" /\ tpc' = [tpc EXCEPT ![t] = "report"]
      /\ executed' = [executed EXCEPT ![g][id] = @ + 1]
      /\ cmd' = cmd /\ outbox' = outbox
  BY DEF Proven!Execute, Proven!At
<1>2. /\ g \in Devices /\ id \in ActionIds /\ executed \in [Devices -> [ActionIds -> Nat]]
      /\ tpc \in [Threads -> {"idle", "replay", "age", "report"}]
  BY <1>1, DispatchAssumption
  DEF DispatchInv, Proven!ChannelInv, Proven!ChannelTypeOK, Proven!Message
<1>3. sent[id] > 0
  BY <1>1 DEF DispatchInv, AgentInv
<1> HIDE DEF g, id
<1>4. /\ executed'[g][id] = executed[g][id] + 1
      /\ \A h \in Devices, i \in ActionIds : <<h, i>> # <<g, id>> => executed'[h][i] = executed[h][i]
  <2> DEFINE row == [executed[g] EXCEPT ![id] = executed[g][id] + 1]
  <2>1. row[id] = executed[g][id] + 1 /\ \A i \in ActionIds : i # id => row[i] = executed[g][i]
    BY <1>2
  <2>2. executed' = [executed EXCEPT ![g] = row]
    BY <1>1, <1>2
  <2> HIDE DEF row
  <2>3. executed'[g] = row /\ \A h \in Devices : h # g => executed'[h] = executed[h]
    BY <1>2, <2>2
  <2> QED
    BY <2>1, <2>3
<1>5. \A h \in Devices, i \in ActionIds : executed[h][i] > 0 => executed'[h][i] > 0
  BY <1>2, <1>4
<1>6. AgentInv'
  <2>1. \A s \in Threads : tpc'[s] # "idle" =>
           sent'[cmd'[s].id] > 0 /\ cmd'[s].type = target'[cmd'[s].id][2]
    BY <1>1, <1>2 DEF DispatchInv, AgentInv
  <2>2. \A s \in Threads : tpc'[s] = "report" => executed'[Host[s]][cmd'[s].id] > 0
    <3>1. executed'[Host[t]][cmd'[t].id] > 0
      BY <1>1, <1>2, <1>4 DEF g, id
    <3>2. ASSUME NEW s \in Threads, s # t, tpc'[s] = "report" PROVE executed'[Host[s]][cmd'[s].id] > 0
      <4>1. tpc[s] = "report" /\ executed[Host[s]][cmd[s].id] > 0
        BY <1>1, <1>2, <3>2 DEF DispatchInv, AgentInv
      <4>2. Host[s] \in Devices /\ cmd[s].id \in ActionIds
        BY <4>1, DispatchAssumption
        DEF DispatchInv, Proven!ChannelInv, Proven!ChannelTypeOK, Proven!Message
      <4> QED
        BY <1>1, <1>5, <4>1, <4>2
    <3> QED
      BY <3>1, <3>2
  <2>3. \A h \in Devices, a \in ActionIds : executed'[h][a] > 0 => sent'[a] > 0
    BY <1>3, <1>4 DEF DispatchInv, AgentInv
  <2> QED
    BY <2>1, <2>2, <2>3 DEF AgentInv
<1>7. \A a \in ActionIds : Blamed(a) => Blamed(a)'
  BY <1>5 DEF Blamed
<1>8. BlameInv'
  <2>1. \A r \in outbox : r.id \in ActionIds
    BY DEF DispatchInv, Proven!ChannelInv, Proven!ChannelTypeOK, Proven!Report
  <2>2. \A r \in outbox' : r.status = "FAILED" => Blamed(r.id)'
    BY <1>1, <1>7, <2>1 DEF DispatchInv, BlameInv
  <2>3. ASSUME NEW h \in Handlers, req'[h].goal = "FAILED"
        PROVE  pc'[h] \in {"commit", "outcome"} /\ Blamed(Acts(h))'
    <3>1. pc[h] \in {"commit", "outcome"} /\ Blamed(req[h].act) /\ req[h].act \in ActionIds
      BY <2>3 DEF DispatchInv, BlameInv, ThreadsTypeOK
    <3>2. Blamed(req[h].act)'
      BY <1>7, <3>1 DEF Blamed
    <3> QED
      BY <3>1, <3>2
  <2>4. \A a \in ActionIds : status'[a] = "FAILED" => Blamed(a)'
    BY <1>7 DEF DispatchInv, BlameInv
  <2> QED
    BY <2>2, <2>3, <2>4 DEF BlameInv
<1> QED
  BY <1>6, <1>8

\* A thread of an agent takes or drops a message, and nothing is run or reported.
LEMMA AgentRests ==
    ASSUME DispatchInv, UNCHANGED vars, executed' = executed,
           \A r \in outbox' \ outbox : r.status = "FAILED" => Blamed(r.id),
           \A s \in Threads : tpc'[s] # "idle" =>
               /\ tpc'[s] = "report" => tpc[s] = "report" /\ cmd'[s] = cmd[s]
               /\ \/ tpc[s] # "idle" /\ cmd'[s] = cmd[s]
                  \/ sent[cmd'[s].id] > 0 /\ cmd'[s].type = target[cmd'[s].id][2]
    PROVE  AgentInv' /\ BlameInv'
<1> USE DEF vars, Exists, Acts
<1>1. AgentInv'
  BY DEF DispatchInv, AgentInv
<1>2. \A a : Blamed(a) => Blamed(a)'
  BY DEF Blamed
<1>3. BlameInv'
  BY <1>2 DEF DispatchInv, BlameInv
<1> QED
  BY <1>1, <1>3

LEMMA AgentMove ==
    ASSUME DispatchInv, AgentStep
    PROVE  DispatchInv'
<1>1. UNCHANGED vars /\ Proven!ChannelNext
  BY AgentIsChannel, AgentIsNext DEF DispatchInv
<1>2. ThreadsTypeOK' /\ BackendInv'
  BY <1>1 DEF DispatchInv, vars, ThreadsTypeOK, BackendInv, Exists, Opened, Acts
<1>3. Proven!ChannelInv'
  BY <1>1, Proven!ChannelStep, DispatchAssumption DEF DispatchInv
<1>t. /\ tpc \in [Threads -> {"idle", "replay", "age", "report"}]
      /\ cmd \in [Threads -> Proven!Message \cup {Proven!None}]
      /\ \A t \in Threads : tpc[t] # "idle" => cmd[t] \in Proven!Message
  BY DEF DispatchInv, Proven!ChannelInv, Proven!ChannelTypeOK
<1>4. ASSUME NEW t \in Threads, Delivered(t) PROVE AgentInv' /\ BlameInv'
  <2>1. PICK a \in ActionIds, n \in 1..Dispatches :
            n <= sent[a] /\ Proven!Receive(t, [id |-> a, type |-> target[a][2], n |-> n])
    BY <1>4, Zenon DEF Delivered
  <2> DEFINE m == [id |-> a, type |-> target[a][2], n |-> n]
  <2>2. /\ tpc' = [tpc EXCEPT ![t] = "replay"] /\ cmd' = [cmd EXCEPT ![t] = m]
        /\ executed' = executed /\ outbox' = outbox
    BY <2>1 DEF Proven!Receive, Proven!At
  <2>3. sent[m.id] > 0 /\ m.type = target[m.id][2]
    BY <2>1 DEF DispatchInv, ThreadsTypeOK
  <2> HIDE DEF m
  <2>4. \A s \in Threads : tpc'[s] # "idle" =>
               /\ tpc'[s] = "report" => tpc[s] = "report" /\ cmd'[s] = cmd[s]
               /\ \/ tpc[s] # "idle" /\ cmd'[s] = cmd[s]
                  \/ sent[cmd'[s].id] > 0 /\ cmd'[s].type = target[cmd'[s].id][2]
    <3>1. tpc'[t] = "replay" /\ cmd'[t] = m
      BY <1>t, <2>2
    <3>2. \A s \in Threads : s # t => tpc'[s] = tpc[s] /\ cmd'[s] = cmd[s]
      BY <1>t, <2>2
    <3>3. /\ tpc'[t] # "report"
          /\ sent[cmd'[t].id] > 0 /\ cmd'[t].type = target[cmd'[t].id][2]
      BY <2>3, <3>1
    <3> QED
      BY <3>2, <3>3
  <2> QED
    BY <1>1, <2>2, <2>4, AgentRests
<1>5. ASSUME NEW t \in Threads, Proven!RefuseReplay(t) \/ Proven!RefuseStale(t)
      PROVE  AgentInv' /\ BlameInv'
  <2>1. /\ tpc' = [tpc EXCEPT ![t] = "idle"] /\ cmd' = [cmd EXCEPT ![t] = Proven!None]
        /\ executed' = executed /\ outbox' = outbox
    BY <1>5 DEF Proven!RefuseReplay, Proven!RefuseStale, Proven!At
  <2>2. \A s \in Threads : tpc'[s] # "idle" => tpc'[s] = tpc[s] /\ cmd'[s] = cmd[s]
    BY <1>t, <2>1
  <2> QED
    BY <1>1, <2>1, <2>2, AgentRests
<1>6. ASSUME NEW t \in Threads, Proven!Remember(t) PROVE AgentInv' /\ BlameInv'
  <2>1. /\ tpc[t] = "replay" /\ tpc' = [tpc EXCEPT ![t] = "age"] /\ cmd' = cmd
        /\ executed' = executed /\ outbox' = outbox
    BY <1>6 DEF Proven!Remember, Proven!At
  <2>2. \A s \in Threads : tpc'[s] # "idle" =>
               /\ tpc'[s] = "report" => tpc[s] = "report"
               /\ tpc[s] # "idle" /\ cmd'[s] = cmd[s]
    BY <1>t, <2>1
  <2> QED
    BY <1>1, <2>1, <2>2, AgentRests
<1>7. ASSUME NEW t \in Threads, NEW delivered \in BOOLEAN, Proven!ReportStatus(t, delivered)
      PROVE  AgentInv' /\ BlameInv'
  <2> DEFINE r == [id |-> cmd[t].id, status |-> Proven!Verdict(cmd[t])]
  <2>1. /\ tpc[t] = "report" /\ tpc' = [tpc EXCEPT ![t] = "idle"]
        /\ cmd' = [cmd EXCEPT ![t] = Proven!None]
        /\ executed' = executed /\ (outbox' = outbox \/ outbox' = outbox \cup {r})
    BY <1>7 DEF Proven!ReportStatus, Proven!At
  <2>2. cmd[t].type = target[cmd[t].id][2] /\ Host[t] \in Devices
        /\ executed[Host[t]][cmd[t].id] > 0
    BY <2>1, DispatchAssumption DEF DispatchInv, AgentInv
  <2>3. r.status = "FAILED" => Blamed(r.id)
    BY <2>2 DEF Proven!Verdict, Blamed
  <2>4. \A s \in Threads : tpc'[s] # "idle" => tpc'[s] = tpc[s] /\ cmd'[s] = cmd[s]
    BY <1>t, <2>1
  <2> HIDE DEF r
  <2>5. \A x \in outbox' \ outbox : x.status = "FAILED" => Blamed(x.id)
    BY <2>1, <2>3
  <2> QED
    BY <1>1, <2>1, <2>4, <2>5, AgentRests
<1>8. ASSUME NEW g \in Devices, Proven!Restart(g)
      PROVE  AgentInv' /\ BlameInv'
  <2>1. /\ tpc' = [t \in Threads |-> IF Host[t] = g THEN "idle" ELSE tpc[t]]
        /\ cmd' = [t \in Threads |-> IF Host[t] = g THEN Proven!None ELSE cmd[t]]
        /\ executed' = executed /\ outbox' = outbox
    BY <1>8 DEF Proven!Restart
  <2>2. \A s \in Threads : tpc'[s] # "idle" => tpc'[s] = tpc[s] /\ cmd'[s] = cmd[s]
    BY <1>t, <2>1
  <2> QED
    BY <1>1, <2>1, <2>2, AgentRests
<1>9. AgentInv' /\ BlameInv'
  <2>1. ASSUME NEW t \in Threads, Proven!Process(t) PROVE AgentInv' /\ BlameInv'
    <3>1. CASE Proven!Execute(t)
      BY <1>1, <3>1, AgentExecutes, Zenon
    <3> QED
      BY <1>5, <1>6, <1>7, <2>1, <3>1, Zenon DEF Proven!Process
  <2> QED
    BY <1>4, <1>8, <2>1, AgentIsChannel, Zenon
<1> QED
  BY <1>2, <1>3, <1>9, Zenon DEF DispatchInv

-----------------------------------------------------------------------------
(* The composed system                                                       *)

LEMMA DispatchStep == DispatchInv /\ [DispatchNext]_allVars => DispatchInv'
<1> SUFFICES ASSUME DispatchInv, [DispatchNext]_allVars PROVE DispatchInv'
  OBVIOUS
<1>1. ASSUME NEW h \in Handlers, Backend(h) \/ \E r \in outbox : Callback(h, r)
      PROVE  DispatchInv'
  <2>1. [Next]_vars /\ UNCHANGED agentVars /\ outbox' \subseteq outbox
    BY <1>1, MoveIsNext DEF DispatchInv
  <2>2. ThreadsTypeOK' /\ BackendInv'
    BY <2>1, NextThreads, BackendStep DEF DispatchInv
  <2>3. AgentInv' /\ Proven!ChannelInv'
    BY <2>1, AgentsRest DEF DispatchInv
  <2>4. BlameInv'
    BY <1>1, BlameMove DEF DispatchInv
  <2> QED
    BY <2>2, <2>3, <2>4, Zenon DEF DispatchInv
<1>2. CASE UNCHANGED allVars
  <2>1. UNCHANGED vars /\ UNCHANGED agentVars /\ outbox' = outbox
    BY <1>2 DEF allVars
  <2>2. ThreadsTypeOK' /\ BackendInv'
    BY <2>1, NextThreads, BackendStep DEF DispatchInv
  <2>3. AgentInv' /\ Proven!ChannelInv'
    BY <2>1, AgentsRest DEF DispatchInv
  <2>4. BlameInv'
    BY <2>1 DEF DispatchInv, BlameInv, Blamed, vars, agentVars, Acts
  <2> QED
    BY <2>2, <2>3, <2>4, Zenon DEF DispatchInv
<1> QED
  BY <1>1, <1>2, AgentMove, Zenon DEF DispatchNext, AgentStep

LEMMA DispatchInitially == DispatchInit => DispatchInv
<1> SUFFICES ASSUME DispatchInit PROVE DispatchInv
  OBVIOUS
<1>1. ThreadsTypeOK
  BY InitThreads DEF DispatchInit
<1>2. Proven!ChannelInit
  BY DEF DispatchInit, Channel!ChannelInit, Proven!ChannelInit, Channel!None, Proven!None
<1>3. Proven!ChannelInv
  BY <1>2, Proven!ChannelInitially, DispatchAssumption
<1>4. BackendInv /\ BlameInv
  BY <1>2 DEF DispatchInit, Init, Proven!ChannelInit, BackendInv, BlameInv, Exists, Idle
<1>5. AgentInv
  BY <1>2 DEF DispatchInit, Init, Proven!ChannelInit, AgentInv
<1> QED
  BY <1>1, <1>3, <1>4, <1>5 DEF DispatchInv

LEMMA DispatchInductive == DispatchSpec => []DispatchInv
  BY DispatchInitially, DispatchStep, PTL DEF DispatchSpec

\* What the agents and the network make of the backend is what its own model
\* allows: every behaviour of the pair is a behaviour of the response engine
\* (response_service.py), so each invariant proved of it holds of the pair.
THEOREM PairImplementsEngine == DispatchSpec => Spec
<1>1. DispatchInit => Init
  BY DEF DispatchInit
<1>2. DispatchInv /\ [DispatchNext]_allVars => [Next]_vars
  <2> SUFFICES ASSUME DispatchInv, [DispatchNext]_allVars PROVE [Next]_vars
    OBVIOUS
  <2>1. CASE AgentStep
    BY <2>1, AgentIsChannel
  <2>2. CASE UNCHANGED allVars
    BY <2>2 DEF allVars
  <2> QED
    BY <2>1, <2>2, MoveIsNext, Zenon DEF DispatchNext, AgentStep, DispatchInv
<1> QED
  BY <1>1, <1>2, DispatchInductive, PTL DEF DispatchSpec, Spec

\* However reports, retries and handlers overtake each other and whatever the
\* network loses or duplicates, FAILED in response_actions says that an agent
\* ran the action and could not do it (response_service.py:226-270).
THEOREM FailuresAreReal == DispatchSpec => []FailureIsReal
<1>1. DispatchInv => FailureIsReal
  BY DEF DispatchInv, BlameInv, Blamed, FailureIsReal
<1> QED
  BY <1>1, DispatchInductive, PTL

\* No agent runs an action that the backend did not create, broadcast and begin
\* the trail of, unless its thread is about to or died (response_service.py:
\* 100-224 and command_channel.py:55-101).
THEOREM RunsAreDispatched == DispatchSpec => []OnlyDispatchedRuns
<1>1. DispatchInv => OnlyDispatchedRuns
  BY Zenon DEF DispatchInv, AgentInv, BackendInv, Opened, OnlyDispatchedRuns
<1> QED
  BY <1>1, DispatchInductive, PTL

\* In the pair too, an agent runs an action a second time only after its replay
\* cache lost the id (command_channel.py:55-101).
THEOREM PairRunsOnce == DispatchSpec => []Channel!RunOnceWhileRemembered
<1>1. Proven!ChannelInv => Proven!RunOnceWhileRemembered
  BY Proven!OnceCounted, DispatchAssumption
<1>2. Proven!RunOnceWhileRemembered => Channel!RunOnceWhileRemembered
  BY SameCardinality DEF Proven!RunOnceWhileRemembered, Channel!RunOnceWhileRemembered,
                         Proven!Running, Channel!Running
<1>3. DispatchInv => Channel!RunOnceWhileRemembered
  BY <1>1, <1>2 DEF DispatchInv
<1> QED
  BY <1>3, DispatchInductive, PTL
=============================================================================
