------------------------ MODULE ResponseEngineProofs ------------------------
(* Proofs about ResponseEngine, for any number of threads, devices, actions
   and for any bounds.                                                       *)
EXTENDS ResponseEngine, TLAPS

\* A loaded row is well-typed once the row exists.
LEMMA RowType ==
    ASSUME ThreadsTypeOK, NEW a \in ActionIds, Exists(a)
    PROVE  Row(a) \in Rows
<1>1. target[a] \in Devices \X Kinds
  BY DEF ThreadsTypeOK
<1>2. target[a][1] \in Devices
  BY <1>1
<1> QED
  BY <1>2 DEF ThreadsTypeOK, Row, Rows


\* The literals the actions write.
LEMMA Literals ==
    /\ {"PENDING", "RUNNING", "CANCELLED"} \subseteq Status
    /\ Outcomes \subseteq Status /\ "SUCCESS" \in Outcomes
    /\ {"INITIATED", "ACKNOWLEDGED"} \subseteq Stages /\ Outcomes \subseteq Stages
    /\ {"ONLINE", "ISOLATED"} \subseteq DeviceStatus
    /\ "ABSENT" \notin Status
  BY DEF Status, Active, Terminal, Outcomes, Stages, DeviceStatus

LEMMA IdleType == Idle \in Requests
  BY Literals DEF Idle, Blank, Requests, Rows

\* Writing one field of a request.
LEMMA ActType ==
    ASSUME ThreadsTypeOK, NEW h \in Handlers, NEW a \in ActionIds
    PROVE  LET q == [req EXCEPT ![h].act = a]
           IN  /\ q \in [Handlers -> Requests]
               /\ \A g \in Handlers : q[g].dest = req[g].dest
<1>1. req[h] \in Requests
  BY DEF ThreadsTypeOK
<1>2. [req[h] EXCEPT !.act = a] \in Requests
  BY <1>1 DEF Requests
<1> QED
  BY <1>1, <1>2 DEF ThreadsTypeOK, Requests

LEMMA GoalType ==
    ASSUME ThreadsTypeOK, NEW h \in Handlers, NEW s \in Outcomes
    PROVE  LET q == [req EXCEPT ![h].goal = s]
           IN  /\ q \in [Handlers -> Requests]
               /\ \A g \in Handlers : q[g].act = req[g].act
               /\ \A g \in Handlers : q[g].dest = req[g].dest
<1>1. req[h] \in Requests
  BY DEF ThreadsTypeOK
<1>2. [req[h] EXCEPT !.goal = s] \in Requests
  BY <1>1 DEF Requests
<1> QED
  BY <1>1, <1>2 DEF ThreadsTypeOK, Requests

LEMMA SeenType ==
    ASSUME ThreadsTypeOK, NEW h \in Handlers, NEW r \in Rows
    PROVE  LET q == [req EXCEPT ![h].seen = r]
           IN  /\ q \in [Handlers -> Requests]
               /\ \A g \in Handlers : q[g].act = req[g].act
               /\ \A g \in Handlers : q[g].dest = req[g].dest
<1>1. req[h] \in Requests
  BY DEF ThreadsTypeOK
<1>2. [req[h] EXCEPT !.seen = r] \in Requests
  BY <1>1 DEF Requests
<1> QED
  BY <1>1, <1>2 DEF ThreadsTypeOK, Requests

LEMMA DestType ==
    ASSUME ThreadsTypeOK, NEW h \in Handlers, NEW t \in Devices \X Kinds
    PROVE  LET q == [req EXCEPT ![h].dest = t]
           IN  /\ q \in [Handlers -> Requests]
               /\ \A g \in Handlers : q[g].act = req[g].act
<1>1. req[h] \in Requests
  BY DEF ThreadsTypeOK
<1>2. [req[h] EXCEPT !.dest = t] \in Requests
  BY <1>1 DEF Requests
<1> QED
  BY <1>1, <1>2 DEF ThreadsTypeOK, Requests

LEMMA LogType ==
    ASSUME ThreadsTypeOK, NEW a \in ActionIds, NEW stage \in Stages
    PROVE  [audit EXCEPT ![a] = Append(@, stage)] \in [ActionIds -> Seq(Stages)]
<1>1. Append(audit[a], stage) \in Seq(Stages)
  BY DEF ThreadsTypeOK
<1> QED
  BY <1>1 DEF ThreadsTypeOK

LEMMA InitThreads == Init => ThreadsTypeOK
  BY EngineAssumption, IdleType, Literals
  DEF Init, ThreadsTypeOK, Exists, Steps

LEMMA NextThreads == ThreadsTypeOK /\ [Next]_vars => ThreadsTypeOK'
<1> SUFFICES ASSUME ThreadsTypeOK, [Next]_vars PROVE ThreadsTypeOK'
  OBVIOUS
<1> USE DEF Exists, Acts, Move, Log, WriteStatus, Steps, rowVars, boundVars
<1>1. CASE UNCHANGED vars
  BY <1>1 DEF vars, ThreadsTypeOK
<1>2. ASSUME NEW h \in Handlers, Step(h) PROVE ThreadsTypeOK'
  <2>1. CASE Insert(h)
    <3>1. PICK a \in ActionIds :
             /\ status' = [status EXCEPT ![a] = "PENDING"]
             /\ target' = [target EXCEPT ![a] = req[h].dest]
             /\ req' = [req EXCEPT ![h].act = a]
      BY <2>1 DEF Insert
    <3>2. req' \in [Handlers -> Requests]
      BY <3>1, ActType DEF ThreadsTypeOK
    <3>3. status' \in [ActionIds -> Status \cup {"ABSENT"}]
      BY <3>1, Literals DEF ThreadsTypeOK
    <3>4. /\ target' \in [ActionIds -> (Devices \X Kinds) \cup {NoTarget}]
          /\ \A b \in ActionIds : Exists(b)' => target'[b] \in Devices \X Kinds
      BY <2>1, <3>1 DEF ThreadsTypeOK, Insert
    <3>5. \A g \in Handlers : req'[g].dest = req[g].dest
      BY <3>1 DEF ThreadsTypeOK, Requests
    <3>6. \A g \in Handlers : g # h => req'[g] = req[g]
      BY <3>1 DEF ThreadsTypeOK
    <3>7. req'[h].act = a
      BY <3>1 DEF ThreadsTypeOK, Requests
    <3>8. pc' \in [Handlers -> Steps] /\ pc'[h] = "initiated"
          /\ \A g \in Handlers : g # h => pc'[g] = pc[g]
      BY <2>1 DEF Insert, ThreadsTypeOK
    <3>9. Exists(a)' /\ \A b \in ActionIds : Exists(b) => Exists(b)'
      BY <3>1 DEF ThreadsTypeOK
    <3> QED
      BY <2>1, <3>2, <3>3, <3>4, <3>5, <3>6, <3>7, <3>8, <3>9 DEF Insert, ThreadsTypeOK
  <2>2. CASE AuditInitiated(h)
    BY <2>2, Literals DEF AuditInitiated, ThreadsTypeOK
  <2>3. CASE MarkLoad(h)
    <3>1. Row(Acts(h)) \in Rows
      BY <2>3, RowType DEF MarkLoad, Load, ThreadsTypeOK
    <3>2. req' \in [Handlers -> Requests]
      BY <2>3, <3>1, SeenType DEF MarkLoad, Load
    <3> QED
      BY <2>3, <3>2 DEF MarkLoad, Load, ThreadsTypeOK
  <2>4. CASE MarkRunning(h)
    BY <2>4, Literals DEF MarkRunning, ThreadsTypeOK
  <2>5. CASE Dispatch(h)
    BY <2>5 DEF Dispatch, ThreadsTypeOK
  <2>6. CASE Acknowledge(h)
    <3>1. /\ req' \in [Handlers -> Requests]
          /\ \A g \in Handlers : req'[g].act = req[g].act /\ req'[g].dest = req[g].dest
      BY <2>6, GoalType, Literals DEF Acknowledge
    <3>2. audit' \in [ActionIds -> Seq(Stages)]
      BY <2>6, LogType, Literals DEF Acknowledge, ThreadsTypeOK
    <3> QED
      BY <2>6, <3>1, <3>2 DEF Acknowledge, ThreadsTypeOK
  <2>7. CASE UpdateLoad(h)
    <3>1. Row(Acts(h)) \in Rows
      BY <2>7, RowType DEF UpdateLoad, Load, ThreadsTypeOK
    <3>2. req' \in [Handlers -> Requests]
      BY <2>7, <3>1, SeenType DEF UpdateLoad, Load
    <3> QED
      BY <2>7, <3>2 DEF UpdateLoad, Load, ThreadsTypeOK
  <2>8. CASE UpdateCommit(h)
    <3>1. req[h].goal \in Status
      BY Literals DEF ThreadsTypeOK, Requests
    <3> QED
      BY <2>8, <3>1, Literals DEF UpdateCommit, ThreadsTypeOK
  <2>9. CASE AuditOutcome(h)
    <3>1. req[h].goal \in Stages /\ Acts(h) \in ActionIds
      BY <2>9, Literals DEF AuditOutcome, Finish, ThreadsTypeOK, Requests
    <3>2. audit' \in [ActionIds -> Seq(Stages)]
      BY <2>9, <3>1, LogType DEF AuditOutcome
    <3> QED
      BY <2>9, <3>2, IdleType DEF AuditOutcome, Finish, ThreadsTypeOK
  <2>10. CASE RetryCommit(h)
    BY <2>10, Literals DEF RetryCommit, ThreadsTypeOK
  <2>11. CASE CancelCommit(h)
    BY <2>11, Literals, IdleType DEF CancelCommit, Finish, ThreadsTypeOK
  <2> QED
    BY <1>2, <2>1, <2>2, <2>3, <2>4, <2>5, <2>6, <2>7, <2>8, <2>9, <2>10, <2>11
    DEF Step
<1>3. ASSUME NEW h \in Handlers, Request(h) PROVE ThreadsTypeOK'
  <2>1. ASSUME NEW d \in Devices, NEW k \in Kinds, Trigger(h, d, k) PROVE ThreadsTypeOK'
    <3>1. req' \in [Handlers -> Requests]
      BY <2>1, DestType DEF Trigger
    <3> QED
      BY <2>1, <3>1 DEF Trigger, ThreadsTypeOK, Requests
  <2>2. ASSUME NEW a \in ActionIds, NEW s \in Outcomes,
               NEW step \in {"commit", "retrying", "cancelling"}, Open(h, a, s, step),
               UNCHANGED <<rowVars, audit, sent, orphaned>>,
               retries' \in Nat, reports' \in Nat, aborts' \in Nat
        PROVE ThreadsTypeOK'
    <3>1. /\ Row(a) \in Rows
          /\ target[a] \in Devices \X Kinds
      BY <2>2, RowType DEF Open, ThreadsTypeOK
    <3>2. req' \in [Handlers -> Requests]
      BY <2>2, <3>1 DEF Open, ThreadsTypeOK, Requests
    <3> QED
      BY <2>2, <3>2 DEF Open, ThreadsTypeOK
  <2>3. ASSUME NEW a \in ActionIds, NEW s \in Outcomes, StatusCallback(h, a, s)
        PROVE ThreadsTypeOK'
    BY <2>2, <2>3 DEF StatusCallback, ThreadsTypeOK
  <2>4. ASSUME NEW a \in ActionIds, Retry(h, a) PROVE ThreadsTypeOK'
    BY <2>2, <2>4, Literals DEF Retry, ThreadsTypeOK
  <2>5. ASSUME NEW a \in ActionIds, Cancel(h, a) PROVE ThreadsTypeOK'
    BY <2>2, <2>5, Literals DEF Cancel, ThreadsTypeOK
  <2> QED
    BY <1>3, <2>1, <2>3, <2>4, <2>5 DEF Request
<1>4. ASSUME NEW h \in Handlers, Abort(h) PROVE ThreadsTypeOK'
  <2>1. orphaned' \subseteq ActionIds
    BY <1>4 DEF Abort, ThreadsTypeOK, Requests
  <2> QED
    BY <1>4, <2>1, IdleType DEF Abort, Finish, ThreadsTypeOK
<1> QED
  BY <1>1, <1>2, <1>3, <1>4 DEF Next

LEMMA InitTypeOK == Init => TypeOK
  BY InitThreads DEF Init, TypeOK

LEMMA NextTypeOK == TypeOK /\ [Next]_vars => TypeOK'
<1> SUFFICES ASSUME TypeOK, [Next]_vars PROVE TypeOK'
  OBVIOUS
<1>1. ThreadsTypeOK'
  BY NextThreads DEF TypeOK
<1>2. alone' \in BOOLEAN
  BY Zenon DEF Next, Alone, vars, TypeOK
<1> QED
  BY <1>1, <1>2 DEF TypeOK

\* Every reachable state is well-typed.
THEOREM TypeCorrect == Spec => []TypeOK
  BY InitTypeOK, NextTypeOK, PTL DEF Spec

-----------------------------------------------------------------------------
(* No action is forgotten.  The invariant is inductive as it stands, on top of
   ThreadsTypeOK: Carries says how far a thread must be to still settle its action.
   The delicate step is UpdateCommit with a loaded status equal to the goal,
   which writes nothing: Carries already denies that such a thread carries.  *)

\* A step of thread h leaves what another thread carries alone.
LEMMA OthersCarry ==
    ASSUME ThreadsTypeOK, NEW h \in Handlers, NEW g \in Handlers, NEW a \in ActionIds, g # h,
           NEW to, pc' = [pc EXCEPT ![h] = to],
           \/ req' = req
           \/ \E r : req' = [req EXCEPT ![h] = r]
    PROVE  Carries(g, a) => Carries(g, a)'
<1>1. pc'[g] = pc[g] /\ req'[g] = req[g]
  BY DEF ThreadsTypeOK
<1> QED
  BY <1>1 DEF Carries, Acts

LEMMA InitCarried == Init => NoActionForgotten
  BY DEF Init, NoActionForgotten, Active

LEMMA NextCarried == ThreadsTypeOK /\ NoActionForgotten /\ [Next]_vars => NoActionForgotten'
<1> SUFFICES ASSUME ThreadsTypeOK, NoActionForgotten, [Next]_vars,
                    NEW a \in ActionIds, status'[a] \in Active, a \notin orphaned'
             PROVE  \E g \in Handlers : Carries(g, a)'
  BY DEF NoActionForgotten
<1> USE DEF Acts, Move, rowVars, boundVars
\* a step that leaves a's status alone and keeps h on its way keeps the carrier
<1>1. ASSUME NEW h \in Handlers, NEW to, pc' = [pc EXCEPT ![h] = to],
             \/ req' = req
             \/ \E r : req' = [req EXCEPT ![h] = r],
             status'[a] = status[a], orphaned \subseteq orphaned',
             Carries(h, a) => Carries(h, a)'
      PROVE  \E g \in Handlers : Carries(g, a)'
  <2>1. PICK g \in Handlers : Carries(g, a)
    BY <1>1 DEF NoActionForgotten
  <2>2. CASE g = h
    BY <1>1, <2>1, <2>2
  <2>3. CASE g # h
    BY <1>1, <2>1, <2>3, OthersCarry
  <2> QED
    BY <2>2, <2>3
<1>2. CASE UNCHANGED vars
  BY <1>2 DEF vars, NoActionForgotten, Carries
<1>3. ASSUME NEW h \in Handlers, Step(h) PROVE \E g \in Handlers : Carries(g, a)'
  <2>1. CASE Insert(h)
    <3>1. PICK b \in ActionIds :
             /\ status' = [status EXCEPT ![b] = "PENDING"]
             /\ req' = [req EXCEPT ![h].act = b]
      BY <2>1 DEF Insert
    <3>2. CASE a = b
      <4>1. pc'[h] = "initiated" /\ req'[h].act = a
        BY <2>1, <3>1, <3>2 DEF Insert, ThreadsTypeOK, Requests
      <4> QED
        BY <4>1 DEF Carries
    <3>3. CASE a # b
      <4>1. status'[a] = status[a] /\ ~ Carries(h, a)
        BY <2>1, <3>1, <3>3 DEF Insert, ThreadsTypeOK, Carries
      <4> QED
        BY <1>1, <2>1, <3>1, <4>1 DEF Insert
    <3> QED
      BY <3>2, <3>3
  <2>2. CASE AuditInitiated(h)
    <3>1. Carries(h, a) => Carries(h, a)'
      BY <2>2 DEF AuditInitiated, Carries, ThreadsTypeOK
    <3> QED
      BY <1>1, <2>2, <3>1 DEF AuditInitiated
  <2>3. CASE MarkLoad(h)
    <3>1. Carries(h, a) => Carries(h, a)'
      BY <2>3 DEF MarkLoad, Load, Carries, ThreadsTypeOK, Requests
    <3> QED
      BY <1>1, <2>3, <3>1 DEF MarkLoad, Load
  <2>4. CASE MarkRunning(h)
    <3>1. req[h].act = a => Carries(h, a)'
      BY <2>4 DEF MarkRunning, Carries, ThreadsTypeOK
    <3>2. req[h].act # a => status'[a] = status[a]
      BY <2>4 DEF MarkRunning, WriteStatus, ThreadsTypeOK
    <3> QED
      BY <1>1, <2>4, <3>1, <3>2 DEF MarkRunning, Carries
  <2>5. CASE Dispatch(h)
    <3>1. Carries(h, a) => Carries(h, a)'
      BY <2>5 DEF Dispatch, Carries, ThreadsTypeOK
    <3> QED
      BY <1>1, <2>5, <3>1 DEF Dispatch
  <2>6. CASE Acknowledge(h)
    <3>1. Carries(h, a) => Carries(h, a)'
      BY <2>6, GoalType, Literals DEF Acknowledge, Carries, ThreadsTypeOK
    <3> QED
      BY <1>1, <2>6, <3>1 DEF Acknowledge
  <2>7. CASE UpdateLoad(h)
    <3>1. ASSUME Carries(h, a) PROVE Carries(h, a)'
      <4>1. pc'[h] = "commit" /\ req'[h].act = a /\ req'[h].goal = req[h].goal
            /\ req'[h].seen.status = status[a]
        BY <2>7, <3>1 DEF UpdateLoad, Load, Carries, ThreadsTypeOK, Requests, Row
      <4>2. status[a] # req[h].goal
        BY <2>7 DEF UpdateLoad, ThreadsTypeOK, Requests, Active, Outcomes
      <4> QED
        BY <4>1, <4>2 DEF Carries
    <3> QED
      BY <1>1, <2>7, <3>1 DEF UpdateLoad, Load
  <2>8. CASE UpdateCommit(h)
    <3>1. req[h].goal \notin Active
      BY DEF ThreadsTypeOK, Requests, Active, Outcomes
    <3>2. status'[a] = status[a] /\ ~ Carries(h, a)
      BY <2>8, <3>1 DEF UpdateCommit, WriteStatus, Carries, ThreadsTypeOK
    <3> QED
      BY <1>1, <2>8, <3>2 DEF UpdateCommit
  <2>9. CASE AuditOutcome(h)
    <3>1. ~ Carries(h, a)
      BY <2>9 DEF AuditOutcome, Finish, Carries
    <3> QED
      BY <1>1, <2>9, <3>1 DEF AuditOutcome, Finish
  <2>10. CASE RetryCommit(h)
    <3>1. req[h].act = a => Carries(h, a)'
      BY <2>10 DEF RetryCommit, Carries, ThreadsTypeOK
    <3>2. req[h].act # a => status'[a] = status[a]
      BY <2>10 DEF RetryCommit, WriteStatus, ThreadsTypeOK
    <3> QED
      BY <1>1, <2>10, <3>1, <3>2 DEF RetryCommit, Carries
  <2>11. CASE CancelCommit(h)
    <3>1. status'[a] = status[a] /\ ~ Carries(h, a)
      BY <2>11 DEF CancelCommit, Finish, WriteStatus, Carries, ThreadsTypeOK, Active
    <3> QED
      BY <1>1, <2>11, <3>1 DEF CancelCommit, Finish
  <2> QED
    BY <1>3, <2>1, <2>2, <2>3, <2>4, <2>5, <2>6, <2>7, <2>8, <2>9, <2>10, <2>11
    DEF Step
<1>4. ASSUME NEW h \in Handlers, Request(h) PROVE \E g \in Handlers : Carries(g, a)'
  <2>1. pc[h] = "idle" /\ ~ Carries(h, a)
    BY <1>4 DEF Request, Trigger, StatusCallback, Retry, Cancel, Open, Carries
  <2>2. \E to : pc' = [pc EXCEPT ![h] = to]
    BY <1>4 DEF Request, Trigger, StatusCallback, Retry, Cancel, Open
  <2>3. \E r : req' = [req EXCEPT ![h] = r]
    BY <1>4 DEF Request, Trigger, StatusCallback, Retry, Cancel, Open
  <2>4. status' = status /\ orphaned' = orphaned
    BY <1>4 DEF Request, Trigger, StatusCallback, Retry, Cancel
  <2> QED
    BY <1>1, <2>1, <2>2, <2>3, <2>4
<1>5. ASSUME NEW h \in Handlers, Abort(h) PROVE \E g \in Handlers : Carries(g, a)'
  <2>1. ~ Carries(h, a)
    BY <1>5, EngineAssumption DEF Abort, Carries
  <2> QED
    BY <1>1, <1>5, <2>1 DEF Abort, Finish
<1> QED
  BY <1>2, <1>3, <1>4, <1>5 DEF Next

\* In every behaviour an active action has a thread that will still settle it,
\* unless the thread that would have died.
THEOREM NothingForgotten == Spec => []NoActionForgotten
<1>1. Init => TypeOK /\ NoActionForgotten
  BY InitTypeOK, InitCarried
<1>2. (TypeOK /\ NoActionForgotten) /\ [Next]_vars => (TypeOK /\ NoActionForgotten)'
  BY NextTypeOK, NextCarried DEF TypeOK
<1> QED
  BY <1>1, <1>2, PTL DEF Spec

-----------------------------------------------------------------------------
(* A SUCCESS of an ISOLATE and its device.  The commit compares the device with
   the one it loaded, so SeenIsolated must hold as well: a device that was
   ISOLATED at the load is ISOLATED at the commit, whoever ran in between.   *)

\* No step moves an existing action to another device, or releases a device.
LEMMA TargetsKept ==
    ASSUME ThreadsTypeOK, [Next]_vars
    PROVE  /\ \A a \in ActionIds : Exists(a) => target'[a] = target[a]
           /\ \A d \in Devices : devStatus[d] = "ISOLATED" => devStatus'[d] = "ISOLATED"
<1> USE DEF rowVars, boundVars
<1>1. CASE UNCHANGED vars
  BY <1>1 DEF vars
<1>2. CASE \E h \in Handlers : Insert(h)
  BY <1>2 DEF Insert, ThreadsTypeOK
<1>3. CASE \E h \in Handlers : UpdateCommit(h)
  BY <1>3 DEF UpdateCommit, ThreadsTypeOK
<1>4. CASE \E h \in Handlers :
              \/ AuditInitiated(h) \/ MarkLoad(h) \/ MarkRunning(h) \/ Dispatch(h)
              \/ Acknowledge(h) \/ UpdateLoad(h) \/ AuditOutcome(h)
              \/ RetryCommit(h) \/ CancelCommit(h) \/ Abort(h)
  BY <1>4 DEF AuditInitiated, MarkLoad, MarkRunning, Dispatch, Acknowledge,
              UpdateLoad, AuditOutcome, RetryCommit, CancelCommit, Abort
<1>5. CASE \E h \in Handlers : Request(h)
  BY <1>5 DEF Request, Trigger, StatusCallback, Retry, Cancel
<1> QED
  BY <1>1, <1>2, <1>3, <1>4, <1>5 DEF Next, Step

LEMMA NextSeen == ThreadsTypeOK /\ SeenIsolated /\ [Next]_vars => SeenIsolated'
<1> SUFFICES ASSUME ThreadsTypeOK, SeenIsolated, [Next]_vars,
                    NEW g \in Handlers, pc'[g] = "commit", req'[g].seen.device = "ISOLATED"
             PROVE  devStatus'[target'[req'[g].act][1]] = "ISOLATED"
  BY DEF SeenIsolated, Acts
<1> USE DEF Acts, Move, rowVars
\* a thread that stays where it was keeps what it knew
<1>1. ASSUME pc'[g] = pc[g], req'[g] = req[g]
      PROVE  devStatus'[target'[req'[g].act][1]] = "ISOLATED"
  <2>1. /\ Acts(g) \in ActionIds /\ Exists(Acts(g))
        /\ target[Acts(g)] \in Devices \X Kinds
    BY <1>1 DEF ThreadsTypeOK
  <2>2. target[Acts(g)][1] \in Devices
    BY <2>1
  <2>3. devStatus[target[Acts(g)][1]] = "ISOLATED"
    BY <1>1 DEF SeenIsolated
  <2> QED
    BY <1>1, <2>1, <2>2, <2>3, TargetsKept
<1>2. CASE UNCHANGED vars
  BY <1>1, <1>2 DEF vars
\* a thread comes to its commit by loading the row
<1>3. ASSUME NEW h \in Handlers, Step(h) \/ Request(h) \/ Abort(h)
      PROVE  devStatus'[target'[req'[g].act][1]] = "ISOLATED"
  <2>1. CASE h # g
    <3>1. \E to : pc' = [pc EXCEPT ![h] = to]
      BY <1>3 DEF Step, Insert, AuditInitiated, MarkLoad, MarkRunning, Dispatch,
                  Acknowledge, UpdateLoad, UpdateCommit, AuditOutcome, RetryCommit,
                  CancelCommit, Request, Trigger, StatusCallback, Retry, Cancel,
                  Open, Load, Abort, Finish
    <3>2. req' = req \/ \E r : req' = [req EXCEPT ![h] = r]
      BY <1>3 DEF Step, Insert, AuditInitiated, MarkLoad, MarkRunning, Dispatch,
                  Acknowledge, UpdateLoad, UpdateCommit, AuditOutcome, RetryCommit,
                  CancelCommit, Request, Trigger, StatusCallback, Retry, Cancel,
                  Open, Load, Abort, Finish
    <3>3. pc'[g] = pc[g] /\ req'[g] = req[g]
      BY <2>1, <3>1, <3>2 DEF ThreadsTypeOK
    <3> QED
      BY <1>1, <3>3
  <2>2. CASE h = g
    <3>1. CASE UpdateLoad(h)
      <4>1. req'[g].act = Acts(g) /\ req'[g].seen = Row(Acts(g))
        BY <2>2, <3>1 DEF UpdateLoad, Load, ThreadsTypeOK, Requests
      <4> QED
        BY <3>1, <4>1 DEF UpdateLoad, Row
    <3>2. CASE \E a \in ActionIds, s \in Outcomes : StatusCallback(h, a, s)
      <4>1. PICK a \in ActionIds, s \in Outcomes : StatusCallback(h, a, s)
        BY <3>2
      <4>2. req'[g].act = a /\ req'[g].seen = Row(a)
        BY <2>2, <4>1 DEF StatusCallback, Open, ThreadsTypeOK
      <4> QED
        BY <4>1, <4>2 DEF StatusCallback, Row
    <3>3. CASE ~ UpdateLoad(h) /\ ~ \E a \in ActionIds, s \in Outcomes : StatusCallback(h, a, s)
      <4>1. pc'[h] # "commit"
        BY <1>3, <3>3 DEF Step, Insert, AuditInitiated, MarkLoad, MarkRunning, Dispatch,
                  Acknowledge, UpdateCommit, AuditOutcome, RetryCommit,
                  CancelCommit, Request, Trigger, Retry, Cancel,
                  Open, Load, Abort, Finish, ThreadsTypeOK
      <4> QED
        BY <2>2, <4>1
    <3> QED
      BY <3>1, <3>2, <3>3
  <2> QED
    BY <2>1, <2>2
<1> QED
  BY <1>2, <1>3 DEF Next

LEMMA NextIsolation ==
    ThreadsTypeOK /\ SeenIsolated /\ IsolationRecorded /\ [Next]_vars => IsolationRecorded'
<1> SUFFICES ASSUME ThreadsTypeOK, SeenIsolated, IsolationRecorded, [Next]_vars,
                    NEW a \in ActionIds, status'[a] = "SUCCESS", target'[a][2] = Isolate
             PROVE  devStatus'[target'[a][1]] = "ISOLATED"
  BY DEF IsolationRecorded
<1> USE DEF Acts, Move, rowVars, boundVars
\* an action that was SUCCESS already
<1>1. ASSUME status[a] = "SUCCESS" PROVE devStatus'[target'[a][1]] = "ISOLATED"
  <2>1. target'[a] = target[a] /\ target[a] \in Devices \X Kinds
    BY <1>1, TargetsKept DEF Exists, ThreadsTypeOK
  <2>2. target[a][1] \in Devices /\ devStatus[target[a][1]] = "ISOLATED"
    BY <1>1, <2>1 DEF IsolationRecorded
  <2> QED
    BY <2>1, <2>2, TargetsKept
\* one that becomes SUCCESS does so in UpdateCommit
<1>2. ASSUME NEW h \in Handlers, UpdateCommit(h), status[a] # "SUCCESS"
      PROVE  devStatus'[target'[a][1]] = "ISOLATED"
  <2>1. Acts(h) = a /\ req[h].goal = "SUCCESS" /\ target' = target
    BY <1>2 DEF UpdateCommit, WriteStatus, ThreadsTypeOK
  <2>2. target[a] \in Devices \X Kinds
    BY <1>2, <2>1 DEF UpdateCommit, ThreadsTypeOK
  <2>3. target[a][1] \in Devices
    BY <2>2
  <2>4. CASE req[h].seen.device = "ISOLATED"
    <3>1. devStatus[target[a][1]] = "ISOLATED"
      BY <1>2, <2>1, <2>4 DEF SeenIsolated, UpdateCommit
    <3> QED
      BY <2>1, <2>3, <3>1, TargetsKept
  <2>5. CASE req[h].seen.device # "ISOLATED"
    BY <1>2, <2>1, <2>3, <2>5 DEF UpdateCommit, IsolatesDevice, ThreadsTypeOK
  <2> QED
    BY <2>4, <2>5
<1>3. CASE UNCHANGED vars
  BY <1>1, <1>3 DEF vars
<1>4. ASSUME NEW h \in Handlers, Step(h), ~ UpdateCommit(h) PROVE status[a] = "SUCCESS"
  BY <1>4 DEF Step, Insert, AuditInitiated, MarkLoad, MarkRunning, Dispatch, Acknowledge,
              UpdateLoad, AuditOutcome, RetryCommit, CancelCommit, WriteStatus, ThreadsTypeOK
<1>5. ASSUME NEW h \in Handlers, Request(h) \/ Abort(h) PROVE status[a] = "SUCCESS"
  BY <1>5 DEF Request, Trigger, StatusCallback, Retry, Cancel, Abort
<1> QED
  BY <1>1, <1>2, <1>3, <1>4, <1>5 DEF Next

LEMMA InitIsolation == Init => SeenIsolated /\ IsolationRecorded
  BY DEF Init, SeenIsolated, IsolationRecorded

\* In every behaviour a successful ISOLATE has its device ISOLATED.
THEOREM IsolationHolds == Spec => []IsolationRecorded
<1>1. Init => TypeOK /\ SeenIsolated /\ IsolationRecorded
  BY InitTypeOK, InitIsolation
<1>2. (TypeOK /\ SeenIsolated /\ IsolationRecorded) /\ [Next]_vars
        => (TypeOK /\ SeenIsolated /\ IsolationRecorded)'
  BY NextTypeOK, NextSeen, NextIsolation DEF TypeOK
<1> QED
  BY <1>1, <1>2, PTL DEF Spec

-----------------------------------------------------------------------------
(* The forensic trail.  Inductive on top of ThreadsTypeOK: the row takes an
   outcome only in UpdateCommit, whose thread then stands at "outcome" and
   either logs that same outcome or dies.                                    *)

\* Appending to a trail loses no entry, and the appended one is there.
LEMMA LogKeeps ==
    ASSUME ThreadsTypeOK, NEW h \in Handlers, Acts(h) \in ActionIds, NEW stage, Log(h, stage),
           NEW a \in ActionIds, status'[a] = status[a]
    PROVE  /\ Logged(a) => Logged(a)'
           /\ Acts(h) = a /\ stage = status[a] => Logged(a)'
<1>1. audit[a] \in Seq(Stages)
  BY DEF ThreadsTypeOK
<1>2. CASE Acts(h) = a
  <2>1. audit'[a] = Append(audit[a], stage)
    BY <1>2 DEF Log, ThreadsTypeOK
  <2>2. /\ Len(audit'[a]) = Len(audit[a]) + 1 /\ Len(audit[a]) \in Nat
        /\ \A i \in 1..Len(audit[a]) : audit'[a][i] = audit[a][i]
        /\ audit'[a][Len(audit[a]) + 1] = stage
    BY <1>1, <2>1
  <2> QED
    BY <2>2 DEF Logged
<1>3. CASE Acts(h) # a
  <2>1. audit'[a] = audit[a]
    BY <1>3 DEF Log, ThreadsTypeOK
  <2> QED
    BY <1>3, <2>1 DEF Logged
<1> QED
  BY <1>2, <1>3

LEMMA InitAudited == Init => OutcomeAudited
  BY DEF Init, OutcomeAudited, Outcomes

LEMMA NextAudited == ThreadsTypeOK /\ OutcomeAudited /\ [Next]_vars => OutcomeAudited'
<1> SUFFICES ASSUME ThreadsTypeOK, OutcomeAudited, [Next]_vars,
                    NEW a \in ActionIds, status'[a] \in Outcomes, a \notin orphaned'
             PROVE  Logged(a)' \/ \E g \in Handlers : Answers(g, a)'
  BY DEF OutcomeAudited
<1> USE DEF Acts, Move, rowVars, boundVars
\* a step of h that leaves a's status alone keeps the evidence of the others
<1>1. ASSUME NEW h \in Handlers, NEW to, pc' = [pc EXCEPT ![h] = to],
             \/ req' = req
             \/ \E r : req' = [req EXCEPT ![h] = r],
             status'[a] = status[a], orphaned \subseteq orphaned',
             Logged(a) => Logged(a)', Answers(h, a) => Logged(a)'
      PROVE  Logged(a)' \/ \E g \in Handlers : Answers(g, a)'
  <2>1. CASE Logged(a)
    BY <1>1, <2>1
  <2>2. CASE ~ Logged(a)
    <3>1. PICK g \in Handlers : Answers(g, a)
      BY <1>1, <2>2 DEF OutcomeAudited
    <3>2. CASE g = h
      BY <1>1, <3>1, <3>2
    <3>3. CASE g # h
      <4>1. pc'[g] = pc[g] /\ req'[g] = req[g]
        BY <1>1, <3>3 DEF ThreadsTypeOK
      <4> QED
        BY <1>1, <3>1, <4>1 DEF Answers
    <3> QED
      BY <3>2, <3>3
  <2> QED
    BY <2>1, <2>2
<1>2. CASE UNCHANGED vars
  BY <1>2 DEF vars, OutcomeAudited, Logged, Answers
\* the steps that write neither an outcome nor the trail
<1>3. ASSUME NEW h \in Handlers,
             \/ Insert(h) \/ MarkLoad(h) \/ MarkRunning(h) \/ Dispatch(h)
             \/ UpdateLoad(h) \/ RetryCommit(h) \/ CancelCommit(h) \/ Request(h)
      PROVE  Logged(a)' \/ \E g \in Handlers : Answers(g, a)'
  <2>1. /\ \E to : pc' = [pc EXCEPT ![h] = to]
        /\ req' = req \/ \E r : req' = [req EXCEPT ![h] = r]
    BY <1>3 DEF Insert, MarkLoad, MarkRunning, Dispatch, UpdateLoad, RetryCommit,
                CancelCommit, Request, Trigger, StatusCallback, Retry, Cancel, Open,
                Load, Finish
  <2>2. audit' = audit /\ orphaned' = orphaned /\ pc[h] # "outcome"
    BY <1>3 DEF Insert, MarkLoad, MarkRunning, Dispatch, UpdateLoad, RetryCommit,
                CancelCommit, Request, Trigger, StatusCallback, Retry, Cancel, Open,
                Load, Finish
  <2>3. status'[a] = status[a]
    BY <1>3 DEF Insert, MarkLoad, MarkRunning, Dispatch, UpdateLoad, RetryCommit,
                CancelCommit, Request, Trigger, StatusCallback, Retry, Cancel,
                WriteStatus, Outcomes, ThreadsTypeOK
  <2> QED
    BY <1>1, <2>1, <2>2, <2>3 DEF Logged, Answers
<1>4. ASSUME NEW h \in Handlers, AuditInitiated(h)
      PROVE  Logged(a)' \/ \E g \in Handlers : Answers(g, a)'
  <2>1. Logged(a) => Logged(a)'
    BY <1>4, LogKeeps DEF AuditInitiated, ThreadsTypeOK
  <2> QED
    BY <1>1, <1>4, <2>1 DEF AuditInitiated, Answers
<1>5. ASSUME NEW h \in Handlers, Acknowledge(h)
      PROVE  Logged(a)' \/ \E g \in Handlers : Answers(g, a)'
  <2>1. Logged(a) => Logged(a)'
    BY <1>5, LogKeeps DEF Acknowledge, ThreadsTypeOK
  <2> QED
    BY <1>1, <1>5, <2>1 DEF Acknowledge, Answers
<1>6. ASSUME NEW h \in Handlers, UpdateCommit(h)
      PROVE  Logged(a)' \/ \E g \in Handlers : Answers(g, a)'
  <2>1. CASE status'[a] = status[a]
    BY <1>1, <1>6, <2>1 DEF UpdateCommit, Logged, Answers
  <2>2. CASE status'[a] # status[a]
    <3>1. Acts(h) = a /\ status'[a] = req[h].goal
      BY <1>6, <2>2 DEF UpdateCommit, WriteStatus, ThreadsTypeOK
    <3>2. Answers(h, a)'
      BY <1>6, <3>1 DEF UpdateCommit, Answers, ThreadsTypeOK
    <3> QED
      BY <3>2
  <2> QED
    BY <2>1, <2>2
<1>7. ASSUME NEW h \in Handlers, AuditOutcome(h)
      PROVE  Logged(a)' \/ \E g \in Handlers : Answers(g, a)'
  <2>1. Acts(h) \in ActionIds /\ status' = status /\ Log(h, req[h].goal)
    BY <1>7 DEF AuditOutcome, Finish, ThreadsTypeOK
  <2>2. (Logged(a) => Logged(a)') /\ (Answers(h, a) => Logged(a)')
    BY <2>1, LogKeeps DEF Answers
  <2> QED
    BY <1>1, <1>7, <2>2 DEF AuditOutcome, Finish
<1>8. ASSUME NEW h \in Handlers, Abort(h)
      PROVE  Logged(a)' \/ \E g \in Handlers : Answers(g, a)'
  <2>1. ~ Answers(h, a) /\ (Logged(a) => Logged(a)')
    BY <1>8, EngineAssumption DEF Abort, Answers, Logged
  <2> QED
    BY <1>1, <1>8, <2>1 DEF Abort, Finish
<1> QED
  BY <1>2, <1>3, <1>4, <1>5, <1>6, <1>7, <1>8 DEF Next, Step

\* In every behaviour an outcome in the row is in the trail, or on its way
\* there, or the thread that recorded it died.
THEOREM TrailHolds == Spec => []OutcomeAudited
<1>1. Init => TypeOK /\ OutcomeAudited
  BY InitTypeOK, InitAudited
<1>2. (TypeOK /\ OutcomeAudited) /\ [Next]_vars => (TypeOK /\ OutcomeAudited)'
  BY NextTypeOK, NextAudited DEF TypeOK
<1> QED
  BY <1>1, <1>2, PTL DEF Spec

-----------------------------------------------------------------------------
(* Requests one after another.  alone is handled apart from the rest: while it
   is TRUE every step finds the other threads idle (LoneStep), and under that
   condition the row a thread loaded is the row it commits to.               *)

LoneStepOf(h) ==
    /\ Step(h) \/ Request(h) \/ Abort(h)
    /\ \A g \in Handlers \ {h} : pc[g] = "idle"

LEMMA LoneStep ==
    ASSUME [Next]_vars, alone'
    PROVE  alone /\ (UNCHANGED vars \/ \E h \in Handlers : LoneStepOf(h))
<1>1. CASE UNCHANGED vars
  <2>1. alone' = alone
    BY <1>1 DEF vars
  <2> QED
    BY <1>1, <2>1, Zenon
<1>2. CASE Next
  BY <1>2, Zenon DEF Next, Alone, LoneStepOf
<1> QED
  BY <1>1, <1>2

\* The threads that do not step stay idle.
LEMMA OthersIdle ==
    ASSUME ThreadsTypeOK, NEW h \in Handlers, LoneStepOf(h), NEW g \in Handlers, g # h
    PROVE  pc'[g] = "idle"
<1>1. \E to : pc' = [pc EXCEPT ![h] = to]
  BY DEF LoneStepOf, Move, Step, Insert, AuditInitiated, MarkLoad, MarkRunning, Dispatch,
         Acknowledge, UpdateLoad, UpdateCommit, AuditOutcome, RetryCommit, CancelCommit,
         Request, Trigger, StatusCallback, Retry, Cancel, Open, Load, Abort, Finish
<1> QED
  BY <1>1 DEF LoneStepOf, ThreadsTypeOK

\* A lone request keeps its row in sight, and the stamp in step with the status.
LEMMA LoneStamp ==
    ASSUME ThreadsTypeOK, StampedSettled, \A g \in Handlers : RowFresh(g),
           NEW h \in Handlers, LoneStepOf(h)
    PROVE  StampedSettled' /\ \A g \in Handlers : RowFresh(g)'
<1>1. \A g \in Handlers : g # h => RowFresh(g)'
  BY OthersIdle DEF RowFresh
<1>2. RowFresh(h)
  OBVIOUS
<1> USE DEF Acts, Move, rowVars
<1>3. CASE Insert(h)
  <2>1. PICK a \in ActionIds :
           /\ ~ Exists(a)
           /\ status' = [status EXCEPT ![a] = "PENDING"]
           /\ req' = [req EXCEPT ![h].act = a]
    BY <1>3 DEF Insert
  <2>2. pc'[h] = "initiated" /\ req'[h].act = a /\ completed' = completed
    BY <1>3, <2>1 DEF Insert, ThreadsTypeOK, Requests
  <2>3. RowFresh(h)'
    BY <2>1, <2>2 DEF RowFresh, ThreadsTypeOK
  <2>4. StampedSettled'
    BY <2>1, <2>2 DEF StampedSettled, Exists, Terminal, ThreadsTypeOK
  <2> QED
    BY <1>1, <2>3, <2>4
<1>4. CASE MarkLoad(h) \/ UpdateLoad(h)
  <2>1. req'[h].act = Acts(h) /\ req'[h].seen = Row(Acts(h))
    BY <1>4 DEF MarkLoad, UpdateLoad, Load, ThreadsTypeOK, Requests
  <2>2. RowFresh(h)'
    BY <1>2, <1>4, <2>1 DEF MarkLoad, UpdateLoad, Load, RowFresh, Row, ThreadsTypeOK
  <2>3. StampedSettled'
    BY <1>4 DEF MarkLoad, UpdateLoad, StampedSettled
  <2> QED
    BY <1>1, <2>2, <2>3
<1>5. CASE MarkRunning(h)
  <2>1. RowFresh(h)'
    BY <1>5 DEF MarkRunning, RowFresh, ThreadsTypeOK
  <2>2. status[Acts(h)] = "PENDING"
    BY <1>2, <1>5 DEF MarkRunning, RowFresh
  <2>3. StampedSettled'
    BY <1>5, <2>2 DEF MarkRunning, WriteStatus, StampedSettled, Terminal, ThreadsTypeOK
  <2> QED
    BY <1>1, <2>1, <2>3
<1>6. CASE UpdateCommit(h)
  <2>1. RowFresh(h)'
    BY <1>6 DEF UpdateCommit, RowFresh, ThreadsTypeOK
  <2>2. status'[Acts(h)] = req[h].goal /\ req[h].goal \in Terminal
    BY <1>2, <1>6 DEF UpdateCommit, WriteStatus, RowFresh, ThreadsTypeOK, Requests,
                      Outcomes, Terminal
  <2>3. \A a \in ActionIds : a # Acts(h) => status'[a] = status[a]
    BY <1>6 DEF UpdateCommit, WriteStatus, ThreadsTypeOK
  <2>4. StampedSettled'
    BY <1>6, <2>2, <2>3 DEF UpdateCommit, StampedSettled, ThreadsTypeOK
  <2> QED
    BY <1>1, <2>1, <2>4
<1>7. CASE RetryCommit(h)
  <2>1. RowFresh(h)'
    BY <1>7 DEF RetryCommit, RowFresh, ThreadsTypeOK
  <2>2. status'[Acts(h)] = "RUNNING" /\ completed'[Acts(h)] = FALSE
    BY <1>2, <1>7 DEF RetryCommit, WriteStatus, RowFresh, ThreadsTypeOK
  <2>3. \A a \in ActionIds : a # Acts(h) => status'[a] = status[a] /\ completed'[a] = completed[a]
    BY <1>7 DEF RetryCommit, WriteStatus, ThreadsTypeOK
  <2>4. StampedSettled'
    BY <2>2, <2>3 DEF StampedSettled, Terminal
  <2> QED
    BY <1>1, <2>1, <2>4
<1>8. CASE CancelCommit(h)
  <2>1. RowFresh(h)'
    BY <1>8 DEF CancelCommit, Finish, RowFresh, ThreadsTypeOK
  <2>2. status'[Acts(h)] = "CANCELLED"
    BY <1>2, <1>8 DEF CancelCommit, Finish, WriteStatus, RowFresh, ThreadsTypeOK
  <2>3. \A a \in ActionIds : a # Acts(h) => status'[a] = status[a]
    BY <1>8 DEF CancelCommit, WriteStatus, ThreadsTypeOK
  <2>4. StampedSettled'
    BY <1>8, <2>2, <2>3 DEF CancelCommit, Finish, StampedSettled, Terminal, ThreadsTypeOK
  <2> QED
    BY <1>1, <2>1, <2>4
<1>9. CASE AuditInitiated(h) \/ Dispatch(h) \/ Acknowledge(h) \/ AuditOutcome(h) \/ Abort(h)
  <2>1. RowFresh(h)'
    BY <1>2, <1>9 DEF AuditInitiated, Dispatch, Acknowledge, AuditOutcome, Abort, Finish,
                      RowFresh, ThreadsTypeOK
  <2>2. StampedSettled'
    BY <1>9 DEF AuditInitiated, Dispatch, Acknowledge, AuditOutcome, Abort, StampedSettled
  <2> QED
    BY <1>1, <2>1, <2>2
<1>10. CASE Request(h)
  <2>1. StampedSettled'
    BY <1>10 DEF Request, Trigger, StatusCallback, Retry, Cancel, StampedSettled
  <2>2. ASSUME NEW a \in ActionIds, NEW s, NEW step, Open(h, a, s, step),
               step \in {"commit", "retrying", "cancelling"},
               UNCHANGED <<status, completed>>
        PROVE  RowFresh(h)'
    <3>1. req'[h].act = a /\ req'[h].seen = Row(a) /\ pc'[h] = step
      BY <2>2 DEF Open, ThreadsTypeOK
    <3> QED
      BY <2>2, <3>1 DEF RowFresh, Row
  <2>3. RowFresh(h)'
    <3>1. CASE \E d \in Devices, k \in Kinds : Trigger(h, d, k)
      BY <3>1 DEF Trigger, RowFresh, ThreadsTypeOK
    <3>2. CASE \E a \in ActionIds, s \in Outcomes : StatusCallback(h, a, s)
      BY <2>2, <3>2 DEF StatusCallback
    <3>3. CASE \E a \in ActionIds : Retry(h, a)
      BY <2>2, <3>3 DEF Retry
    <3>4. CASE \E a \in ActionIds : Cancel(h, a)
      BY <2>2, <3>4 DEF Cancel
    <3> QED
      BY <1>10, <3>1, <3>2, <3>3, <3>4 DEF Request
  <2> QED
    BY <1>1, <2>1, <2>3
<1> QED
  BY <1>3, <1>4, <1>5, <1>6, <1>7, <1>8, <1>9, <1>10 DEF LoneStepOf, Step

\* With nothing retried, a lone request adds no second active action for a
\* target: the duplicate check it passed still holds when it inserts.
LEMMA LoneActive ==
    ASSUME ThreadsTypeOK, OneActive, \A g \in Handlers : RowFresh(g),
           \A g \in Handlers : Unclaimed(g), \A g \in Handlers : pc[g] # "retrying",
           NEW h \in Handlers, LoneStepOf(h)
    PROVE  OneActive' /\ \A g \in Handlers : Unclaimed(g)'
<1>1. \A g \in Handlers : g # h => Unclaimed(g)'
  BY OthersIdle DEF Unclaimed
<1> USE DEF Acts, Move, rowVars
\* a step after which no more actions are active, on the targets they had
<1>2. ASSUME \A a \in ActionIds : status'[a] \in Active =>
                  status[a] \in Active /\ target'[a] = target[a]
      PROVE  OneActive'
  BY <1>2 DEF OneActive
<1>3. CASE Insert(h)
  <2>1. PICK b \in ActionIds :
           /\ status' = [status EXCEPT ![b] = "PENDING"]
           /\ target' = [target EXCEPT ![b] = req[h].dest]
    BY <1>3 DEF Insert
  <2>2. req[h].dest = <<req[h].dest[1], req[h].dest[2]>>
    BY <1>3 DEF Insert, ThreadsTypeOK
  <2>3. \A a \in ActionIds : status[a] \in Active => target[a] # req[h].dest
    BY <1>3, <2>2 DEF Insert, Unclaimed, Duplicate
  <2>4. OneActive'
    BY <2>1, <2>3 DEF OneActive, ThreadsTypeOK
  <2>5. Unclaimed(h)'
    BY <1>3 DEF Insert, Unclaimed, ThreadsTypeOK
  <2> QED
    BY <1>1, <2>4, <2>5
<1>4. CASE MarkRunning(h)
  <2>1. status[Acts(h)] = "PENDING"
    BY <1>4 DEF MarkRunning, RowFresh
  <2>2. \A a \in ActionIds : status'[a] \in Active => status[a] \in Active /\ target'[a] = target[a]
    BY <1>4, <2>1 DEF MarkRunning, WriteStatus, Active, ThreadsTypeOK
  <2>3. Unclaimed(h)'
    BY <1>4 DEF MarkRunning, Unclaimed, ThreadsTypeOK
  <2> QED
    BY <1>1, <1>2, <2>2, <2>3
<1>5. CASE UpdateCommit(h) \/ CancelCommit(h)
  <2>1. req[h].goal \notin Active /\ "CANCELLED" \notin Active
    BY DEF ThreadsTypeOK, Requests, Active, Outcomes
  <2>2. \A a \in ActionIds : status'[a] \in Active => status[a] \in Active /\ target'[a] = target[a]
    BY <1>5, <2>1 DEF UpdateCommit, CancelCommit, WriteStatus, ThreadsTypeOK
  <2>3. Unclaimed(h)'
    BY <1>5 DEF UpdateCommit, CancelCommit, Finish, Unclaimed, ThreadsTypeOK
  <2> QED
    BY <1>1, <1>2, <2>2, <2>3
<1>6. CASE \E d \in Devices, k \in Kinds : Trigger(h, d, k)
  <2>1. PICK d \in Devices, k \in Kinds : Trigger(h, d, k)
    BY <1>6
  <2>2. req'[h].dest = <<d, k>> /\ status' = status /\ target' = target
    BY <2>1 DEF Trigger, ThreadsTypeOK, Requests
  <2>3. Unclaimed(h)'
    BY <2>1, <2>2 DEF Trigger, Unclaimed, Duplicate
  <2> QED
    BY <1>1, <1>2, <2>2, <2>3
<1>7. CASE \/ AuditInitiated(h) \/ MarkLoad(h) \/ Dispatch(h) \/ Acknowledge(h)
           \/ UpdateLoad(h) \/ AuditOutcome(h) \/ Abort(h)
           \/ \E a \in ActionIds, s \in Outcomes : StatusCallback(h, a, s)
           \/ \E a \in ActionIds : Retry(h, a) \/ Cancel(h, a)
  <2>1. status' = status /\ target' = target
    BY <1>7 DEF AuditInitiated, MarkLoad, Dispatch, Acknowledge, UpdateLoad, AuditOutcome,
                Abort, StatusCallback, Retry, Cancel
  <2>2. pc'[h] # "insert"
    BY <1>7 DEF AuditInitiated, MarkLoad, Dispatch, Acknowledge, UpdateLoad, AuditOutcome,
                Abort, StatusCallback, Retry, Cancel, Load, Finish, Open, ThreadsTypeOK
  <2> QED
    BY <1>1, <1>2, <2>1, <2>2 DEF Unclaimed
<1>8. CASE RetryCommit(h)
  BY <1>8 DEF RetryCommit
<1> QED
  BY <1>3, <1>4, <1>5, <1>6, <1>7, <1>8 DEF LoneStepOf, Step, Request

\* A thread that retries has been counted.
LEMMA NextRetried ==
    ASSUME ThreadsTypeOK, retries = 0 => \A h \in Handlers : pc[h] # "retrying", [Next]_vars,
           retries' = 0
    PROVE  retries = 0 /\ \A h \in Handlers : pc'[h] # "retrying"
<1> USE DEF Move, boundVars
<1>1. CASE UNCHANGED vars
  BY <1>1 DEF vars
<1>2. ASSUME NEW h \in Handlers, Step(h) \/ Request(h) \/ Abort(h)
      PROVE  retries = 0 /\ \A g \in Handlers : pc'[g] # "retrying"
  <2>1. retries = 0
    BY <1>2 DEF Step, Insert, AuditInitiated, MarkLoad, MarkRunning, Dispatch, Acknowledge,
                UpdateLoad, UpdateCommit, AuditOutcome, RetryCommit, CancelCommit, Request,
                Trigger, StatusCallback, Retry, Cancel, Abort, ThreadsTypeOK
  <2>2. ASSUME NEW a \in ActionIds, Retry(h, a) PROVE FALSE
    BY <2>1, <2>2 DEF Retry
  <2>3. \E to \in Steps \ {"retrying"} : pc' = [pc EXCEPT ![h] = to]
    BY <1>2, <2>2 DEF Step, Insert, AuditInitiated, MarkLoad, MarkRunning, Dispatch, Acknowledge,
                UpdateLoad, UpdateCommit, AuditOutcome, RetryCommit, CancelCommit, Request,
                Trigger, StatusCallback, Cancel, Abort, Load, Finish, Open, Steps
  <2> QED
    BY <2>1, <2>3 DEF ThreadsTypeOK
<1> QED
  BY <1>1, <1>2 DEF Next

SerialInv == LoneRequest /\ StampAgrees /\ NoDuplicateAlone

LEMMA InitSerial == Init => SerialInv
<1> SUFFICES ASSUME Init PROVE SerialInv
  OBVIOUS
<1>1. StampedSettled /\ OneActive
  BY DEF Init, StampedSettled, OneActive, Active, Terminal
<1>2. \A h \in Handlers : pc[h] = "idle"
  BY DEF Init
<1>3. \A h \in Handlers : RowFresh(h) /\ Unclaimed(h) /\ pc[h] # "retrying"
  BY <1>2 DEF RowFresh, Unclaimed
<1> QED
  BY <1>1, <1>3, Zenon DEF SerialInv, LoneRequest, StampAgrees, NoDuplicateAlone

LEMMA NextSerial == ThreadsTypeOK /\ SerialInv /\ [Next]_vars => SerialInv'
<1> SUFFICES ASSUME ThreadsTypeOK, SerialInv, [Next]_vars PROVE SerialInv'
  OBVIOUS
<1>1. retries' = 0 => retries = 0 /\ \A h \in Handlers : pc'[h] # "retrying"
  BY NextRetried DEF SerialInv, LoneRequest
<1>2. ASSUME alone' PROVE StampedSettled' /\ \A h \in Handlers : RowFresh(h)'
  <2>1. alone
    BY <1>2, LoneStep
  <2>2. StampedSettled /\ \A h \in Handlers : RowFresh(h)
    BY <2>1, Zenon DEF SerialInv, LoneRequest, StampAgrees
  <2>3. CASE UNCHANGED vars
    BY <2>2, <2>3 DEF vars, StampedSettled, RowFresh, Acts
  <2>4. CASE \E h \in Handlers : LoneStepOf(h)
    BY <2>2, <2>4, LoneStamp
  <2> QED
    BY <1>2, <2>3, <2>4, LoneStep
<1>3. ASSUME alone', retries' = 0 PROVE OneActive' /\ \A h \in Handlers : Unclaimed(h)'
  <2>1. alone /\ retries = 0
    BY <1>1, <1>3, LoneStep
  <2>2. /\ OneActive /\ \A h \in Handlers : pc[h] # "retrying"
        /\ \A h \in Handlers : RowFresh(h) /\ Unclaimed(h)
    BY <2>1, Zenon DEF SerialInv, LoneRequest, NoDuplicateAlone
  <2>3. CASE UNCHANGED vars
    BY <2>2, <2>3 DEF vars, OneActive, Unclaimed, Duplicate
  <2>4. CASE \E h \in Handlers : LoneStepOf(h)
    BY <2>2, <2>4, LoneActive
  <2> QED
    BY <1>3, <2>3, <2>4, LoneStep
<1> QED
  BY <1>1, <1>2, <1>3, Zenon DEF SerialInv, LoneRequest, StampAgrees, NoDuplicateAlone

LEMMA SerialHolds == Spec => []SerialInv
<1>1. Init => TypeOK /\ SerialInv
  BY InitTypeOK, InitSerial
<1>2. (TypeOK /\ SerialInv) /\ [Next]_vars => (TypeOK /\ SerialInv)'
  BY NextTypeOK, NextSerial DEF TypeOK
<1> QED
  BY <1>1, <1>2, PTL DEF Spec

\* In every behaviour without overlapping requests and without a retry, the
\* duplicate check keeps one active action per device and type.
THEOREM NoDuplicates == Spec => []NoDuplicateAlone
<1>1. SerialInv => NoDuplicateAlone
  BY DEF SerialInv
<1> QED
  BY <1>1, SerialHolds, PTL

\* In every behaviour without overlapping requests, completed_at is set exactly
\* on the settled actions.
THEOREM StampHolds == Spec => []StampAgrees
<1>1. SerialInv => StampAgrees
  BY DEF SerialInv
<1> QED
  BY <1>1, SerialHolds, PTL
=============================================================================
