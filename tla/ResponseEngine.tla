--------------------------- MODULE ResponseEngine ---------------------------
(* The backend's response engine (backend/app/services/response_service.py)
   and the endpoints that call it (backend/app/api/responses.py).

   The endpoints are synchronous FastAPI functions: each request runs on a
   thread of the server's pool with a database session of its own.  Between
   two commits of one request any other request may commit, so a handler is
   modelled as a thread whose steps are its transactions.  The ORM loads a
   row, and at commit writes only the columns whose value differs from what it
   loaded: req[h].seen is the loaded row, and every commit below decides from
   it which columns it touches.

   A handler dies where a commit raises or the process stops (Abort).  Device
   existence and is_active are not modelled: no code path deletes a device or
   clears is_active, so the checks of lines 57-62 never fire for a device of
   Devices.  Permission checks, result texts and the dashboards' broadcasts
   are data no property reads.                                              *)
EXTENDS Naturals, Sequences, FiniteSets

CONSTANTS Handlers,     \* threads of the request pool
          Devices,
          ActionIds,    \* uuid4 values the table may hand out
          Kinds,        \* ResponseActionType values
          Isolate,      \* the member of Kinds that isolates a device
          NoAction,     \* a thread that holds no action
          MaxRetries, MaxReports, MaxAborts   \* bounds on the environment

ASSUME EngineAssumption ==
    /\ Isolate \in Kinds /\ NoAction \notin ActionIds
    /\ MaxRetries \in Nat /\ MaxReports \in Nat /\ MaxAborts \in Nat

NoTarget == <<>>

Active   == {"PENDING", "RUNNING"}
Terminal == {"SUCCESS", "FAILED", "CANCELLED"}
Status   == Active \cup Terminal
Outcomes == {"SUCCESS", "FAILED"}           \* what an agent reports
Stages   == {"INITIATED", "ACKNOWLEDGED"} \cup Outcomes
DeviceStatus == {"ONLINE", "ISOLATED"}

VARIABLES
    status,     \* response_actions.status, "ABSENT" before the INSERT
    completed,  \* response_actions.completed_at is not null
    target,     \* <<device_id, action_type>> of the row
    audit,      \* response_audit_logs of the action, in commit order
    devStatus,  \* devices.status, as far as this service writes it
    sent,       \* broadcasts of RESPONSE_COMMAND for the action
    pc, req,    \* each request thread: where it is, what it holds
    orphaned,   \* actions whose request thread died under them
    alone,      \* so far no two requests have overlapped
    retries, reports, aborts                \* used-up bounds

rowVars   == <<status, completed, target, devStatus>>
boundVars == <<retries, reports, aborts>>
vars == <<status, completed, target, audit, devStatus, sent, pc, req,
          orphaned, alone, retries, reports, aborts>>

Steps == {"idle", "insert", "initiated", "mark", "marking", "dispatch",
          "ack", "load", "commit", "outcome", "retrying", "cancelling"}

Blank == [status |-> "ABSENT", completed |-> FALSE, device |-> "ONLINE"]
Idle  == [act |-> NoAction, dest |-> NoTarget, goal |-> "SUCCESS", seen |-> Blank]

Init ==
    /\ status    = [a \in ActionIds |-> "ABSENT"]
    /\ completed = [a \in ActionIds |-> FALSE]
    /\ target    = [a \in ActionIds |-> NoTarget]
    /\ audit     = [a \in ActionIds |-> <<>>]
    /\ devStatus = [d \in Devices |-> "ONLINE"]
    /\ sent      = [a \in ActionIds |-> 0]
    /\ pc        = [h \in Handlers |-> "idle"]
    /\ req       = [h \in Handlers |-> Idle]
    /\ orphaned  = {}
    /\ alone     = TRUE
    /\ retries = 0 /\ reports = 0 /\ aborts = 0

-----------------------------------------------------------------------------
(* Steps of one thread.                                                      *)

Exists(a) == status[a] # "ABSENT"
Acts(h)   == req[h].act

Move(h, from, to) ==
    /\ pc[h] = from
    /\ pc' = [pc EXCEPT ![h] = to]

Finish(h, from) ==
    /\ Move(h, from, "idle")
    /\ req' = [req EXCEPT ![h] = Idle]

\* SELECT of the action's row, and of its device's
Row(a) == [status |-> status[a], completed |-> completed[a],
           device |-> devStatus[target[a][1]]]

\* A request that names an existing action loads its row and goes to `step`.
Open(h, a, goal, step) ==
    /\ Exists(a)
    /\ Move(h, "idle", step)
    /\ req' = [req EXCEPT ![h] = [act |-> a, dest |-> target[a],
                                  goal |-> goal, seen |-> Row(a)]]

Load(h, from, to) ==
    /\ Move(h, from, to)
    /\ req' = [req EXCEPT ![h].seen = Row(Acts(h))]

\* UPDATE ... SET status: no column is written when the loaded value is equal
WriteStatus(h, s) ==
    status' = IF req[h].seen.status = s THEN status
              ELSE [status EXCEPT ![Acts(h)] = s]

Log(h, stage) == audit' = [audit EXCEPT ![Acts(h)] = Append(@, stage)]

-----------------------------------------------------------------------------
(* POST /responses/trigger, the pipeline's auto-remediation: execute_response *)

\* Mutants (this definition and those marked so below): the code with a bug.
DuplicateRunningOnly(d, k) ==
    \E a \in ActionIds : status[a] = "RUNNING" /\ target[a] = <<d, k>>

Duplicate(d, k) ==
    \E a \in ActionIds : status[a] \in Active /\ target[a] = <<d, k>>

\* Bound: uuid4 never runs out of ids, ActionIds does.
IdsLeft == Cardinality({a \in ActionIds : ~ Exists(a)})
             > Cardinality({h \in Handlers : pc[h] = "insert"})

\* The SELECT of create_response_action; a duplicate is answered with 409.
Trigger(h, d, k) ==
    /\ IdsLeft
    /\ ~ Duplicate(d, k)
    /\ Move(h, "idle", "insert")
    /\ req' = [req EXCEPT ![h].dest = <<d, k>>]
    /\ UNCHANGED <<rowVars, audit, sent, orphaned, boundVars>>

Insert(h) ==
    /\ Move(h, "insert", "initiated")
    /\ \E a \in ActionIds :
        /\ ~ Exists(a)
        /\ status' = [status EXCEPT ![a] = "PENDING"]
        /\ target' = [target EXCEPT ![a] = req[h].dest]
        /\ req' = [req EXCEPT ![h].act = a]
    /\ UNCHANGED <<completed, devStatus, audit, sent, orphaned, boundVars>>

\* Mutant: the creation is logged by no one
AuditInitiatedNever(h) ==
    /\ Move(h, "initiated", "mark")
    /\ UNCHANGED <<rowVars, audit, sent, req, orphaned, boundVars>>

AuditInitiated(h) ==
    /\ Move(h, "initiated", "mark")
    /\ Log(h, "INITIATED")
    /\ UNCHANGED <<rowVars, sent, req, orphaned, boundVars>>

\* The commit above expired the row; the log line of 160-163 loads it again.
MarkLoad(h) ==
    /\ Load(h, "mark", "marking")
    /\ UNCHANGED <<rowVars, audit, sent, orphaned, boundVars>>

MarkRunning(h) ==
    /\ Move(h, "marking", "dispatch")
    /\ WriteStatus(h, "RUNNING")
    /\ UNCHANGED <<completed, target, devStatus, audit, sent, req, orphaned,
                   boundVars>>

(* dispatch_command_to_agent.  broadcast_sync hands the message to the event
   loop and swallows every exception, so the branch of 211-221 is dead.      *)
Dispatch(h) ==
    /\ Move(h, "dispatch", "ack")
    /\ sent' = [sent EXCEPT ![Acts(h)] = @ + 1]
    /\ UNCHANGED <<rowVars, audit, req, orphaned, boundVars>>

\* Stage ACKNOWLEDGED is the backend's own entry, written on dispatch.
Acknowledge(h) ==
    /\ Move(h, "ack", "load")
    /\ Log(h, "ACKNOWLEDGED")
    /\ req' = [req EXCEPT ![h].goal = "SUCCESS"]
    /\ UNCHANGED <<rowVars, sent, orphaned, boundVars>>

-----------------------------------------------------------------------------
(* update_response_action_status                                             *)

UpdateLoad(h) ==
    /\ Load(h, "load", "commit")
    /\ UNCHANGED <<rowVars, audit, sent, orphaned, boundVars>>

\* SUCCESS of an ISOLATE marks the device in the same transaction.
IsolatesDevice(h) ==
    /\ req[h].goal = "SUCCESS"
    /\ target[Acts(h)][2] = Isolate
    /\ req[h].seen.device # "ISOLATED"

\* Mutant: the device is left to a later transaction
UpdateCommitRowOnly(h) ==
    /\ Move(h, "commit", "outcome")
    /\ WriteStatus(h, req[h].goal)
    /\ completed' = [completed EXCEPT ![Acts(h)] = TRUE]
    /\ UNCHANGED <<target, devStatus, audit, sent, req, orphaned, boundVars>>

\* Mutant: a row that already has a completion stamp is taken for settled
UpdateCommitOnce(h) ==
    /\ Move(h, "commit", "outcome")
    /\ IF req[h].seen.completed THEN UNCHANGED status ELSE WriteStatus(h, req[h].goal)
    /\ completed' = [completed EXCEPT ![Acts(h)] = TRUE]
    /\ devStatus' = IF IsolatesDevice(h)
                    THEN [devStatus EXCEPT ![target[Acts(h)][1]] = "ISOLATED"]
                    ELSE devStatus
    /\ UNCHANGED <<target, audit, sent, req, orphaned, boundVars>>

UpdateCommit(h) ==
    /\ Move(h, "commit", "outcome")
    /\ WriteStatus(h, req[h].goal)
    /\ completed' = [completed EXCEPT ![Acts(h)] = TRUE]
    /\ devStatus' = IF IsolatesDevice(h)
                    THEN [devStatus EXCEPT ![target[Acts(h)][1]] = "ISOLATED"]
                    ELSE devStatus
    /\ UNCHANGED <<target, audit, sent, req, orphaned, boundVars>>

\* Mutant: the trail repeats the dispatch result instead of the reported one
AuditOutcomeAsDispatched(h) ==
    /\ Finish(h, "outcome")
    /\ Log(h, "SUCCESS")
    /\ UNCHANGED <<rowVars, sent, orphaned, boundVars>>

AuditOutcome(h) ==
    /\ Finish(h, "outcome")
    /\ Log(h, req[h].goal)
    /\ UNCHANGED <<rowVars, sent, orphaned, boundVars>>

-----------------------------------------------------------------------------
(* The endpoints that name an existing action                                *)

\* POST /responses/{id}/status by an agent that was sent the command
StatusCallback(h, a, s) ==
    /\ reports < MaxReports
    /\ sent[a] > 0
    /\ Open(h, a, s, "commit")
    /\ reports' = reports + 1
    /\ UNCHANGED <<rowVars, audit, sent, orphaned, retries, aborts>>

\* POST /responses/{id}/retry: no look at the current status
Retry(h, a) ==
    /\ retries < MaxRetries
    /\ Open(h, a, "SUCCESS", "retrying")
    /\ retries' = retries + 1
    /\ UNCHANGED <<rowVars, audit, sent, orphaned, reports, aborts>>

\* Mutant: the status of the sister table agent_commands
RetryCommitDispatched(h) ==
    /\ Move(h, "retrying", "dispatch")
    /\ WriteStatus(h, "DISPATCHED")
    /\ completed' = IF req[h].seen.completed
                    THEN [completed EXCEPT ![Acts(h)] = FALSE] ELSE completed
    /\ UNCHANGED <<target, devStatus, audit, sent, req, orphaned, boundVars>>

RetryCommit(h) ==
    /\ Move(h, "retrying", "dispatch")
    /\ WriteStatus(h, "RUNNING")
    /\ completed' = IF req[h].seen.completed
                    THEN [completed EXCEPT ![Acts(h)] = FALSE] ELSE completed
    /\ UNCHANGED <<target, devStatus, audit, sent, req, orphaned, boundVars>>

\* POST /responses/{id}/cancel: no look at the current status, no audit entry
Cancel(h, a) ==
    /\ Open(h, a, "SUCCESS", "cancelling")
    /\ UNCHANGED <<rowVars, audit, sent, orphaned, boundVars>>

\* Mutant: the cancel forgets the completion stamp
CancelCommitUnstamped(h) ==
    /\ Finish(h, "cancelling")
    /\ WriteStatus(h, "CANCELLED")
    /\ UNCHANGED <<completed, target, devStatus, audit, sent, orphaned, boundVars>>

CancelCommit(h) ==
    /\ Finish(h, "cancelling")
    /\ WriteStatus(h, "CANCELLED")
    /\ completed' = [completed EXCEPT ![Acts(h)] = TRUE]
    /\ UNCHANGED <<target, devStatus, audit, sent, orphaned, boundVars>>

\* The thread dies: its open transaction is rolled back, earlier ones stay.
Abort(h) ==
    /\ aborts < MaxAborts
    /\ pc[h] # "idle"
    /\ Finish(h, pc[h])
    /\ orphaned' = orphaned \cup ({Acts(h)} \ {NoAction})
    /\ aborts' = aborts + 1
    /\ UNCHANGED <<rowVars, audit, sent, retries, reports>>

-----------------------------------------------------------------------------
Step(h) ==
    \/ Insert(h) \/ AuditInitiated(h) \/ MarkLoad(h) \/ MarkRunning(h)
    \/ Dispatch(h) \/ Acknowledge(h) \/ UpdateLoad(h) \/ UpdateCommit(h)
    \/ AuditOutcome(h) \/ RetryCommit(h) \/ CancelCommit(h)

Request(h) ==
    \/ \E d \in Devices, k \in Kinds : Trigger(h, d, k)
    \/ \E a \in ActionIds, s \in Outcomes : StatusCallback(h, a, s)
    \/ \E a \in ActionIds : Retry(h, a) \/ Cancel(h, a)

\* A step of h while another request is in progress ends the serial prefix
Alone(h) == alone' = (alone /\ \A g \in Handlers \ {h} : pc[g] = "idle")

Next == \E h \in Handlers : (Step(h) \/ Request(h) \/ Abort(h)) /\ Alone(h)

Spec == Init /\ [][Next]_vars

\* The pool runs every thread it started to its end.
FairSpec == Spec /\ \A h \in Handlers : WF_vars(Step(h) /\ Alone(h))

-----------------------------------------------------------------------------
(* Properties                                                                *)

Rows     == [status : Status \cup {"ABSENT"}, completed : BOOLEAN,
             device : DeviceStatus]
Requests == [act : ActionIds \cup {NoAction},
             dest : (Devices \X Kinds) \cup {NoTarget},
             goal : Outcomes, seen : Rows]

ThreadsTypeOK ==
    /\ status \in [ActionIds -> Status \cup {"ABSENT"}]
    /\ completed \in [ActionIds -> BOOLEAN]
    /\ target \in [ActionIds -> (Devices \X Kinds) \cup {NoTarget}]
    /\ \A a \in ActionIds : Exists(a) => target[a] \in Devices \X Kinds
    /\ audit \in [ActionIds -> Seq(Stages)]
    /\ devStatus \in [Devices -> DeviceStatus]
    /\ sent \in [ActionIds -> Nat]
    /\ pc \in [Handlers -> Steps]
    /\ req \in [Handlers -> Requests]
    /\ \A h \in Handlers :
        /\ pc[h] = "insert" => req[h].dest \in Devices \X Kinds
        /\ pc[h] \notin {"idle", "insert"} => Acts(h) \in ActionIds /\ Exists(Acts(h))
    /\ orphaned \subseteq ActionIds
    /\ retries \in Nat /\ reports \in Nat /\ aborts \in Nat

TypeOK == ThreadsTypeOK /\ alone \in BOOLEAN

\* Thread h will still give action a a terminal status.
Carries(h, a) ==
    /\ Acts(h) = a
    /\ \/ pc[h] \in {"initiated", "mark", "marking", "dispatch", "ack", "load"}
       \/ pc[h] = "commit" /\ req[h].seen.status # req[h].goal

\* An action is PENDING or RUNNING only while some request is still going to
\* settle it, or because the request that would have died: whatever the
\* interleaving of triggers, retries, cancels and agent reports, no action is
\* left active by threads that all ran to their end.
NoActionForgotten ==
    \A a \in ActionIds : status[a] \in Active =>
        a \in orphaned \/ \E h \in Handlers : Carries(h, a)

Logged(a)     == \E i \in 1..Len(audit[a]) : audit[a][i] = status[a]
Answers(h, a) == Acts(h) = a /\ pc[h] = "outcome" /\ req[h].goal = status[a]

\* An outcome in the row is in the forensic trail, or the thread that will
\* write it there is at its last step (rows and trail are separate commits).
OutcomeAudited ==
    \A a \in ActionIds : status[a] \in Outcomes /\ a \notin orphaned =>
        Logged(a) \/ \E h \in Handlers : Answers(h, a)

\* A successful ISOLATE is never recorded without its device being ISOLATED,
\* although the two rows may be loaded before and written after others' commits.
IsolationRecorded ==
    \A a \in ActionIds : status[a] = "SUCCESS" /\ target[a][2] = Isolate =>
        devStatus[target[a][1]] = "ISOLATED"

\* A thread about to commit that skips the device's column loaded it ISOLATED,
\* and the device still is: what IsolationRecorded needs to be inductive.
SeenIsolated ==
    \A h \in Handlers : pc[h] = "commit" /\ req[h].seen.device = "ISOLATED" =>
        devStatus[target[Acts(h)][1]] = "ISOLATED"

OneActive == \A a, b \in ActionIds :
    status[a] \in Active /\ status[b] \in Active /\ target[a] = target[b] => a = b

\* While requests came one after another, dying midway or not, and nothing was
\* retried, there is at most one active action per device and type: the check
\* of create_response_action answers a duplicate with 409.
NoDuplicateAlone == alone /\ retries = 0 => OneActive

StampedSettled == \A a \in ActionIds : completed[a] <=> status[a] \in Terminal

\* While requests came one after another, completed_at is set exactly on the
\* settled actions.
StampAgrees == alone => StampedSettled

\* What the two above need to be inductive: a lone request's loaded row is the
\* row, its new action is still PENDING, no twin appeared since it looked.
RowFresh(h) ==
    /\ pc[h] \in {"marking", "commit", "retrying", "cancelling"} =>
          /\ req[h].seen.status = status[Acts(h)]
          /\ req[h].seen.completed = completed[Acts(h)]
    /\ pc[h] \in {"initiated", "mark", "marking"} => status[Acts(h)] = "PENDING"

Unclaimed(h) == pc[h] = "insert" => ~ Duplicate(req[h].dest[1], req[h].dest[2])

LoneRequest ==
    /\ alone => \A h \in Handlers : RowFresh(h)
    /\ alone /\ retries = 0 => \A h \in Handlers : Unclaimed(h)
    /\ retries = 0 => \A h \in Handlers : pc[h] # "retrying"

\* Every active action is settled when the threads run and none dies.
ActionSettles ==
    \A a \in ActionIds : status[a] \in Active ~> status[a] \notin Active
=============================================================================
