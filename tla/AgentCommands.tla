---------------------------- MODULE AgentCommands ----------------------------
(* The remote command queue of one device
   (backend/app/services/agent_command_service.py): administrators queue
   agent_commands rows, the device's agent polls for the pending ones and
   acknowledges each with its outcome.  Commands of different devices share
   nothing, and queue_batch_commands is one queue_command after another.

   Every request runs on a thread with a session of its own (autoflush is off):
   it loads rows, commits only the columns whose value differs from the loaded
   one, and writes its audit entry in a second commit.  The agent that polls is
   not in the repository: it runs every copy it receives and acknowledges it
   with SUCCESS or FAILED.  A registration may also reset the device's
   last_command_status to NONE (device_service.py:61); it is left out.       *)
EXTENDS Naturals, Sequences, FiniteSets

CONSTANTS Handlers,     \* threads of the request pool
          Commands,     \* uuid4 values the table may hand out
          MaxMishaps    \* bound: lost answers and acknowledgements, dying threads

ASSUME CommandAssumption == MaxMishaps \in Nat

Finished == {"SUCCESS", "FAILED"}
CommandStatus == {"PENDING", "DISPATCHED"} \cup Finished
\* What this service writes into the column (the enumeration also has SUCCESS).
Shown == {"NONE", "PENDING", "DISPATCHED", "EXECUTED", "FAILED"}

VARIABLES
    status,     \* agent_commands.status, "ABSENT" before the INSERT
    shown,      \* devices.last_command_status
    trail,      \* agent_command_audit_logs.status, per command, in order
    req,        \* each request thread
    copies,     \* copies of a command the agent has yet to acknowledge
    answers,    \* polls whose answer held the command and was sent
    overlapped, \* two polls have been under way at the same time
    mishaps     \* answers and acknowledgements lost, threads that died

vars == <<status, shown, trail, req, copies, answers, overlapped, mishaps>>

Steps == {"idle", "queue", "poll", "dispatch", "ack", "settle", "refresh", "audit"}
Idle == [at |-> "idle", cmds |-> {}, seen |-> "ABSENT", flag |-> "NONE", goal |-> "SUCCESS"]

Init ==
    /\ status = [c \in Commands |-> "ABSENT"]
    /\ shown = "NONE"
    /\ trail = [c \in Commands |-> <<>>]
    /\ req = [h \in Handlers |-> Idle]
    /\ copies = [c \in Commands |-> 0]
    /\ answers = [c \in Commands |-> 0]
    /\ overlapped = FALSE
    /\ mishaps = 0

-----------------------------------------------------------------------------
At(h, step) == req[h].at = step
Open(h, r) == At(h, "idle") /\ req' = [req EXCEPT ![h] = r]
Finish(h) == req' = [req EXCEPT ![h] = Idle]

\* The column after a commit that assigned s over a loaded value
Assign(current, loaded, s) == IF s = loaded THEN current ELSE s

\* The device's row is loaded by a query of its own
LoadDevice(h, step, next) ==
    /\ At(h, step)
    /\ req' = [req EXCEPT ![h].flag = shown, ![h].at = next]
    /\ UNCHANGED <<status, shown, trail, copies, answers, overlapped, mishaps>>

Log(c, s) == trail' = [trail EXCEPT ![c] = Append(@, s)]

-----------------------------------------------------------------------------
(* POST /fleet/commands: queue_command                                       *)

\* Bound: uuid4 never runs out of ids, Commands does.
IdsLeft == Cardinality({c \in Commands : status[c] = "ABSENT"})
             > Cardinality({h \in Handlers : At(h, "queue")})

Queue(h) ==
    /\ IdsLeft
    /\ Open(h, [Idle EXCEPT !.at = "queue", !.flag = shown])
    /\ UNCHANGED <<status, shown, trail, copies, answers, overlapped, mishaps>>

Insert(h) ==
    /\ At(h, "queue")
    /\ \E c \in Commands :
        /\ status[c] = "ABSENT"
        /\ status' = [status EXCEPT ![c] = "PENDING"]
        /\ req' = [req EXCEPT ![h] =
                     [Idle EXCEPT !.at = "audit", !.cmds = {c}, !.seen = "PENDING"]]
    /\ shown' = Assign(shown, req[h].flag, "PENDING")
    /\ UNCHANGED <<trail, copies, answers, overlapped, mishaps>>

\* _create_audit_log with the status the session holds: a commit of its own
Audit(h) ==
    /\ At(h, "audit")
    /\ \E c \in req[h].cmds : Log(c, req[h].seen)
    /\ Finish(h)
    /\ UNCHANGED <<status, shown, copies, answers, overlapped, mishaps>>

-----------------------------------------------------------------------------
(* GET /fleet/commands/pending/{device_id}: get_pending_commands_for_device  *)

\* Mutants: unacknowledged commands are offered again; the device's column
\* is trusted to tell whether anything is pending
UnfinishedOnes == {c \in Commands : status[c] \in {"PENDING", "DISPATCHED"}}
PendingIfShown == {c \in Commands : status[c] = "PENDING" /\ shown = "PENDING"}

Pending == {c \in Commands : status[c] = "PENDING"}

Polling == {h \in Handlers : req[h].at \in {"poll", "dispatch"}}

\* The SELECT; a poll that finds nothing returns without a commit.
Poll(h) ==
    /\ Pending # {}
    /\ Open(h, [Idle EXCEPT !.at = "poll", !.cmds = Pending])
    /\ overlapped' = (overlapped \/ Polling # {})
    /\ UNCHANGED <<status, shown, trail, copies, answers, mishaps>>

PollDevice(h) == LoadDevice(h, "poll", "dispatch")

\* Mutant: the device's column is left as it is
DispatchUnshown(h, arrives) ==
    /\ At(h, "dispatch")
    /\ arrives \/ mishaps < MaxMishaps
    /\ LET batch == req[h].cmds IN
        /\ status' = [c \in Commands |-> IF c \in batch THEN "DISPATCHED" ELSE status[c]]
        /\ answers' = [c \in Commands |-> answers[c] + (IF c \in batch THEN 1 ELSE 0)]
        /\ copies' = [c \in Commands |-> copies[c] + (IF arrives /\ c \in batch THEN 1 ELSE 0)]
    /\ mishaps' = IF arrives THEN mishaps ELSE mishaps + 1
    /\ Finish(h)
    /\ UNCHANGED <<shown, trail, overlapped>>

\* The commit, and the answer the agent receives or not
Dispatch(h, arrives) ==
    /\ At(h, "dispatch")
    /\ arrives \/ mishaps < MaxMishaps
    /\ LET batch == req[h].cmds IN
        /\ status' = [c \in Commands |-> IF c \in batch THEN "DISPATCHED" ELSE status[c]]
        /\ answers' = [c \in Commands |-> answers[c] + (IF c \in batch THEN 1 ELSE 0)]
        /\ copies' = [c \in Commands |-> copies[c] + (IF arrives /\ c \in batch THEN 1 ELSE 0)]
    /\ shown' = Assign(shown, req[h].flag, "DISPATCHED")
    /\ mishaps' = IF arrives THEN mishaps ELSE mishaps + 1
    /\ Finish(h)
    /\ UNCHANGED <<trail, overlapped>>

-----------------------------------------------------------------------------
(* POST /fleet/commands/acknowledge: acknowledge_command                     *)

\* The agent ran a copy; its acknowledgement arrives.
Acknowledge(h, c, outcome) ==
    /\ copies[c] > 0
    /\ copies' = [copies EXCEPT ![c] = @ - 1]
    /\ Open(h, [Idle EXCEPT !.at = "ack", !.cmds = {c}, !.seen = status[c], !.goal = outcome])
    /\ UNCHANGED <<status, shown, trail, answers, overlapped, mishaps>>

\* It gets lost on the way.
AcknowledgeLost(c) ==
    /\ copies[c] > 0 /\ mishaps < MaxMishaps
    /\ copies' = [copies EXCEPT ![c] = @ - 1]
    /\ mishaps' = mishaps + 1
    /\ UNCHANGED <<status, shown, trail, req, answers, overlapped>>

AckDevice(h) == LoadDevice(h, "ack", "settle")

ShownAs(outcome) == IF outcome = "SUCCESS" THEN "EXECUTED" ELSE "FAILED"

Settle(h) ==
    /\ At(h, "settle")
    /\ LET r == req[h] IN
        /\ status' = [c \in Commands |->
                        IF c \in r.cmds THEN Assign(status[c], r.seen, r.goal) ELSE status[c]]
        /\ shown' = Assign(shown, r.flag, ShownAs(r.goal))
    /\ req' = [req EXCEPT ![h] =
                 [Idle EXCEPT !.at = "refresh", !.cmds = req[h].cmds, !.seen = req[h].seen]]
    /\ UNCHANGED <<trail, copies, answers, overlapped, mishaps>>

\* db.refresh: the audit entry will show the row as it is by now
Refresh(h) ==
    /\ At(h, "refresh")
    /\ \E c \in req[h].cmds :
         req' = [req EXCEPT ![h].at = "audit", ![h].seen = status[c]]
    /\ UNCHANGED <<status, shown, trail, copies, answers, overlapped, mishaps>>

-----------------------------------------------------------------------------
\* A commit raises or the process stops: the rest of the request is not done.
Die(h) ==
    /\ ~ At(h, "idle") /\ mishaps < MaxMishaps
    /\ mishaps' = mishaps + 1
    /\ Finish(h)
    /\ UNCHANGED <<status, shown, trail, copies, answers, overlapped>>

Step(h) ==
    \/ Insert(h) \/ Audit(h) \/ PollDevice(h) \/ Dispatch(h, TRUE)
    \/ AckDevice(h) \/ Settle(h) \/ Refresh(h)

Next ==
    \/ \E h \in Handlers :
        \/ Step(h) \/ Queue(h) \/ Poll(h) \/ Dispatch(h, FALSE) \/ Die(h)
        \/ \E c \in Commands, o \in Finished : Acknowledge(h, c, o)
    \/ \E c \in Commands : AcknowledgeLost(c)

Spec == Init /\ [][Next]_vars

(* The pool runs every thread to its end, and the agent polls and acknowledges
   again and again: its requests find a thread even when others come first.
   Nobody has to queue a command.                                            *)
FairSpec ==
    /\ Spec
    /\ \A h \in Handlers : WF_vars(Step(h))
    /\ SF_vars(\E h \in Handlers : Poll(h))
    /\ \A c \in Commands : SF_vars(\E h \in Handlers, o \in Finished : Acknowledge(h, c, o))

-----------------------------------------------------------------------------
Requests == [at : Steps, cmds : SUBSET Commands, seen : CommandStatus \cup {"ABSENT"},
             flag : Shown, goal : Finished]

\* The values of the queue: rows, trail, requests and what the agent holds.
TypeOK ==
    /\ status \in [Commands -> CommandStatus \cup {"ABSENT"}]
    /\ shown \in Shown
    /\ trail \in [Commands -> Seq(CommandStatus)]
    /\ req \in [Handlers -> Requests]
    /\ copies \in [Commands -> Nat] /\ answers \in [Commands -> Nat]
    /\ overlapped \in BOOLEAN
    /\ mishaps \in 0..MaxMishaps

\* The fleet view never claims a pending command that is not there: although a
\* commit writes last_command_status only where it differs from a value loaded
\* before others' commits, it reads PENDING only while some command is PENDING.
PendingShown == shown = "PENDING" => Pending # {}

\* Until two polls overlapped, no command is handed to the agent twice.
DeliveredOnceAlone == ~ overlapped => \A c \in Commands : answers[c] <= 1

\* Until two polls overlapped, an acknowledged outcome is final: no poll, late
\* acknowledgement or death takes it back.
OutcomeFinalAlone ==
    [][\A c \in Commands :
         ~ overlapped /\ status[c] \in Finished => status'[c] = status[c]]_vars

\* A queued command reaches the agent and is acknowledged, unless an answer, an
\* acknowledgement or a thread that had to do with some command was lost.
CommandSettles ==
    \A c \in Commands :
        status[c] = "PENDING" ~> (status[c] \in Finished \/ mishaps > 0)
=============================================================================
