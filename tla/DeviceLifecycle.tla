--------------------------- MODULE DeviceLifecycle ---------------------------
(* A managed endpoint's row in the devices table
   (backend/app/services/device_service.py, agent_health_service.py,
   backend/app/api/devices.py and usb.py) and the agent that registers and
   beats (agent/main.py, agent/api/client.py).

   Each request runs in a thread of the backend with a session of its own: it
   loads the row, decides on what it loaded, and commits.  The ORM writes only
   the columns that were assigned a value other than the loaded one, so a
   request that loaded ONLINE and assigns ONLINE leaves the column alone,
   whatever was committed in between.  All rows belong to one host.          *)
EXTENDS Naturals, Sequences, FiniteSets

CONSTANTS Handlers,     \* request threads of the backend
          MaxRows,      \* bound: rows of the devices table
          MaxStarts,    \* bound: starts of the agent
          MaxLost,      \* bound: calls that fail or time out
          NoHandler

ASSUME DeviceAssumption ==
    /\ MaxRows \in Nat /\ MaxStarts \in Nat /\ MaxLost \in Nat
    /\ NoHandler \notin Handlers /\ Handlers # {} /\ IsFiniteSet(Handlers)

VARIABLES
    devices,    \* the host's rows: status, and whether the last beat is recent
    req,        \* each thread's request: operation, row, status it loaded
    agent,      \* the process, its cached device_id, the thread it waits for
    late,       \* per row: uploads stored since it was isolated
    starts, lost,
    abandoned   \* registrations the agent no longer waited for

deviceVars == <<devices, req, agent, late, starts, lost, abandoned>>

Ids == 1..MaxRows
NoRow == 0
Statuses == {"ONLINE", "OFFLINE", "ISOLATED"}
Ops == {"idle", "register", "beat", "report", "isolate", "unisolate", "upload", "sweep"}
Idle == [op |-> "idle", row |-> NoRow, seen |-> "ONLINE", todo |-> {}]

DeviceInit ==
    /\ devices = <<>>
    /\ req = [h \in Handlers |-> Idle]
    /\ agent = [pc |-> "down", id |-> NoRow, waits |-> NoHandler]
    /\ late = [r \in Ids |-> 0]
    /\ starts = 0 /\ lost = 0 /\ abandoned = 0

-----------------------------------------------------------------------------
(* Loading and committing a row                                              *)

\* A session reads row r into request h
Load(h, op, r, rest) ==
    /\ req[h].op \in {"idle", "sweep"}
    /\ req' = [req EXCEPT ![h] =
                 [op |-> op, row |-> r, todo |-> rest,
                  seen |-> IF r = NoRow THEN "ONLINE" ELSE devices[r].status]]

\* The status column after a commit that assigned s: written only if it changed
Dirty(h, s) ==
    LET r == req[h].row IN
    IF s = req[h].seen THEN devices[r].status ELSE s

\* The commit of request h: the row's status, and its beat if now is assigned
Write(h, s, beat) ==
    LET r == req[h].row IN
    /\ devices' = [devices EXCEPT ![r] = [status |-> Dirty(h, s), beat |-> beat]]
    /\ late' = IF Dirty(h, s) = "ISOLATED" THEN late ELSE [late EXCEPT ![r] = 0]

Done(h) == req' = [req EXCEPT ![h] = Idle]

\* The answer reaches the agent if it still waits for it
Answer(h, id) ==
    agent' = IF agent.waits = h
             THEN [agent EXCEPT !.waits = NoHandler, !.pc = "running",
                                !.id = IF id = NoRow THEN @ ELSE id]
             ELSE agent

-----------------------------------------------------------------------------
(* The agent                                                                 *)

\* main(): one registration at every start, which a network error may lose
Start(h) ==
    /\ agent.pc = "down" /\ starts < MaxStarts
    /\ starts' = starts + 1
    /\ \/ /\ \E r \in IF devices = <<>> THEN {NoRow} ELSE DOMAIN devices :
               Load(h, "register", r, {})
          /\ req[h].op = "idle"
          /\ agent' = [agent EXCEPT !.pc = "starting", !.waits = h]
          /\ UNCHANGED lost
       \/ /\ lost < MaxLost /\ lost' = lost + 1
          /\ agent' = [agent EXCEPT !.pc = "running"]
          /\ UNCHANGED req
    /\ UNCHANGED <<devices, late, abandoned>>

\* run_heartbeat_cycle: needs a device_id, and waits for the answer
Beat(h) ==
    /\ agent.pc = "running" /\ agent.waits = NoHandler /\ agent.id # NoRow
    /\ req[h].op = "idle"
    /\ Load(h, "beat", agent.id, {})
    /\ agent' = [agent EXCEPT !.waits = h]
    /\ UNCHANGED <<devices, late, starts, lost, abandoned>>

Abandons == IF agent.pc = "starting" THEN abandoned + 1 ELSE abandoned

\* The call times out in the agent; the thread carries on
TimesOut ==
    /\ agent.waits # NoHandler /\ lost < MaxLost
    /\ lost' = lost + 1
    /\ abandoned' = Abandons
    /\ agent' = [agent EXCEPT !.pc = "running", !.waits = NoHandler]
    /\ UNCHANGED <<devices, req, late, starts>>

\* The agent stops; the cache file keeps its device_id
Stop ==
    /\ agent.pc # "down" /\ starts < MaxStarts
    /\ abandoned' = Abandons
    /\ agent' = [agent EXCEPT !.pc = "down", !.waits = NoHandler]
    /\ UNCHANGED <<devices, req, late, starts, lost>>

-----------------------------------------------------------------------------
(* The backend                                                               *)

\* Mutant: the lookup's row is not used, every registration inserts
RegisterAlwaysInserts(h) ==
    /\ req[h].op = "register" /\ Len(devices) < MaxRows
    /\ devices' = Append(devices, [status |-> "ONLINE", beat |-> "recent"])
    /\ Answer(h, Len(devices) + 1)
    /\ Done(h)
    /\ UNCHANGED <<late, starts, lost, abandoned>>

\* register_device: updates the row it found, else inserts one
RegisterCommit(h) ==
    /\ req[h].op = "register"
    /\ IF req[h].row # NoRow
       THEN /\ Write(h, "ONLINE", "recent")
            /\ Answer(h, req[h].row)
       ELSE /\ Len(devices) < MaxRows
            /\ devices' = Append(devices, [status |-> "ONLINE", beat |-> "recent"])
            /\ Answer(h, Len(devices) + 1)
            /\ UNCHANGED late
    /\ Done(h)
    /\ UNCHANGED <<starts, lost, abandoned>>

\* Mutant: the heartbeat's status always wins
BeatOnline(h) == "ONLINE"
\* Mutant: the beat leaves the status alone
BeatKeeps(h) == req[h].seen

\* record_heartbeat with status ONLINE: a loaded ISOLATED is preserved
BeatStatus(h) == IF req[h].seen = "ISOLATED" THEN "ISOLATED" ELSE "ONLINE"

BeatCommit(h) ==
    /\ req[h].op = "beat"
    /\ Write(h, BeatStatus(h), "recent")
    /\ Answer(h, NoRow)
    /\ Done(h)
    /\ UNCHANGED <<starts, lost, abandoned>>

\* The operator's requests, and a health report, which beats too
Request(h) ==
    /\ req[h].op = "idle"
    /\ \E op \in {"isolate", "unisolate", "report"}, r \in DOMAIN devices :
         Load(h, op, r, {})
    /\ UNCHANGED <<devices, agent, late, starts, lost, abandoned>>

\* isolate_device
IsolateCommit(h) ==
    /\ req[h].op = "isolate"
    /\ Write(h, "ISOLATED", devices[req[h].row].beat)
    /\ Done(h)
    /\ UNCHANGED <<agent, starts, lost, abandoned>>

\* unisolate_device: whatever the status was
UnisolateCommit(h) ==
    /\ req[h].op = "unisolate"
    /\ Write(h, "ONLINE", devices[req[h].row].beat)
    /\ Done(h)
    /\ UNCHANGED <<agent, starts, lost, abandoned>>

\* ingest_agent_health_report: a recent beat, and no assignment to the status
ReportCommit(h) ==
    /\ req[h].op = "report"
    /\ Write(h, req[h].seen, "recent")
    /\ Done(h)
    /\ UNCHANGED <<agent, starts, lost, abandoned>>

\* Mutant: an isolated endpoint is not refused
AdmittedAlways(r) == TRUE

\* POST /usb/events and /usb/scans: the row is read, and an ISOLATED one refused
Admitted(r) == devices[r].status # "ISOLATED"

UploadCheck(h) ==
    /\ req[h].op = "idle" /\ agent.pc = "running" /\ agent.id # NoRow
    /\ Admitted(agent.id)
    /\ Load(h, "upload", agent.id, {})
    /\ UNCHANGED <<devices, agent, late, starts, lost, abandoned>>

UploadCommit(h) ==
    /\ req[h].op = "upload"
    /\ LET r == req[h].row IN
       late' = [late EXCEPT ![r] = IF devices[r].status = "ISOLATED" THEN @ + 1 ELSE 0]
    /\ Done(h)
    /\ UNCHANGED <<devices, agent, starts, lost, abandoned>>

\* The transaction fails and is rolled back: the caller is answered an error
RollBack(h) ==
    /\ req[h].op # "idle" /\ lost < MaxLost
    /\ lost' = lost + 1
    /\ Answer(h, NoRow)
    /\ Done(h)
    /\ UNCHANGED <<devices, late, starts, abandoned>>

-----------------------------------------------------------------------------
(* evaluate_all_fleet_health: every row is loaded, then they are evaluated one
   by one; a commit expires the session's rows, so only the first is evaluated
   on what the list query read                                               *)

Stale(r) == devices[r].beat = "old"

SweepLoad(h) ==
    /\ req[h].op = "idle"
    /\ \E r \in DOMAIN devices :
         /\ Load(h, "sweep", r, DOMAIN devices \ {r})
         /\ Stale(r)
    /\ UNCHANGED <<devices, agent, late, starts, lost, abandoned>>

\* evaluate_device_health, rule 2: an ONLINE row without a recent beat
SweepStatus(h) == IF req[h].seen = "ONLINE" THEN "OFFLINE" ELSE req[h].seen

SweepCommit(h) ==
    /\ req[h].op = "sweep"
    /\ Write(h, SweepStatus(h), devices[req[h].row].beat)
    /\ LET rest == {r \in req[h].todo : Stale(r)} IN
       \/ rest = {} /\ Done(h)
       \/ \E r \in rest : Load(h, "sweep", r, rest \ {r})
    /\ UNCHANGED <<agent, starts, lost, abandoned>>

\* HEARTBEAT_TIMEOUT_SECONDS pass without a beat
Silence ==
    /\ \E r \in DOMAIN devices : devices' = [devices EXCEPT ![r].beat = "old"]
    /\ UNCHANGED <<req, agent, late, starts, lost, abandoned>>

-----------------------------------------------------------------------------
Commit(h) ==
    \/ RegisterCommit(h) \/ BeatCommit(h) \/ IsolateCommit(h) \/ UnisolateCommit(h)
    \/ ReportCommit(h) \/ UploadCommit(h) \/ SweepCommit(h)

AgentNext(h) == Start(h) \/ Beat(h)
DeviceNext ==
    \/ \E h \in Handlers :
         Commit(h) \/ RollBack(h) \/ AgentNext(h) \/ Request(h) \/ UploadCheck(h) \/ SweepLoad(h)
    \/ TimesOut \/ Stop \/ Silence

DeviceSpec == DeviceInit /\ [][DeviceNext]_deviceVars

(* The agent's loop starts a heartbeat every interval and the pool of threads
   runs every request to its end; nobody has to isolate, report or sweep. An
   agent that stopped is started again while MaxStarts allows, and the agent's
   request finds a thread even when others are served first.                 *)
DeviceFairness ==
    /\ \A h \in Handlers : WF_deviceVars(Commit(h))
    /\ SF_deviceVars(\E h \in Handlers : Start(h))
    /\ SF_deviceVars(\E h \in Handlers : Beat(h))

FairDeviceSpec == DeviceSpec /\ DeviceFairness

-----------------------------------------------------------------------------
(* What should hold                                                          *)

\* The values of the registry; each start of the agent abandons one call at most.
DeviceTypeOK ==
    /\ Len(devices) <= MaxRows
    /\ \A r \in DOMAIN devices : devices[r] \in [status : Statuses, beat : {"recent", "old"}]
    /\ req \in [Handlers -> [op : Ops, row : Ids \cup {NoRow}, seen : Statuses, todo : SUBSET Ids]]
    /\ agent \in [pc : {"down", "starting", "running"}, id : Ids \cup {NoRow},
                  waits : Handlers \cup {NoHandler}]
    /\ late \in [Ids -> Nat]
    /\ starts \in 0..MaxStarts /\ lost \in 0..MaxLost /\ abandoned \in 0..(MaxStarts + MaxLost)

\* An isolated endpoint uploads no more than what its threads had already been
\* admitted for: usb.py refuses an ISOLATED row with HTTP 403, before the insert
UploadWindow == \A r \in Ids : late[r] < Cardinality(Handlers)

\* A row besides the first is the doing of a registration the agent gave up
\* (a time-out or a restart) while the lookup of another was under way
DuplicatesAbandoned == Len(devices) <= 1 + abandoned

Commits(h, r) == req[h].row = r /\ req'[h] # req[h]
Leaves(r) == devices[r].status = "ISOLATED" /\ devices'[r].status # "ISOLATED"

\* A beat, report or sweep that read the isolation never takes it back; one that
\* read the row before it was isolated may, and so may a registration
SeenIsolationKept ==
    [][\A r \in DOMAIN devices : Leaves(r) =>
         \E h \in Handlers : /\ Commits(h, r)
                             /\ \/ req[h].op \in {"unisolate", "register"}
                                \/ req[h].seen # "ISOLATED"]_deviceVars

\* An isolated row is restored by the operator's unisolate only
IsolationHolds ==
    [][\A r \in DOMAIN devices : Leaves(r) =>
         \E h \in Handlers : Commits(h, r) /\ req[h].op = "unisolate"]_deviceVars

\* An endpoint that a sweep declared OFFLINE while it was silent comes back when
\* it beats again, however its beats and further sweeps interleave
ComesBack ==
    \A r \in Ids :
      (r \in DOMAIN devices /\ agent.id = r /\ devices[r].status = "OFFLINE")
        ~> (agent.id # r \/ devices[r].status # "OFFLINE")

=============================================================================
