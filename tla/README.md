# SentinelX EDR — TLA+ verification

SentinelX is an endpoint-detection system: agents on managed hosts (`src/agent`) report to a
FastAPI backend (`src/backend/app`) that stores devices, telemetry, threats, alerts and incidents
in PostgreSQL, keeps jobs and rate-limit counters in Redis, and pushes commands and notifications
over websockets.  This directory models the parts whose correctness depends on interleaving,
loss, restarts and limits, model-checks them with TLC, and proves invariants of them with TLAPS.
`PROJECT.json` lists components, runs, mutants, hazards and theorems, and maps every definition to
the source lines it stands for.

Paths below are relative to the repository (`src/`); `RS` is `backend/app/services/response_service.py`.

## 1. How the system executes

* **Backend.**  Most endpoints are synchronous functions: FastAPI runs each request on a thread of
  a pool with a SQLAlchemy session of its own (`db/session.py`).  PostgreSQL runs at READ
  COMMITTED; `autoflush` is off (`db/database.py`), so a request reads with SELECTs, and writes at
  `commit` only.  Services commit several times in one request (a row, then its audit entry), and
  anything may be committed by others between two commits.
* **The ORM writes changed columns only.**  A session remembers the loaded row; assigning the value
  that was loaded writes nothing.  Every model that has two writers of one row keeps the *loaded*
  row of each thread (`seen`, `flag`) and decides from it which columns a commit touches.
* **Agent.**  One process with a thread per service (heartbeats, USB detector and scan worker,
  collectors, policy sync, command channel); its durable state is a cached device id, the telemetry
  buffer file and the quarantine vault.  Everything else is lost at a restart.
* **Worker.**  `worker.py` processes pop job ids from Redis lists.

## 2. Inventory

| Component | State | Operations | Hard behaviour | What must hold |
|---|---|---|---|---|
| Response engine (`RS`, `api/responses.py`) | `response_actions`, `response_audit_logs`, `devices.status` | trigger, retry, cancel, agent's status callback | threads between commits, stale rows, dying requests | nothing stays active for ever; outcomes audited; isolation recorded with its success; no duplicates |
| Command channel and executor (`agent/command_channel.py`, `command_executor.py`) | replay cache (set of 2000 ids, in memory) | process a command, report | duplicated and late copies, eviction, restart | run once while remembered; reports are earned |
| Offline buffer (`agent/telemetry_buffer.py`) and telemetry ingestion (`services/telemetry_service.py`) | JSON file, 5000 events; `telemetry_logs` | enqueue, peek, remove, flush; ingest a batch | overflow during a POST, concurrent flushes, torn file, lost answers, one bad event in a batch | stored in order while there is room; duplicates explained; it drains |
| Device registry, agent registration, health (`services/device_service.py`, `agent_health_service.py`, `agent/main.py`, `agent/api/client.py`) | `devices`, cached device id | register, beat, report, isolate, restore, sweep | look-up then insert, loaded status, time-outs, restarts | a seen isolation is not undone; one row per host; silent hosts come back |
| Agent command queue (`services/agent_command_service.py`) | `agent_commands`, its audit log, `devices.last_command_status` | queue, poll, acknowledge | overlapping polls, lost answers | handed out once; outcome final; the column tells the truth |
| Background jobs (`core/job_queue.py`, `worker.py`) | job documents with TTL, five lists | enqueue, pop, run, record | command applied but not answered, expiry, worker death | run once; nothing lost without a fault |
| Policies (`services/policy_service.py`, `agent/policy_sync.py`) | rows of `security_policies`, the agent's version, subscribers' configurations | create, put, toggle, clone, roll back; fetch, compare, apply | two reads of one fetch, a sum as version, a raising subscriber | a synced agent runs what is active |
| Websockets (`core/websocket_manager.py`) | pool of connections, table of agents | connect, disconnect, broadcast | reconnect before disconnect, sends that fail midway | the newest connection is the one kept |
| Rate limiter (`core/rate_limiter.py`) | Redis counter per client and minute | count, expire, decide | INCR without EXPIRE, expiry in between | bounded requests per window |
| Investigations, reports, upgrades (`services/investigation_case_service.py`, `scheduled_report_service.py`, `agent_upgrade_service.py`) | rows edited by analysts, schedules, the device's version | edit, link, execute, step, roll back | stale rows written back | an answered edit stands |
| USB detection and scanning (`agent/detectors/usb_detector.py`, `background_scanner.py`, `api/usb.py`) | drive snapshot, scan queue, batches, `usb_scan_results` | poll drives, emit, scan, upload, resend | drives that leave, failed batches, repeated uploads | a vaulted file is reported |
| Alerts and threats (`services/alert_service.py`, `threat_service.py`, `detection/pipeline.py`) | `threats`, `alerts` | analyse, detect, alert; read, acknowledge, resolve, bulk | check then insert, a break between commits, stale status writes | one threat per finding; no answered analysis without its alerts |
| Quarantine vault (`agent/quarantine_manager.py`) | vault directory, manifest | quarantine | manifest read, extended and written without a lock | every vaulted file has its record |
| File integrity (`agent/collectors/file_watcher.py`, `integrity_engine.py`; `services/file_integrity_service.py`) | seen events, baseline; records of the backend | poll, notify, compare; baseline, verify, respond | two threads per path, events that look alike, duplicate rows | the baseline follows the disk; one record per path |
| Process and network inventories (agent collectors; `services/process_service.py`, `network_service.py`) | last snapshot; rows per device | snapshot, differences, findings | overlapping requests, matching rows by part of the key | what is recorded is what is there |
| Event logs (`event_log_collector.py`, `event_log_service.py`, `event_log_rules.py`) | `event_logs`, `alerts` | collect, ingest, evaluate | what the rules are given depends on the uploader | failed logons raise their alert |
| Behaviour and incidents (`detection/behavior/*`, `services/timeline_engine.py`) | sessions with sliding windows; incidents in memory | ingest, score, list; correlate | two threads create one session, a listing prunes it, windows | one session, one incident; verdicts stand |
| Users and authentication, analytics, threat-hunting queries, models and migrations, health endpoint, front end, deployment | rows edited by one request; queries | CRUD, rendering | — | — |

Interactions: the pipeline and analysts *trigger* response actions, whose command is *broadcast* on
every websocket; agents take it through the command channel and *call back* with a status.  Agents
*register* and *beat* into the device registry, whose status the response engine (isolation) and
the health sweep also write, and which gates USB uploads.  The USB pipeline moves dangerous files to
the *vault* and uploads scan results, which the backend *analyses* into threats and alerts.
Collectors *post* differences to the inventories and *enqueue* into the offline buffer, which
*flushes* into telemetry ingestion.  Administrators change *policies* that agents fetch, *queue*
agent commands that agents *poll*, and *enqueue* jobs that workers pop.

## 3. Modules

| Module | Models | Composes |
|---|---|---|
| `ResponseEngine` | the request threads of the response engine, one step per transaction | |
| `CommandChannel` | an agent's replay cache, execution and report | |
| `ResponseDispatch` | backend and agents with a lossy, duplicating, reordering network | `ResponseEngine` (EXTENDS), `CommandChannel` (INSTANCE) |
| `DeviceLifecycle` | one host's rows in `devices`, its agent, operators, sweeps, USB uploads | |
| `AgentCommands` | one device's command queue, polls and acknowledgements | |
| `JobQueue` | Redis documents and lists, workers, faults | |
| `TelemetryBuffer` | the buffer file, flushes, and the backend's ingestion | |
| `PolicySync` | policy rows, routes that change them, the agent's sync daemon | |
| `SocketRegistry` | the event loop's connections, the table of agents, broadcasts | |
| `RateLimiter` | one client's requests and the keys of its windows | |
| `ConsoleEdits` | cases, scheduled reports, upgrades and device versions | |
| `ThreatAlerts` | uploads, analyses, detections, the alert desk | |
| `UsbPipeline` | mounted drives, the detector, the scan worker, the uploads | `ThreatAlerts` (EXTENDS) |
| `FileWatch` | files on disk, watcher threads, the integrity engine | |
| `QuarantineVault` | files, the manifest, the threads that quarantine | |
| `FileRecords` | the backend's monitored files and the requests on them | |
| `ProcessInventory` | processes, the live monitor and snapshot, the backend's rows | |
| `ConnectionInventory` | connections, the monitor, the backend's rows | |
| `EventLogs` | the log, its collector, ingestion, the rules | |
| `BehaviorSessions` | sessions, windows, scores, verdicts, callers | |
| `Incidents` | the engine's incidents, its requests, their log rows | |
| `ResponseEngineProofs`, `CommandChannelProofs`, `AgentCommandsProofs` | theorems about one module | |
| `ResponseDispatchProofs` | theorems about the pair of backend and agents | `CommandChannelProofs` (INSTANCE, as `Proven`) |
| `LifecyclesProofs` | theorems about jobs, the buffer and the registry | `JobQueue`, `TelemetryBuffer`, `DeviceLifecycle` |
| `PlatformProofs` | theorems about policies, sockets, the limiter, the console and their composition | `MCPlatform`, `CommandChannelProofs` |
| `EndpointProofs` | theorems about an endpoint's files | `MCEndpoint` |
| `InventoriesProofs` | theorems about what the backend keeps of an endpoint | `MCInventories` |
| `MCPlatform` | an instance for TLC | `PolicySync`, `CommandChannel`, `SocketRegistry`, `RateLimiter`, `ConsoleEdits` |
| `MCEndpoint` | an instance for TLC | `UsbPipeline`, `FileWatch`, `QuarantineVault` |
| `MCInventories` (with `MCEventLogs`) | an instance for TLC | the six modules of the backend's records |
| `MCLifecycles` | an instance for TLC | `JobQueue`, `TelemetryBuffer` |
| other `MC*` | an instance of one module for TLC | |

The composing instances put components side by side that share no state: a variable `part`, chosen
in the initial state, says which one takes steps, so each of its behaviours is a behaviour of one
component and the number of states is a sum.  Where components do interact, the composition is a
module of its own (`ResponseDispatch`, `UsbPipeline`).

Definitions called *mutants* in the modules' comments are the code with a plausible bug; each is
used to confirm that a property notices it, and none is part of a specification.

**ResponseEngine.**  `status`, `completed`, `target` are the columns of a `response_actions` row,
`audit` its `response_audit_logs` in commit order, `devStatus` the device's status as far as this
service writes it, `sent` the broadcasts of its command.  `pc[h]` is where thread `h` is; `req[h]`
holds its action, its goal and the row as it loaded it.  `execute_response` is
`Trigger · Insert · AuditInitiated · MarkLoad · MarkRunning · Dispatch · Acknowledge · UpdateLoad ·
UpdateCommit · AuditOutcome`; retry and the status callback join it midway; `Cancel` is a load and
a commit; `Abort` is a request that dies between two commits.  `alone` records whether two requests
have ever overlapped.

**CommandChannel / ResponseDispatch.**  A copy of a command goes through the replay check, the
staleness check, the executor and the report; `forgotten` records ids that the cache lost by
eviction or restart.  The composition delivers any copy of any broadcast, late, again or never, to
any agent thread, and lets reports arrive as callbacks once or never.

**TelemetryBuffer.**  Events are numbered in the order they are enqueued.  `items` is the file,
`batch[f]` what flush `f` peeked, `stored[e]` how often the backend stored `e`; `shed` and `torn`
record what overflow and a crash inside a write dropped.  `Stamped` events carry an id (a second
store conflicts with the primary key), `Invalid` ones fail validation.

**DeviceLifecycle.**  Each request is a load and a commit; a registration that found no row inserts
one.  The agent waits for its answers and may stop waiting (`TimesOut`) or be restarted (`Stop`,
`Start`).  `late[r]` counts uploads stored since row `r` was isolated.

**AgentCommands.**  `Poll · PollDevice · Dispatch` is one poll (two SELECTs, one commit),
`Acknowledge · AckDevice · Settle · Refresh · Audit` one acknowledgement.  `overlapped` records
whether two polls were ever under way at once.

**JobQueue.**  A job is `Create · Push`, then `Pop · Fetch · Mark · Run · Complete | Fail` on one
worker.  Every Redis command may fail for its caller, applied or not; `hit` records the jobs that a
fault touched.

**PolicySync.**  A change is a load and a commit (`Commit(rows)`); `GlobalVersion` is the sum the
route computes and `Served` what it answers.  The daemon is `FetchConfigs · FetchVersion · Compare ·
Apply`; `excused` names which of the code's three weaknesses has been met.

**SocketRegistry.**  A connection is accepted, listens and disconnects; a broadcast copies the pool
and sends one by one, other coroutines running in between.  `arrived` is the history of connections.

**RateLimiter.**  `Arrive · Count · Expire · Decide` is one request, `Unanswered` a Redis that does
not reply, `Expired` and `Tick` Redis' and the world's clocks.

**ConsoleEdits.**  Each request loads rows, assigns columns and commits those that differ.  One
shape (`Begin`, `CommitEdit`, `Abandon`) serves all services; what they assign is theirs.

**UsbPipeline / ThreatAlerts.**  The operating system plugs drives, `Poll · Emit` is the detector,
`Enumerate · ScanFile · Send · Resend` the worker.  An upload continues as the backend's request:
store the rows, then per finding look for a threat, insert it, look for its alert, insert that.

**FileWatch, FileRecords.**  Two threads deliver events to one engine; `dropped` records the paths of
which an event was dropped, raced or found nothing, and those to which a file came back that the
poller takes for the one it has seen (`TakenForOld`: it compares times of modification and sizes).
On the backend a verification is a look-up, a change and a commit.

**QuarantineVault.**  `quarantine_file` with each read and write of the manifest as a step; opening
the manifest for writing truncates it.

**ProcessInventory, ConnectionInventory.**  The agent polls, posts the difference and keeps the new
snapshot; the backend's request is the sequence of its commits, and the agent does not wait for it.

**EventLogs.**  A batch is stored, normalised and given to the rules; what the rules see of
an event (`Given`) depends on its `raw_event`, as in the code.

**BehaviorSessions, Incidents.**  Dictionaries in memory that request threads look up and extend in
two steps, windows that prune by the clock, scores and verdicts as functions of a session; `owner`
is the process that each session was created for.

## 4. Runs

| Run | Instance | Question |
|---|---|---|
| `response_race` | 2 threads, 2 actions of one type on one device, 1 retry, 1 report, 1 death; symmetric | all safety invariants of the engine |
| `response_live` | the same without deaths, fair | does every active action settle |
| `dispatch_safe` | 2 handlers, 1 agent thread, 1 action, retry, report, abort, restart, 2 copies; symmetric | can the two sides disagree on what happened |
| `dispatch_failure` | as above without faults | *violated*: a reported failure stands |
| `dispatch_retry` | 1 handler, 2 dispatches | *violated*: a retry is executed |
| `device` | 2 threads, 2 rows, 2 starts, 1 lost call, fair | isolation, duplicates, uploads, recovery |
| `device_reregister` | 1 thread, 2 starts | *violated*: isolation holds until restored |
| `commands` | 2 threads, 2 commands, 1 mishap, fair | hand-out, outcome, column, progress |
| `lifecycles` | jobs: 2 workers, 3 jobs in 2 queues (one of an undefined task), 2 faults; buffer: capacity 4, batch 2, 6 events, 2 lost answers, 2 crashes; fair | accounting of jobs; order, duplicates, draining |
| `platform` | policies: 2 requests, 3 rows, 1 fault; channel: 2 transport threads, 2 ids, cache of 1, 3 copies, 1 restart; sockets: 2 of one agent and 1 dashboard, 2 broadcasts; limiter: limit 2, 3 requests, 2 windows; console: 2 threads, 3 edits; symmetric | is what an actor was told, or put into force, still so |
| `endpoint` | USB: 1 letter, 2 drives, 2 files, batches of 2, 2 swaps, 1 lost call, 2 backend requests, 1 break; watcher: 2 paths, 2 contents, 2 writes; vault: 2 threads, 3 files, 2 of one name and hash, 1 stop; symmetric in the requests | what becomes of a file |
| `inventories` | 2 requests and up to 3 changes each; sessions of 1 process with 2 callers, incidents of 2 devices | does the backend's picture agree with the endpoint |

*Why these bounds are enough for the question.*  Every property relates one action, row, command,
file or job to the threads that touch it, and the code's races are between two requests; two threads
and two rows show every pair of steps in every order, and a third actor is present as the agent, the
network, the sweep or the operating system.  Faults are bounded so that each kind occurs at every
step (one) and may strike a recovery (two, where a run allows it).  Cache, buffer, batch and limit
are the smallest at which they are met while another actor is in between: a cache of one evicts on
the second id, a capacity of four with batches of two overflows during the second POST, a limit of
two is passed by the third request.  Windows keep the code's lengths in seconds where thresholds
depend on them (`Delay`, `Interval` and the clock bounds straddle them).  Bounds appear as named
constants in guards and nowhere else.

*Properties conditional on history.*  Where the code is correct only while something does not happen,
the property says so by a history variable (`alone`, `overlapped`, `abandoned`, `excused`, `dropped`,
`disturbed`, `unseen`, `hit`, `late`): the condition is the weakest one TLC accepted, and the
behaviour outside it is described in section 6.

*Fairness.*  The pool runs a started request to its end: weak fairness of each thread's own steps.
An agent's loops repeat for ever (heartbeats, polls, flushes), so a request of theirs finds a thread
even if others come first: strong fairness of *some* thread serving them.  Workers loop and Redis
commands return: weak fairness of a worker's steps.  Nobody is obliged to trigger, queue, isolate or
sweep; deaths, losses and expiries have no fairness.  `CHECK_DEADLOCK FALSE` is used where the
system may really come to rest (nothing left to deliver); the response runs check deadlock.

What the passing runs show, in the terms of the code:

* `NoActionForgotten`, `ActionSettles`: an action is PENDING or RUNNING only while a request will
  still settle it or after that request died.  The code has no reaper for the latter: the row then
  also blocks the same command for that device (409) until someone cancels it.
* `OutcomeAudited`: row and audit entry are two commits; the entry is there, on its way, or its
  request died.  `StampAgrees`, `NoDuplicateAlone`: what overlapping requests alone can break.
* `IsolationRecorded`: SUCCESS of an ISOLATE implies ISOLATED *in this service*; `device_reregister`
  shows who undoes it.
* `RunOnceWhileRemembered`, `FailureIsReal`, `OnlyDispatchedRuns`: the replay cache is the only thing
  that stops a second execution, and it does so until it evicts or restarts; what agents report
  happened; what they ran was dispatched.
* `StoredInOrder`, `DuplicatesExplained`, `EventLeaves`: the buffer is a faithful queue until it
  overflows, and it drains unless an event the backend refuses for ever reaches it.  An event with an
  id of its own is stored once.  Another one is stored again for a lost answer or a crash only, if
  flushes do not overlap and its batch is not one that the backend refuses *behind* an event it has
  committed already (`Recommitted`): such a batch stores its head once more at every flush.
* `ActiveAccounted`, `AnsweredEnds`: only a fault leaves a job that nobody will finish.
* `UploadWindow`, `DuplicatesAbandoned`, `SeenIsolationKept`, `ComesBack`: the registry's races are
  bounded by the number of threads and abandoned calls; no request that read an isolation undoes it,
  except a registration or a restoration.
* `PendingShown`, `DeliveredOnceAlone`, `OutcomeFinalAlone`, `CommandSettles`: the queue hands out
  once and keeps outcomes while polls do not overlap; the column is right even when they do.
* `SyncedInForceUnlessExcused`: a synced agent runs the active policy unless the version's sum fell,
  the fetch was torn by a commit or a subscriber raised; TLC finds that no other way exists.
* `EntryIsNewest`: neither the late disconnect of an old socket nor a failed broadcast takes a newer
  entry away, nor leaves a dead one.
* `WindowKept`: an EXPIRE that is never reached does not let more through, and requests cannot share
  a count.
* `EditsStand`: links, schedules, roll-backs and versions stand except in columns that two requests
  assigned at a time.
* `DuplicatesOverlapped`, `FindingsAccounted`: duplicate threats need two analyses that looked before
  either wrote; an analysis that answered success has its threats and alerts, or another request's
  failure is to blame.
* `VaultedReported`, `VaultRecorded`: what was moved to the vault is reported unless its batch was
  dropped, and recorded unless two threads wrote the manifest or the agent stopped.
* `BaselineFollows`: once all changes have been looked at the baseline is what is on disk, but for
  paths in `dropped`.  That a file may come back to a path and be taken for the old one needs five
  changes (a file is scanned, renamed away, another content is written and hashed, deleted, and the
  first renamed back); a run with that bound found it, the run that is kept has two changes, and the
  theorem of section 5 covers every number of them.
* `InventoriesAgree`: the rows of processes, connections and files are what is there, once everything
  sent has arrived and unless one of the named losses occurred.
* `BruteForceSeen`: the rule fires exactly on a threshold of failed logons in one batch *without* raw
  events; with them it does not (section 6).
* `NothingSplit`, `MinuteKept`, `VerdictStands`: one session per process and one incident per device
  unless threads overlap or windows pass; changes of the last minute are there unless a listing
  pruned them; verdicts fall only by more writes.

## 5. Proofs

Eight modules hold proofs, each for all values of the constants, from the assumptions of the modules
it is about (named `…Assumption` there) and nothing else.  Where a predicate is inductive only
together with more, the strengthening is named and explained in the module; TLC checked each as an
invariant of a small instance before it was proved.  The general shape is the same everywhere: types
that fix what each request can be, a predicate for each request, row, path or pid, a lemma that says
what steps of the others leave alone, a lemma for each action, and a last step by temporal logic.

`ResponseEngineProofs` — every safety invariant of the run `response_race`.

* `TypeCorrect == Spec => []TypeOK`.  `ThreadsTypeOK` is inductive because it also says that the
  action a busy thread holds exists and that an existing action has a target; the Boolean `alone` is
  kept in a conjunct of its own.  Lemmas state what writing one field of a request or appending to a
  trail preserves; `NextThreads` has a step per action.
* `NothingForgotten == Spec => []NoActionForgotten`.  `Carries(h, a)` says that thread `h` will
  still write a terminal status for `a`: either it is ahead of its load, or it loaded a status other
  than its goal, so its commit will be dirty.  That is why the ORM's rule of writing changed columns
  only does not lose an outcome: a thread at `commit` whose loaded status equals its goal writes
  nothing, and the invariant then rests on the other thread that wrote it, or on one that made the
  action active again.  `OthersCarry` says that a step of `h` leaves what others carry alone.
* `IsolationHolds == Spec => []IsolationRecorded`, with `SeenIsolated`: the commit decides from the
  device it *loaded* whether to write `ISOLATED`, so a thread that skips the column must be right
  about the device at its commit.  It is, because no step releases a device and an existing action
  never changes its target (`TargetsKept`).
* `TrailHolds == Spec => []OutcomeAudited`.  Inductive on top of `ThreadsTypeOK`: the row takes an
  outcome in `UpdateCommit` only, whose thread then stands at `outcome` with that very goal, and
  leaves by logging it (`LogKeeps`) or by dying, which puts the action into `orphaned`.
* `NoDuplicates == Spec => []NoDuplicateAlone` and `StampHolds == Spec => []StampAgrees`, both from
  `SerialInv`, which adds `LoneRequest`: while requests do not overlap, the row a thread loaded is the
  row it commits to, a new action is still `PENDING` up to its `MarkRunning`, no twin has
  appeared between the duplicate check and the insert, and with `retries = 0` no thread is retrying.
  `LoneStep` isolates the Boolean history variable: a step that ends with `alone` TRUE found it TRUE
  and the other threads idle.

`CommandChannelProofs` — `RunsOnceWhileRemembered`, with `Once`: an id the cache has not forgotten is
either not in the cache and neither run nor running, or run or running once.

`ResponseDispatchProofs` — the pair of backend and agents.

* `PairImplementsEngine == DispatchSpec => Spec` (of the engine), a step refinement: a step of the network or
  of an agent stutters, a delivered report is the engine's own callback.  So every invariant proved of
  `ResponseEngine` holds of the pair; `CommandChannelProofs` is instantiated the same way (`Proven`),
  which gives `PairRunsOnce`.
* `FailuresAreReal` and `RunsAreDispatched` from `DispatchInv`: what was sent exists and was opened
  (`BackendInv`), what an agent holds or ran was sent and says what the row says (`AgentInv`), and a
  FAILED in the row, in a request or on its way is one that an agent met (`BlameInv`).

`AgentCommandsProofs` — the safety of the run `commands`, with `TypesInv`, which includes `Fresh`: a
command that was never dispatched has no copy and no acknowledgement.

* `PendingIsShown == Spec => []PendingShown`, with `Backed(c)`: some pending command is such that
  every poll which will dispatch it loaded the column as PENDING, hence will overwrite it.
* `DeliveredOnce` and `OutcomesAreFinal` from `AloneInv`: while polls do not overlap there is one, of
  commands that are pending, and each command is in one place (`Once`).

`LifecyclesProofs` — jobs, buffer, registry.

* Jobs: `RunsOnce` and `ActiveIsAccounted`, with `Tokens`: an id is in one place, its queue once or one
  worker's hands, and it has not been run before either.
* Buffer: `OrderKept` and `DuplicatesHaveCause`.  `FileInv`: the file is a contiguous tail of what was
  enqueued, so one number (`Gone`) describes it.  `BatchInv`: a batch under way is a run of events that
  began where the file began then.  `OrderInv` relates the two to what is stored, and `CountInv` bounds
  how often: an event that is still to be posted was stored only by tries that failed.
* `IsolationReadIsKept == DeviceSpec => SeenIsolationKept`: a commit that takes an isolation back
  assigned a status that it had not loaded (`LeavesByCommit`), which no beat, report or sweep does
  that loaded ISOLATED.
* `UploadsBounded == DeviceSpec => []UploadWindow`, with `Window(r)`: what was stored late plus the
  threads already admitted stay below the number of threads, because the thread whose commit isolates
  the row is not one of them.
* `DuplicatesAreAbandoned == DeviceSpec => []DuplicatesAbandoned`, with `AbandonedInv`: rows and
  insertions on their way are one more than the abandoned registrations at most; while the table is
  empty the one that the agent still waits for is that one (`WaitInv`).

`PlatformProofs`, about `MCPlatform` and so about its parts.

* Sockets: `NewestHolds`: an entry is written by the newest connection only and is cleared by any
  disconnection of its agent, and a connection that replaced it closes nothing.  `SocketTypeCorrect`
  rests on `WithoutType`: what is left of a list is a list, by the least-number principle.
* Limiter: `WindowIsKept`: a key outlives its window (`KeysOutlive`), so within it the counts handed out
  differ (`CountsDiffer`), and an injection into 1..Limit bounds what is let through.
* Policies: `PolicyTypeCorrect` and `SyncedInForce`, with `ForceInv`: unless excused, the agent has what is
  active or a greater version is announced, and the same for what it has fetched and not applied.  The
  version is a sum over the rows; that adding a row adds its version, and that changing one version
  changes the sum by as much, is proved by the least-number principle (`LeastNatural`).
* Console: `EditsLast`, with `ConsoleInv` (`BaseInv`, `MachineInv`, `UpgradeInv`, `ReportInv`, `CaseInv`): what a
  request is about to write fits the row in each column that no other request has assigned since.
* `PlatformTypeCorrect` states the run's type invariant of the composed specification.

`EndpointProofs`, about `MCEndpoint` and so about its parts.

* Threats: `DuplicatesHaveOverlapped` and `FindingsAreAccounted` from `AlertInv`: a request about to insert
  inserts its own findings (`InsertsOwn`), every threat of one of them written since its look-up is one it
  has not seen (`Looked`), and each threat has an alert, is about to get it, or its request failed
  (`ThreatFits`).
* USB: `UsbTypeCorrect`, and `VaultedIsReported` from `UsbInv`: the batch that the worker waits for is
  stored.
* Watcher: `WatchTypeCorrect`, and `BaselineIsFollowed` from `WatchInv`.  Modification times are stamps that no
  two contents of a path share (`Stamps`); the last notice about a path says whether there is a file
  (`LastNotice`); and of a path that is not in `dropped` a notice is to come, or the poller will see a
  difference, or the callbacks under way leave what is on disk (`Follows`).  Its attempt at induction
  found the case `TakenForOld`.
* Vault: `VaultIsRecorded`, with `OneStores` (while undisturbed one thread is between its load and its
  write, with the manifest as it is) and `OnTheWay` (a file in the vault is in the manifest or its thread
  has yet to write it).
* `EndpointTypeCorrect`: the composed specification's behaviours are behaviours of each part.

`InventoriesProofs`, about `MCInventories` and so about its parts.

* Event logs: `BruteForceIsSeen` from `EventInv`: before its rows are stored an ingestion has left nothing
  (`Untouched`), afterwards every finding of its batch is in an alert or still to do (`Ingested`).
* Processes: `InventoryHolds` from `ProcessInv`.  Of a pid that is not in `missed`, at most one request
  holds it; what that one tells of the pid *fits* what the monitor remembers, will post or sees, and
  `Progress` says how far the rows are; when none holds it, the rows read an image that fits.
* Connections: `ConnectionsHold` from `NetInv`.  Connections that two requests mention have strayed
  (`MentionsInv`); of any other, there is a state that fits the monitor (`FitsSockets`), and its rows show
  that state or the one request that mentions it will make them (`Will`, by operation and step: what
  remains when the cleared rows go, the pending ones come and the restated ones change).
* Files: `RecordsAreFollowed` from `RecordInv`.  Paths that two requests deal with are in doubt together
  (`MeetInv`, `RenameInv`); a row that a request holds is of the path it looked for (`HeldInv`); of a path
  not in doubt, `Pending` says at each step what the one request at work found and will make of it, and
  without one it is `Settled`.
* Behaviour: `MinuteIsKept`, `VerdictsStand` and `BehaviorTypeCorrect` from `KeptInv`, which says of a session
  that its changes are in the order of time (`OfThePast`), that a verdict or a recommendation on it is still
  what its score gives (`Sound`), and that it agrees with all it was told on what is not older than its cut.
  A burst is told by a fold and a window pruned by a fold.  The library folds a sequence by a recursive function on the
  sets of its positions; that it exists (`FoldExists`) and that an induction along it is sound (`ByLast`,
  `BySequence`) follow from the least-number principle.  From there: filtering twice is filtering once
  (`SinceSince`), telling an event commutes with filtering (`SinceRecorded`), hence so does a burst
  (`BurstSince`), and only the bonus for deletions can fall as the counters grow (`CompositeGrows`).  The
  proof corrected the property: its last conjunct said that the deletions are as many as before, which is
  so of the bursts of the run but not of every burst.
* Incidents: `IncidentsAreOne` and `EventsAreJoined`, with `DeviceInv`: a device's incidents and the requests
  about to open one are together one more than the look-ups that missed.  Sessions: `SessionsAreOne`, with
  `SessionInv`, by the same count.
* `InventoriesTypeCorrect`, `InventoriesAlwaysAgree` and `NothingIsSplit` state the run's properties of the
  composed specification.

Every safety invariant and action property that a run checks is a theorem.  Model-checked only is
liveness (`ActionSettles`, `CommandSettles`, `ComesBack`, `EventLeaves`, `AnsweredEnds`): fairness and ENABLED
are beyond the installed provers.

No module declares a RECURSIVE operator.

## 6. Disagreements between code and documentation

Runs that are expected to be violated, each against a quoted line:

* `dispatch_failure` — `RS:330` records SUCCESS after the broadcast whatever the row says; a FAILED
  reported in between is overwritten.
* `dispatch_retry` — `RS:360` sends the same action id; the agent refuses it as a replay.
* `device_reregister` — `device_service.py:66` assigns ONLINE at registration.

Seen while modelling, without a run of their own (B is `backend/app`):

* `RS:112` the duplicate check and the INSERT are not atomic (hence `NoDuplicateAlone`).
* `RS:322` a cancellation between the creation and the dispatch is overwritten and the command is
  sent; `RS:378` a finished action can be cancelled.
* `RS:200` the backend itself writes the agent's ACKNOWLEDGED audit entry, right after a broadcast
  that no agent may have received; `RS:197` the broadcast goes to every client.
* `agent/telemetry_buffer.py:112` removes as many items as were posted from a list that an overflow
  has shifted meanwhile: events go unsent although the docstring (`:14`) promises no loss.
* `device_service.py:128` a heartbeat that loaded OFFLINE commits ONLINE over an isolation committed
  after the load (hence the exception in `SeenIsolationKept`).
* `agent/main.py:38` registration is tried once per start; `agent/api/client.py:81` says that a
  heartbeat registers first, and it does not.
* `telemetry_service.py:49` one conflicting id fails its batch at every retry; the buffer's head is
  then stuck (hence `Blocks` in `EventLeaves`).
* `telemetry_service.py:70` routed events are committed one by one by their services: a batch that is refused
  after its first event has stored it, and stores it again at each retry (`Recommitted`).
* `agent/collectors/file_watcher.py:247` the poller compares time and size only: a file renamed away
  and back, with another content in between, is not looked at again, and the baseline keeps the
  hash of the other content.
* `agent_command_service.py:144` a command whose answer is lost stays DISPATCHED and is never
  offered again; `:129` overlapping polls hand it out twice and take back its outcome.
* `worker.py:57`, `:71`, `:81` three tasks call functions that no service defines
  (`queue_agent_command`, `get_policy_by_id`, `process_telemetry_event`); such jobs end FAILED
  (`Undefined` in `JobQueue`).
* `event_log_service.py:79` gives the rules the raw event where there is one, whose keys the failed
  logon rule does not read: brute force is then not detected, which the project's day-12 document
  describes as a feature of the pipeline.
* `incident_correlator.py:220`, `timeline_engine.py:28`, `api/investigation.py:239`: three instances of
  `IncidentCorrelationEngine`; the one listed by `/correlated-incidents` is told nothing and always
  empty.  A correlation id given while the device has a recent incident is never registered; the
  unified timeline shows each event twice; a failing commit leaves events in memory without rows.
* `prune_inactive_sessions` and `prune_events_older_than` have no caller: sessions live for ever.
  The behaviour rules, scorer and response handler are called by `simulate_ransomware_test.py` and
  tests only; `response_handler.py` kills by `os.kill` on the backend's own host.
* `core/rate_limiter.py:19` says "Sliding window": it is a fixed calendar minute, and twice the limit
  passes around its end.
* `agent/policy_sync.py:88` the version is taken over before the subscribers apply it; the version is a
  sum that a change can leave equal or smaller (`policy_service.py`).
* `usb_detector.py:254` a letter whose drive changes between two polls is neither removed nor inserted.

## 7. Not modelled

Analytics, reports' rendering, threat-hunting and timeline queries, users, authentication, models and
migrations, health endpoint, front end, deployment: single-transaction reads and writes no
interleaving can hurt.  Authentication, signatures and permission checks are left out of every module.
Wall-clock time is abstracted to "may be stale now" except in windows and limits; message texts,
inventory columns and payloads are dropped; rules that match strings of one event are sets of hostile
inputs.  `response_actions` of a deleted device do not occur: no code deletes one.

Parts of modelled components that are left out: the rules for alerts on processor, memory and disk
and their look for a recent alert (`agent_health_service.py:35`, which two evaluations can pass
together); a threat's own status, manual threats and the unused engine of `threat_engine.py`; the
detector of `fim_detector.py`, which no one starts; `usb_collector.py` and the simulators;
re-opening a case (`closed_at`), notes and evidence; device groups and tags; `delete_policy`, which has
no route; `send_personal_message`, which has no caller; `trigger_attack_chain_sequence`, a fixed
demonstration.  In `ConsoleEdits` an upgrade request names one device.  In `ResponseDispatch` one agent
process runs at a time, so that a report can be attributed.  One hazard in `PROJECT.json` has no
property: the fan-out of a command to other devices' agents (`RS:197`).  A READ that is written over
ACKNOWLEDGED (`alert_service.py:160`) is a behaviour of `WriteAlerts` that no property forbids.

## 8. Plan

What is left, in this order:

1. Health alerts: the de-duplication window of `agent_health_service.py` with two evaluations, next to
   `ThreatAlerts`' check-then-insert.
2. Abstract specifications: *at-most-once execution* for `CommandChannel` and `JobQueue` (a set of
   done ids), *a lossy FIFO* for `TelemetryBuffer`, each as an INSTANCE with a refinement mapping.
3. Several agents in `ResponseDispatch`, with the fan-out of broadcasts.
