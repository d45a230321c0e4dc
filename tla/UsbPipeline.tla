----------------------------- MODULE UsbPipeline -----------------------------
(* The agent's USB pipeline: the drive detector (agent/detectors/usb_detector.py),
   its callback (agent/main.py), the scan worker (agent/background_scanner.py)
   and the two uploads (agent/api/client.py), composed with the backend's
   handling of scan results (ThreatAlerts).

   Three parties run at once: the operating system that mounts drives, the
   detector thread that polls and posts events, and the worker thread that
   scans what is mounted when a task's turn comes.                            *)
EXTENDS ThreatAlerts, Sequences

CONSTANTS Letters, Drives, NoDrive,
          Holds,        \* the files of a drive
          Dangerous,    \* files of DANGEROUS_EXTENSIONS
          Ignored,      \* files that the policy's extensions or size exclude
          AutoQuarantine,
          BatchSize,    \* batch_size
          MaxSwaps,     \* bound: drives plugged in or pulled out
          MaxLosses     \* bound: failing calls and failing snapshots

ASSUME UsbAssumption ==
    /\ Holds \in [Drives -> SUBSET Files] /\ NoDrive \notin Drives
    /\ BatchSize \in Nat \ {0} /\ MaxSwaps \in Nat /\ MaxLosses \in Nat

VARIABLES
    mounted,     \* the drive at each letter
    detector,    \* the poll in progress: its snapshot and the events to emit
    previous,    \* previous_drives
    lastEvent,   \* _last_emitted_event
    usbEvents,   \* the backend's rows of usb_events
    scanQueue,   \* scan_queue
    scanning,    \* the policy allows automatic scans
    worker,      \* the task in progress
    vaulted,     \* files moved away by the automatic quarantine
    swaps, losses,
    unreported   \* history: files of batches that were dropped

usbVars == <<mounted, detector, previous, lastEvent, usbEvents, scanQueue, scanning, worker,
             vaulted, swaps, losses, unreported>>

Lose == losses < MaxLosses /\ losses' = losses + 1
Present(snapshot) == {l \in Letters : snapshot[l] # NoDrive}
NoTask == [event |-> 0, letter |-> NoDrive]
IdleWorker == [pc |-> "idle", task |-> NoTask, files |-> {}, batch |-> {}, call |-> NoDrive]

-----------------------------------------------------------------------------
(* The drives                                                                *)

PlugIn(l, d) ==
    /\ mounted[l] = NoDrive /\ \A o \in Letters : mounted[o] # d
    /\ swaps < MaxSwaps /\ swaps' = swaps + 1
    /\ mounted' = [mounted EXCEPT ![l] = d]
    /\ UNCHANGED <<alertVars, detector, previous, lastEvent, usbEvents, scanQueue, scanning, worker,
                   vaulted, losses, unreported>>

PullOut(l) ==
    /\ mounted[l] # NoDrive
    /\ swaps < MaxSwaps /\ swaps' = swaps + 1
    /\ mounted' = [mounted EXCEPT ![l] = NoDrive]
    /\ UNCHANGED <<alertVars, detector, previous, lastEvent, usbEvents, scanQueue, scanning, worker,
                   vaulted, losses, unreported>>

-----------------------------------------------------------------------------
(* scan_and_detect                                                           *)

Inserted(snapshot) == {l \in Present(snapshot) \ Present(previous) : lastEvent[l] # "INSERT"}
Removed(snapshot)  == {l \in Present(previous) \ Present(snapshot) : lastEvent[l] # "REMOVE"}

\* The snapshot is taken.  An error in the middle of it leaves the drives that
\* were listed so far.
Poll ==
    /\ detector.pc = "idle"
    /\ \E missed \in SUBSET Present(mounted) :
        /\ IF missed = {} THEN UNCHANGED losses ELSE Lose
        /\ LET snapshot == [l \in Letters |-> IF l \in missed THEN NoDrive ELSE mounted[l]]
           IN  detector' = [pc |-> "emit", snapshot |-> snapshot,
                            inserts |-> Inserted(snapshot), removes |-> Removed(snapshot)]
    /\ UNCHANGED <<alertVars, mounted, previous, lastEvent, usbEvents, scanQueue, scanning, worker,
                   vaulted, swaps, unreported>>

Emitting(l, type) ==
    /\ detector.pc = "emit"
    /\ \/ type = "INSERT" /\ l \in detector.inserts
       \/ type = "REMOVE" /\ detector.inserts = {} /\ l \in detector.removes

Emitted(l, type) ==
    /\ detector' = [detector EXCEPT !.inserts = @ \ {l}, !.removes = IF type = "REMOVE" THEN @ \ {l} ELSE @]
    /\ lastEvent' = [lastEvent EXCEPT ![l] = type]

Reported(l, type) ==
    usbEvents' = Append(usbEvents, [type |-> type,
                     drive |-> IF type = "INSERT" THEN detector.snapshot[l] ELSE previous[l]])

\* on_usb_event: a stored INSERT is queued for a scan if the policy permits.
Emit(l, type) ==
    /\ Emitting(l, type) /\ Emitted(l, type) /\ Reported(l, type)
    /\ scanQueue' = IF type = "INSERT" /\ scanning
                    THEN Append(scanQueue, [event |-> Len(usbEvents'), letter |-> l])
                    ELSE scanQueue
    /\ UNCHANGED <<alertVars, mounted, previous, scanning, worker, vaulted, swaps, losses, unreported>>

\* send_usb_event gives up: refused, or no attempt was answered.
EmitFails(l, type) ==
    /\ Emitting(l, type) /\ Emitted(l, type) /\ Lose
    /\ UNCHANGED <<alertVars, mounted, previous, usbEvents, scanQueue, scanning, worker, vaulted,
                   swaps, unreported>>

\* An attempt was stored and its answer lost: it is repeated.
EmitRepeats(l, type) ==
    /\ Emitting(l, type) /\ Reported(l, type) /\ Lose
    /\ UNCHANGED <<alertVars, mounted, detector, previous, lastEvent, scanQueue, scanning, worker,
                   vaulted, swaps, unreported>>

PollEnds ==
    /\ detector.pc = "emit" /\ detector.inserts = {} /\ detector.removes = {}
    /\ previous' = detector.snapshot
    /\ detector' = [detector EXCEPT !.pc = "idle"]
    /\ UNCHANGED <<alertVars, mounted, lastEvent, usbEvents, scanQueue, scanning, worker, vaulted,
                   swaps, losses, unreported>>

-----------------------------------------------------------------------------
(* process_scan_task                                                         *)

UpdatePolicy ==
    /\ scanning' = ~scanning
    /\ UNCHANGED <<alertVars, mounted, detector, previous, lastEvent, usbEvents, scanQueue, worker,
                   vaulted, swaps, losses, unreported>>

Working(pc) == worker.pc = pc
Step(changes) ==
    /\ worker' = changes
    /\ UNCHANGED <<mounted, detector, previous, lastEvent, usbEvents, scanning, swaps>>

\* The files of whatever drive is at the letter now; without one, or with
\* scans disabled in the meantime, the task ends.
Enumerate ==
    LET task  == Head(scanQueue)
        found == IF mounted[task.letter] = NoDrive \/ ~scanning THEN {}
                 ELSE Holds[mounted[task.letter]] \ vaulted
    IN  /\ Working("idle") /\ scanQueue # << >>
        /\ scanQueue' = Tail(scanQueue)
        /\ Step(IF found = {} THEN IdleWorker
                ELSE [IdleWorker EXCEPT !.pc = "scan", !.task = task, !.files = found])
        /\ UNCHANGED <<alertVars, vaulted, losses, unreported>>

Readable(f) == mounted[worker.task.letter] # NoDrive /\ f \in Holds[mounted[worker.task.letter]]
Full(batch) == Cardinality(batch) >= BatchSize

\* Mutant: a quarantined file is left out of the batch
BatchWithoutVaulted(f) == IF f \in Dangerous /\ AutoQuarantine THEN worker.batch ELSE worker.batch \cup {f}

BatchWith(f) == worker.batch \cup {f}

\* One file: skipped by the policy or unreadable, or added to the batch and
\* perhaps quarantined.
ScanFile(f) ==
    LET taken == f \notin Ignored /\ Readable(f)
        batch == IF taken THEN BatchWith(f) ELSE worker.batch
        rest  == worker.files \ {f}
    IN  /\ Working("scan") /\ f \in worker.files
        /\ vaulted' = IF taken /\ AutoQuarantine /\ f \in Dangerous THEN vaulted \cup {f} ELSE vaulted
        /\ Step([worker EXCEPT !.files = rest, !.batch = batch,
                     !.pc = IF Full(batch) \/ (rest = {} /\ batch # {}) THEN "send"
                            ELSE IF rest = {} THEN "idle" ELSE "scan"])
        /\ UNCHANGED <<alertVars, scanQueue, losses, unreported>>

\* POST /usb/scans: the request runs in the backend while the worker waits.
Send(r) ==
    /\ Working("send") /\ Upload(r, worker.batch)
    /\ Step([worker EXCEPT !.pc = "wait", !.call = r])
    /\ UNCHANGED <<scanQueue, vaulted, losses, unreported>>

AfterBatch == IF worker.files = {} THEN IdleWorker ELSE [worker EXCEPT !.pc = "scan", !.batch = {}]

\* A success, or an error answer that ends the attempts: the batch is gone.
Answered ==
    /\ Working("wait") /\ request[worker.call].pc \in {"done", "failed"}
    /\ Step(AfterBatch)
    /\ UNCHANGED <<alertVars, scanQueue, vaulted, losses, unreported>>

\* The answer is lost or late: another attempt, while the request may go on.
Resend ==
    /\ Working("wait") /\ Lose
    /\ Step([worker EXCEPT !.pc = "send"])
    /\ UNCHANGED <<alertVars, scanQueue, vaulted, unreported>>

\* The call is refused, or the attempts end unanswered: the batch is dropped.
SendFails ==
    /\ Working("send") /\ Lose
    /\ unreported' = unreported \cup worker.batch
    /\ Step(AfterBatch)
    /\ UNCHANGED <<alertVars, scanQueue, vaulted>>

-----------------------------------------------------------------------------

UsbInit ==
    /\ AlertInit
    /\ mounted \in [Letters -> {NoDrive} \cup Drives]
    /\ \A k, l \in Letters : k # l /\ mounted[k] # NoDrive => mounted[k] # mounted[l]
    /\ detector = [pc |-> "idle", snapshot |-> mounted, inserts |-> {}, removes |-> {}]
    /\ previous = mounted    \* start_monitoring
    /\ lastEvent = [l \in Letters |-> "none"]
    /\ usbEvents = << >> /\ scanQueue = << >> /\ scanning = TRUE /\ worker = IdleWorker
    /\ vaulted = {} /\ swaps = 0 /\ losses = 0 /\ unreported = {}

AgentStep ==
    \/ \E l \in Letters : PullOut(l) \/ \E d \in Drives : PlugIn(l, d)
    \/ \E l \in Letters, type \in {"INSERT", "REMOVE"} :
        Emit(l, type) \/ EmitFails(l, type) \/ EmitRepeats(l, type)
    \/ Poll \/ PollEnds \/ UpdatePolicy \/ Enumerate
    \/ (\E f \in worker.files : ScanFile(f))
    \/ (\E r \in Requests : Send(r))
    \/ Answered \/ Resend \/ SendFails

BackendStep ==
    /\ \E r \in Requests :
        \/ Proceed(r) \/ Reanalyse(r) \/ DeskWork(r)
        \/ \E op \in {"alert", "pipeline"}, e \in Events : Detect(r, op, e)
    /\ UNCHANGED usbVars

UsbNext == AgentStep \/ BackendStep
UsbSpec == UsbInit /\ [][UsbNext]_<<alertVars, usbVars>>

-----------------------------------------------------------------------------

UsbTypeOK ==
    /\ AlertTypeOK
    /\ mounted \in [Letters -> Drives \cup {NoDrive}] /\ previous \in [Letters -> Drives \cup {NoDrive}]
    /\ detector.pc \in {"idle", "emit"} /\ worker.pc \in {"idle", "scan", "send", "wait"}
    /\ lastEvent \in [Letters -> {"none", "INSERT", "REMOVE"}]
    /\ worker.batch \subseteq Files /\ vaulted \subseteq Files

\* A file that the worker moved to the vault is in a scan row of the backend,
\* on its way there, or in a batch that was dropped.
VaultedReported ==
    \A f \in vaulted : f \in worker.batch \/ f \in unreported \/ \E r \in Requests : <<r, f>> \in stored
=============================================================================
