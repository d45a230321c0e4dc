--------------------------- MODULE ProcessInventory ---------------------------
(* The process inventory of one device: the agent's live monitor, which polls
   the operating system and posts what changed
   (agent/collectors/live_process_monitor.py), its one-off snapshot
   (agent/collectors/process_collector.py), and the backend that stores both
   (services/process_service.py).

   The backend's requests run in threads and commit many times: for a row with
   its audit entry, for a threat, an alert and an audit entry of a finding, for
   a deletion.  The agent gives up waiting after 5 seconds and polls again,
   whatever the backend still does.                                          *)
EXTENDS Naturals, FiniteSets, Functions

CONSTANTS Pids, Images, NoImage,
          Blocklisted,    \* images on the blocklist, with auto_kill_blocklisted
          Toggled,        \* PowerShell and LOLBin names, which the policy may skip
          Hostile,        \* images on which a process rule fires
          Posts,          \* requests, numbered in the order they arrive
          MaxChanges,     \* bound: processes started or ended, policy changes
          MaxPostFaults   \* bound: calls lost, late or failing

ASSUME ProcessAssumption ==
    /\ NoImage \notin Images /\ MaxChanges \in Nat /\ MaxPostFaults \in Nat
    /\ Posts \subseteq Nat /\ Blocklisted \cup Toggled \cup Hostile \subseteq Images

VARIABLES
    running,     \* the image of each pid
    known,       \* _previous_processes
    skipping,    \* the policy skips the Toggled names
    diff,        \* the monitor's cycle: where it is, what changed, its call
    post,        \* each request in the backend
    processes,   \* committed rows of process_info
    evaluated,   \* findings with their alert and audit entry
    changes, postFaults,
    missed       \* history: pids whose rows may be wrong

processVars == <<running, known, skipping, diff, post, processes, evaluated, changes, postFaults, missed>>

Seen(map) == {<<p, map[p]>> : p \in {q \in Pids : map[q] # NoImage}}
IdleDiff == [pc |-> "idle", created |-> {}, terminated |-> {}, call |-> NoImage]
NewPost == [op |-> "none", pc |-> "new", created |-> {}, terminated |-> {},
            todo |-> {}, ends |-> {}, now |-> {}, pending |-> {}, cleared |-> {}]

Change == changes < MaxChanges /\ changes' = changes + 1
PostFault == postFaults < MaxPostFaults /\ postFaults' = postFaults + 1
Working(r) == post[r].pc \notin {"new", "done", "failed"}
Changed(d) == {c[1] : c \in d.created} \cup d.terminated
Mentions(request) == IF request.op = "snapshot" THEN Pids ELSE Changed(request)

\* Pids that another request is handling
Handled(r) == UNION {Mentions(post[o]) : o \in {q \in Posts \ {r} : Working(q)}}

-----------------------------------------------------------------------------
(* The operating system and the policy.  A pid that is reused, or comes and
   goes, between two polls is beyond the monitor, which compares pids.       *)

Start(p, image) ==
    /\ Change /\ running[p] = NoImage
    /\ running' = [running EXCEPT ![p] = image]
    /\ missed' = IF known[p] = NoImage THEN missed ELSE missed \cup {p}
    /\ UNCHANGED <<known, skipping, diff, post, processes, evaluated, postFaults>>

End(p) ==
    /\ Change /\ running[p] # NoImage
    /\ running' = [running EXCEPT ![p] = NoImage]
    /\ missed' = IF known[p] = NoImage THEN missed \cup {p} ELSE missed
    /\ UNCHANGED <<known, skipping, diff, post, processes, evaluated, postFaults>>

UpdateProcessPolicy ==
    /\ Change /\ skipping' = ~skipping
    /\ UNCHANGED <<running, known, diff, post, processes, evaluated, postFaults, missed>>

-----------------------------------------------------------------------------
(* collect_and_diff and _post_process_events                                 *)

New(p) == running[p] # NoImage /\ known[p] = NoImage
Skipped(p) == skipping /\ running[p] \in Toggled
Created == {<<p, running[p]>> : p \in {q \in Pids : New(q) /\ ~Skipped(q)}}

Terminated == {p \in Pids : known[p] # NoImage /\ running[p] = NoImage}

\* One poll.  New processes on the blocklist are killed where that succeeds;
\* the snapshot, with them in it, is kept whether the post succeeds or not.
Collect ==
    /\ diff.pc = "idle"
    /\ \E killed \in SUBSET {c[1] : c \in {d \in Created : d[2] \in Blocklisted}} :
        running' = [p \in Pids |-> IF p \in killed THEN NoImage ELSE running[p]]
    /\ known' = running
    /\ diff' = [pc |-> "post", created |-> Created, terminated |-> Terminated, call |-> NoImage]
    /\ missed' = missed \cup {p \in Pids : New(p) /\ Skipped(p)}
    /\ UNCHANGED <<skipping, post, processes, evaluated, changes, postFaults>>

Begin(r, request) ==
    /\ post[r].pc = "new" /\ \A o \in Posts : o < r => post[o].pc # "new"
    /\ post' = [post EXCEPT ![r] = request]

\* POST /devices/{id}/processes/events reaches the backend
PostDiff(r) ==
    LET request == [NewPost EXCEPT !.op = "live", !.pc = "created",
                        !.created = diff.created, !.todo = diff.created,
                        !.terminated = diff.terminated, !.ends = diff.terminated]
    IN  /\ diff.pc = "post" /\ Begin(r, request)
        /\ diff' = [diff EXCEPT !.pc = "wait", !.call = r]
        /\ missed' = missed \cup (Mentions(request) \cap Handled(r))
        /\ UNCHANGED <<running, known, skipping, processes, evaluated, changes, postFaults>>

\* The call fails before the backend has it: the diff is gone.
PostLost ==
    /\ diff.pc = "post" /\ PostFault
    /\ diff' = IdleDiff
    /\ missed' = missed \cup Changed(diff)
    /\ UNCHANGED <<running, known, skipping, post, processes, evaluated, changes>>

PostAnswered ==
    /\ diff.pc = "wait" /\ post[diff.call].pc \in {"done", "failed"}
    /\ diff' = IdleDiff
    /\ UNCHANGED <<running, known, skipping, post, processes, evaluated, changes, postFaults, missed>>

\* 5 seconds: the request goes on alone.
PostTimesOut ==
    /\ diff.pc = "wait" /\ Working(diff.call) /\ PostFault
    /\ diff' = IdleDiff
    /\ UNCHANGED <<running, known, skipping, post, processes, evaluated, changes, missed>>

\* send_processes: what runs now, on its way to POST /devices/{id}/processes
SendSnapshot(r) ==
    LET request == [NewPost EXCEPT !.op = "snapshot", !.pc = "clear",
                        !.created = Seen(running), !.todo = Seen(running)]
    IN  /\ Begin(r, request)
        /\ missed' = missed \cup (Mentions(request) \cap Handled(r))
        /\ UNCHANGED <<running, known, skipping, diff, processes, evaluated, changes, postFaults>>

-----------------------------------------------------------------------------
(* process_live_events and ingest_processes                                  *)

RowsOf(p) == {row \in processes : row.pid = p}
Row(r, c) == [by |-> r, pid |-> c[1], image |-> c[2]]
On(r, request) == /\ post' = [post EXCEPT ![r] = request]
                  /\ UNCHANGED <<running, known, skipping, diff, changes, postFaults>>
Next_(request) == IF request.op = "snapshot" THEN "insert" ELSE "created"

\* A commit writes the request's deletion and its new rows.
Committed(r) == (processes \ post[r].cleared) \cup post[r].pending
Flushed(request) == [request EXCEPT !.pending = {}, !.cleared = {}]

\* ingest_processes: the rows found now are deleted, uncommitted.
Clear(r) ==
    /\ post[r].pc = "clear"
    /\ On(r, [post[r] EXCEPT !.pc = "insert", !.cleared = processes])
    /\ UNCHANGED <<processes, evaluated, missed>>

\* Rows are added one by one, and committed with the first finding.
InsertNext(r, c) ==
    /\ post[r].pc = "insert" /\ c \in post[r].todo
    /\ On(r, [post[r] EXCEPT !.todo = @ \ {c}, !.now = {c}, !.pending = @ \cup {Row(r, c)},
                             !.pc = IF c[2] \in Hostile THEN "alert" ELSE "insert"])
    /\ UNCHANGED <<processes, evaluated, missed>>

CommitSnapshot(r) ==
    /\ post[r].pc = "insert" /\ post[r].todo = {}
    /\ processes' = Committed(r)
    /\ On(r, [Flushed(post[r]) EXCEPT !.pc = "done", !.now = {}])
    /\ UNCHANGED <<evaluated, missed>>

\* Mutant: a process that has a row is not looked for
FoundNever(p) == FALSE

Found(p) == RowsOf(p) # {}

\* Of a created process the row is looked for first.  Without one, it is
\* inserted and committed with its audit entry.
LookUp(r, c) ==
    /\ post[r].pc = "created" /\ c \in post[r].todo
    /\ On(r, [post[r] EXCEPT !.todo = @ \ {c}, !.now = {c},
              !.pending = IF Found(c[1]) THEN {} ELSE {Row(r, c)},
              !.pc = IF ~Found(c[1]) THEN "store" ELSE IF c[2] \in Hostile THEN "alert" ELSE "created"])
    /\ UNCHANGED <<processes, evaluated, missed>>

AfterStore(r) == IF \E c \in post[r].now : c[2] \in Hostile THEN "alert" ELSE "created"

Store(r) ==
    /\ post[r].pc = "store"
    /\ processes' = Committed(r)
    /\ On(r, [Flushed(post[r]) EXCEPT !.pc = AfterStore(r)])
    /\ UNCHANGED <<evaluated, missed>>

\* create_process_alert: the commits of the threat and of the alert also write
\* what the request holds.
AlertFinding(r) ==
    /\ post[r].pc = "alert"
    /\ processes' = Committed(r)
    /\ On(r, [Flushed(post[r]) EXCEPT !.pc = "audit"])
    /\ UNCHANGED <<evaluated, missed>>

\* DETECTION_FOUND
AuditFinding(r) ==
    /\ post[r].pc = "audit"
    /\ evaluated' = evaluated \cup {<<r, c>> : c \in post[r].now}
    /\ On(r, [post[r] EXCEPT !.pc = Next_(post[r])])
    /\ UNCHANGED <<processes, missed>>

\* All rows of the pid are deleted and an audit entry is committed.
Terminate(r, p) ==
    /\ post[r].pc = "created" /\ post[r].todo = {} /\ p \in post[r].ends
    /\ processes' = processes \ RowsOf(p)
    /\ On(r, [post[r] EXCEPT !.ends = @ \ {p}])
    /\ UNCHANGED <<evaluated, missed>>

FinishDiff(r) ==
    /\ post[r].pc = "created" /\ post[r].todo = {} /\ post[r].ends = {}
    /\ On(r, [post[r] EXCEPT !.pc = "done", !.now = {}])
    /\ UNCHANGED <<processes, evaluated, missed>>

\* An exception ends the request; what it has committed stays.
Fails(r) ==
    /\ Working(r) /\ PostFault
    /\ post' = [post EXCEPT ![r] = [NewPost EXCEPT !.pc = "failed"]]
    /\ missed' = missed \cup Mentions(post[r])
    /\ UNCHANGED <<running, known, skipping, diff, processes, evaluated, changes>>

-----------------------------------------------------------------------------

ProcessInit ==
    /\ running \in [Pids -> {NoImage} \cup Images] /\ known = [p \in Pids |-> NoImage]
    /\ skipping = FALSE /\ diff = IdleDiff /\ post = [r \in Posts |-> NewPost]
    /\ processes = {} /\ evaluated = {} /\ changes = 0 /\ postFaults = 0 /\ missed = {}

Backend(r) ==
    \/ Clear(r) \/ CommitSnapshot(r) \/ Store(r) \/ AlertFinding(r) \/ AuditFinding(r)
    \/ FinishDiff(r) \/ Fails(r)
    \/ \E c \in post[r].todo : InsertNext(r, c) \/ LookUp(r, c)
    \/ \E p \in post[r].ends : Terminate(r, p)

ProcessNext ==
    \/ \E p \in Pids : End(p) \/ \E image \in Images : Start(p, image)
    \/ UpdateProcessPolicy \/ Collect \/ PostLost \/ PostAnswered \/ PostTimesOut
    \/ \E r \in Posts : PostDiff(r) \/ SendSnapshot(r) \/ Backend(r)

ProcessSpec == ProcessInit /\ [][ProcessNext]_processVars

-----------------------------------------------------------------------------

ProcessTypeOK ==
    /\ running \in [Pids -> Images \cup {NoImage}] /\ known \in [Pids -> Images \cup {NoImage}]
    /\ diff.pc \in {"idle", "post", "wait"} /\ diff.terminated \subseteq Pids
    /\ \A row \in processes : row.by \in Posts /\ row.pid \in Pids /\ row.image \in Images
    /\ \A r \in Posts : post[r].cleared \subseteq [by : Posts, pid : Pids, image : Images]
    /\ missed \subseteq Pids

\* Once the monitor has seen what runs and no request is at work, the device
\* has one row for each running process and no other, except for a pid that
\* was reused or came and went between two polls, that the policy skipped,
\* whose post was lost or failed, or that two requests handled at a time.
InventoryAgrees ==
    diff.pc = "idle" /\ known = running /\ (\A r \in Posts : ~Working(r)) =>
        \A p \in Pids \ missed :
            IF running[p] = NoImage THEN RowsOf(p) = {}
            ELSE \E row \in processes : RowsOf(p) = {row} /\ row.image = running[p]

=============================================================================
