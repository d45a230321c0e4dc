------------------------------- MODULE FileWatch -------------------------------
(* File integrity monitoring in the agent: the watcher with its two sources of
   events, watchdog's notifications and a directory poller
   (agent/collectors/file_watcher.py), and the engine that compares each event
   with its baseline (agent/integrity_engine.py), wired as in
   simulate_fim_test.py: the watcher's callback is process_file_event.

   The observer thread and the poller thread both run the callback; only the
   set of events seen before is under a lock.                                *)
EXTENDS Naturals, Sequences, FiniteSets

CONSTANTS Paths, Data, NoFile,
          SizeOf,         \* the size of a content
          SeenLimit,      \* the set of seen events is cleared above this size
          MaxWrites       \* bound: changes of files

ASSUME WatchAssumption ==
    /\ NoFile \notin Data \cup Paths /\ IsFiniteSet(Paths)
    /\ SizeOf \in [Data \cup {NoFile} -> Nat] /\ SeenLimit \in Nat /\ MaxWrites \in Nat

VARIABLES
    disk,        \* each file: its content and when it was written
    watchdog,    \* HAS_WATCHDOG
    ignored,     \* the paths that the policy excludes
    notices,     \* its queue
    poller,      \* the scan in progress: its snapshot and the paths left
    snapshot,    \* _snapshot
    seen,        \* _seen_events
    thread,      \* what each thread's callback is doing
    baseline,    \* the engine's baseline
    writes,
    dropped      \* history: paths of which an event was dropped, raced or not seen

watchVars == <<disk, watchdog, ignored, notices, poller, snapshot, seen, thread, baseline, writes, dropped>>

Threads == {"observer", "poller"}
Absent  == [data |-> NoFile, at |-> 0]
Exists(snap, p) == snap[p].data # NoFile
IdleThread == [pc |-> "idle", type |-> "none", path |-> NoFile, old |-> NoFile, data |-> NoFile,
               size |-> 0, was |-> NoFile]
Event(type, path, old, data, size) ==
    [pc |-> "event", type |-> type, path |-> path, old |-> old, data |-> data, size |-> size, was |-> NoFile]
Notice(type, path, old) == [type |-> type, path |-> path, old |-> old]
IdlePoller == [pc |-> "sleep", current |-> [p \in Paths |-> Absent], files |-> {}, gone |-> {}]

-----------------------------------------------------------------------------
(* Files change.  Watchdog, where it is installed, notices all of it.        *)

Writing(type, p, old) ==
    /\ writes < MaxWrites /\ writes' = writes + 1
    /\ notices' = IF watchdog THEN Append(notices, Notice(type, p, old)) ELSE notices
    /\ UNCHANGED <<watchdog, ignored, poller, snapshot, seen, thread, baseline>>

WriteFile(p, d) ==
    /\ disk' = [disk EXCEPT ![p] = [data |-> d, at |-> Cardinality(Paths) + writes + 1]]
    /\ dropped' = dropped
    /\ Writing(IF Exists(disk, p) THEN "MODIFIED" ELSE "CREATED", p, NoFile)

DeleteFile(p) ==
    /\ Exists(disk, p)
    /\ disk' = [disk EXCEPT ![p] = Absent]
    /\ dropped' = dropped
    /\ Writing("DELETED", p, NoFile)

\* A renamed file keeps its time of modification: the poller takes one that
\* comes back for unmodified, although it has hashed another content meanwhile.
Mentioned(event) == {event.path, event.old} \ {NoFile}
Recalled(p) == IF poller.pc = "sleep" THEN snapshot[p] ELSE poller.current[p]
TakenForOld(p, q) ==
    /\ ~watchdog /\ disk[p].at = Recalled(q).at
    /\ baseline[q] # disk[p].data \/ \E t \in Threads : q \in Mentioned(thread[t])

RenameFile(p, q) ==
    /\ Exists(disk, p) /\ ~Exists(disk, q)
    /\ disk' = [disk EXCEPT ![p] = Absent, ![q] = disk[p]]
    /\ dropped' = IF TakenForOld(p, q) THEN dropped \cup {q} ELSE dropped
    /\ Writing("RENAMED", q, p)

-----------------------------------------------------------------------------
(* _on_event: an event seen before is dropped; the callback of another one
   starts on its thread.                                                     *)

Key(event) == [type |-> event.type, path |-> event.path, size |-> event.size, data |-> event.data]

\* The file could not be read when it was hashed.
Unread(event) == IF event.type # "DELETED" /\ event.data = NoFile THEN Mentioned(event) ELSE {}

\* Dropping an event matters where the baseline does not have its content yet.
Matters(event) == baseline[event.path] # event.data \/ event.old # NoFile

\* Mutant: the set of seen events is never cleared
RememberedForever(key) == seen \cup {key}

Remembered(key) == IF Cardinality(seen \cup {key}) > SeenLimit THEN {} ELSE seen \cup {key}

OnEvent(t, event) ==
    IF Key(event) \in seen
    THEN /\ dropped' = IF Matters(event) THEN dropped \cup Mentioned(event) ELSE dropped
         /\ UNCHANGED <<seen, thread>>
    ELSE /\ seen' = Remembered(Key(event))
         /\ thread' = [thread EXCEPT ![t] = event]
         /\ dropped' = dropped \cup Unread(event) \cup (Mentioned(event) \cap
                           UNION {Mentioned(thread[o]) : o \in {u \in Threads \ {t} : thread[u].pc # "idle"}})

-----------------------------------------------------------------------------
(* on_any_event                                                              *)

\* The payload is built from what the path holds now; without a file there is
\* none.  A key repeated within debounce_seconds is dropped as well.
Observe ==
    LET n     == Head(notices)
        event == IF n.type = "DELETED" THEN Event(n.type, n.path, NoFile, NoFile, 0)
                 ELSE Event(n.type, n.path, n.old, disk[n.path].data, SizeOf[disk[n.path].data])
        none  == n.type # "DELETED" /\ ~Exists(disk, n.path)
    IN  /\ notices # << >> /\ thread["observer"].pc = "idle"
        /\ notices' = Tail(notices)
        /\ \/ /\ none
              /\ dropped' = dropped \cup ({n.old} \ {NoFile})
              /\ UNCHANGED <<seen, thread>>
           \/ /\ ~none
              /\ OnEvent("observer", event)
           \/ /\ ~none /\ \E k \in seen : k.type = n.type /\ k.path = n.path
              /\ dropped' = IF Matters(event) THEN dropped \cup Mentioned(event) ELSE dropped
              /\ UNCHANGED <<seen, thread>>
        /\ UNCHANGED <<disk, watchdog, ignored, poller, snapshot, baseline, writes>>

-----------------------------------------------------------------------------
(* _poller_loop                                                              *)

Modified(p, current) == current[p].at # snapshot[p].at

Scan ==
    /\ poller.pc = "sleep"
    /\ poller' = [pc |-> "emit", current |-> disk,
                  files |-> {p \in Paths : Exists(disk, p) /\ (~Exists(snapshot, p) \/ Modified(p, disk))},
                  gone  |-> {p \in Paths : Exists(snapshot, p) /\ ~Exists(disk, p)}]
    /\ UNCHANGED <<disk, watchdog, ignored, notices, snapshot, seen, thread, baseline, writes, dropped>>

\* The content is hashed now, the size is the snapshot's; a file that is gone
\* has an empty hash.
EmitFile(p) ==
    LET type == IF Exists(snapshot, p) THEN "MODIFIED" ELSE "CREATED"
    IN  /\ poller.pc = "emit" /\ thread["poller"].pc = "idle" /\ p \in poller.files
        /\ poller' = [poller EXCEPT !.files = @ \ {p}]
        /\ OnEvent("poller", Event(type, p, NoFile, disk[p].data, SizeOf[poller.current[p].data]))
        /\ UNCHANGED <<disk, watchdog, ignored, notices, snapshot, baseline, writes>>

EmitGone(p) ==
    /\ poller.pc = "emit" /\ thread["poller"].pc = "idle" /\ poller.files = {} /\ p \in poller.gone
    /\ poller' = [poller EXCEPT !.gone = @ \ {p}]
    /\ OnEvent("poller", Event("DELETED", p, NoFile, NoFile, 0))
    /\ UNCHANGED <<disk, watchdog, ignored, notices, snapshot, baseline, writes>>

ScanEnds ==
    /\ poller.pc = "emit" /\ thread["poller"].pc = "idle" /\ poller.files = {} /\ poller.gone = {}
    /\ snapshot' = poller.current /\ poller' = IdlePoller
    /\ UNCHANGED <<disk, watchdog, ignored, notices, seen, thread, baseline, writes, dropped>>

-----------------------------------------------------------------------------
(* process_file_event                                                        *)

Lookup(event) == IF event.old # NoFile THEN event.old ELSE event.path

\* The baseline is read; a path that the policy excludes ends the callback.
\* An event without a hash is hashed again, if the file is there.
Compare(t) ==
    LET event == thread[t]
        now   == IF event.data = NoFile /\ event.type # "DELETED" THEN disk[event.path].data ELSE event.data
    IN  /\ event.pc = "event"
        /\ \/ /\ event.path \in ignored
              /\ thread' = [thread EXCEPT ![t] = IdleThread]
              /\ dropped' = dropped \cup ({event.old} \ {NoFile})
           \/ /\ event.path \notin ignored
              /\ thread' = [thread EXCEPT ![t] =
                     [event EXCEPT !.pc = "update", !.was = baseline[Lookup(event)], !.data = now]]
              /\ UNCHANGED dropped
        /\ UNCHANGED <<disk, watchdog, ignored, notices, poller, snapshot, seen, baseline, writes>>

\* Mutant: a rename leaves the record of the old path
WithoutOld(event, b) == b

Without(event, b) == IF event.old # NoFile THEN [b EXCEPT ![event.old] = NoFile] ELSE b

\* NEW_FILE or CHANGED: the event's content, or the one on record if the event
\* has no hash.  Only an unchanged file leaves the baseline alone.
Updated(event) ==
    CASE event.type = "DELETED" -> [baseline EXCEPT ![event.path] = NoFile]
      [] event.type # "DELETED" /\ event.was = NoFile -> [baseline EXCEPT ![event.path] = event.data]
      [] OTHER -> [Without(event, baseline) EXCEPT
                     ![event.path] = IF event.data # NoFile THEN event.data ELSE event.was]

Update(t) ==
    /\ thread[t].pc = "update"
    /\ baseline' = Updated(thread[t])
    /\ thread' = [thread EXCEPT ![t] = IdleThread]
    /\ UNCHANGED <<disk, watchdog, ignored, notices, poller, snapshot, seen, writes, dropped>>

-----------------------------------------------------------------------------

\* set_baseline and start: the files that are there, written at different times
WatchInit ==
    /\ ignored \in SUBSET Paths
    /\ \E files \in [Paths -> Data \cup {NoFile}], stamp \in [Paths -> 1..Cardinality(Paths)] :
        /\ \A p, q \in Paths : p # q => stamp[p] # stamp[q]
        /\ disk = [p \in Paths |-> IF files[p] = NoFile THEN Absent ELSE [data |-> files[p], at |-> stamp[p]]]
        /\ baseline = [p \in Paths |-> IF p \in ignored THEN NoFile ELSE files[p]]
    /\ watchdog \in BOOLEAN
    /\ snapshot = disk /\ notices = << >> /\ poller = IdlePoller /\ seen = {}
    /\ thread = [t \in Threads |-> IdleThread] /\ writes = 0 /\ dropped = {}

WatchNext ==
    \/ \E p \in Paths : DeleteFile(p) \/ EmitFile(p) \/ EmitGone(p) \/ \E d \in Data : WriteFile(p, d)
    \/ \E p, q \in Paths : RenameFile(p, q)
    \/ Observe \/ Scan \/ ScanEnds \/ \E t \in Threads : Compare(t) \/ Update(t)

WatchSpec == WatchInit /\ [][WatchNext]_watchVars

-----------------------------------------------------------------------------

WatchTypeOK ==
    /\ \A p \in Paths : disk[p].data \in Data \cup {NoFile}
    /\ baseline \in [Paths -> Data \cup {NoFile}]
    /\ poller.pc \in {"sleep", "emit"} /\ poller.files \cup poller.gone \subseteq Paths
    /\ \A t \in Threads : thread[t].pc \in {"idle", "event", "update"}
    /\ Cardinality(seen) <= SeenLimit /\ dropped \cup ignored \subseteq Paths

Quiet == /\ notices = << >> /\ poller.pc = "sleep" /\ snapshot = disk
         /\ \A t \in Threads : thread[t].pc = "idle"

\* When all changes have been looked at, the engine's baseline is what is on
\* disk: a file can change unnoticed only where an event that looked like an
\* earlier one was dropped, that found no file, or that moved a file under an
\* ignored path, where both threads handled the path at a time, or where a file
\* came back that the poller, alone, takes for the one it has seen.
BaselineFollows == Quiet => \A p \in Paths \ (dropped \cup ignored) : baseline[p] = disk[p].data
=============================================================================
