------------------------------ MODULE FileRecords ------------------------------
(* The backend's inventory of monitored files (services/
   file_integrity_service.py): the baseline that an agent uploads, the events
   that are compared with it and change it, and the response actions on it.

   Requests run in threads of their own.  Each one reads a row, and changes and
   commits it later; no constraint keeps the path of a row unique.           *)
EXTENDS Naturals, FiniteSets

CONSTANTS FilePaths, Hashes, NoHash, NoPath,
          Verifiers,         \* requests, numbered in the order they arrive
          MaxRecordFaults    \* bound: commits that fail

ASSUME RecordAssumption ==
    /\ NoHash \notin Hashes /\ NoPath \notin FilePaths
    /\ "untracked" \notin Hashes \cup {NoHash}
    /\ Verifiers \subseteq Nat \ {0} /\ MaxRecordFaults \in Nat

VARIABLES
    records,       \* rows of file_integrity_records, by id
    verify,        \* each request: where it is and what it holds
    fimActions,    \* response_actions, by request, and their audit entries
    recordFaults,
    mirror,        \* history: the content of each path after the events so far
    clashed        \* history: paths of overlapping or failed requests

recordVars == <<records, verify, fimActions, recordFaults, mirror, clashed>>

NoRow    == <<NoPath, NoPath>>
Earlier  == 0    \* the request of the first baseline
Untracked == "untracked"
RowIds   == (Verifiers \cup {Earlier}) \X FilePaths
AnyHash  == Hashes \cup {NoHash}

Verifier(op, pc) == [op |-> op, pc |-> pc, type |-> "none", path |-> NoPath, old |-> NoPath,
                     data |-> NoHash, row |-> NoRow, was |-> NoHash, left |-> {}]
AtStep(r, pc) == verify[r].pc = pc
Arrives(r) == AtStep(r, "new") /\ \A o \in Verifiers : o < r => ~AtStep(o, "new")
ToStep(r, changes) == verify' = [verify EXCEPT ![r] = changes]
Active(r) == verify[r].pc \notin {"new", "done", "failed"}

\* The rows that a query for the path may return first
RowsFor(path) == LET found == {id \in DOMAIN records : records[id].path = path}
                 IN  IF found = {} THEN {NoRow} ELSE found

Touched(r) == {verify[r].path, verify[r].old} \cup verify[r].left

\* History: requests that have a path in common clash on all of theirs.
Meets(paths) ==
    LET met == {o \in Verifiers : Active(o) /\ Touched(o) \cap paths # {}}
    IN  clashed \cup UNION {(paths \cup Touched(o)) \ {NoPath} : o \in met}

-----------------------------------------------------------------------------
(* What an event does to the inventory, in one step: the reference           *)

After(type, path, old, data, was) ==
    LET from  == IF type = "RENAMED" /\ old # NoPath THEN old ELSE path
        known == was[from] # Untracked
        kept  == IF data = NoHash /\ known THEN was[from] ELSE data
    IN  CASE type = "DELETED" -> [was EXCEPT ![path] = Untracked]
          [] type # "DELETED" /\ known -> [was EXCEPT ![from] = Untracked, ![path] = kept]
          [] OTHER -> [was EXCEPT ![path] = data]

-----------------------------------------------------------------------------
(* The requests begin                                                        *)

\* History: a rename that moves a path's doubts, or one record onto another
Unclear(type, path, old) ==
    /\ type = "RENAMED"
    /\ clashed \cap {path, old} # {} \/ (mirror[old] # Untracked /\ mirror[path] # Untracked)

\* verify_file_integrity_change: the row is looked up, of the old path where
\* the file was renamed.
\* Mutant: always of the new path
LookupNew(type, path, old) == path

LookupPath(type, path, old) == IF type = "RENAMED" /\ old # NoPath THEN old ELSE path

Event(r, type, path, old, data) ==
    /\ Arrives(r) /\ (old # NoPath <=> type = "RENAMED") /\ path # old
    /\ (type = "DELETED" => data = NoHash)
    /\ \E row \in RowsFor(LookupPath(type, path, old)) :
           ToStep(r, [Verifier("event", "compare") EXCEPT !.type = type, !.path = path, !.old = old,
                                                          !.data = data, !.row = row,
                       !.was = IF row = NoRow THEN NoHash ELSE records[row].data])
    /\ mirror' = After(type, path, old, data, mirror)
    /\ clashed' = Meets({path, old} \ {NoPath}) \cup
                  (IF Unclear(type, path, old) THEN {path, old} ELSE {})
    /\ UNCHANGED <<records, fimActions, recordFaults>>

\* batch_upsert_file_integrity_records, here with one content for all paths
Baseline(r, paths, data) ==
    /\ Arrives(r) /\ paths # {}
    /\ ToStep(r, [Verifier("baseline", "query") EXCEPT !.data = data, !.left = paths])
    /\ mirror' = [p \in FilePaths |-> IF p \in paths THEN data ELSE mirror[p]]
    /\ clashed' = Meets(paths)
    /\ UNCHANGED <<records, fimActions, recordFaults>>

\* execute_fim_response_action: RECALCULATE_BASELINE with the new hash, or an
\* action that is only recorded
FimAction(r, op, path, data) ==
    /\ Arrives(r)
    /\ \E row \in RowsFor(path) :
           /\ ToStep(r, [Verifier(op, "act") EXCEPT !.path = path, !.data = data, !.row = row])
           /\ mirror' = IF op = "recalculate" /\ mirror[path] # Untracked
                        THEN [mirror EXCEPT ![path] = data] ELSE mirror
    /\ clashed' = Meets({path})
    /\ UNCHANGED <<records, fimActions, recordFaults>>

-----------------------------------------------------------------------------
(* Events                                                                    *)

Gone(row) == row \notin DOMAIN records
Tracked(r) == verify[r].row # NoRow
Deletion(r) == verify[r].type = "DELETED"
NewHash(r) == verify[r].data \notin {NoHash, verify[r].was}
Differs(r) == verify[r].type = "RENAMED" \/ NewHash(r)

\* Of an unknown path, a deletion is noted and another event stores a record.
Unknown(r) ==
    /\ AtStep(r, "compare") /\ ~Tracked(r)
    /\ ToStep(r, IF Deletion(r) THEN [verify[r] EXCEPT !.pc = "rules"]
                 ELSE [verify[r] EXCEPT !.pc = "query", !.left = {verify[r].path}])
    /\ UNCHANGED <<records, fimActions, recordFaults, mirror, clashed>>

Unchanged(r) ==
    /\ AtStep(r, "compare") /\ Tracked(r) /\ ~Deletion(r) /\ ~Differs(r)
    /\ ToStep(r, [verify[r] EXCEPT !.pc = "rules"])
    /\ UNCHANGED <<records, fimActions, recordFaults, mirror, clashed>>

\* A row that is gone already is no error here.
Delete(r) ==
    /\ AtStep(r, "compare") /\ Tracked(r) /\ Deletion(r)
    /\ records' = [id \in DOMAIN records \ {verify[r].row} |-> records[id]]
    /\ ToStep(r, [verify[r] EXCEPT !.pc = "rules"])
    /\ UNCHANGED <<fimActions, recordFaults, mirror, clashed>>

\* The row takes the event's path and, where it differs, its hash.
ChangeRecord(r) ==
    /\ AtStep(r, "compare") /\ Tracked(r) /\ ~Deletion(r) /\ Differs(r) /\ ~Gone(verify[r].row)
    /\ records' = [records EXCEPT ![verify[r].row] =
                      [path |-> IF verify[r].type = "RENAMED" THEN verify[r].path ELSE @.path,
                       data |-> IF NewHash(r) THEN verify[r].data ELSE @.data]]
    /\ ToStep(r, [verify[r] EXCEPT !.pc = "rules"])
    /\ UNCHANGED <<fimActions, recordFaults, mirror, clashed>>

\* The rules on the event go through the pipeline; what they raise is caught.
Rules(r) ==
    /\ AtStep(r, "rules")
    /\ ToStep(r, [verify[r] EXCEPT !.pc = "done"])
    /\ UNCHANGED <<records, fimActions, recordFaults, mirror, clashed>>

-----------------------------------------------------------------------------
(* upsert_file_integrity_record                                              *)

Query(r, p) ==
    /\ AtStep(r, "query") /\ p \in verify[r].left
    /\ \E row \in RowsFor(p) : ToStep(r, [verify[r] EXCEPT !.pc = "store", !.path = p, !.row = row])
    /\ UNCHANGED <<records, fimActions, recordFaults, mirror, clashed>>

RowOf(r) == IF verify[r].row = NoRow THEN <<r, verify[r].path>> ELSE verify[r].row

StoreRecord(r) ==
    LET left == verify[r].left \ {verify[r].path}
    IN  /\ AtStep(r, "store") /\ (verify[r].row = NoRow \/ ~Gone(verify[r].row))
        /\ records' = [id \in DOMAIN records \cup {RowOf(r)} |->
                          IF id = RowOf(r) THEN [path |-> verify[r].path, data |-> verify[r].data]
                          ELSE records[id]]
        /\ ToStep(r, [verify[r] EXCEPT !.left = left,
                         !.pc = IF left # {} THEN "query"
                                ELSE IF verify[r].op = "event" THEN "rules" ELSE "done"])
        /\ UNCHANGED <<fimActions, recordFaults, mirror, clashed>>

-----------------------------------------------------------------------------
(* Response actions: three commits                                           *)

\* The action is stored as a success before anything is done.
Act(r) ==
    /\ AtStep(r, "act")
    /\ fimActions' = [fimActions EXCEPT ![r] = "unaudited"]
    /\ ToStep(r, [verify[r] EXCEPT !.pc = IF verify[r].op = "recalculate" /\ verify[r].row # NoRow
                                          THEN "recalculate" ELSE "audit"])
    /\ UNCHANGED <<records, recordFaults, mirror, clashed>>

Recalculate(r) ==
    /\ AtStep(r, "recalculate") /\ ~Gone(verify[r].row)
    /\ records' = [records EXCEPT ![verify[r].row].data = verify[r].data]
    /\ ToStep(r, [verify[r] EXCEPT !.pc = "audit"])
    /\ UNCHANGED <<fimActions, recordFaults, mirror, clashed>>

Audit(r) ==
    /\ AtStep(r, "audit")
    /\ fimActions' = [fimActions EXCEPT ![r] = "audited"]
    /\ ToStep(r, [verify[r] EXCEPT !.pc = "done"])
    /\ UNCHANGED <<records, recordFaults, mirror, clashed>>

\* A row that another request deleted cannot be changed any more.
Missing(r) ==
    /\ \/ AtStep(r, "compare") /\ ~Deletion(r) /\ Differs(r)
       \/ AtStep(r, "store") \/ AtStep(r, "recalculate")
    /\ Tracked(r) /\ Gone(verify[r].row)

Fail(r) ==
    /\ Active(r) /\ ~AtStep(r, "rules")
    /\ \/ Missing(r) /\ UNCHANGED recordFaults
       \/ recordFaults < MaxRecordFaults /\ recordFaults' = recordFaults + 1
    /\ ToStep(r, [verify[r] EXCEPT !.pc = "failed"])
    /\ clashed' = clashed \cup (Touched(r) \ {NoPath})
    /\ UNCHANGED <<records, fimActions, mirror>>

-----------------------------------------------------------------------------

\* Some files have been tracked before.
RecordInit ==
    /\ \E first \in [FilePaths -> Hashes \cup {Untracked}] :
        LET tracked == {p \in FilePaths : first[p] # Untracked}
        IN  /\ records = [id \in {Earlier} \X tracked |-> [path |-> id[2], data |-> first[id[2]]]]
            /\ mirror = first
    /\ verify = [r \in Verifiers |-> Verifier("none", "new")]
    /\ fimActions = [r \in Verifiers |-> "none"] /\ recordFaults = 0 /\ clashed = {}

BeginVerify(r) ==
    \/ \E p \in FilePaths, data \in Hashes : Baseline(r, {p}, data) \/ FimAction(r, "recalculate", p, data)
    \/ \E data \in Hashes : Baseline(r, FilePaths, data)
    \/ \E p \in FilePaths : FimAction(r, "record", p, NoHash)
    \/ \E type \in {"CREATED", "MODIFIED", "DELETED", "RENAMED"}, p \in FilePaths,
          old \in FilePaths \cup {NoPath}, data \in AnyHash : Event(r, type, p, old, data)

Proceed(r) ==
    \/ Unknown(r) \/ Unchanged(r) \/ Delete(r) \/ ChangeRecord(r) \/ Rules(r) \/ StoreRecord(r)
    \/ Act(r) \/ Recalculate(r) \/ Audit(r) \/ Fail(r)
    \/ \E p \in FilePaths : Query(r, p)

RecordNext == \E r \in Verifiers : BeginVerify(r) \/ Proceed(r)

RecordSpec == RecordInit /\ [][RecordNext]_recordVars

-----------------------------------------------------------------------------

RecordTypeOK ==
    /\ DOMAIN records \subseteq RowIds
    /\ \A id \in DOMAIN records : records[id] \in [path : FilePaths, data : AnyHash]
    /\ \A r \in Verifiers : verify[r].row \in RowIds \cup {NoRow} /\ verify[r].left \subseteq FilePaths
    /\ mirror \in [FilePaths -> AnyHash \cup {Untracked}] /\ clashed \subseteq FilePaths
    /\ recordFaults \in 0 .. MaxRecordFaults

\* When no request runs, the inventory holds one record of each path with the
\* hash of the last event on it, except for paths on which requests overlapped
\* or failed, or to which a tracked file was renamed while they were tracked.
RecordsFollow ==
    (\A r \in Verifiers : ~Active(r)) =>
        \A p \in FilePaths \ clashed :
            LET rows == {id \in DOMAIN records : records[id].path = p}
            IN  IF mirror[p] = Untracked THEN rows = {}
                ELSE Cardinality(rows) = 1 /\ \A id \in rows : records[id].data = mirror[p]

=============================================================================
