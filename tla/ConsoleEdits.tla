----------------------------- MODULE ConsoleEdits -----------------------------
(* What analysts and administrators edit: the investigation cases (backend/app/
   services/investigation_case_service.py), the scheduled reports (services/
   scheduled_report_service.py) and the agent upgrades with the version that a
   device shows (services/agent_upgrade_service.py, and the beats of
   services/device_service.py).

   A request loads rows, assigns columns and commits.  Nothing locks a row, and
   the commit writes only the columns whose value differs from the one loaded.
   Times are edits, numbered as they begin.  Notes and evidence are rows that no
   request edits; closed_at, once set, is taken to stay.                      *)
EXTENDS Naturals, FiniteSets

CONSTANTS Cases, Reports, Upgrades, Machines,   \* the keys of the rows
          Links,                                \* ids of alerts and telemetry
          Releases, FirstRelease,               \* versions of the agent
          Editors,                              \* request threads
          MaxEdits                              \* bound

ASSUME ConsoleAssumption ==
    /\ FirstRelease \in Releases /\ MaxEdits \in Nat
    /\ \A k \in Cases : k \notin Reports \cup Upgrades \cup Machines
    /\ \A k \in Reports : k \notin Upgrades \cup Machines
    /\ \A k \in Upgrades : k \notin Machines

VARIABLES
    rows,       \* the committed row of a key, or NoRecord
    edit,       \* each thread: what it loaded, assigned and will write
    edits,      \* edits begun
    linked,     \* history: the links of every committed request, by column
    shown,      \* history: the version last assigned to a machine
    collided    \* history: columns written while another request assigned them

consoleVars == <<rows, edit, edits, linked, shown, collided>>

Keys == Cases \cup Reports \cup Upgrades \cup Machines
Frequencies == {"DAILY", "WEEKLY"}
NoRecord == [there |-> FALSE]
NoEdit == [loaded |-> {}, wanted |-> << >>, assigned |-> {}, written |-> {}]
LinkColumns == Cases \X {"alerts", "telemetry"}

CaseRow(status) == [there |-> TRUE, status |-> status, closed |-> 0, alerts |-> {}, telemetry |-> {}]

\* calculate_next_run: the next time follows from a time and the frequency
NextRun(frequency, time) == [every |-> frequency, from |-> time]
ReportRow(frequency, time) == [there |-> TRUE, frequency |-> frequency, last |-> 0, next |-> NextRun(frequency, time)]
UpgradeRow(m, from, to) == [there |-> TRUE, of |-> m, from |-> from, to |-> to, status |-> "AVAILABLE", rolled |-> FALSE]

-----------------------------------------------------------------------------
(* A request                                                                 *)

Now == edits + 1

\* The columns in which a request's rows differ from what it loaded
Changed(wanted) == UNION {{<<k, c>> : c \in {d \in DOMAIN wanted[k] : d \notin DOMAIN rows[k] \/ wanted[k][d] # rows[k][d]}} :
                             k \in DOMAIN wanted}

\* A request loads the rows of `wanted` and assigns columns.  A list of links
\* that is built anew may differ from the one loaded by its order alone, and is
\* written then.
Begin(t, wanted, assigned) ==
    /\ edit[t] = NoEdit /\ edits < MaxEdits /\ edits' = Now
    /\ \E again \in SUBSET (assigned \cap LinkColumns) :
         edit' = [edit EXCEPT ![t] = [loaded |-> {k \in DOMAIN wanted : rows[k].there}, wanted |-> wanted,
                                      assigned |-> assigned, written |-> Changed(wanted) \cup again]]
    /\ UNCHANGED <<rows, linked, shown, collided>>

\* No request is about to insert the row
Free(k) == ~rows[k].there /\ \A t \in Editors : k \notin {x[1] : x \in edit[t].written}

One(k, row) == [x \in {k} |-> row]
Two(k, row, l, other) == [x \in {k, l} |-> IF x = k THEN row ELSE other]

-----------------------------------------------------------------------------
(* The services                                                              *)

CreateCase(t, k, s) ==
    Free(k) /\ Begin(t, One(k, CaseRow(s)), {k} \X DOMAIN CaseRow(s))

\* update_investigation_case: the first closing stamps the case
UpdateCase(t, k, s) ==
    /\ rows[k].there
    /\ Begin(t, One(k, [rows[k] EXCEPT !.status = s, !.closed = IF s = "CLOSED" /\ @ = 0 THEN Now ELSE @]),
             {<<k, "status">>})

\* link_alerts_to_case and link_telemetry_to_case
Link(t, k, column, ids) ==
    /\ rows[k].there
    /\ Begin(t, One(k, [rows[k] EXCEPT ![column] = @ \cup ids]), {<<k, column>>})

CreateReport(t, k, f) ==
    Free(k) /\ Begin(t, One(k, ReportRow(f, Now)), {k} \X DOMAIN ReportRow(f, Now))

\* update_scheduled_report, with a frequency among the fields
UpdateReport(t, k, f) ==
    /\ rows[k].there
    /\ Begin(t, One(k, [rows[k] EXCEPT !.frequency = f, !.next = NextRun(f, Now)]),
             {<<k, "frequency">>, <<k, "next">>})

\* execute_scheduled_report: the report is generated before the times are set
ExecuteReport(t, k) ==
    /\ rows[k].there
    /\ Begin(t, One(k, [rows[k] EXCEPT !.last = Now, !.next = NextRun(rows[k].frequency, Now)]),
             {<<k, "last">>, <<k, "next">>})

DeleteReport(t, k) ==
    rows[k].there /\ Begin(t, One(k, NoRecord), {<<k, "there">>})

TriggerUpgrade(t, k, m, to) ==
    Free(k) /\ Begin(t, One(k, UpgradeRow(m, rows[m].version, to)), {<<k, "status">>})

Following == [AVAILABLE |-> "DOWNLOADING", DOWNLOADING |-> "INSTALLING",
              INSTALLING |-> "RESTARTING", RESTARTING |-> "SUCCESS"]

\* The status after a step; an upgrade that is over stays as it is
Follows(status) == IF status \in DOMAIN Following THEN Following[status] ELSE status

\* advance_upgrade_simulation_step: the last one sets the device's version
StepUpgrade(t, k) ==
    LET m == rows[k].of
        record == [rows[k] EXCEPT !.status = Follows(@)] IN
    /\ rows[k].there
    /\ IF rows[k].status = "RESTARTING"
       THEN Begin(t, Two(k, record, m, [rows[m] EXCEPT !.version = rows[k].to]), {<<k, "status">>, <<m, "version">>})
       ELSE Begin(t, One(k, record), IF record = rows[k] THEN {} ELSE {<<k, "status">>})

\* rollback_agent_upgrade: whatever the status, to a given version or the one before
RollbackUpgrade(t, k, to) ==
    LET m == rows[k].of IN
    /\ rows[k].there
    /\ Begin(t, Two(k, [rows[k] EXCEPT !.status = "ROLLED_BACK", !.rolled = TRUE],
                    m, [rows[m] EXCEPT !.version = to]),
             {<<k, "status">>, <<k, "rolled">>, <<m, "version">>})

\* record_heartbeat: an agent tells the version that it runs
BeatVersion(t, m, v) == Begin(t, One(m, [rows[m] EXCEPT !.version = v]), {<<m, "version">>})

-----------------------------------------------------------------------------
(* The commit                                                                *)

\* Mutant: all columns are written
WrittenWhole(row, wanted, k, columns) == wanted

\* The row after an UPDATE of the columns
Written(row, wanted, k, columns) == [c \in DOMAIN row |-> IF <<k, c>> \in columns THEN wanted[c] ELSE row[c]]

After(e, k) ==
    IF k \notin {x[1] : x \in e.written} THEN rows[k]
    ELSE IF k \in e.loaded /\ e.wanted[k].there THEN Written(rows[k], e.wanted[k], k, e.written)
    ELSE e.wanted[k]

\* An UPDATE of a row that was deleted fails the commit.
Orphaned(e) == \E x \in e.written : x[1] \in e.loaded /\ ~rows[x[1]].there /\ e.wanted[x[1]].there

CommitEdit(t) ==
    LET e == edit[t]
        assigns(o, x) == o # t /\ x \in edit[o].assigned IN
    /\ e # NoEdit /\ ~Orphaned(e)
    /\ rows' = [k \in Keys |-> After(e, k)]
    /\ linked' = [x \in LinkColumns |-> IF x \in e.assigned THEN linked[x] \cup e.wanted[x[1]][x[2]] ELSE linked[x]]
    /\ shown' = [m \in Machines |-> IF <<m, "version">> \in e.assigned THEN e.wanted[m].version ELSE shown[m]]
    /\ collided' = collided \cup {x \in e.written : \E o \in Editors : assigns(o, x)}
    /\ edit' = [edit EXCEPT ![t] = NoEdit]
    /\ UNCHANGED edits

\* The commit fails, or the thread dies before it.
Abandon(t) ==
    /\ edit[t] # NoEdit
    /\ edit' = [edit EXCEPT ![t] = NoEdit]
    /\ UNCHANGED <<rows, edits, linked, shown, collided>>

-----------------------------------------------------------------------------

\* Upgrades may be under way.
ConsoleInit ==
    /\ \E under \in [Upgrades -> {NoRecord} \cup {[UpgradeRow(m, FirstRelease, to) EXCEPT !.status = s] :
                                    m \in Machines, to \in Releases, s \in DOMAIN Following}] :
         rows = [k \in Keys |-> IF k \in Machines THEN [there |-> TRUE, version |-> FirstRelease]
                               ELSE IF k \in Upgrades THEN under[k] ELSE NoRecord]
    /\ edit = [t \in Editors |-> NoEdit] /\ edits = 0
    /\ linked = [x \in LinkColumns |-> {}] /\ shown = [m \in Machines |-> FirstRelease] /\ collided = {}

Services(t) ==
    \/ \E k \in Cases, s \in {"OPEN", "CLOSED"} : CreateCase(t, k, s) \/ UpdateCase(t, k, s)
    \/ \E x \in LinkColumns, id \in Links : Link(t, x[1], x[2], {id})
    \/ \E k \in Reports, f \in Frequencies : CreateReport(t, k, f) \/ UpdateReport(t, k, f)
    \/ \E k \in Reports : ExecuteReport(t, k) \/ DeleteReport(t, k)
    \/ \E k \in Upgrades, v \in Releases : \/ RollbackUpgrade(t, k, v) \/ StepUpgrade(t, k)
                                           \/ \E m \in Machines : TriggerUpgrade(t, k, m, v)
    \/ \E m \in Machines, v \in Releases : BeatVersion(t, m, v)

ConsoleNext == \E t \in Editors : Services(t) \/ CommitEdit(t) \/ Abandon(t)

ConsoleSpec == ConsoleInit /\ [][ConsoleNext]_consoleVars

-----------------------------------------------------------------------------

\* Links that were answered are in the case, the next run of a report follows
\* from its frequency, a rolled back upgrade never goes on, and a device shows
\* the version that was told or set last, however requests overlap and fail,
\* except in a column that was written while another request assigned it.
EditsStand ==
    /\ \A x \in LinkColumns \ collided : rows[x[1]].there => rows[x[1]][x[2]] = linked[x]
    /\ \A k \in Reports : rows[k].there /\ <<k, "next">> \notin collided => rows[k].next.every = rows[k].frequency
    /\ \A k \in Upgrades : rows[k].there /\ rows[k].rolled /\ <<k, "status">> \notin collided =>
                               rows[k].status = "ROLLED_BACK"
    /\ \A m \in Machines : <<m, "version">> \notin collided => rows[m].version = shown[m]
=============================================================================
