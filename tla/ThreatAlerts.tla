----------------------------- MODULE ThreatAlerts -----------------------------
(* Threats and alerts of the backend: the upload of scan results
   (services/usb_scan_service.py), their analysis (services/threat_service.py),
   the findings of the process and network rules and of the shared pipeline
   (services/alert_service.py, detection/pipeline.py), and the alert desk
   (api/alerts.py).

   Every request runs in a thread of its own, with several commits.  A scan row
   is the request that stored it and the file; a threat is the request that
   inserted it, the row and the rule.  A finding on a process, a connection or
   a file change is a row of its request that is stored nowhere.              *)
EXTENDS Naturals, FiniteSets

CONSTANTS Requests,     \* requests, each used once
          Files, Events,    \* what is scanned; what a detection is about
          Hits,         \* the rules that fire on a file or an event
          MaxBreaks     \* bound: commits that fail

ASSUME ThreatAssumption ==
    Files \cap Events = {} /\ DOMAIN Hits = Files \cup Events /\ MaxBreaks \in Nat

VARIABLES
    stored,     \* rows of usb_scan_results
    threats,    \* rows of threats
    desk,       \* the alert of a threat: its status and stamps
    request,    \* each request: where it is and what it holds
    breaks,
    unseen      \* history: inserts that an analysis in progress cannot see

alertVars == <<stored, threats, desk, request, breaks, unseen>>

Rows     == Requests \X (Files \cup Events)
Findings == {[row |-> row, rule |-> rule] : row \in Rows, rule \in UNION {Hits[s] : s \in DOMAIN Hits}}
Threat(r, finding) == [by |-> r, of |-> finding]
On(rows) == UNION {{[row |-> row, rule |-> rule] : rule \in Hits[row[2]]} : row \in rows}
Known == {t.of : t \in threats}

NewRequest == [op |-> "none", pc |-> "new", rows |-> {}, todo |-> {}, seen |-> {}]
Alert(status) == [status |-> status, read |-> FALSE, acked |-> FALSE]

At(r, pc) == request[r].pc = pc
To(r, changes) == request' = [request EXCEPT ![r] = changes]
Running(r) == request[r].pc \notin {"new", "done", "failed"}

-----------------------------------------------------------------------------
(* Analysis of scan results                                                  *)

\* create_usb_scan_results_bulk: the rows are committed before the analysis.
Upload(r, files) ==
    /\ At(r, "new") /\ files # {}
    /\ stored' = stored \cup {<<r, f>> : f \in files}
    /\ To(r, [request[r] EXCEPT !.op = "upload", !.pc = "analyse", !.rows = {<<r, f>> : f \in files}])
    /\ UNCHANGED <<threats, desk, breaks, unseen>>

\* analyze_usb_event_scans: 404 without rows
Reanalyse(r) ==
    /\ At(r, "new") /\ stored # {}
    /\ To(r, [request[r] EXCEPT !.op = "reanalyse", !.pc = "analyse", !.rows = stored])
    /\ UNCHANGED <<stored, threats, desk, breaks, unseen>>

\* Mutant: threats of other requests are not looked for
FreshUnchecked(r) == On(request[r].rows)

Fresh(r) == On(request[r].rows) \ Known

Analyse(r) ==
    /\ At(r, "analyse")
    /\ To(r, [request[r] EXCEPT !.todo = Fresh(r), !.pc = IF Fresh(r) = {} THEN "done" ELSE "insert"])
    /\ UNCHANGED <<stored, threats, desk, breaks, unseen>>

\* A finding of a process or network rule ("alert"), or an event of the
\* pipeline, which goes on to a response.
Detect(r, op, e) ==
    /\ At(r, "new")
    /\ To(r, [request[r] EXCEPT !.op = op, !.pc = "insert", !.todo = On({<<r, e>>})])
    /\ UNCHANGED <<stored, threats, desk, breaks, unseen>>

\* One commit for all new threats
Insert(r) ==
    /\ request[r].pc \in {"insert", "reinsert"}
    /\ threats' = threats \cup {Threat(r, f) : f \in request[r].todo}
    /\ To(r, [request[r] EXCEPT !.pc = "alert"])
    /\ unseen' = unseen \cup {[by |-> o, of |-> f] : f \in request[r].todo,
                                  o \in {q \in Requests \ {r} : At(q, "insert")}}
    /\ UNCHANGED <<stored, desk, breaks>>

\* Mutant: the loop ends with the first threat
AfterAlertStopped(r, f) == IF request[r].op = "pipeline" THEN "respond" ELSE "done"

AfterAlert(r, f) ==
    IF request[r].todo # {f} THEN "alert"
    ELSE IF request[r].op = "pipeline" THEN "respond" ELSE "done"

\* create_alert_from_threat, for one threat after the other
Raise(r, f) ==
    LET t == Threat(r, f)
    IN  /\ At(r, "alert") /\ f \in request[r].todo
        /\ desk' = [o \in DOMAIN desk \cup {t} |-> IF o \in DOMAIN desk THEN desk[o] ELSE Alert("UNREAD")]
        /\ To(r, [request[r] EXCEPT !.todo = @ \ {f}, !.pc = AfterAlert(r, f)])
        /\ UNCHANGED <<stored, threats, breaks, unseen>>

\* Stage 3 of the pipeline: executed, skipped or failed, the request goes on.
Respond(r) ==
    /\ At(r, "respond")
    /\ To(r, [request[r] EXCEPT !.pc = "done"])
    /\ UNCHANGED <<stored, threats, desk, breaks, unseen>>

Broken == breaks < MaxBreaks /\ breaks' = breaks + 1

\* A commit raises.  The session is rolled back and the caller answered an
\* error; the pipeline tries its first insert again with another type.
Break(r) ==
    /\ request[r].pc \in {"insert", "reinsert", "alert"} /\ Broken
    /\ To(r, [request[r] EXCEPT !.pc =
           IF request[r].op = "pipeline" /\ @ = "insert" THEN "reinsert" ELSE "failed"])
    /\ UNCHANGED <<stored, threats, desk, unseen>>

-----------------------------------------------------------------------------
(* The alert desk: the alerts are loaded, changed and written back.          *)

LoadAlerts(r, op, ts) ==
    /\ At(r, "new") /\ ts # {} /\ ts \subseteq DOMAIN desk
    /\ To(r, [request[r] EXCEPT !.op = op, !.pc = "write", !.todo = ts,
                                !.seen = {t \in ts : desk[t].status = op}])
    /\ UNCHANGED <<stored, threats, desk, breaks, unseen>>

\* mark_all_alerts_as_read takes the unread ones.
LoadUnread(r) == LoadAlerts(r, "READ", {t \in DOMAIN desk : desk[t].status = "UNREAD"})

Stamped(alert, op) ==
    [alert EXCEPT !.read = @ \/ op = "READ", !.acked = @ \/ op = "ACKNOWLEDGED"]

\* The stamp is written, and the status where it differs from the loaded one.
WriteAlerts(r) ==
    LET op == request[r].op
        written(t) == [Stamped(desk[t], op) EXCEPT !.status = IF t \in request[r].seen THEN @ ELSE op]
    IN  /\ At(r, "write")
        /\ desk' = [t \in DOMAIN desk |-> IF t \in request[r].todo THEN written(t) ELSE desk[t]]
        /\ To(r, [request[r] EXCEPT !.pc = "done"])
        /\ UNCHANGED <<stored, threats, breaks, unseen>>

-----------------------------------------------------------------------------

AlertInit ==
    /\ stored = {} /\ threats = {} /\ desk = << >>
    /\ request = [r \in Requests |-> NewRequest]
    /\ breaks = 0 /\ unseen = {}

Proceed(r) ==
    \/ Analyse(r) \/ Insert(r) \/ Respond(r) \/ WriteAlerts(r) \/ Break(r)
    \/ \E f \in request[r].todo : At(r, "alert") /\ Raise(r, f)

DeskWork(r) ==
    \/ \E op \in {"READ", "ACKNOWLEDGED"}, ts \in SUBSET DOMAIN desk : LoadAlerts(r, op, ts)
    \/ LoadUnread(r)

-----------------------------------------------------------------------------

AlertTypeOK ==
    /\ stored \subseteq Rows /\ threats \subseteq {Threat(r, f) : r \in Requests, f \in Findings}
    /\ DOMAIN desk \subseteq threats
    /\ \A t \in DOMAIN desk : desk[t].status \in {"UNREAD", "READ", "ACKNOWLEDGED"}
    /\ \A r \in Requests : request[r].rows \subseteq Rows
    /\ breaks \in 0 .. MaxBreaks

\* Two threats of one finding: each request had looked before the other wrote.
DuplicatesOverlapped ==
    \A s, t \in threats : s.of = t.of /\ s # t =>
        [by |-> s.by, of |-> t.of] \in unseen \/ [by |-> t.by, of |-> s.of] \in unseen

\* Every finding on the rows of an analysis that answered success is a threat
\* with an alert, or its threat is another request's that failed or goes on.
FindingsAccounted ==
    \A r \in Requests : At(r, "done") /\ request[r].op \in {"upload", "reanalyse"} =>
        \A f \in On(request[r].rows) : \E t \in threats :
            t.of = f /\ (t \in DOMAIN desk \/ Running(t.by) \/ At(t.by, "failed"))

=============================================================================
