------------------------------- MODULE EventLogs -------------------------------
(* Events of the operating system's logs: the collector, which reads the last
   entries of the log every time it is asked (agent/collectors/
   event_log_collector.py), their ingestion and detection
   (services/event_log_service.py) and the rules on them
   (detection/rules/event_log_rules.py).

   An event is what it reports - its kind, account and computer, whether it
   happened off hours, came from remote or mentions an administrator - and the
   fields that say so: the id, the type and the text.  What the rules are given
   of it depends on raw_event.                                               *)
EXTENDS Naturals, Sequences, FiniteSets, SequencesExt

CONSTANTS Names,             \* of accounts and computers, NoName among them
          Happenings,        \* what the log can record
          Samples,           \* the events that the collector makes up
          NoName,            \* an account or a computer that is not named
          FailureThreshold, CollectLimit, CollectLeast,
          Uploads,           \* requests of ingestion, each used once
          MaxEntries, MaxUploadFaults    \* bounds

Kinds == {"logon", "failure", "group", "newuser", "disabled", "service", "task", "registry",
          "startup", "cleared", "other"}
LogEvent == [kind : Kinds, user : Names, host : Names, off : BOOLEAN, remote : BOOLEAN,
             admin : BOOLEAN, says : SUBSET {"id", "type", "text"}, raw : BOOLEAN]

\* The system's log holds no raw events: the collector makes them of its entries.
ASSUME EventAssumption ==
    /\ NoName \in Names /\ Samples \in Seq(LogEvent)
    /\ Happenings \subseteq LogEvent /\ \A e \in Happenings : ~e.raw
    /\ FailureThreshold \in Nat \ {0} /\ CollectLimit \in Nat /\ CollectLeast \in Nat
    /\ MaxEntries \in Nat /\ MaxUploadFaults \in Nat

VARIABLES
    log,         \* the host's log
    eventRows,   \* rows of security_events: the request and its place in the batch
    upload,      \* each request: where it is, its batch and the findings left
    osThreats, osAlerts,    \* what the pipeline stored, by request and finding
    uploadFaults

eventVars == <<log, eventRows, upload, osThreats, osAlerts, uploadFaults>>

NewUpload == [pc |-> "new", batch |-> << >>, todo |-> {}, now |-> {}]
AtUpload(r, pc) == upload[r].pc = pc
ToUpload(r, changes) == upload' = [upload EXCEPT ![r] = changes]

-----------------------------------------------------------------------------
(* The rules                                                                 *)

\* The fields in which a rule looks for its kind of event
LooksAt == [group |-> {"id", "text"}, disabled |-> {"id", "text"}, service |-> {"id", "text"},
            task |-> {"id", "text"}, registry |-> {"id", "text"}, startup |-> {"type", "text"},
            cleared |-> {"id", "type", "text"}]

\* BruteForceLogonRule counts the failures of an account in one batch: the
\* window of 30 seconds does not restrict it.
FailuresIn(batch, u) == {i \in DOMAIN batch : batch[i].kind = "failure" /\ batch[i].user = u}

BruteForce(batch) ==
    {[rule |-> "brute force", of |-> FailuresIn(batch, batch[j].user)] :
        j \in {i \in DOMAIN batch : Cardinality(FailuresIn(batch, batch[i].user)) >= FailureThreshold}}

\* SimultaneousMultiDeviceLoginRule: one account on several computers
LogonsIn(batch, u) == {i \in DOMAIN batch : batch[i].kind = "logon" /\ batch[i].user = u}

MultiDevice(batch) ==
    {[rule |-> "multi device", of |-> LogonsIn(batch, batch[j].user)] :
        j \in {i \in DOMAIN batch : batch[i].user # NoName
                 /\ Cardinality({batch[k].host : k \in LogonsIn(batch, batch[i].user)}) > 1}}

\* The rules on a single event
Fires(rule, e) ==
    CASE rule = "off hours" -> e.kind = "logon" /\ e.off
      [] rule = "remote"    -> e.kind = "logon" /\ e.remote
      [] rule = "newuser"   -> e.kind = "newuser" /\ e.admin /\ "text" \in e.says
      [] OTHER              -> e.kind = rule /\ e.says \cap LooksAt[rule] # {}

SingleRules == {"off hours", "remote", "newuser"} \cup DOMAIN LooksAt

\* evaluate_event_log_batch
Evaluate(batch) ==
    BruteForce(batch) \cup MultiDevice(batch)
        \cup UNION {{[rule |-> rule, of |-> {i}] : i \in {j \in DOMAIN batch : Fires(rule, batch[j])}} :
                       rule \in SingleRules}

\* Mutant: the rules are given the fields of the row and its raw event
GivenBoth(e) == [e EXCEPT !.says = @ \ {"text"}]

\* What the rules are given of an event: the raw event, if there is one, which
\* has none of the fields that they look for; else fields of the row, without
\* its text, its time and its computer.
Given(e) ==
    IF e.raw THEN [e EXCEPT !.kind = "other", !.user = NoName, !.host = NoName, !.says = {}]
    ELSE [e EXCEPT !.says = @ \ {"text"}, !.host = NoName, !.off = FALSE]

-----------------------------------------------------------------------------
(* The host and the collector                                                *)

Happens(e) ==
    /\ Len(log) < MaxEntries
    /\ log' = Append(log, e)
    /\ UNCHANGED <<eventRows, upload, osThreats, osAlerts, uploadFaults>>

Raw(events) == [i \in DOMAIN events |-> [events[i] EXCEPT !.raw = TRUE]]

\* What a query of the log returns: its last entries
Queried == IF Len(log) <= CollectLimit THEN log ELSE SubSeq(log, Len(log) - CollectLimit + 1, Len(log))

\* collect_events: the query, made up to the least number with samples
CollectEvents(r) ==
    LET all == IF Len(Queried) < CollectLeast THEN Queried \o Samples ELSE Queried
    IN  /\ AtUpload(r, "new")
        /\ ToUpload(r, [upload[r] EXCEPT !.pc = "store",
                            !.batch = Raw(SubSeq(all, 1, IF Len(all) < CollectLimit THEN Len(all) ELSE CollectLimit))])
        /\ UNCHANGED <<log, eventRows, osThreats, osAlerts, uploadFaults>>

\* Another client of the ingestion, or the route of the buffered telemetry,
\* which ingests one event at a time, posts entries without a raw event.
Post(r, first, last) ==
    /\ AtUpload(r, "new") /\ first <= last
    /\ ToUpload(r, [upload[r] EXCEPT !.pc = "store", !.batch = SubSeq(log, first, last)])
    /\ UNCHANGED <<log, eventRows, osThreats, osAlerts, uploadFaults>>

-----------------------------------------------------------------------------
(* ingest_security_events                                                    *)

Onward(todo) == IF todo = {} THEN "done" ELSE "threat"

\* One commit for all rows; the findings are kept in memory.
StoreEvents(r) ==
    LET found == Evaluate([i \in DOMAIN upload[r].batch |-> Given(upload[r].batch[i])])
    IN  /\ AtUpload(r, "store")
        /\ eventRows' = eventRows \cup ({r} \X DOMAIN upload[r].batch)
        /\ ToUpload(r, [upload[r] EXCEPT !.todo = found, !.pc = Onward(found)])
        /\ UNCHANGED <<log, osThreats, osAlerts, uploadFaults>>

\* Mutant: the threat is left without a commit of its own
StoreThreatSkipped(r, f) ==
    /\ upload[r].pc \in {"threat", "threat again"} /\ f \in upload[r].todo
    /\ ToUpload(r, [upload[r] EXCEPT !.pc = "alert", !.now = {f}])
    /\ UNCHANGED <<log, eventRows, osThreats, osAlerts, uploadFaults>>

\* The pipeline commits the threat of a finding, then its alert.
StoreThreat(r, f) ==
    /\ upload[r].pc \in {"threat", "threat again"} /\ f \in upload[r].todo
    /\ osThreats' = osThreats \cup {<<r, f>>}
    /\ ToUpload(r, [upload[r] EXCEPT !.pc = "alert", !.now = {f}])
    /\ UNCHANGED <<log, eventRows, osAlerts, uploadFaults>>

StoreAlert(r) ==
    LET left == upload[r].todo \ upload[r].now
    IN  /\ AtUpload(r, "alert")
        /\ osAlerts' = osAlerts \cup ({r} \X upload[r].now)
        /\ ToUpload(r, [upload[r] EXCEPT !.todo = left, !.now = {}, !.pc = Onward(left)])
        /\ UNCHANGED <<log, eventRows, osThreats, uploadFaults>>

\* A commit raises: the first one of a threat is tried again, another one ends
\* the request and with it the findings left.  An id that is stored already
\* fails the commit of the rows.
UploadBreaks(r) ==
    /\ uploadFaults < MaxUploadFaults /\ uploadFaults' = uploadFaults + 1
    /\ upload[r].pc \in {"store", "threat", "threat again", "alert"}
    /\ ToUpload(r, [upload[r] EXCEPT !.pc = IF @ = "threat" THEN "threat again" ELSE "failed"])
    /\ UNCHANGED <<log, eventRows, osThreats, osAlerts>>

-----------------------------------------------------------------------------

EventInit ==
    /\ log = << >> /\ eventRows = {} /\ osThreats = {} /\ osAlerts = {}
    /\ upload = [r \in Uploads |-> NewUpload] /\ uploadFaults = 0

EventNext ==
    \/ \E e \in Happenings : Happens(e)
    \/ \E r \in Uploads : \/ CollectEvents(r) \/ StoreEvents(r) \/ StoreAlert(r) \/ UploadBreaks(r)
                          \/ \E i, j \in DOMAIN log : Post(r, i, j)
                          \/ \E f \in upload[r].todo : StoreThreat(r, f)

EventSpec == EventInit /\ [][EventNext]_eventVars

-----------------------------------------------------------------------------

EventTypeOK ==
    /\ eventRows \subseteq Uploads \X (1 .. CollectLimit + MaxEntries)
    /\ osAlerts \subseteq osThreats
    /\ \A r \in Uploads : /\ upload[r].pc \in {"new", "store", "threat", "threat again", "alert",
                                               "done", "failed"}
                          /\ upload[r].batch \in Seq(LogEvent)
    /\ uploadFaults \in 0 .. MaxUploadFaults

Failures(r, u) == {row \in eventRows : row[1] = r /\ upload[r].batch[row[2]].kind = "failure"
                                       /\ upload[r].batch[row[2]].user = u}
Accounts == {e.user : e \in Happenings}
BruteForceOf(alerts, u) ==
    {a \in alerts : a[2].rule = "brute force" /\ \E i \in a[2].of : upload[a[1]].batch[i].user = u}

\* An ingestion that answered success has raised the alert for failed logons of
\* an account exactly where it stored the threshold of them in one batch and
\* without raw events, however the requests interleave and whatever broke.
BruteForceSeen ==
    \A r \in Uploads, u \in Accounts : AtUpload(r, "done") =>
        (BruteForceOf({a \in osAlerts : a[1] = r}, u) # {}
            <=> /\ Cardinality(Failures(r, u)) >= FailureThreshold
                /\ ~\E row \in Failures(r, u) : upload[r].batch[row[2]].raw)

=============================================================================
