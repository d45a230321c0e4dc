------------------------------- MODULE Incidents -------------------------------
(* Incidents: the events of a correlated sequence, which an analyst or a
   simulation posts (api/investigation.py), are logged in one transaction and
   told one by one to the engine that joins them into incidents (services/
   timeline_engine.py, detection/behavior/incident_correlator.py).  The engine is
   a pair of dictionaries in memory, shared by the request threads; the clock
   counts seconds.

   The engine that api/investigation.py lists incidents from is another one, of
   which no event is ever told: its answers are always empty.                 *)
EXTENDS Naturals, Sequences, FiniteSets, SequencesExt

CONSTANTS Devices, CorrIds,           \* correlation ids, given or drawn
          Events,                     \* [subsystem, severity] that a sequence may hold
          Sequels,                    \* requests, numbered in the order they arrive
          SequelLength,               \* the events of a request
          Interval, MaxTime, MaxRollbacks    \* bounds

ASSUME IncidentAssumption ==
    /\ Sequels \subseteq Nat /\ SequelLength \in Nat \ {0}
    /\ Interval \in Nat \ {0} /\ MaxTime \in Nat /\ MaxRollbacks \in Nat

CorrelationWindow == 300

VARIABLES
    incidents,   \* the incidents in the order they were opened
    active,      \* active_incidents: the incident of a device, 0 when it has none
    registered,  \* incident_registry: the incident of a correlation id, or 0
    sequel,      \* each request: where it is, its device, id and events, what it found
    logs,        \* telemetry_logs: the requests whose events were stored
    time, rollbacks,
    overlaps,    \* look-ups of a device that missed while another was opening one, or
    expiries     \* that found one too old

incidentVars == <<incidents, active, registered, sequel, logs, time, rollbacks, overlaps, expiries>>

NewSequel == [pc |-> "new"]
ToSequel(s, changes) == sequel' = [sequel EXCEPT ![s] = changes]
AtSequel(s, pc) == sequel[s].pc = pc

IncidentInit ==
    /\ incidents = << >>
    /\ active = [d \in Devices |-> 0] /\ registered = [c \in CorrIds |-> 0]
    /\ sequel = [s \in Sequels |-> NewSequel]
    /\ logs = {} /\ time = 0 /\ rollbacks = 0
    /\ overlaps = [d \in Devices |-> 0] /\ expiries = [d \in Devices |-> 0]

-----------------------------------------------------------------------------
(* An incident                                                               *)

\* add_subsystem_event: the incident and its severity with one more event
Joined(incident, e, s) ==
    LET events     == Append(incident.events, [e |-> e, by |-> s])
        subsystems == {events[i].e.subsystem : i \in DOMAIN events}
        critical   == \/ "RANSOMWARE" \in subsystems \/ Cardinality(subsystems) >= 3
                      \/ \E i \in DOMAIN events : events[i].e.severity = "CRITICAL"
    IN  [incident EXCEPT !.events = events, !.updated = time,
                         !.severity = IF critical THEN "CRITICAL" ELSE "HIGH",
                         !.root = IF @ = "UNKNOWN" /\ e.subsystem \in {"USB", "PROCESS"}
                                  THEN e.subsystem ELSE @]

NewIncident(d, c) == [device |-> d, id |-> c, events |-> << >>, updated |-> time,
                      severity |-> "HIGH", root |-> "UNKNOWN"]

\* Mutant: an incident does not become the active one of its device
ActivatesNone(d) == active

\* active_incidents after an incident of d is opened
Activates(d) == [active EXCEPT ![d] = Len(incidents) + 1]

-----------------------------------------------------------------------------
(* A request: its events are correlated one after the other, then stored      *)

PostSequel(s) ==
    /\ AtSequel(s, "new") /\ \A r \in Sequels : r < s => ~AtSequel(r, "new")
    /\ \E d \in Devices, c \in CorrIds, batch \in [1..SequelLength -> Events] :
         ToSequel(s, [pc |-> "looking", device |-> d, id |-> c, todo |-> batch, found |-> 0])
    /\ UNCHANGED <<incidents, active, registered, logs, time, rollbacks, overlaps, expiries>>

InWindow(i) == time - incidents[i].updated <= CorrelationWindow

\* correlate_event: the incident of the id, else the recent one of the device
Correlated(d, c) ==
    IF registered[c] # 0 THEN registered[c]
    ELSE IF active[d] # 0 /\ InWindow(active[d]) THEN active[d] ELSE 0

Opens(s, d) == AtSequel(s, "opening") /\ sequel[s].device = d

Correlate(s) ==
    /\ AtSequel(s, "looking")
    /\ LET d       == sequel[s].device
           found   == Correlated(d, sequel[s].id)
           missed  == found = 0
           overlap == \E r \in Sequels : Opens(r, d)
           expired == active[d] # 0 /\ time > incidents[active[d]].updated + 300 IN
       /\ ToSequel(s, [sequel[s] EXCEPT !.pc = IF missed THEN "opening" ELSE "joining",
                                        !.found = found])
       /\ overlaps' = [overlaps EXCEPT ![d] = @ + (IF missed /\ overlap THEN 1 ELSE 0)]
       /\ expiries' = [expiries EXCEPT ![d] = @ + (IF missed /\ ~overlap /\ expired THEN 1 ELSE 0)]
    /\ UNCHANGED <<incidents, active, registered, logs, time, rollbacks>>

OpenIncident(s) ==
    /\ AtSequel(s, "opening")
    /\ incidents' = Append(incidents, NewIncident(sequel[s].device, sequel[s].id))
    /\ active' = Activates(sequel[s].device)
    /\ registered' = [registered EXCEPT ![sequel[s].id] = Len(incidents) + 1]
    /\ ToSequel(s, [sequel[s] EXCEPT !.pc = "joining", !.found = Len(incidents) + 1])
    /\ UNCHANGED <<logs, time, rollbacks, overlaps, expiries>>

\* The event is attached to what was found, and the next one is looked up
JoinEvent(s) ==
    /\ AtSequel(s, "joining")
    /\ incidents' = [incidents EXCEPT ![sequel[s].found] = Joined(@, Head(sequel[s].todo), s)]
    /\ ToSequel(s, [sequel[s] EXCEPT !.todo = Tail(@),
                                     !.pc = IF Len(sequel[s].todo) = 1 THEN "storing" ELSE "looking"])
    /\ UNCHANGED <<active, registered, logs, time, rollbacks, overlaps, expiries>>

\* The commit of the request's log entries
StoreLogs(s) ==
    /\ AtSequel(s, "storing")
    /\ logs' = logs \cup {s}
    /\ ToSequel(s, [sequel[s] EXCEPT !.pc = "stored"])
    /\ UNCHANGED <<incidents, active, registered, time, rollbacks, overlaps, expiries>>

\* The commit fails: the entries are gone, the incidents keep the events
LoseLogs(s) ==
    /\ AtSequel(s, "storing") /\ rollbacks < MaxRollbacks
    /\ rollbacks' = rollbacks + 1
    /\ ToSequel(s, [sequel[s] EXCEPT !.pc = "failed"])
    /\ UNCHANGED <<incidents, active, registered, logs, time, overlaps, expiries>>

Waits ==
    /\ time + Interval <= MaxTime /\ time' = time + Interval
    /\ UNCHANGED <<incidents, active, registered, sequel, logs, rollbacks, overlaps, expiries>>

IncidentNext ==
    \/ \E s \in Sequels : PostSequel(s) \/ Correlate(s) \/ OpenIncident(s) \/ JoinEvent(s) \/ StoreLogs(s) \/ LoseLogs(s)
    \/ Waits

IncidentSpec == IncidentInit /\ [][IncidentNext]_incidentVars

-----------------------------------------------------------------------------
(* What should hold                                                          *)

IncidentTypeOK ==
    /\ \A i \in DOMAIN incidents :
         /\ incidents[i].device \in Devices /\ incidents[i].id \in CorrIds
         /\ incidents[i].severity \in {"HIGH", "CRITICAL"}
         /\ incidents[i].updated \in 0..time
    /\ active \in [Devices -> 0..Len(incidents)]
    /\ registered \in [CorrIds -> 0..Len(incidents)]
    /\ logs \subseteq Sequels

\* An attack on a device is divided over two incidents only when it paused for
\* longer than the window or two requests missed the first incident at once;
\* the newest of them takes the next events
IncidentsSplit ==
    \A d \in Devices :
      LET own == {i \in DOMAIN incidents : incidents[i].device = d} IN
      /\ Cardinality(own) <= 1 + expiries[d] + overlaps[d]
      /\ own # {} => active[d] = Max(own)

\* An event is in an incident of its own id or, when its device had a recent one,
\* in that: then the id it came with may find nothing
EventsJoined ==
    \A i \in DOMAIN incidents : \A j \in DOMAIN incidents[i].events :
      LET s == sequel[incidents[i].events[j].by] IN
      incidents[i].id = s.id \/ incidents[i].device = s.device

=============================================================================
