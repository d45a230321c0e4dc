---------------------------- MODULE MCInventories ----------------------------
(* Small instances of what the backend keeps of an endpoint: its processes, its
   connections, its monitored files, its log events, the behaviour of a process
   and the incidents.  They share no state, so a behaviour of the run is a
   behaviour of one of them, chosen in the initial state.                    *)
EXTENDS ProcessInventory, ConnectionInventory, FileRecords, MCEventLogs,
        BehaviorSessions, Incidents, TLC

CONSTANTS k1, k2

VARIABLE part   \* the component that runs

OnePort     == [k \in Conns |-> 80]
OneProcess  == [k \in Conns |-> 1]
OneListens  == [k \in Conns |-> IF k = k1 THEN NoRemote ELSE "a"]

\* Renames and deletions that are malicious until many files are written, the
\* same with critical sequences, and a copy of many files
Times(n, kind) == [i \in 1..n |-> kind]
Swaps  == Times(10, "rename") \o Times(2, "encrypt") \o <<"note">> \o Times(10, "delete")
Attack == {Swaps, Swaps \o <<"wipe", "connect">>, Times(20, "edit")}

TwoEvents == {[subsystem |-> "USB", severity |-> "HIGH"],
              [subsystem |-> "PROCESS", severity |-> "CRITICAL"]}

\* What does not run starts empty
Empty ==
    /\ part # "processes" => \A p \in Pids : running[p] = NoImage
    /\ part # "connections" => \A k \in Conns : sockets[k] = Closed
    /\ part # "files" => records = << >>

Init ==
    /\ part \in {"processes", "connections", "files", "events", "behaviour", "incidents"}
    /\ ProcessInit /\ NetInit /\ RecordInit /\ EventInit /\ BehaviorInit /\ IncidentInit
    /\ Empty

vars == <<part, processVars, netVars, recordVars, eventVars,
          behaviorVars, incidentVars>>

Next ==
    /\ UNCHANGED part
    /\ \/ /\ part = "processes" /\ ProcessNext
          /\ UNCHANGED <<netVars, recordVars, eventVars, behaviorVars, incidentVars>>
       \/ /\ part = "connections" /\ NetNext
          /\ UNCHANGED <<processVars, recordVars, eventVars, behaviorVars, incidentVars>>
       \/ /\ part = "files" /\ RecordNext
          /\ UNCHANGED <<processVars, netVars, eventVars, behaviorVars, incidentVars>>
       \/ /\ part = "events" /\ EventNext
          /\ UNCHANGED <<processVars, netVars, recordVars, behaviorVars, incidentVars>>
       \/ /\ part = "behaviour" /\ BehaviorNext
          /\ UNCHANGED <<processVars, netVars, recordVars, eventVars, incidentVars>>
       \/ /\ part = "incidents" /\ IncidentNext
          /\ UNCHANGED <<processVars, netVars, recordVars, eventVars, behaviorVars>>

Spec == Init /\ [][Next]_vars

TypeOK == /\ ProcessTypeOK /\ NetTypeOK /\ RecordTypeOK /\ EventTypeOK
          /\ BehaviorTypeOK /\ IncidentTypeOK

\* What the backend has recorded of the processes, the connections and the files
\* is what they are, once everything sent has arrived and unless a call was lost
InventoriesAgree == InventoryAgrees /\ ConnectionsAgree /\ RecordsFollow

\* A process has one session, a device one incident at a time and an event a
\* place in an incident of its own, whatever the threads of the API do at once
NothingSplit == SessionsSplit /\ IncidentsSplit /\ EventsJoined
=============================================================================
