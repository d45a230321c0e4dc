-------------------------- MODULE ConnectionInventory --------------------------
(* The network connections of one device: the agent's monitor, which polls and
   posts what changed, and its snapshot (agent/collectors/network_collector.py),
   and the backend that stores both (services/network_service.py).

   The agent knows a connection by its six-part key.  The backend finds rows by
   less: to delete, by process, local port and remote address, where the closed
   connection has one; to change a state, by the local port alone.  A request
   is one transaction until a finding of the network rules commits it.       *)
EXTENDS Naturals, FiniteSets, Functions

CONSTANTS Conns,            \* connections, by their key
          PortOf, ProcOf, RemoteOf, NoRemote,
          States, Closed,
          Suspicious,       \* connections on which a network rule fires
          Violating,        \* connections that break the policy, with auto_block
          Calls,            \* requests, numbered in the order they arrive
          MaxMoves,         \* bound: connections opened, closed or in a new state
          MaxCallFaults     \* bound: calls lost, late or failing

ASSUME ConnectionAssumption ==
    /\ Closed \notin States /\ Calls \subseteq Nat /\ Suspicious \cup Violating \subseteq Conns
    /\ MaxMoves \in Nat /\ MaxCallFaults \in Nat

VARIABLES
    sockets,       \* the state of each connection
    cached,        \* _previous_connections
    netDiff,       \* the monitor's cycle: where it is, what changed, its call
    call,          \* each request in the backend
    connections,   \* committed rows of network_connections
    moves, callFaults,
    strayed        \* history: connections whose rows may be wrong

netVars == <<sockets, cached, netDiff, call, connections, moves, callFaults, strayed>>

Open(map) == {k \in Conns : map[k] # Closed}
IdleNet == [pc |-> "idle", connected |-> {}, closed |-> {}, turned |-> {}, with |-> {}, call |-> Closed]
NewCall == [op |-> "none", pc |-> "new", closed |-> {}, turned |-> {}, mentions |-> {}, findings |-> {},
            pending |-> {}, cleared |-> {}, links |-> {}, restated |-> << >>]

Move == moves < MaxMoves /\ moves' = moves + 1
CallFault == callFaults < MaxCallFaults /\ callFaults' = callFaults + 1
Busy(r) == call[r].pc \notin {"new", "done", "failed"}
HandledBy(others) == UNION {call[o].mentions : o \in {q \in others : Busy(q)}}

-----------------------------------------------------------------------------
(* The operating system.  What happens to a connection twice between two polls
   is beyond the monitor.                                                    *)

Connect(k, state) ==
    /\ Move /\ sockets[k] = Closed
    /\ sockets' = [sockets EXCEPT ![k] = state]
    /\ strayed' = IF cached[k] = Closed THEN strayed ELSE strayed \cup {k}
    /\ UNCHANGED <<cached, netDiff, call, connections, callFaults>>

Disconnect(k) ==
    /\ Move /\ sockets[k] # Closed
    /\ sockets' = [sockets EXCEPT ![k] = Closed]
    /\ strayed' = IF cached[k] = Closed THEN strayed \cup {k} ELSE strayed
    /\ UNCHANGED <<cached, netDiff, call, connections, callFaults>>

Turn(k, state) ==
    /\ Move /\ sockets[k] \notin {Closed, state}
    /\ sockets' = [sockets EXCEPT ![k] = state]
    /\ strayed' = IF cached[k] = sockets[k] THEN strayed ELSE strayed \cup {k}
    /\ UNCHANGED <<cached, netDiff, call, connections, callFaults>>

-----------------------------------------------------------------------------
(* collect_and_diff and _post_network_events                                 *)

\* auto_block_c2_connections kills the process of a connection that breaks the
\* policy, and with it all its connections.
Severed(killed) == [k \in Conns |-> IF ProcOf[k] \in killed THEN Closed ELSE sockets[k]]

\* Mutant: a known connection's state is not compared
TurnedNever == {}

Turned == {k \in Open(sockets) \cap Open(cached) : sockets[k] # cached[k]}

CollectSockets ==
    /\ netDiff.pc = "idle"
    /\ \E killed \in SUBSET {ProcOf[k] : k \in Open(sockets) \cap Violating} : sockets' = Severed(killed)
    /\ cached' = sockets
    /\ netDiff' = [pc |-> "post", connected |-> Open(sockets) \ Open(cached),
                   closed |-> Open(cached) \ Open(sockets), turned |-> Turned,
                   with |-> {<<k, sockets[k]>> : k \in Open(sockets)}, call |-> Closed]
    /\ UNCHANGED <<call, connections, moves, callFaults, strayed>>

Changes == netDiff.connected \cup netDiff.closed \cup netDiff.turned
Sent(r, ks, with) == {[by |-> r, conn |-> w[1], state |-> w[2], linked |-> FALSE] : w \in {v \in with : v[1] \in ks}}

Starts(r, request) ==
    /\ call[r].pc = "new" /\ \A o \in Calls : o < r => call[o].pc # "new"
    /\ call' = [call EXCEPT ![r] = [request EXCEPT !.pc = IF request.op = "snapshot" THEN "clear"
                                                          ELSE IF request.findings = {} THEN "apply" ELSE "alert"]]
    /\ strayed' = strayed \cup (request.mentions \cap HandledBy(Calls))

\* POST /devices/{id}/network/events: new rows are added, and evaluated.
PostChanges(r) ==
    /\ netDiff.pc = "post"
    /\ Starts(r, [NewCall EXCEPT !.op = "live", !.closed = netDiff.closed, !.mentions = Changes,
                     !.turned = {w \in netDiff.with : w[1] \in netDiff.turned},
                     !.findings = netDiff.connected \cap Suspicious,
                     !.pending = Sent(r, netDiff.connected, netDiff.with)])
    /\ netDiff' = [IdleNet EXCEPT !.pc = "wait", !.call = r]
    /\ UNCHANGED <<sockets, cached, connections, moves, callFaults>>

ChangesLost ==
    /\ netDiff.pc = "post" /\ CallFault
    /\ netDiff' = IdleNet
    /\ strayed' = strayed \cup Changes
    /\ UNCHANGED <<sockets, cached, call, connections, moves>>

\* The answer, or 5 seconds without one
WaitEnds ==
    /\ netDiff.pc = "wait" /\ IF Busy(netDiff.call) THEN CallFault ELSE UNCHANGED callFaults
    /\ netDiff' = IdleNet
    /\ UNCHANGED <<sockets, cached, call, connections, moves, strayed>>

\* POST /devices/{id}/network
SendSockets(r) ==
    /\ Starts(r, [NewCall EXCEPT !.op = "snapshot", !.mentions = Conns,
                     !.findings = Open(sockets) \cap Suspicious,
                     !.pending = Sent(r, Open(sockets), {<<k, sockets[k]>> : k \in Open(sockets)})])
    /\ UNCHANGED <<sockets, cached, netDiff, connections, moves, callFaults>>

-----------------------------------------------------------------------------
(* ingest_network_connections and process_live_network_events                *)

RowsOfConn(k) == {row \in connections : row.conn = k}
Kept(r) == connections \ call[r].cleared
InCall(r, request) == /\ call' = [call EXCEPT ![r] = request]
                      /\ UNCHANGED <<sockets, cached, netDiff, moves>>

\* The rows that the request has changed in memory, and what they become
Dirty(r) == {row \in Kept(r) : (row.by = r /\ row.conn \in call[r].links) \/ <<row.by, row.conn>> \in DOMAIN call[r].restated}
Rewritten(r, row) ==
    [row EXCEPT !.linked = @ \/ (row.by = r /\ row.conn \in call[r].links),
                !.state = IF <<row.by, row.conn>> \in DOMAIN call[r].restated
                          THEN call[r].restated[<<row.by, row.conn>>] ELSE @]

\* An UPDATE of a row that is gone fails the whole commit.
Stale(r) == \/ \E k \in call[r].links : \A row \in Kept(r) : ~(row.by = r /\ row.conn = k)
            \/ \E id \in DOMAIN call[r].restated : \A row \in Kept(r) : <<row.by, row.conn>> # id

CommitCall(r, request) ==
    /\ ~Stale(r)
    /\ connections' = (Kept(r) \ Dirty(r)) \cup {Rewritten(r, row) : row \in Dirty(r)} \cup call[r].pending
    /\ InCall(r, [request EXCEPT !.pending = {}, !.cleared = {}, !.restated = << >>])

\* The rows that the device has now are deleted, uncommitted.
ClearConns(r) ==
    /\ call[r].pc = "clear"
    /\ InCall(r, [call[r] EXCEPT !.cleared = connections, !.pc = IF call[r].findings = {} THEN "commit" ELSE "alert"])
    /\ UNCHANGED <<connections, callFaults, strayed>>

SameTarget(j, k) == ProcOf[j] = ProcOf[k] /\ RemoteOf[j] = RemoteOf[k]

\* create_network_alert commits all that the request holds; then the rows of
\* the finding's process and remote address are linked to it, in memory.
AlertOn(r, k) ==
    /\ call[r].pc = "alert" /\ k \in call[r].findings
    /\ CommitCall(r, [call[r] EXCEPT
           !.findings = @ \ {k},
           !.links = {j \in call[r].mentions : SameTarget(j, k) /\ \E row \in Kept(r) \cup call[r].pending :
                                                                      row.by = r /\ row.conn = j},
           !.pc = IF call[r].findings # {k} THEN "alert" ELSE IF call[r].op = "live" THEN "apply" ELSE "commit"])
    /\ UNCHANGED <<callFaults, strayed>>

\* The filters of a closed connection
Matches(row, k) ==
    /\ ProcOf[row.conn] = ProcOf[k] /\ PortOf[row.conn] = PortOf[k]
    /\ RemoteOf[k] # NoRemote => RemoteOf[row.conn] = RemoteOf[k]

\* The first row with the local port of a connection in a new state
MayRestate(rows, k) == {<<row.by, row.conn>> : row \in {q \in rows : PortOf[q.conn] = PortOf[k]}}

\* The matching rows in the database are deleted: new rows are not among them,
\* unless a finding has committed them.  Then states are changed in memory.
ApplyChanges(r) ==
    LET deleted == {row \in connections : \E k \in call[r].closed : Matches(row, k)}
        rows    == connections \ deleted
        turned  == {w \in call[r].turned : MayRestate(rows, w[1]) # {}}
    IN  /\ call[r].pc = "apply"
        /\ \E pick \in [turned -> UNION {MayRestate(rows, w[1]) : w \in turned}] :
            /\ \A w \in turned : pick[w] \in MayRestate(rows, w[1])
            /\ InCall(r, [call[r] EXCEPT !.pc = "commit", !.cleared = deleted,
                   !.restated = [id \in Range(pick) |-> (CHOOSE w \in turned : pick[w] = id)[2]]])
            /\ strayed' = strayed \cup ({row.conn : row \in deleted} \ call[r].closed)
                                  \cup UNION {{w[1], pick[w][2]} : w \in {v \in turned : pick[v][2] # v[1]}}
        /\ UNCHANGED <<connections, callFaults>>

FinishCall(r) ==
    /\ call[r].pc = "commit"
    /\ CommitCall(r, [NewCall EXCEPT !.op = call[r].op, !.pc = "done"])
    /\ UNCHANGED <<callFaults, strayed>>

\* A commit raises: a row in memory is gone, a process that a new row refers to
\* was deleted with its snapshot in the meantime, or the database fails.
CallFails(r) ==
    /\ Busy(r) /\ IF Stale(r) THEN UNCHANGED callFaults ELSE CallFault
    /\ call' = [call EXCEPT ![r] = [NewCall EXCEPT !.pc = "failed"]]
    /\ strayed' = strayed \cup call[r].mentions
    /\ UNCHANGED <<sockets, cached, netDiff, connections, moves>>

-----------------------------------------------------------------------------

NetInit ==
    /\ sockets \in [Conns -> {Closed} \cup States] /\ cached = [k \in Conns |-> Closed]
    /\ netDiff = IdleNet /\ call = [r \in Calls |-> NewCall]
    /\ connections = {} /\ moves = 0 /\ callFaults = 0 /\ strayed = {}

NetNext ==
    \/ \E k \in Conns : Disconnect(k) \/ \E s \in States : Connect(k, s) \/ Turn(k, s)
    \/ CollectSockets \/ ChangesLost \/ WaitEnds
    \/ \E r \in Calls :
        \/ PostChanges(r) \/ SendSockets(r) \/ ClearConns(r) \/ ApplyChanges(r) \/ FinishCall(r) \/ CallFails(r)
        \/ \E k \in call[r].findings : AlertOn(r, k)

NetSpec == NetInit /\ [][NetNext]_netVars

-----------------------------------------------------------------------------

NetTypeOK ==
    /\ sockets \in [Conns -> States \cup {Closed}] /\ cached \in [Conns -> States \cup {Closed}]
    /\ netDiff.pc \in {"idle", "post", "wait"}
    /\ connections \subseteq [by : Calls, conn : Conns, state : States, linked : BOOLEAN]
    /\ \A r \in Calls : call[r].findings \subseteq Conns /\ call[r].links \subseteq Conns
    /\ strayed \subseteq Conns

\* Once the monitor has seen the sockets and no request is at work, an open
\* connection has a row in its state and a closed one none, except where it
\* came and went between two polls, its change was lost or failed, two requests
\* handled it at a time, or a filter hit the row of another connection.
ConnectionsAgree ==
    netDiff.pc = "idle" /\ cached = sockets /\ (\A r \in Calls : ~Busy(r)) =>
        \A k \in Conns \ strayed :
            IF sockets[k] = Closed THEN RowsOfConn(k) = {}
            ELSE \E row \in RowsOfConn(k) : row.state = sockets[k]
=============================================================================
