---------------------------- MODULE SocketRegistry ----------------------------
(* The backend's websockets (backend/app/core/websocket_manager.py and
   backend/app/api/websocket.py): the pool of open connections, the connection
   of each agent, and the broadcasts.

   Everything runs in one event loop, which another coroutine takes over only
   at an await: in accept, in receive_text and in each send.  A broadcast that
   a thread asked for is a coroutine of its own, so several are under way.   *)
EXTENDS Naturals, Sequences, FiniteSets, SequencesExt

CONSTANTS Sockets,        \* connections, each used once
          Clients,        \* agents
          NoClient, NoSocket,
          OwnerOf,        \* the agent whose route a connection uses, or NoClient
          Broadcasts      \* broadcast coroutines

ASSUME SocketAssumption ==
    /\ NoClient \notin Clients /\ NoSocket \notin Sockets
    /\ OwnerOf \in [Sockets -> Clients \cup {NoClient}]

VARIABLES
    socket,       \* each connection's endpoint: where it is
    broken,       \* connections on which a send fails
    active,       \* active_connections
    agentSocket,  \* agent_connections
    cast,         \* each broadcast: its copy of the list and the failures so far
    arrived       \* history: the order of the connections of agents

socketVars == <<socket, broken, active, agentSocket, cast, arrived>>

NewCast == [pc |-> "new", todo |-> << >>, failed |-> {}]
Listening == {s \in Sockets : socket[s] = "listening"}

\* accept
Accept(s) ==
    /\ socket[s] = "new"
    /\ socket' = [socket EXCEPT ![s] = "accepted"]
    /\ UNCHANGED <<broken, active, agentSocket, cast, arrived>>

\* Mutant: an agent that has an entry keeps it
EntryKept(s) == IF agentSocket[OwnerOf[s]] = NoSocket THEN s ELSE agentSocket[OwnerOf[s]]

Entry(s) == s

Connect(s) ==
    /\ socket[s] = "accepted"
    /\ socket' = [socket EXCEPT ![s] = "listening"]
    /\ active' = Append(active, s)
    /\ agentSocket' = [a \in Clients |-> IF a = OwnerOf[s] THEN Entry(s) ELSE agentSocket[a]]
    /\ arrived' = Append(arrived, s)
    /\ UNCHANGED <<broken, cast>>

\* What is left of a list without some connections
Without(list, gone) ==
    LET left[i \in 0 .. Len(list)] ==
          IF i = 0 THEN << >>
          ELSE IF list[i] \in gone THEN left[i - 1] ELSE Append(left[i - 1], list[i])
    IN  left[Len(list)]

\* A disconnect of an agent's endpoint removes the entry, whatever it holds.
Remaining(s, a) == a # OwnerOf[s]

\* receive_text raises: the endpoint leaves its loop.
Disconnect(s) ==
    /\ socket[s] = "listening"
    /\ socket' = [socket EXCEPT ![s] = "closed"]
    /\ active' = Without(active, {s})
    /\ agentSocket' = [a \in Clients |-> IF Remaining(s, a) THEN agentSocket[a] ELSE NoSocket]
    /\ UNCHANGED <<broken, cast, arrived>>

\* The peer is gone or too slow, which its endpoint has not noticed yet.
Breaks(s) ==
    /\ socket[s] = "listening" /\ s \notin broken
    /\ broken' = broken \cup {s}
    /\ UNCHANGED <<socket, active, agentSocket, cast, arrived>>

-----------------------------------------------------------------------------
(* broadcast                                                                 *)

\* The sends go to list(self.active_connections)
StartCast(b) ==
    /\ cast[b].pc = "new"
    /\ cast' = [cast EXCEPT ![b] = [pc |-> "send", todo |-> active, failed |-> {}]]
    /\ UNCHANGED <<socket, broken, active, agentSocket, arrived>>

\* One send; one that fails is remembered.
SendNext(b) ==
    LET s == Head(cast[b].todo)
        fails == s \in broken \/ socket[s] = "closed"
    IN  /\ cast[b].pc = "send" /\ cast[b].todo # << >>
        /\ cast' = [cast EXCEPT ![b].todo = Tail(@), ![b].failed = IF fails THEN @ \cup {s} ELSE @]
        /\ UNCHANGED <<socket, broken, active, agentSocket, arrived>>

\* The failed connections leave the pool; an agent's entry stays.
EndCast(b) ==
    /\ cast[b].pc = "send" /\ cast[b].todo = << >>
    /\ active' = Without(active, cast[b].failed)
    /\ cast' = [cast EXCEPT ![b].pc = "done"]
    /\ UNCHANGED <<socket, broken, agentSocket, arrived>>

SocketInit ==
    /\ socket = [s \in Sockets |-> "new"] /\ broken = {} /\ active = << >>
    /\ agentSocket = [a \in Clients |-> NoSocket] /\ cast = [b \in Broadcasts |-> NewCast]
    /\ arrived = << >>

SocketNext ==
    \/ \E s \in Sockets : Accept(s) \/ Connect(s) \/ Disconnect(s) \/ Breaks(s)
    \/ \E b \in Broadcasts : StartCast(b) \/ SendNext(b) \/ EndCast(b)

SocketSpec == SocketInit /\ [][SocketNext]_socketVars

-----------------------------------------------------------------------------

SocketTypeOK ==
    /\ socket \in [Sockets -> {"new", "accepted", "listening", "closed"}]
    /\ broken \subseteq Sockets /\ ToSet(active) \subseteq Sockets
    /\ agentSocket \in [Clients -> Sockets \cup {NoSocket}]
    /\ \A b \in Broadcasts : cast[b].failed \subseteq Sockets /\ cast[b].pc \in {"new", "send", "done"}

\* No other connection of the same agent was accepted after this one.
IsNewest(s) ==
    \E i \in DOMAIN arrived :
        arrived[i] = s /\ \A j \in DOMAIN arrived : j > i => OwnerOf[arrived[j]] # OwnerOf[s]

\* An agent's entry is its own connection, never one that its endpoint has left,
\* nor one that was replaced: a command goes to the newest connection or to none.
EntryIsNewest ==
    \A a \in Clients : agentSocket[a] # NoSocket =>
        /\ agentSocket[a] \in Listening /\ OwnerOf[agentSocket[a]] = a
        /\ IsNewest(agentSocket[a])

=============================================================================
