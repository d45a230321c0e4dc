--------------------------- MODULE CommandChannel ---------------------------
(* The agent's side of the response engine: AgentCommandChannel.
   process_incoming_command (agent/command_channel.py) and the executor's
   allowlist (agent/command_executor.py).

   The transport that calls process_incoming_command is not in the repository;
   the method takes a lock around its replay cache, so any number of transport
   threads of one agent process may be inside it.  A message is one broadcast:
   the action's id, its type and which dispatch of the action it belongs to
   (the agent does not look at the last).  Messages without an id or a type,
   and events other than RESPONSE_COMMAND, leave the agent's state alone
   (lines 40-53) and are left out, as is the signature check: the backend
   signs every command with the key the agent checks.
   Wall clocks are not modelled: a command may be found stale at any check.  *)
EXTENDS Naturals, FiniteSets

CONSTANTS Agents, Threads,
          Host,         \* the agent each thread belongs to
          Ids, Types,
          Runnable,     \* types on the allowlist that need no parameter: the
                        \* backend's payload carries none
          Dispatches,   \* how often one action may be dispatched
          CacheLimit,   \* 2000 in the code
          MaxRestarts, MaxReceived              \* bounds

ASSUME ChannelAssumption ==
    /\ Host \in [Threads -> Agents]
    /\ Runnable \subseteq Types
    /\ CacheLimit \in Nat \ {0} /\ Dispatches \in Nat
    /\ MaxRestarts \in Nat /\ MaxReceived \in Nat

Message == [id : Ids, type : Types, n : 1..Dispatches]
Report  == [id : Ids, status : {"SUCCESS", "FAILED"}]

VARIABLES
    cache,      \* _processed_action_ids of each agent process
    tpc, cmd,   \* each transport thread: where it is, the message it holds
    executed,   \* how often each agent ran the action
    admitted,   \* messages that passed the replay check
    refused,    \* messages turned away as replays
    forgotten,  \* ids the agent remembered once and no longer does
    outbox,     \* status reports that reached the network
    restarts, received

channelVars == <<cache, tpc, cmd, executed, admitted, refused, forgotten, outbox,
                 restarts, received>>

None == [id |-> "none"]

ChannelInit ==
    /\ cache = [g \in Agents |-> {}]
    /\ tpc = [t \in Threads |-> "idle"]
    /\ cmd = [t \in Threads |-> None]
    /\ executed = [g \in Agents |-> [i \in Ids |-> 0]]
    /\ admitted = [g \in Agents |-> {}]
    /\ refused = [g \in Agents |-> {}]
    /\ forgotten = [g \in Agents |-> {}]
    /\ outbox = {}
    /\ restarts = 0 /\ received = 0

At(t, from, to) ==
    /\ tpc[t] = from
    /\ tpc' = [tpc EXCEPT ![t] = to]

\* A copy of m arrives on thread t: the network may deliver it late or twice.
Receive(t, m) ==
    /\ received < MaxReceived
    /\ At(t, "idle", "replay")
    /\ cmd' = [cmd EXCEPT ![t] = m]
    /\ received' = received + 1
    /\ UNCHANGED <<cache, executed, admitted, refused, forgotten, outbox, restarts>>

\* Mutant: a refused replay is reported as a failure of the action
RefuseReplayReported(t) ==
    LET g == Host[t] IN
    /\ cmd[t].id \in cache[g]
    /\ At(t, "replay", "idle")
    /\ refused' = [refused EXCEPT ![g] = @ \cup {cmd[t]}]
    /\ outbox' = outbox \cup {[id |-> cmd[t].id, status |-> "FAILED"]}
    /\ cmd' = [cmd EXCEPT ![t] = None]
    /\ UNCHANGED <<cache, executed, admitted, forgotten, restarts, received>>

\* Under the lock: the id was processed before.
RefuseReplay(t) ==
    LET g == Host[t] IN
    /\ cmd[t].id \in cache[g]
    /\ At(t, "replay", "idle")
    /\ refused' = [refused EXCEPT ![g] = @ \cup {cmd[t]}]
    /\ cmd' = [cmd EXCEPT ![t] = None]
    /\ UNCHANGED <<cache, executed, admitted, forgotten, outbox, restarts, received>>

\* What the cache becomes: set.pop() takes an arbitrary element, the id just
\* added included.
Remembered(g, id) ==
    LET grown == cache[g] \cup {id}
    IN  IF Cardinality(grown) > CacheLimit
        THEN {grown \ {x} : x \in grown} ELSE {grown}

\* Mutant: the id is added when the action has run, not with the check
RememberLater(t) ==
    /\ cmd[t].id \notin cache[Host[t]]
    /\ At(t, "replay", "age")
    /\ admitted' = [admitted EXCEPT ![Host[t]] = @ \cup {cmd[t]}]
    /\ UNCHANGED <<cache, forgotten, cmd, executed, refused, outbox, restarts, received>>

Remember(t) ==
    LET g == Host[t]  id == cmd[t].id IN
    /\ id \notin cache[g]
    /\ At(t, "replay", "age")
    /\ \E c \in Remembered(g, id) :
        /\ cache' = [cache EXCEPT ![g] = c]
        /\ forgotten' = [forgotten EXCEPT ![g] = @ \cup ((cache[g] \cup {id}) \ c)]
    /\ admitted' = [admitted EXCEPT ![g] = @ \cup {cmd[t]}]
    /\ UNCHANGED <<cmd, executed, refused, outbox, restarts, received>>

\* More than MAX_COMMAND_AGE_SECONDS old: dropped, and the id stays processed.
RefuseStale(t) ==
    /\ At(t, "age", "idle")
    /\ cmd' = [cmd EXCEPT ![t] = None]
    /\ UNCHANGED <<cache, executed, admitted, refused, forgotten, outbox, restarts,
                   received>>

\* Mutant: the command is dropped before its status is reported
ExecuteAndDrop(t) ==
    LET g == Host[t] IN
    /\ At(t, "age", "report")
    /\ executed' = [executed EXCEPT ![g][cmd[t].id] = @ + 1]
    /\ cmd' = [cmd EXCEPT ![t] = None]
    /\ UNCHANGED <<cache, admitted, refused, forgotten, outbox, restarts, received>>

Execute(t) ==
    LET g == Host[t] IN
    /\ At(t, "age", "report")
    /\ executed' = [executed EXCEPT ![g][cmd[t].id] = @ + 1]
    /\ UNCHANGED <<cache, cmd, admitted, refused, forgotten, outbox, restarts, received>>

Verdict(m) == IF m.type \in Runnable THEN "SUCCESS" ELSE "FAILED"

\* report_command_status: one POST, its failure is logged and swallowed.
ReportStatus(t, delivered) ==
    /\ At(t, "report", "idle")
    /\ outbox' = IF delivered
                 THEN outbox \cup {[id |-> cmd[t].id, status |-> Verdict(cmd[t])]}
                 ELSE outbox
    /\ cmd' = [cmd EXCEPT ![t] = None]
    /\ UNCHANGED <<cache, executed, admitted, refused, forgotten, restarts, received>>

\* The agent process stops and starts again: the cache was in memory only.
Restart(g) ==
    /\ restarts < MaxRestarts
    /\ cache' = [cache EXCEPT ![g] = {}]
    /\ forgotten' = [forgotten EXCEPT ![g] = @ \cup cache[g]]
    /\ tpc' = [t \in Threads |-> IF Host[t] = g THEN "idle" ELSE tpc[t]]
    /\ cmd' = [t \in Threads |-> IF Host[t] = g THEN None ELSE cmd[t]]
    /\ restarts' = restarts + 1
    /\ UNCHANGED <<executed, admitted, refused, outbox, received>>

Process(t) ==
    \/ RefuseReplay(t) \/ Remember(t) \/ RefuseStale(t) \/ Execute(t)
    \/ \E delivered \in BOOLEAN : ReportStatus(t, delivered)

ChannelNext ==
    \/ \E t \in Threads : Process(t) \/ \E m \in Message : Receive(t, m)
    \/ \E g \in Agents : Restart(g)

ChannelSpec == ChannelInit /\ [][ChannelNext]_channelVars

-----------------------------------------------------------------------------
ChannelTypeOK ==
    /\ cache \in [Agents -> SUBSET Ids]
    /\ tpc \in [Threads -> {"idle", "replay", "age", "report"}]
    /\ cmd \in [Threads -> Message \cup {None}]
    /\ \A t \in Threads : tpc[t] # "idle" => cmd[t] \in Message
    /\ executed \in [Agents -> [Ids -> Nat]]
    /\ admitted \in [Agents -> SUBSET Message] /\ refused \in [Agents -> SUBSET Message]
    /\ forgotten \in [Agents -> SUBSET Ids]
    /\ outbox \subseteq Report
    /\ restarts \in Nat /\ received \in Nat

\* Threads of agent g that are past the replay check with this id.
Running(g, i) == {t \in Threads : Host[t] = g /\ tpc[t] = "age" /\ cmd[t].id = i}

\* The replay cache: however copies of a command race, are delayed or are
\* delivered twice, an agent runs an action a second time only after its cache
\* lost the id, by an eviction or by a restart.
RunOnceWhileRemembered ==
    \A g \in Agents, i \in Ids :
        executed[g][i] + Cardinality(Running(g, i)) > 1 => i \in forgotten[g]

=============================================================================
