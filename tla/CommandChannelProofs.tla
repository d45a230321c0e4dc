------------------------- MODULE CommandChannelProofs -------------------------
(* Proofs about CommandChannel, for any agents, threads, messages and size of
   the replay cache, and any number of restarts.                             *)
EXTENDS CommandChannel, FiniteSetTheorems, TLAPS

\* Of an id that an agent never forgot: it ran once, or one thread is about to
\* run it, or neither; and not even that before the cache holds the id.
Once(g, i) ==
    /\ i \notin cache[g] => executed[g][i] = 0 /\ Running(g, i) = {}
    /\ executed[g][i] <= 1
    /\ executed[g][i] # 0 => Running(g, i) = {}
    /\ \A t, u \in Running(g, i) : t = u

ChannelInv ==
    /\ ChannelTypeOK
    /\ \A g \in Agents, i \in Ids : i \notin forgotten[g] => Once(g, i)

LEMMA ChannelInitially == ChannelInit => ChannelInv
<1> SUFFICES ASSUME ChannelInit PROVE ChannelInv
  OBVIOUS
<1>1. ChannelTypeOK
  BY DEF ChannelInit, ChannelTypeOK
<1>2. \A g \in Agents, i \in Ids : executed[g][i] = 0 /\ Running(g, i) = {}
  BY DEF ChannelInit, Running
<1> QED
  BY <1>1, <1>2 DEF ChannelInv, Once

\* A thread leaves for another place than "age", and nothing else of the agents
\* changes but the count of the id it held there.
LEMMA ThreadMoves ==
    ASSUME ChannelInv, NEW t \in Threads, NEW to \in {"idle", "replay", "report"},
           tpc' = [tpc EXCEPT ![t] = to],
           NEW m \in Message \cup {None}, cmd' = [cmd EXCEPT ![t] = m],
           to # "idle" => m \in Message,
           UNCHANGED <<cache, executed, forgotten, admitted, restarts>>,
           refused' \in [Agents -> SUBSET Message], outbox' \subseteq Report, received' \in Nat
    PROVE  ChannelInv'
<1>1. ChannelTypeOK'
  BY DEF ChannelInv, ChannelTypeOK
<1>2. \A g \in Agents, i \in Ids : Running(g, i)' \subseteq Running(g, i)
  BY DEF ChannelInv, ChannelTypeOK, Running
<1>3. \A g \in Agents, i \in Ids : Once(g, i) => Once(g, i)'
  BY <1>2 DEF Once
<1> QED
  BY <1>1, <1>3 DEF ChannelInv

LEMMA RememberStep ==
    ASSUME ChannelInv, NEW t \in Threads, Remember(t)
    PROVE  ChannelInv'
<1> DEFINE g == Host[t]
           id == cmd[t].id
<1>1. /\ tpc[t] = "replay" /\ tpc' = [tpc EXCEPT ![t] = "age"] /\ id \notin cache[g]
      /\ admitted' = [admitted EXCEPT ![g] = @ \cup {cmd[t]}]
      /\ UNCHANGED <<cmd, executed, refused, outbox, restarts, received>>
  BY DEF Remember, At
<1>2. PICK c \in Remembered(g, id) :
        /\ cache' = [cache EXCEPT ![g] = c]
        /\ forgotten' = [forgotten EXCEPT ![g] = @ \cup ((cache[g] \cup {id}) \ c)]
  BY DEF Remember
<1>3. g \in Agents /\ cmd[t] \in Message /\ id \in Ids
  BY <1>1, ChannelAssumption DEF ChannelInv, ChannelTypeOK, Message
<1>4. c \subseteq cache[g] \cup {id}
  BY <1>2 DEF Remembered
<1> HIDE DEF g, id
<1>5. ChannelTypeOK'
  <2>1. cache' \in [Agents -> SUBSET Ids] /\ forgotten' \in [Agents -> SUBSET Ids]
    BY <1>2, <1>3, <1>4 DEF ChannelInv, ChannelTypeOK
  <2>2. admitted' \in [Agents -> SUBSET Message]
    BY <1>1, <1>3 DEF ChannelInv, ChannelTypeOK
  <2>3. /\ tpc' \in [Threads -> {"idle", "replay", "age", "report"}]
        /\ \A s \in Threads : tpc'[s] # "idle" => cmd'[s] \in Message
    BY <1>1 DEF ChannelInv, ChannelTypeOK
  <2> QED
    BY <1>1, <2>1, <2>2, <2>3 DEF ChannelInv, ChannelTypeOK
<1>6. /\ \A h \in Agents : h # g => cache'[h] = cache[h] /\ forgotten'[h] = forgotten[h]
      /\ cache'[g] = c /\ forgotten'[g] = forgotten[g] \cup ((cache[g] \cup {id}) \ c)
  BY <1>2, <1>3 DEF ChannelInv, ChannelTypeOK
<1>7. \A h \in Agents, i \in Ids : <<h, i>> # <<g, id>> => Running(h, i)' = Running(h, i)
  BY <1>1 DEF ChannelInv, ChannelTypeOK, Running, g, id
<1>8. \A h \in Agents, i \in Ids : Running(h, i)' \subseteq Running(h, i) \cup {t}
  BY <1>1 DEF ChannelInv, ChannelTypeOK, Running
<1>9. ASSUME NEW h \in Agents, NEW i \in Ids, i \notin forgotten'[h] PROVE Once(h, i)'
  <2>1. i \notin forgotten[h]
    BY <1>6, <1>9
  <2>2. Once(h, i)
    BY <2>1 DEF ChannelInv
  <2>3. CASE h = g /\ i = id
    <3>1. executed[g][id] = 0 /\ Running(g, id) = {}
      BY <1>1, <2>2, <2>3 DEF Once, g, id
    <3>2. id \in cache'[g]
      BY <1>6, <1>9, <2>3
    <3>3. executed'[h][i] = 0 /\ i \in cache'[h]
      BY <1>1, <2>3, <3>1, <3>2
    <3>4. \A s, u \in Running(h, i)' : s = u
      BY <1>8, <2>3, <3>1
    <3> QED
      BY <3>3, <3>4 DEF Once
  <2>4. CASE ~(h = g /\ i = id)
    <3>1. Running(h, i)' = Running(h, i) /\ executed' = executed
      BY <1>1, <1>7, <2>4
    <3>2. i \notin cache'[h] => i \notin cache[h]
      BY <1>6, <1>9
    <3> QED
      BY <2>2, <3>1, <3>2 DEF Once
  <2> QED
    BY <2>3, <2>4
<1> QED
  BY <1>5, <1>9 DEF ChannelInv

LEMMA ExecuteStep ==
    ASSUME ChannelInv, NEW t \in Threads, Execute(t)
    PROVE  ChannelInv'
<1> DEFINE g == Host[t]
           id == cmd[t].id
<1>1. /\ tpc[t] = "age" /\ tpc' = [tpc EXCEPT ![t] = "report"]
      /\ executed' = [executed EXCEPT ![g][id] = @ + 1]
      /\ UNCHANGED <<cache, cmd, admitted, refused, forgotten, outbox, restarts, received>>
  BY DEF Execute, At
<1>2. g \in Agents /\ id \in Ids /\ executed \in [Agents -> [Ids -> Nat]]
  BY <1>1, ChannelAssumption DEF ChannelInv, ChannelTypeOK, Message
<1>3. t \in Running(g, id)
  BY <1>1 DEF Running
<1> HIDE DEF g, id
<1>4. /\ executed' \in [Agents -> [Ids -> Nat]] /\ executed'[g][id] = executed[g][id] + 1
      /\ \A h \in Agents, i \in Ids : <<h, i>> # <<g, id>> => executed'[h][i] = executed[h][i]
  <2> DEFINE row == [executed[g] EXCEPT ![id] = executed[g][id] + 1]
  <2>1. row \in [Ids -> Nat] /\ row[id] = executed[g][id] + 1
        /\ \A i \in Ids : i # id => row[i] = executed[g][i]
    BY <1>2
  <2>2. executed' = [executed EXCEPT ![g] = row]
    BY <1>1, <1>2
  <2> HIDE DEF row
  <2>3. executed'[g] = row /\ \A h \in Agents : h # g => executed'[h] = executed[h]
    BY <2>2, <1>2
  <2> QED
    BY <2>1, <2>2, <2>3, <1>2
<1>5. ChannelTypeOK'
  <2>1. /\ tpc' \in [Threads -> {"idle", "replay", "age", "report"}]
        /\ \A s \in Threads : tpc'[s] # "idle" => cmd'[s] \in Message
    BY <1>1 DEF ChannelInv, ChannelTypeOK
  <2> QED
    BY <1>1, <1>4, <2>1 DEF ChannelInv, ChannelTypeOK
<1>6. \A h \in Agents, i \in Ids : Running(h, i)' \subseteq Running(h, i) \ {t}
  BY <1>1 DEF ChannelInv, ChannelTypeOK, Running
<1>7. ASSUME NEW h \in Agents, NEW i \in Ids, i \notin forgotten'[h] PROVE Once(h, i)'
  <2>1. Once(h, i) /\ cache' = cache
    BY <1>1, <1>7 DEF ChannelInv
  <2>2. CASE h = g /\ i = id
    <3>1. executed[h][i] = 0 /\ i \in cache[h]
      BY <1>2, <1>3, <2>1, <2>2 DEF Once
    <3>2. Running(h, i)' = {}
      BY <1>3, <1>6, <2>1, <2>2 DEF Once
    <3> QED
      BY <1>4, <2>1, <2>2, <3>1, <3>2 DEF Once
  <2>3. CASE ~(h = g /\ i = id)
    <3>1. executed'[h][i] = executed[h][i] /\ Running(h, i)' \subseteq Running(h, i)
      BY <1>4, <1>6, <2>3
    <3> QED
      BY <2>1, <3>1 DEF Once
  <2> QED
    BY <2>2, <2>3
<1> QED
  BY <1>5, <1>7 DEF ChannelInv

LEMMA RestartStep ==
    ASSUME ChannelInv, NEW g \in Agents, Restart(g)
    PROVE  ChannelInv'
<1>1. /\ cache' = [cache EXCEPT ![g] = {}]
      /\ forgotten' = [forgotten EXCEPT ![g] = @ \cup cache[g]]
      /\ tpc' = [t \in Threads |-> IF Host[t] = g THEN "idle" ELSE tpc[t]]
      /\ cmd' = [t \in Threads |-> IF Host[t] = g THEN None ELSE cmd[t]]
      /\ restarts' = restarts + 1
      /\ UNCHANGED <<executed, admitted, refused, outbox, received>>
  BY DEF Restart
<1>2. ChannelTypeOK'
  BY <1>1 DEF ChannelInv, ChannelTypeOK
<1>3. /\ \A i \in Ids : Running(g, i)' = {}
      /\ \A h \in Agents, i \in Ids : h # g => Running(h, i)' = Running(h, i)
  BY <1>1 DEF Running
<1>4. ASSUME NEW h \in Agents, NEW i \in Ids, i \notin forgotten'[h] PROVE Once(h, i)'
  <2>1. CASE h = g
    <3>1. i \notin forgotten[g] /\ i \notin cache[g]
      BY <1>1, <1>4, <2>1 DEF ChannelInv, ChannelTypeOK
    <3>2. executed[g][i] = 0
      BY <3>1 DEF ChannelInv, Once
    <3>3. executed'[h][i] = 0 /\ Running(h, i)' = {}
      BY <1>1, <1>3, <2>1, <3>2
    <3> QED
      BY <3>3 DEF Once
  <2>2. CASE h # g
    <3>1. i \notin forgotten[h] /\ cache'[h] = cache[h]
      BY <1>1, <1>4, <2>2 DEF ChannelInv, ChannelTypeOK
    <3>2. Once(h, i) /\ Running(h, i)' = Running(h, i) /\ executed' = executed
      BY <1>1, <1>3, <2>2, <3>1 DEF ChannelInv
    <3> QED
      BY <3>1, <3>2 DEF Once
  <2> QED
    BY <2>1, <2>2
<1> QED
  BY <1>2, <1>4 DEF ChannelInv

LEMMA ChannelStep == ChannelInv /\ [ChannelNext]_channelVars => ChannelInv'
<1> SUFFICES ASSUME ChannelInv, [ChannelNext]_channelVars PROVE ChannelInv'
  OBVIOUS
<1>t. ChannelTypeOK
  BY DEF ChannelInv
<1>1. ASSUME NEW t \in Threads, NEW m \in Message, Receive(t, m) PROVE ChannelInv'
  <2>1. received' \in Nat
    BY <1>1, <1>t DEF Receive, ChannelTypeOK
  <2> QED
    BY <1>1, <1>t, <2>1, ThreadMoves DEF Receive, At, ChannelTypeOK
<1>2. ASSUME NEW t \in Threads, RefuseReplay(t) PROVE ChannelInv'
  <2>1. cmd[t] \in Message
    BY <1>2, <1>t DEF RefuseReplay, At, ChannelTypeOK
  <2>2. refused' \in [Agents -> SUBSET Message]
    BY <1>2, <1>t, <2>1 DEF RefuseReplay, ChannelTypeOK
  <2> QED
    BY <1>2, <1>t, <2>2, ThreadMoves DEF RefuseReplay, At, ChannelTypeOK
<1>3. ASSUME NEW t \in Threads, RefuseStale(t) PROVE ChannelInv'
  BY <1>3, <1>t, ThreadMoves DEF RefuseStale, At, ChannelTypeOK
<1>4. ASSUME NEW t \in Threads, NEW delivered \in BOOLEAN, ReportStatus(t, delivered)
      PROVE  ChannelInv'
  <2>1. cmd[t] \in Message /\ cmd[t].id \in Ids
    BY <1>4, <1>t DEF ReportStatus, At, ChannelTypeOK, Message
  <2>2. [id |-> cmd[t].id, status |-> Verdict(cmd[t])] \in Report
    BY <2>1 DEF Verdict, Report
  <2>3. outbox' \subseteq Report
    BY <1>4, <1>t, <2>2 DEF ReportStatus, ChannelTypeOK
  <2> QED
    BY <1>4, <1>t, <2>3, ThreadMoves DEF ReportStatus, At, ChannelTypeOK
<1>5. CASE UNCHANGED channelVars
  BY <1>5 DEF channelVars, ChannelInv, ChannelTypeOK, Once, Running
<1> QED
  BY <1>1, <1>2, <1>3, <1>4, <1>5, RememberStep, ExecuteStep, RestartStep DEF ChannelNext, Process

LEMMA ChannelInductive == ChannelSpec => []ChannelInv
  BY ChannelInitially, ChannelStep, PTL DEF ChannelSpec

\* The variables of the agents' command channels keep their types.
THEOREM ChannelTypeCorrect == ChannelSpec => []ChannelTypeOK
<1>1. ChannelInv => ChannelTypeOK
  BY DEF ChannelInv
<1> QED
  BY <1>1, ChannelInductive, PTL

LEMMA OnceCounted == ChannelInv => RunOnceWhileRemembered
<1> SUFFICES ASSUME ChannelInv, NEW g \in Agents, NEW i \in Ids, i \notin forgotten[g]
             PROVE  ~(executed[g][i] + Cardinality(Running(g, i)) > 1)
  BY DEF RunOnceWhileRemembered
<1>1. Once(g, i) /\ executed[g][i] \in Nat
  BY DEF ChannelInv, ChannelTypeOK
<1>2. CASE Running(g, i) = {}
  BY <1>1, <1>2, FS_EmptySet DEF Once
<1>3. CASE Running(g, i) # {}
  <2>1. PICK t \in Running(g, i) : Running(g, i) = {t}
    BY <1>1, <1>3 DEF Once
  <2>2. Cardinality(Running(g, i)) = 1
    BY <2>1, FS_Singleton
  <2> QED
    BY <1>1, <1>3, <2>2 DEF Once
<1> QED
  BY <1>2, <1>3

\* However copies of a command race, are delayed or delivered twice, and however
\* small the replay cache is, an agent runs an action a second time only after
\* its cache lost the id (command_channel.py:55-101).
THEOREM RunsOnceWhileRemembered == ChannelSpec => []RunOnceWhileRemembered
  BY OnceCounted, ChannelInductive, PTL
=============================================================================
