-------------------------- MODULE AgentCommandsProofs --------------------------
(* Proofs about AgentCommands, for any number of request threads, commands and
   mishaps.                                                                  *)
EXTENDS AgentCommands, TLAPS

Acking(h, c) == req[h].at \in {"ack", "settle"} /\ c \in req[h].cmds

\* A request holds commands that are in the table, and logs a status of theirs.
Known(h) ==
    /\ \A c \in req[h].cmds : status[c] # "ABSENT"
    /\ req[h].at = "audit" => req[h].seen # "ABSENT"

\* A command that was never dispatched is in nobody's hands.
Fresh(c) ==
    status[c] \in {"ABSENT", "PENDING"} =>
        answers[c] = 0 /\ copies[c] = 0 /\ \A h \in Handlers : ~ Acking(h, c)

TypesInv ==
    /\ TypeOK
    /\ \A h \in Handlers : Known(h)
    /\ \A c \in Commands : Fresh(c)

-----------------------------------------------------------------------------
(* What a step changes                                                       *)

\* A request's new record, and that the other requests keep theirs.
Becomes(h, r) == req' = [req EXCEPT ![h] = r]

LEMMA IdleType == Idle \in Requests /\ Idle.cmds = {} /\ Idle.at = "idle"
  BY DEF Idle, Requests, Steps, CommandStatus, Shown, Finished

LEMMA Other ==
    ASSUME TypeOK, NEW h \in Handlers, NEW r, Becomes(h, r)
    PROVE  req'[h] = r /\ \A k \in Handlers \ {h} : req'[k] = req[k]
  BY DEF TypeOK, Becomes

LEMMA RequestsStay ==
    ASSUME TypeOK, NEW h \in Handlers, NEW r \in Requests, Becomes(h, r)
    PROVE  req' \in [Handlers -> Requests]
  BY DEF TypeOK, Becomes

\* Each step's new record.
LEMMA Loads ==
    ASSUME TypeOK, NEW h \in Handlers, PollDevice(h) \/ AckDevice(h)
    PROVE  \E r \in Requests :
             /\ Becomes(h, r) /\ r.cmds = req[h].cmds /\ r.flag = shown /\ r.seen = req[h].seen
             /\ r.goal = req[h].goal
             /\ \/ req[h].at = "poll" /\ r.at = "dispatch"
                \/ req[h].at = "ack" /\ r.at = "settle"
<1>1. req[h] \in Requests /\ shown \in Shown
  BY DEF TypeOK
<1>2. CASE PollDevice(h)
  <2>1. req' = [req EXCEPT ![h] = [req[h] EXCEPT !.flag = shown, !.at = "dispatch"]]
    BY <1>2 DEF PollDevice, LoadDevice, TypeOK
  <2>2. [req[h] EXCEPT !.flag = shown, !.at = "dispatch"] \in Requests
    BY <1>1 DEF Requests, Steps
  <2>3. req[h].at = "poll"
    BY <1>2 DEF PollDevice, LoadDevice, At
  <2> QED
    BY <1>1, <2>1, <2>2, <2>3 DEF Becomes, Requests
<1>3. CASE AckDevice(h)
  <2>1. req' = [req EXCEPT ![h] = [req[h] EXCEPT !.flag = shown, !.at = "settle"]]
    BY <1>3 DEF AckDevice, LoadDevice, TypeOK
  <2>2. [req[h] EXCEPT !.flag = shown, !.at = "settle"] \in Requests
    BY <1>1 DEF Requests, Steps
  <2>3. req[h].at = "ack"
    BY <1>3 DEF AckDevice, LoadDevice, At
  <2> QED
    BY <1>1, <2>1, <2>2, <2>3 DEF Becomes, Requests
<1> QED
  BY <1>2, <1>3

LEMMA Opens ==
    ASSUME TypeOK, NEW h \in Handlers
    PROVE  /\ Queue(h) => \E r \in Requests :
                Becomes(h, r) /\ r.at = "queue" /\ r.cmds = {} /\ r.flag = shown
           /\ Poll(h) => \E r \in Requests :
                Becomes(h, r) /\ r.at = "poll" /\ r.cmds = Pending
           /\ \A c \in Commands, o \in Finished : Acknowledge(h, c, o) =>
                \E r \in Requests : Becomes(h, r) /\ r.at = "ack" /\ r.cmds = {c}
<1>1. shown \in Shown /\ \A c \in Commands : status[c] \in CommandStatus \cup {"ABSENT"}
  BY DEF TypeOK
<1>2. ASSUME Queue(h)
      PROVE  \E r \in Requests : Becomes(h, r) /\ r.at = "queue" /\ r.cmds = {} /\ r.flag = shown
  <2>1. Becomes(h, [Idle EXCEPT !.at = "queue", !.flag = shown])
    BY <1>2 DEF Queue, Open, Becomes
  <2>2. [Idle EXCEPT !.at = "queue", !.flag = shown] \in Requests
    BY <1>1, IdleType DEF Requests, Steps
  <2> QED
    BY <1>1, <2>1, <2>2, IdleType DEF Requests
<1>3. ASSUME Poll(h)
      PROVE  \E r \in Requests : Becomes(h, r) /\ r.at = "poll" /\ r.cmds = Pending
  <2>1. Becomes(h, [Idle EXCEPT !.at = "poll", !.cmds = Pending])
    BY <1>3 DEF Poll, Open, Becomes
  <2>2. [Idle EXCEPT !.at = "poll", !.cmds = Pending] \in Requests
    BY IdleType DEF Requests, Steps, Pending
  <2> QED
    BY <2>1, <2>2, IdleType DEF Requests
<1>4. ASSUME NEW c \in Commands, NEW o \in Finished, Acknowledge(h, c, o)
      PROVE  \E r \in Requests : Becomes(h, r) /\ r.at = "ack" /\ r.cmds = {c}
  <2>1. Becomes(h, [Idle EXCEPT !.at = "ack", !.cmds = {c}, !.seen = status[c], !.goal = o])
    BY <1>4 DEF Acknowledge, Open, Becomes
  <2>2. [Idle EXCEPT !.at = "ack", !.cmds = {c}, !.seen = status[c], !.goal = o] \in Requests
    BY <1>1, IdleType DEF Requests, Steps
  <2> QED
    BY <2>1, <2>2, IdleType DEF Requests
<1> QED
  BY <1>2, <1>3, <1>4

-----------------------------------------------------------------------------
(* Types                                                                     *)

LEMMA TypesInitially == Init => TypesInv
<1> SUFFICES ASSUME Init PROVE TypesInv
  OBVIOUS
<1>1. \A h \in Handlers : req[h] = Idle
  BY DEF Init
<1>2. TypeOK
  <2>1. req \in [Handlers -> Requests]
    BY IdleType DEF Init
  <2>2. trail \in [Commands -> Seq(CommandStatus)]
    BY DEF Init
  <2>3. mishaps \in 0..MaxMishaps
    BY CommandAssumption DEF Init
  <2> QED
    BY <2>1, <2>2, <2>3 DEF Init, TypeOK, Shown
<1>3. \A h \in Handlers : Known(h)
  BY <1>1, IdleType DEF Known
<1>4. \A c \in Commands : Fresh(c)
  BY <1>1, IdleType DEF Init, Fresh, Acking
<1> QED
  BY <1>2, <1>3, <1>4 DEF TypesInv

\* The request h becomes r, and commands are dispatched or settled, never undone.
LEMMA KnownStays ==
    ASSUME TypesInv, NEW h \in Handlers, NEW r \in Requests, Becomes(h, r),
           \A c \in Commands : status[c] # "ABSENT" => status'[c] # "ABSENT",
           \A c \in r.cmds : status'[c] # "ABSENT",
           r.at = "audit" => r.seen # "ABSENT"
    PROVE  \A k \in Handlers : Known(k)'
<1> SUFFICES ASSUME NEW k \in Handlers PROVE Known(k)'
  OBVIOUS
<1>1. req'[h] = r /\ (k # h => req'[k] = req[k])
  BY Other DEF TypesInv
<1>2. req[k] \in Requests /\ Known(k)
  BY DEF TypesInv, TypeOK
<1>3. req[k].cmds \subseteq Commands
  BY <1>2 DEF Requests
<1> QED
  BY <1>1, <1>2, <1>3 DEF Known

\* Fresh commands stay out of all hands when the step puts no fresh one into any.
LEMMA FreshStays ==
    ASSUME TypesInv, NEW h \in Handlers, NEW r \in Requests, Becomes(h, r), NEW c \in Commands,
           status'[c] \in {"ABSENT", "PENDING"} =>
               /\ status[c] \in {"ABSENT", "PENDING"}
               /\ answers'[c] = answers[c] /\ copies'[c] = copies[c]
               /\ ~ (r.at \in {"ack", "settle"} /\ c \in r.cmds)
    PROVE  Fresh(c)'
<1> SUFFICES ASSUME status'[c] \in {"ABSENT", "PENDING"}
             PROVE  answers'[c] = 0 /\ copies'[c] = 0 /\ \A k \in Handlers : ~ Acking(k, c)'
  BY DEF Fresh
<1>1. answers[c] = 0 /\ copies[c] = 0 /\ \A k \in Handlers : ~ Acking(k, c)
  BY DEF TypesInv, Fresh
<1>2. req'[h] = r /\ \A k \in Handlers \ {h} : req'[k] = req[k]
  BY Other DEF TypesInv
<1> QED
  BY <1>1, <1>2 DEF Acking

LEMMA TypesStep == TypesInv /\ [Next]_vars => TypesInv'
<1> SUFFICES ASSUME TypesInv, [Next]_vars PROVE TypesInv'
  OBVIOUS
<1>0. /\ TypeOK
      /\ \A h \in Handlers : req[h] \in Requests /\ req[h].cmds \subseteq Commands /\ Known(h)
  BY DEF TypesInv, TypeOK, Requests
<1>1. ASSUME NEW h \in Handlers, Insert(h) PROVE TypesInv'
  <2>1. PICK c \in Commands :
          /\ status[c] = "ABSENT" /\ status' = [status EXCEPT ![c] = "PENDING"]
          /\ req' = [req EXCEPT ![h] =
                       [Idle EXCEPT !.at = "audit", !.cmds = {c}, !.seen = "PENDING"]]
    BY <1>1 DEF Insert
  <2>2. PICK r : r = [Idle EXCEPT !.at = "audit", !.cmds = {c}, !.seen = "PENDING"]
    OBVIOUS
  <2>3. r \in Requests /\ r.at = "audit" /\ r.cmds = {c} /\ r.seen = "PENDING"
    BY <2>2, IdleType DEF Requests, Steps, CommandStatus
  <2>4. Becomes(h, r)
    BY <2>1, <2>2 DEF Becomes
  <2>5. /\ status' \in [Commands -> CommandStatus \cup {"ABSENT"}] /\ status'[c] = "PENDING"
        /\ \A d \in Commands \ {c} : status'[d] = status[d]
    BY <1>0, <2>1 DEF TypeOK, CommandStatus
  <2>6. shown' \in Shown /\ UNCHANGED <<trail, copies, answers, overlapped, mishaps>>
    BY <1>0, <1>1 DEF Insert, Assign, Shown, TypeOK
  <2>7. TypeOK'
    BY <1>0, <2>3, <2>4, <2>5, <2>6, RequestsStay DEF TypeOK
  <2>8. \A k \in Handlers : Known(k)'
    BY <2>3, <2>4, <2>5, KnownStays
  <2>9. \A d \in Commands : Fresh(d)'
    BY <2>1, <2>3, <2>4, <2>5, <2>6, FreshStays
  <2> QED
    BY <2>7, <2>8, <2>9 DEF TypesInv
<1>2. ASSUME NEW h \in Handlers, Audit(h) \/ Die(h) PROVE TypesInv'
  <2>1. Becomes(h, Idle) /\ UNCHANGED <<status, shown, copies, answers, overlapped>>
    BY <1>2 DEF Audit, Die, Finish, Becomes
  <2>2. trail' \in [Commands -> Seq(CommandStatus)] /\ mishaps' \in 0..MaxMishaps
    <3>1. CASE Audit(h)
      <4>1. PICK c \in req[h].cmds : trail' = [trail EXCEPT ![c] = Append(@, req[h].seen)]
        BY <3>1 DEF Audit, Log
      <4>2. c \in Commands /\ req[h].seen \in CommandStatus
        BY <1>0, <3>1 DEF Audit, At, Known, Requests
      <4>3. trail[c] \in Seq(CommandStatus)
        BY <1>0, <4>2 DEF TypeOK
      <4>4. Append(trail[c], req[h].seen) \in Seq(CommandStatus)
        BY <4>2, <4>3
      <4> QED
        BY <1>0, <3>1, <4>1, <4>4 DEF Audit, TypeOK
    <3>2. CASE Die(h)
      BY <1>0, <3>2, CommandAssumption DEF Die, TypeOK
    <3> QED
      BY <1>2, <3>1, <3>2
  <2>3. TypeOK'
    BY <1>0, <2>1, <2>2, IdleType, RequestsStay DEF TypeOK
  <2>4. \A k \in Handlers : Known(k)'
    BY <2>1, IdleType, KnownStays
  <2>5. \A c \in Commands : Fresh(c)'
    BY <2>1, IdleType, FreshStays
  <2> QED
    BY <2>3, <2>4, <2>5 DEF TypesInv
<1>3. ASSUME NEW h \in Handlers, Queue(h) \/ Poll(h) \/ PollDevice(h) \/ AckDevice(h)
      PROVE  TypesInv'
  <2>1. /\ UNCHANGED <<status, shown, trail, copies, answers, mishaps>> /\ overlapped' \in BOOLEAN
    BY <1>0, <1>3 DEF Queue, Poll, PollDevice, AckDevice, LoadDevice, TypeOK
  <2>2. \E r \in Requests :
          /\ Becomes(h, r) /\ r.at # "audit" /\ r.cmds \subseteq Commands
          /\ r.cmds = {} \/ r.cmds = Pending \/ r.cmds = req[h].cmds
          /\ r.at \in {"ack", "settle"} => r.cmds = req[h].cmds /\ req[h].at = "ack"
    <3>1. CASE Queue(h)
      BY <1>0, <3>1, Opens
    <3>2. CASE Poll(h)
      BY <1>0, <3>2, Opens DEF Pending
    <3>3. CASE PollDevice(h) \/ AckDevice(h)
      BY <1>0, <3>3, Loads
    <3> QED
      BY <1>3, <3>1, <3>2, <3>3
  <2>3. PICK r \in Requests :
          /\ Becomes(h, r) /\ r.at # "audit" /\ r.cmds \subseteq Commands
          /\ r.cmds = {} \/ r.cmds = Pending \/ r.cmds = req[h].cmds
          /\ r.at \in {"ack", "settle"} => r.cmds = req[h].cmds /\ req[h].at = "ack"
    BY <2>2
  <2>4. TypeOK'
    BY <1>0, <2>1, <2>3, RequestsStay DEF TypeOK
  <2>5. \A c \in r.cmds : status'[c] # "ABSENT"
    BY <1>0, <2>1, <2>3 DEF Pending, Known
  <2>6. \A k \in Handlers : Known(k)'
    BY <2>1, <2>3, <2>5, KnownStays
  <2>7. ASSUME NEW c \in Commands, status'[c] \in {"ABSENT", "PENDING"}
        PROVE  ~ (r.at \in {"ack", "settle"} /\ c \in r.cmds)
    <3>1. ~ Acking(h, c)
      BY <2>1, <2>7 DEF TypesInv, Fresh
    <3> QED
      BY <2>3, <3>1 DEF Acking
  <2>8. \A c \in Commands : Fresh(c)'
    BY <2>1, <2>3, <2>7, FreshStays
  <2> QED
    BY <2>4, <2>6, <2>8 DEF TypesInv
<1>4. ASSUME NEW h \in Handlers, NEW arrives \in BOOLEAN, Dispatch(h, arrives) PROVE TypesInv'
  <2>1. Becomes(h, Idle) /\ UNCHANGED <<trail, overlapped>>
    BY <1>4 DEF Dispatch, Finish, Becomes
  <2>2. /\ status' = [c \in Commands |-> IF c \in req[h].cmds THEN "DISPATCHED" ELSE status[c]]
        /\ answers' = [c \in Commands |-> answers[c] + (IF c \in req[h].cmds THEN 1 ELSE 0)]
        /\ copies' = [c \in Commands |->
                        copies[c] + (IF arrives /\ c \in req[h].cmds THEN 1 ELSE 0)]
    BY <1>4 DEF Dispatch
  <2>3. status' \in [Commands -> CommandStatus \cup {"ABSENT"}]
    BY <1>0, <2>2 DEF TypeOK, CommandStatus
  <2>4. answers' \in [Commands -> Nat] /\ copies' \in [Commands -> Nat]
    BY <1>0, <2>2 DEF TypeOK
  <2>5. shown' \in Shown
    BY <1>0, <1>4 DEF Dispatch, Assign, Shown, TypeOK
  <2>6. mishaps' \in 0..MaxMishaps
    BY <1>0, <1>4, CommandAssumption DEF Dispatch, TypeOK
  <2>7. TypeOK'
    BY <1>0, <2>1, <2>3, <2>4, <2>5, <2>6, IdleType, RequestsStay DEF TypeOK
  <2>8. \A k \in Handlers : Known(k)'
    BY <2>1, <2>2, IdleType, KnownStays
  <2>9. ASSUME NEW c \in Commands PROVE Fresh(c)'
    <3>1. CASE c \in req[h].cmds
      BY <2>2, <3>1 DEF Fresh
    <3>2. CASE c \notin req[h].cmds
      <4>1. status'[c] = status[c] /\ answers'[c] = answers[c] /\ copies'[c] = copies[c]
        BY <1>0, <2>2, <3>2 DEF TypeOK
      <4> QED
        BY <2>1, <4>1, IdleType, FreshStays
    <3> QED
      BY <3>1, <3>2
  <2> QED
    BY <2>7, <2>8, <2>9 DEF TypesInv
<1>5. ASSUME NEW h \in Handlers, NEW c \in Commands, NEW o \in Finished, Acknowledge(h, c, o)
      PROVE  TypesInv'
  <2>1. PICK r \in Requests : Becomes(h, r) /\ r.at = "ack" /\ r.cmds = {c}
    BY <1>0, <1>5, Opens
  <2>2. /\ copies[c] > 0 /\ copies' = [copies EXCEPT ![c] = @ - 1]
        /\ UNCHANGED <<status, shown, trail, answers, overlapped, mishaps>>
    BY <1>5 DEF Acknowledge
  <2>3. copies[c] # 0 /\ copies' \in [Commands -> Nat]
    BY <1>0, <2>2 DEF TypeOK
  <2>4. status[c] \notin {"ABSENT", "PENDING"}
    BY <2>3 DEF TypesInv, Fresh
  <2>5. TypeOK'
    BY <1>0, <2>1, <2>2, <2>3, RequestsStay DEF TypeOK
  <2>6. \A k \in Handlers : Known(k)'
    BY <2>1, <2>2, <2>4, KnownStays
  <2>7. \A d \in Commands : d # c => copies'[d] = copies[d]
    BY <1>0, <2>2 DEF TypeOK
  <2>8. \A d \in Commands : Fresh(d)'
    BY <2>1, <2>2, <2>4, <2>7, FreshStays
  <2> QED
    BY <2>5, <2>6, <2>8 DEF TypesInv
<1>6. ASSUME NEW c \in Commands, AcknowledgeLost(c) PROVE TypesInv'
  <2>1. /\ copies[c] > 0 /\ copies' = [copies EXCEPT ![c] = @ - 1]
        /\ mishaps < MaxMishaps /\ mishaps' = mishaps + 1
        /\ UNCHANGED <<status, shown, trail, req, answers, overlapped>>
    BY <1>6 DEF AcknowledgeLost
  <2>2. copies[c] # 0 /\ copies' \in [Commands -> Nat] /\ mishaps' \in 0..MaxMishaps
    BY <1>0, <2>1, CommandAssumption DEF TypeOK
  <2>3. TypeOK'
    BY <1>0, <2>1, <2>2 DEF TypeOK
  <2>4. \A h \in Handlers : Known(h)'
    BY <1>0, <2>1 DEF Known
  <2>5. ASSUME NEW d \in Commands PROVE Fresh(d)'
    <3>1. CASE d = c
      BY <2>1, <2>2, <3>1 DEF TypesInv, Fresh
    <3>2. CASE d # c
      <4>1. copies'[d] = copies[d]
        BY <1>0, <2>1, <3>2 DEF TypeOK
      <4> QED
        BY <2>1, <4>1 DEF TypesInv, Fresh, Acking
    <3> QED
      BY <3>1, <3>2
  <2> QED
    BY <2>3, <2>4, <2>5 DEF TypesInv
<1>7. ASSUME NEW h \in Handlers, Settle(h) PROVE TypesInv'
  <2>1. PICK r : r = [Idle EXCEPT !.at = "refresh", !.cmds = req[h].cmds, !.seen = req[h].seen]
    OBVIOUS
  <2>2. /\ Becomes(h, r) /\ req[h].at = "settle"
        /\ UNCHANGED <<trail, copies, answers, overlapped, mishaps>>
    BY <1>7, <2>1 DEF Settle, Becomes, At
  <2>3. r \in Requests /\ r.at = "refresh" /\ r.cmds = req[h].cmds
    BY <1>0, <2>1, IdleType DEF Requests, Steps
  <2>4. status' = [c \in Commands |-> IF c \in req[h].cmds
                                      THEN Assign(status[c], req[h].seen, req[h].goal)
                                      ELSE status[c]]
    BY <1>7 DEF Settle
  <2>5. req[h].goal \in Finished
    BY <1>0 DEF Requests
  <2>6. \A c \in Commands : status'[c] = status[c] \/ (Acking(h, c) /\ status'[c] \in Finished)
    BY <1>0, <2>2, <2>4, <2>5 DEF Assign, Acking
  <2>7. status' \in [Commands -> CommandStatus \cup {"ABSENT"}]
    BY <1>0, <2>4, <2>6 DEF TypeOK, CommandStatus
  <2>8. shown' \in Shown
    BY <1>0, <1>7 DEF Settle, Assign, ShownAs, Shown, TypeOK
  <2>9. TypeOK'
    BY <1>0, <2>2, <2>3, <2>7, <2>8, RequestsStay DEF TypeOK
  <2>10. \A k \in Handlers : Known(k)'
    BY <1>0, <2>2, <2>3, <2>6, KnownStays DEF Finished, Known
  <2>11. \A c \in Commands : Fresh(c)'
    BY <2>2, <2>3, <2>6, FreshStays DEF Finished
  <2> QED
    BY <2>9, <2>10, <2>11 DEF TypesInv
<1>8. ASSUME NEW h \in Handlers, Refresh(h) PROVE TypesInv'
  <2>1. PICK c \in req[h].cmds : req' = [req EXCEPT ![h].at = "audit", ![h].seen = status[c]]
    BY <1>8 DEF Refresh
  <2>2. PICK r : r = [req[h] EXCEPT !.at = "audit", !.seen = status[c]]
    OBVIOUS
  <2>3. Becomes(h, r)
    BY <1>0, <2>1, <2>2 DEF Becomes, TypeOK
  <2>4. c \in Commands /\ status[c] # "ABSENT" /\ status[c] \in CommandStatus \cup {"ABSENT"}
    BY <1>0, <2>1 DEF Known, TypeOK
  <2>5. r \in Requests /\ r.at = "audit" /\ r.cmds = req[h].cmds /\ r.seen # "ABSENT"
    BY <1>0, <2>2, <2>4 DEF Requests, Steps
  <2>6. UNCHANGED <<status, shown, trail, copies, answers, overlapped, mishaps>>
    BY <1>8 DEF Refresh
  <2>7. TypeOK'
    BY <1>0, <2>3, <2>5, <2>6, RequestsStay DEF TypeOK
  <2>8. \A k \in Handlers : Known(k)'
    BY <1>0, <2>3, <2>5, <2>6, KnownStays DEF Known
  <2>9. \A d \in Commands : Fresh(d)'
    BY <2>3, <2>5, <2>6, FreshStays
  <2> QED
    BY <2>7, <2>8, <2>9 DEF TypesInv
<1>9. CASE UNCHANGED vars
  <2>1. UNCHANGED <<status, shown, trail, req, copies, answers, overlapped, mishaps>>
    BY <1>9 DEF vars
  <2>2. TypeOK'
    BY <1>0, <2>1 DEF TypeOK
  <2>3. (\A h \in Handlers : Known(h)') /\ \A c \in Commands : Fresh(c)'
    BY <2>1 DEF TypesInv, Known, Fresh, Acking
  <2> QED
    BY <2>2, <2>3 DEF TypesInv
<1> QED
  BY <1>1, <1>2, <1>3, <1>4, <1>5, <1>6, <1>7, <1>8, <1>9 DEF Next, Step

\* The command queue is well-typed: a request holds commands that are in the
\* table, and the audit trail gets statuses a command can have.
THEOREM QueueTypeCorrect == Spec => []TypeOK
<1>1. TypesInv => TypeOK
  BY DEF TypesInv
<1> QED
  BY <1>1, TypesInitially, TypesStep, PTL DEF Spec

-----------------------------------------------------------------------------
(* The pending command behind last_command_status                            *)

\* A command the column may stand for: every poll that will dispatch it read the
\* column after it was set, and so will overwrite it.
Backed(c) ==
    /\ status[c] = "PENDING"
    /\ \A h \in Handlers : req[h].at = "dispatch" /\ c \in req[h].cmds => req[h].flag = "PENDING"

BackedInv == shown = "PENDING" => \E c \in Commands : Backed(c)

\* A step that leaves column and command alone, and loads the column if anything.
LEMMA BackedStays ==
    ASSUME TypesInv, NEW h \in Handlers, NEW r, Becomes(h, r), NEW c \in Commands, Backed(c),
           status'[c] = status[c],
           r.at = "dispatch" /\ c \in r.cmds => r.flag = "PENDING"
    PROVE  Backed(c)'
<1>1. req'[h] = r /\ \A k \in Handlers \ {h} : req'[k] = req[k]
  BY Other DEF TypesInv
<1> QED
  BY <1>1 DEF Backed

LEMMA BackedStep == TypesInv /\ BackedInv /\ [Next]_vars => BackedInv'
<1> SUFFICES ASSUME TypesInv, BackedInv, [Next]_vars, shown' = "PENDING"
             PROVE  \E c \in Commands : Backed(c)'
  BY DEF BackedInv
<1>0. TypeOK /\ \A h \in Handlers : Known(h)
  BY DEF TypesInv
<1>1. ASSUME NEW h \in Handlers, Insert(h) PROVE \E c \in Commands : Backed(c)'
  <2>1. PICK c \in Commands :
          /\ status[c] = "ABSENT" /\ status' = [status EXCEPT ![c] = "PENDING"]
          /\ Becomes(h, [Idle EXCEPT !.at = "audit", !.cmds = {c}, !.seen = "PENDING"])
    BY <1>1 DEF Insert, Becomes
  <2>2. status'[c] = "PENDING"
    BY <1>0, <2>1 DEF TypeOK
  <2>3. req'[h].at = "audit" /\ \A k \in Handlers \ {h} : req'[k] = req[k]
    <3>1. PICK r : r = [Idle EXCEPT !.at = "audit", !.cmds = {c}, !.seen = "PENDING"]
      OBVIOUS
    <3>2. r.at = "audit"
      BY <3>1, IdleType DEF Requests
    <3>3. req'[h] = r /\ \A k \in Handlers \ {h} : req'[k] = req[k]
      BY <1>0, <2>1, <3>1, Other
    <3> QED
      BY <3>2, <3>3
  <2>4. \A k \in Handlers : c \notin req[k].cmds
    BY <1>0, <2>1 DEF Known
  <2> QED
    BY <2>2, <2>3, <2>4 DEF Backed
<1>2. ASSUME NEW h \in Handlers, Audit(h) \/ Die(h) \/ Queue(h) \/ Poll(h) \/ Refresh(h)
      PROVE  \E c \in Commands : Backed(c)'
  <2>1. UNCHANGED <<status, shown>>
    BY <1>2 DEF Audit, Die, Queue, Poll, Refresh
  <2>2. PICK c \in Commands : Backed(c)
    BY <2>1 DEF BackedInv
  <2>3. \E r : Becomes(h, r) /\ r.at # "dispatch"
    <3>1. CASE Audit(h) \/ Die(h)
      BY <3>1, IdleType DEF Audit, Die, Finish, Becomes
    <3>2. CASE Queue(h) \/ Poll(h)
      BY <1>0, <3>2, Opens
    <3>3. CASE Refresh(h)
      <4>1. PICK d \in req[h].cmds : req' = [req EXCEPT ![h].at = "audit", ![h].seen = status[d]]
        BY <3>3 DEF Refresh
      <4>2. PICK r : r = [req[h] EXCEPT !.at = "audit", !.seen = status[d]]
        OBVIOUS
      <4>3. Becomes(h, r) /\ r.at = "audit"
        BY <1>0, <4>1, <4>2 DEF Becomes, TypeOK, Requests
      <4> QED
        BY <4>3
    <3> QED
      BY <1>2, <3>1, <3>2, <3>3
  <2> QED
    BY <2>1, <2>2, <2>3, BackedStays
<1>3. ASSUME NEW h \in Handlers, PollDevice(h) \/ AckDevice(h)
      PROVE  \E c \in Commands : Backed(c)'
  <2>1. UNCHANGED <<status, shown>>
    BY <1>3 DEF PollDevice, AckDevice, LoadDevice
  <2>2. PICK c \in Commands : Backed(c)
    BY <2>1 DEF BackedInv
  <2>3. \E r : Becomes(h, r) /\ r.flag = shown
    BY <1>0, <1>3, Loads
  <2> QED
    BY <2>1, <2>2, <2>3, BackedStays
<1>4. ASSUME NEW h \in Handlers, NEW arrives \in BOOLEAN, Dispatch(h, arrives)
      PROVE  \E c \in Commands : Backed(c)'
  <2>1. /\ Becomes(h, Idle) /\ req[h].at = "dispatch"
        /\ status' = [c \in Commands |-> IF c \in req[h].cmds THEN "DISPATCHED" ELSE status[c]]
        /\ shown' = Assign(shown, req[h].flag, "DISPATCHED")
    BY <1>4 DEF Dispatch, Finish, Becomes, At
  <2>2. shown = "PENDING" /\ req[h].flag = "DISPATCHED"
    BY <2>1 DEF Assign
  <2>3. PICK c \in Commands : Backed(c)
    BY <2>2 DEF BackedInv
  <2>4. status'[c] = status[c]
    BY <2>1, <2>2, <2>3 DEF Backed
  <2> QED
    BY <2>1, <2>3, <2>4, IdleType, BackedStays
<1>5. ASSUME NEW h \in Handlers, Settle(h) PROVE \E c \in Commands : Backed(c)'
  <2>1. PICK r : r = [Idle EXCEPT !.at = "refresh", !.cmds = req[h].cmds, !.seen = req[h].seen]
    OBVIOUS
  <2>2. /\ Becomes(h, r) /\ req[h].at = "settle"
        /\ status' = [c \in Commands |-> IF c \in req[h].cmds
                                         THEN Assign(status[c], req[h].seen, req[h].goal)
                                         ELSE status[c]]
        /\ shown' = Assign(shown, req[h].flag, ShownAs(req[h].goal))
    BY <1>5, <2>1 DEF Settle, Becomes, At
  <2>3. r.at = "refresh"
    BY <2>1, IdleType DEF Requests
  <2>4. shown = "PENDING"
    BY <2>2 DEF Assign, ShownAs
  <2>5. PICK c \in Commands : Backed(c)
    BY <2>4 DEF BackedInv
  <2>6. ~ Acking(h, c)
    BY <2>5 DEF Backed, TypesInv, Fresh
  <2>7. status'[c] = status[c]
    BY <2>2, <2>6 DEF Acking
  <2> QED
    BY <2>2, <2>3, <2>5, <2>7, BackedStays
<1>6. ASSUME NEW h \in Handlers, NEW c \in Commands, NEW o \in Finished, Acknowledge(h, c, o)
      PROVE  \E d \in Commands : Backed(d)'
  <2>1. UNCHANGED <<status, shown>>
    BY <1>6 DEF Acknowledge
  <2>2. PICK d \in Commands : Backed(d)
    BY <2>1 DEF BackedInv
  <2>3. \E r : Becomes(h, r) /\ r.at = "ack"
    BY <1>0, <1>6, Opens
  <2> QED
    BY <2>1, <2>2, <2>3, BackedStays
<1>7. ASSUME (\E c \in Commands : AcknowledgeLost(c)) \/ UNCHANGED vars
      PROVE  \E c \in Commands : Backed(c)'
  <2>1. UNCHANGED <<status, shown, req>>
    BY <1>7 DEF AcknowledgeLost, vars
  <2>2. PICK c \in Commands : Backed(c)
    BY <2>1 DEF BackedInv
  <2> QED
    BY <2>1, <2>2 DEF Backed
<1> QED
  BY <1>1, <1>2, <1>3, <1>4, <1>5, <1>6, <1>7 DEF Next, Step

\* The device's last_command_status reads PENDING only while a command of it is
\* pending, although each commit writes the column over what its session loaded
\* (queue_command, get_pending_commands_for_device, acknowledge_command).
THEOREM PendingIsShown == Spec => []PendingShown
<1>1. Init => BackedInv
  BY DEF Init, BackedInv
<1>2. BackedInv => PendingShown
  BY DEF BackedInv, PendingShown, Backed, Pending
<1> QED
  BY <1>1, <1>2, TypesInitially, TypesStep, BackedStep, PTL DEF Spec

-----------------------------------------------------------------------------
(* One poll at a time                                                        *)

\* A command is in one place: never handed out, in the agent's hands, being
\* acknowledged, or done.
Once(c) ==
    /\ answers[c] <= 1 /\ copies[c] <= 1
    /\ status[c] \in Finished => copies[c] = 0 /\ \A h \in Handlers : ~ Acking(h, c)
    /\ copies[c] > 0 => \A h \in Handlers : ~ Acking(h, c)
    /\ \A h, k \in Handlers : Acking(h, c) /\ Acking(k, c) => h = k

\* A single poll, of commands that are still pending.
LonePoll ==
    /\ \A h, k \in Polling : h = k
    /\ \A h \in Polling : req[h].cmds \subseteq Pending

AloneInv == ~ overlapped => LonePoll /\ \A c \in Commands : Once(c)

\* Polls stay alone when the step starts none and no polled command leaves.
LEMMA PollStays ==
    ASSUME TypesInv, LonePoll, NEW h \in Handlers, NEW r, Becomes(h, r),
           r.at \in {"poll", "dispatch"} => h \in Polling /\ r.cmds = req[h].cmds,
           \A k \in Polling \ {h} : \A c \in req[k].cmds : status'[c] = status[c],
           r.at \in {"poll", "dispatch"} => status' = status
    PROVE  LonePoll'
<1>1. req'[h] = r /\ \A k \in Handlers \ {h} : req'[k] = req[k]
  BY Other DEF TypesInv
<1>2. Polling' \subseteq Polling
  BY <1>1 DEF Polling
<1>3. ASSUME NEW k \in Polling' PROVE req'[k].cmds \subseteq Pending'
  <2>1. k \in Polling /\ k \in Handlers /\ req[k].cmds \subseteq Pending
    BY <1>2 DEF LonePoll, Polling
  <2>2. CASE k = h
    BY <1>1, <2>1, <2>2, <1>3 DEF Polling, Pending
  <2>3. CASE k # h
    BY <1>1, <2>1, <2>3 DEF Pending
  <2> QED
    BY <2>2, <2>3
<1> QED
  BY <1>2, <1>3 DEF LonePoll

\* A command stays in one place when the step neither moves it nor acknowledges it.
LEMMA OnceStays ==
    ASSUME TypesInv, NEW c \in Commands, Once(c), NEW h \in Handlers, NEW r, Becomes(h, r),
           r.at \in {"ack", "settle"} /\ c \in r.cmds => Acking(h, c),
           status'[c] = status[c] \/ status'[c] \notin Finished,
           answers'[c] = answers[c], copies'[c] = copies[c]
    PROVE  Once(c)'
<1>1. req'[h] = r /\ \A k \in Handlers \ {h} : req'[k] = req[k]
  BY Other DEF TypesInv
<1>2. \A k \in Handlers : Acking(k, c)' => Acking(k, c)
  BY <1>1 DEF Acking
<1> QED
  BY <1>2 DEF Once

LEMMA AloneStep == TypesInv /\ AloneInv /\ [Next]_vars => AloneInv'
<1> SUFFICES ASSUME TypesInv, AloneInv, [Next]_vars, ~ overlapped'
             PROVE  LonePoll' /\ \A c \in Commands : Once(c)'
  BY DEF AloneInv
<1>0. /\ TypeOK /\ overlapped \in BOOLEAN
      /\ \A h \in Handlers : req[h] \in Requests /\ req[h].cmds \subseteq Commands /\ Known(h)
  BY DEF TypesInv, TypeOK, Requests
<1>a. ~ overlapped
  BY <1>0
  DEF Next, Step, Insert, Audit, PollDevice, AckDevice, LoadDevice, Dispatch, Settle, Refresh,
      Queue, Poll, Die, Acknowledge, AcknowledgeLost, vars
<1>b. LonePoll /\ \A c \in Commands : Once(c)
  BY <1>a DEF AloneInv
<1>1. ASSUME NEW h \in Handlers, Insert(h) PROVE LonePoll' /\ \A c \in Commands : Once(c)'
  <2>1. PICK c \in Commands :
          /\ status[c] = "ABSENT" /\ status' = [status EXCEPT ![c] = "PENDING"]
          /\ Becomes(h, [Idle EXCEPT !.at = "audit", !.cmds = {c}, !.seen = "PENDING"])
    BY <1>1 DEF Insert, Becomes
  <2>2. PICK r : r = [Idle EXCEPT !.at = "audit", !.cmds = {c}, !.seen = "PENDING"]
    OBVIOUS
  <2>3. Becomes(h, r) /\ r.at = "audit"
    BY <2>1, <2>2, IdleType DEF Requests
  <2>4. /\ UNCHANGED <<copies, answers>>
        /\ \A d \in Commands : d # c => status'[d] = status[d]
        /\ status'[c] = "PENDING"
    BY <1>0, <1>1, <2>1 DEF Insert, TypeOK
  <2>5. \A k \in Handlers : c \notin req[k].cmds
    BY <1>0, <2>1 DEF Known
  <2>6. LonePoll'
    BY <1>0, <1>b, <2>3, <2>4, <2>5, PollStays DEF Polling
  <2>7. \A d \in Commands : Once(d)'
    BY <1>b, <2>3, <2>4, OnceStays DEF Finished
  <2> QED
    BY <2>6, <2>7
<1>2. ASSUME NEW h \in Handlers,
             Audit(h) \/ Die(h) \/ Queue(h) \/ Refresh(h) \/ PollDevice(h) \/ AckDevice(h)
      PROVE  LonePoll' /\ \A c \in Commands : Once(c)'
  <2>1. UNCHANGED <<status, copies, answers>>
    BY <1>2 DEF Audit, Die, Queue, Refresh, PollDevice, AckDevice, LoadDevice
  <2>2. \E r : /\ Becomes(h, r)
               /\ \/ r.at \notin {"poll", "dispatch", "ack", "settle"}
                  \/ /\ r.cmds = req[h].cmds
                     /\ \/ req[h].at = "poll" /\ r.at = "dispatch"
                        \/ req[h].at = "ack" /\ r.at = "settle"
    <3>1. CASE Audit(h) \/ Die(h)
      BY <3>1, IdleType DEF Audit, Die, Finish, Becomes
    <3>2. CASE Queue(h)
      BY <1>0, <3>2, Opens
    <3>3. CASE Refresh(h)
      <4>1. PICK d \in req[h].cmds : req' = [req EXCEPT ![h].at = "audit", ![h].seen = status[d]]
        BY <3>3 DEF Refresh
      <4>2. PICK r : r = [req[h] EXCEPT !.at = "audit", !.seen = status[d]]
        OBVIOUS
      <4>3. Becomes(h, r) /\ r.at = "audit"
        BY <1>0, <4>1, <4>2 DEF Becomes, TypeOK, Requests
      <4> QED
        BY <4>3
    <3>4. CASE PollDevice(h) \/ AckDevice(h)
      BY <1>0, <3>4, Loads
    <3> QED
      BY <1>2, <3>1, <3>2, <3>3, <3>4
  <2>3. PICK r : /\ Becomes(h, r)
                 /\ \/ r.at \notin {"poll", "dispatch", "ack", "settle"}
                    \/ /\ r.cmds = req[h].cmds
                       /\ \/ req[h].at = "poll" /\ r.at = "dispatch"
                          \/ req[h].at = "ack" /\ r.at = "settle"
    BY <2>2
  <2>4. LonePoll'
    BY <1>b, <2>1, <2>3, PollStays DEF Polling
  <2>5. \A c \in Commands : Once(c)'
    BY <1>b, <2>1, <2>3, OnceStays DEF Acking
  <2> QED
    BY <2>4, <2>5
<1>3. ASSUME NEW h \in Handlers, Poll(h) PROVE LonePoll' /\ \A c \in Commands : Once(c)'
  <2>1. PICK r \in Requests : Becomes(h, r) /\ r.at = "poll" /\ r.cmds = Pending
    BY <1>0, <1>3, Opens
  <2>2. UNCHANGED <<status, copies, answers>> /\ Polling = {}
    BY <1>3 DEF Poll
  <2>3. req'[h] = r /\ \A k \in Handlers \ {h} : req'[k] = req[k]
    BY <1>0, <2>1, Other
  <2>4. Polling' = {h} /\ Pending' = Pending
    BY <2>1, <2>2, <2>3 DEF Polling, Pending
  <2>5. LonePoll'
    BY <2>1, <2>3, <2>4 DEF LonePoll
  <2>6. \A c \in Commands : Once(c)'
    BY <1>b, <2>1, <2>2, OnceStays
  <2> QED
    BY <2>5, <2>6
<1>4. ASSUME NEW h \in Handlers, NEW arrives \in BOOLEAN, Dispatch(h, arrives)
      PROVE  LonePoll' /\ \A c \in Commands : Once(c)'
  <2>1. /\ Becomes(h, Idle) /\ h \in Polling
        /\ status' = [c \in Commands |-> IF c \in req[h].cmds THEN "DISPATCHED" ELSE status[c]]
        /\ answers' = [c \in Commands |-> answers[c] + (IF c \in req[h].cmds THEN 1 ELSE 0)]
        /\ copies' = [c \in Commands |->
                        copies[c] + (IF arrives /\ c \in req[h].cmds THEN 1 ELSE 0)]
    BY <1>4 DEF Dispatch, Finish, Becomes, At, Polling
  <2>2. req'[h] = Idle /\ \A k \in Handlers \ {h} : req'[k] = req[k]
    BY <1>0, <2>1, Other
  <2>3. Polling' = {}
    BY <1>b, <2>1, <2>2, IdleType DEF Polling, LonePoll
  <2>4. ASSUME NEW c \in Commands PROVE Once(c)'
    <3>1. CASE c \in req[h].cmds
      <4>1. status[c] = "PENDING"
        BY <1>b, <2>1, <3>1 DEF LonePoll, Pending
      <4>2. answers[c] = 0 /\ copies[c] = 0 /\ \A k \in Handlers : ~ Acking(k, c)
        BY <4>1 DEF TypesInv, Fresh
      <4>3. answers'[c] = 1 /\ copies'[c] \in {0, 1} /\ status'[c] = "DISPATCHED"
        BY <2>1, <3>1, <4>2
      <4>4. \A k \in Handlers : ~ Acking(k, c)'
        BY <2>2, <4>2, IdleType DEF Acking
      <4> QED
        BY <4>3, <4>4 DEF Once, Finished
    <3>2. CASE c \notin req[h].cmds
      <4>1. status'[c] = status[c] /\ answers'[c] = answers[c] /\ copies'[c] = copies[c]
        BY <1>0, <2>1, <3>2 DEF TypeOK
      <4> QED
        BY <1>b, <2>1, <4>1, IdleType, OnceStays
    <3> QED
      BY <3>1, <3>2
  <2> QED
    BY <2>3, <2>4 DEF LonePoll
<1>5. ASSUME NEW h \in Handlers, NEW c \in Commands, NEW o \in Finished, Acknowledge(h, c, o)
      PROVE  LonePoll' /\ \A d \in Commands : Once(d)'
  <2>1. PICK r \in Requests : Becomes(h, r) /\ r.at = "ack" /\ r.cmds = {c}
    BY <1>0, <1>5, Opens
  <2>2. /\ copies[c] > 0 /\ copies' = [copies EXCEPT ![c] = @ - 1]
        /\ UNCHANGED <<status, answers>>
    BY <1>5 DEF Acknowledge
  <2>3. LonePoll'
    BY <1>b, <2>1, <2>2, PollStays
  <2>4. ASSUME NEW d \in Commands, d # c PROVE Once(d)'
    BY <1>0, <1>b, <2>1, <2>2, <2>4, OnceStays DEF TypeOK
  <2>5. Once(c)'
    <3>1. req'[h] = r /\ \A k \in Handlers \ {h} : req'[k] = req[k]
      BY <1>0, <2>1, Other
    <3>2. copies[c] = 1 /\ copies'[c] = 0
      BY <1>0, <1>b, <2>2 DEF Once, TypeOK
    <3>3. \A k \in Handlers : ~ Acking(k, c)
      BY <1>b, <2>2 DEF Once
    <3>4. \A k \in Handlers : Acking(k, c)' => k = h
      BY <3>1, <3>3 DEF Acking
    <3>5. status'[c] \notin Finished /\ answers'[c] <= 1
      BY <1>b, <2>2, <3>2 DEF Once
    <3> QED
      BY <3>2, <3>4, <3>5 DEF Once
  <2> QED
    BY <2>3, <2>4, <2>5
<1>6. ASSUME NEW c \in Commands, AcknowledgeLost(c)
      PROVE  LonePoll' /\ \A d \in Commands : Once(d)'
  <2>1. /\ copies[c] > 0 /\ copies' = [copies EXCEPT ![c] = @ - 1]
        /\ UNCHANGED <<status, req, answers>>
    BY <1>6 DEF AcknowledgeLost
  <2>2. LonePoll'
    BY <1>b, <2>1 DEF LonePoll, Polling, Pending
  <2>3. \A d \in Commands : copies'[d] <= copies[d] /\ copies'[d] \in Nat /\ copies[d] \in Nat
    BY <1>0, <2>1 DEF TypeOK
  <2>4. ASSUME NEW d \in Commands PROVE Once(d)'
    <3>1. Once(d) /\ \A h \in Handlers : Acking(h, d)' <=> Acking(h, d)
      BY <1>b, <2>1 DEF Acking
    <3>2. copies'[d] <= 1 /\ (copies'[d] > 0 => copies[d] > 0) /\ (copies[d] = 0 => copies'[d] = 0)
      BY <2>3, <3>1 DEF Once
    <3> QED
      BY <2>1, <3>1, <3>2 DEF Once
  <2> QED
    BY <2>2, <2>4
<1>7. ASSUME NEW h \in Handlers, Settle(h) PROVE LonePoll' /\ \A c \in Commands : Once(c)'
  <2>1. PICK r : r = [Idle EXCEPT !.at = "refresh", !.cmds = req[h].cmds, !.seen = req[h].seen]
    OBVIOUS
  <2>2. /\ Becomes(h, r) /\ req[h].at = "settle" /\ UNCHANGED <<copies, answers>>
        /\ status' = [c \in Commands |-> IF c \in req[h].cmds
                                         THEN Assign(status[c], req[h].seen, req[h].goal)
                                         ELSE status[c]]
    BY <1>7, <2>1 DEF Settle, Becomes, At
  <2>3. r.at = "refresh"
    BY <2>1, IdleType DEF Requests
  <2>4. \A c \in Commands : Acking(h, c) <=> c \in req[h].cmds
    BY <2>2 DEF Acking
  <2>5. \A c \in Commands : c \notin req[h].cmds => status'[c] = status[c]
    BY <2>2
  <2>6. \A c \in req[h].cmds : status[c] # "PENDING"
    BY <1>0, <2>4 DEF TypesInv, Fresh
  <2>7. \A k \in Polling : \A c \in req[k].cmds : c \in Commands /\ status[c] = "PENDING"
    BY <1>b DEF LonePoll, Pending
  <2>8. LonePoll'
    BY <1>b, <2>2, <2>3, <2>5, <2>6, <2>7, PollStays
  <2>9. ASSUME NEW c \in Commands PROVE Once(c)'
    <3>1. CASE c \notin req[h].cmds
      BY <1>b, <2>2, <2>3, <2>5, <3>1, OnceStays
    <3>2. CASE c \in req[h].cmds
      <4>1. req'[h] = r /\ \A k \in Handlers \ {h} : req'[k] = req[k]
        BY <1>0, <2>2, Other
      <4>2. Once(c) /\ Acking(h, c)
        BY <1>b, <2>4, <3>2
      <4>3. \A k \in Handlers : ~ Acking(k, c)'
        BY <2>3, <4>1, <4>2 DEF Acking, Once
      <4>4. copies[c] = 0
        BY <1>0, <4>2 DEF Once, TypeOK
      <4> QED
        BY <2>2, <4>2, <4>3, <4>4 DEF Once
    <3> QED
      BY <3>1, <3>2
  <2> QED
    BY <2>8, <2>9
<1>8. CASE UNCHANGED vars
  <2>1. UNCHANGED <<status, req, copies, answers>>
    BY <1>8 DEF vars
  <2> QED
    BY <1>b, <2>1 DEF LonePoll, Polling, Pending, Once, Acking
<1> QED
  BY <1>1, <1>2, <1>3, <1>4, <1>5, <1>6, <1>7, <1>8 DEF Next, Step

LEMMA AloneInitially == Init => AloneInv
<1> SUFFICES ASSUME Init PROVE LonePoll /\ \A c \in Commands : Once(c)
  BY DEF AloneInv
<1>1. \A h \in Handlers : req[h].at = "idle"
  BY IdleType DEF Init
<1> QED
  BY <1>1 DEF Init, LonePoll, Polling, Once, Acking, Finished

\* While no two polls of the device overlapped, each command was handed to the
\* agent at most once (get_pending_commands_for_device selects, then updates).
THEOREM DeliveredOnce == Spec => []DeliveredOnceAlone
<1>1. AloneInv => DeliveredOnceAlone
  BY DEF AloneInv, DeliveredOnceAlone, Once
<1> QED
  BY <1>1, TypesInitially, TypesStep, AloneInitially, AloneStep, PTL DEF Spec

\* While no two polls overlapped, an outcome stays: no poll dispatches the
\* command again and no other acknowledgement of it is under way.
THEOREM OutcomesAreFinal == Spec => OutcomeFinalAlone
<1>1. ASSUME TypesInv, AloneInv, Next, NEW c \in Commands, ~ overlapped, status[c] \in Finished
      PROVE  status'[c] = status[c]
  <2>0. /\ LonePoll /\ Once(c) /\ TypeOK
        /\ \A h \in Handlers : ~ Acking(h, c)
    BY <1>1 DEF AloneInv, TypesInv, Once
  <2>1. ASSUME NEW h \in Handlers, Insert(h) PROVE status'[c] = status[c]
    <3>1. PICK d \in Commands : status[d] = "ABSENT" /\ status' = [status EXCEPT ![d] = "PENDING"]
      BY <2>1 DEF Insert
    <3>2. d # c
      BY <1>1, <3>1 DEF Finished
    <3> QED
      BY <2>0, <3>1, <3>2 DEF TypeOK
  <2>2. ASSUME NEW h \in Handlers, NEW arrives \in BOOLEAN, Dispatch(h, arrives)
        PROVE  status'[c] = status[c]
    <3>1. /\ h \in Polling
          /\ status' = [d \in Commands |-> IF d \in req[h].cmds THEN "DISPATCHED" ELSE status[d]]
      BY <2>2 DEF Dispatch, At, Polling
    <3>2. c \notin req[h].cmds
      BY <1>1, <2>0, <3>1 DEF LonePoll, Pending, Finished
    <3> QED
      BY <3>1, <3>2
  <2>3. ASSUME NEW h \in Handlers, Settle(h) PROVE status'[c] = status[c]
    <3>1. /\ req[h].at = "settle"
          /\ status' = [d \in Commands |-> IF d \in req[h].cmds
                                           THEN Assign(status[d], req[h].seen, req[h].goal)
                                           ELSE status[d]]
      BY <2>3 DEF Settle, At
    <3>2. c \notin req[h].cmds
      BY <2>0, <3>1 DEF Acking
    <3> QED
      BY <3>1, <3>2
  <2> QED
    BY <1>1, <2>1, <2>2, <2>3
    DEF Next, Step, Audit, PollDevice, AckDevice, LoadDevice, Refresh, Queue, Poll, Die,
        Acknowledge, AcknowledgeLost
<1>2. TypesInv /\ AloneInv /\ [Next]_vars
        => [\A c \in Commands :
              ~ overlapped /\ status[c] \in Finished => status'[c] = status[c]]_vars
  BY <1>1
<1> QED
  BY <1>2, TypesInitially, TypesStep, AloneInitially, AloneStep, PTL DEF Spec, OutcomeFinalAlone
================================================================================
