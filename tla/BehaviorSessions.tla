--------------------------- MODULE BehaviorSessions ---------------------------
(* Behaviour of processes: one session per process, which counts the events told
   of it and keeps its recent file changes (backend/app/detection/behavior/
   engine.py, session.py, metrics.py, aggregator.py), the rules that look at a
   session (correlation.py, rules/ransomware_rules.py), its score (scoring.py)
   and the response (response_handler.py), as api/ransomware.py and
   simulate_ransomware_test.py call them.

   A call tells a burst of events, like the simulation.  Every event is of another
   file; the clock counts seconds.  An ingestion writes its session in one step.  *)
EXTENDS Naturals, Sequences, FiniteSets, SequencesExt

CONSTANTS Processes,              \* (device, pid), the keys of pid_map
          Bursts,                 \* the sequences of events that a call tells
          Callers,                \* threads of the API
          Delay, MaxClock, MaxBursts     \* bounds

\* The kinds of events
EventKinds == {"encrypt", "edit", "rename", "delete", "note", "wipe", "connect"}

ASSUME BehaviorAssumption ==
    /\ \A burst \in Bursts : burst \in Seq(EventKinds)
    /\ Delay \in Nat \ {0} /\ MaxClock \in Nat /\ MaxBursts \in Nat

VARIABLES
    sessions,    \* the sessions in the order they were created, and
    owner,       \* the process that each was created for
    pidMap,      \* the session of a process, 0 when it has none
    caller,      \* each thread: where it is, its process, burst, session and report
    clock,
    bursts,      \* bursts told so far
    raced,       \* look-ups that missed while another was creating the session
    made,        \* every change told to a session, and
    cut          \* the time up to which a summary of under a minute dropped them

behaviorVars == <<sessions, owner, pidMap, caller, clock, bursts, raced, made, cut>>

Counters == {"modified", "created", "deleted", "renamed", "high", "entropy", "samples",
             "notes", "known", "connects"}
Verdicts == {"ACTIVE", "SUSPICIOUS", "MALICIOUS_RANSOMWARE", "CONTAINED"}

NewSession == [count |-> [c \in Counters |-> 0], wiped |-> FALSE,
               status |-> "ACTIVE", advised |-> FALSE, changes |-> << >>]
Idle == [pc |-> "idle"]
ToCaller(c, changes) == caller' = [caller EXCEPT ![c] = changes]
Least(m, n) == IF m < n THEN m ELSE n

BehaviorInit ==
    /\ sessions = << >> /\ owner = << >> /\ pidMap = [p \in Processes |-> 0]
    /\ caller = [c \in Callers |-> Idle]
    /\ clock = 0 /\ bursts = 0 /\ raced = [p \in Processes |-> 0]
    /\ made = << >> /\ cut = << >>

-----------------------------------------------------------------------------
(* The metrics and the rules of a session                                    *)

\* The points of the first bound that n reaches
Graded(n, scale) ==
    LET hit == {i \in DOMAIN scale : n >= scale[i][1]}
    IN  IF hit = {} THEN 0 ELSE scale[Min(hit)][2]

\* deletion_to_creation_ratio is at least a half; it is 0 when nothing was written
HalfDeleted(n) == LET base == n.created + n.modified IN base > 0 /\ 2 * n.deleted >= base

\* calculate_composite_risk_score
Composite(s) ==
    LET n == s.count IN
    Least(100,
          Graded(n.high, <<<<10, 30>>, <<5, 22>>, <<2, 12>>, <<1, 5>>>>)
            + Graded(n.known, <<<<3, 25>>, <<1, 15>>>>)
            + Graded(n.renamed, <<<<10, 15>>, <<5, 8>>>>)
            + (IF s.wiped THEN 25 ELSE 0)
            + Graded(n.notes, <<<<2, 20>>, <<1, 12>>>>)
            + (IF n.deleted >= 10 /\ HalfDeleted(n) THEN 15
               ELSE Graded(n.deleted, <<<<5, 8>>>>)))

\* The sequences that BehaviorCorrelationRules finds critical
Mutations(n) == n.modified + n.created + n.deleted + n.renamed
CriticalMatch(s) ==
    \/ s.count.high >= 5
    \/ s.wiped /\ Mutations(s.count) >= 1
    \/ s.count.connects >= 1 /\ s.count.high >= 2

\* What an ingestion recommends: to terminate and to isolate
Recommended(s) == Composite(s) >= 75 \/ CriticalMatch(s)

-----------------------------------------------------------------------------
(* Telling a session of an event                                             *)

\* What an event of a kind adds to the counters; entropy is in tenths of a bit
Adds == [encrypt |-> [modified |-> 1, high |-> 1, entropy |-> 79, samples |-> 1],
         edit    |-> [modified |-> 1, entropy |-> 40, samples |-> 1],
         rename  |-> [renamed |-> 1, known |-> 1],
         delete  |-> [deleted |-> 1],
         note    |-> [created |-> 1, notes |-> 1],
         connect |-> [connects |-> 1],
         wipe    |-> << >>]

IsChange(kind) == kind \notin {"connect", "wipe"}

\* The status after an event: that of the score, whatever it was before
Verdict(s) ==
    IF Composite(s) >= 75 THEN "MALICIOUS_RANSOMWARE"
    ELSE IF Composite(s) >= 40 THEN "SUSPICIOUS" ELSE s.status

\* record_change: another change, counted with those before it of its kind and second
Recorded(changes, kind) ==
    IF changes # << >> /\ Last(changes).kind = kind /\ Last(changes).at = clock
    THEN [changes EXCEPT ![Len(changes)].times = @ + 1]
    ELSE Append(changes, [kind |-> kind, times |-> 1, at |-> clock])

\* add_event
Told(s, kind) ==
    LET adds == Adds[kind]
        t == [s EXCEPT !.count = [n \in Counters |->
                                    s.count[n] + (IF n \in DOMAIN adds THEN adds[n] ELSE 0)],
                       !.wiped = @ \/ kind = "wipe",
                       !.changes = IF IsChange(kind) THEN Recorded(@, kind) ELSE @]
    IN  [t EXCEPT !.status = Verdict(t), !.advised = Recommended(t)]

ToldBurst(s, burst) == FoldLeft(Told, s, burst)

\* get_or_create_session: the look-up
Find(c, p, burst) ==
    /\ caller[c].pc = "idle" /\ bursts < MaxBursts
    /\ bursts' = bursts + 1
    /\ ToCaller(c, [pc |-> IF pidMap[p] = 0 THEN "creating" ELSE "adding",
                    process |-> p, burst |-> burst, session |-> pidMap[p]])
    /\ raced' = IF /\ pidMap[p] = 0
                   /\ \E d \in Callers : caller[d].pc = "creating" /\ caller[d].process = p
                THEN [raced EXCEPT ![p] = @ + 1] ELSE raced
    /\ UNCHANGED <<sessions, owner, pidMap, clock, made, cut>>

\* Mutant: a session is not entered in pid_map
EntersNone(p) == pidMap

\* pid_map after a session of p is created: the newest is the one found
Enters(p) == [pidMap EXCEPT ![p] = Len(owner) + 1]

\* get_or_create_session: a new session, whatever was created since the look-up
Create(c) ==
    /\ caller[c].pc = "creating"
    /\ sessions' = Append(sessions, NewSession)
    /\ owner' = Append(owner, caller[c].process)
    /\ pidMap' = Enters(caller[c].process)
    /\ made' = Append(made, << >>) /\ cut' = Append(cut, 0)
    /\ ToCaller(c, [caller[c] EXCEPT !.pc = "adding", !.session = Len(owner) + 1])
    /\ UNCHANGED <<clock, bursts, raced>>

\* ingest_event, once for every event of the burst
Ingest(c) ==
    /\ caller[c].pc = "adding"
    /\ LET i == caller[c].session
           told == ToldBurst(sessions[i], caller[c].burst) IN
       /\ sessions' = [sessions EXCEPT ![i] = told]
       /\ made' = [made EXCEPT ![i] = ToldBurst([sessions[i] EXCEPT !.changes = made[i]],
                                                caller[c].burst).changes]
    /\ ToCaller(c, Idle)
    /\ UNCHANGED <<owner, pidMap, clock, bursts, raced, cut>>

-----------------------------------------------------------------------------
(* Summaries: get_summary drops for good what is older than its window       *)

From(w) == IF clock > w THEN clock - w ELSE 0

\* The changes that are not older than t, in their order
Since(changes, t) ==
    FoldLeft(LAMBDA kept, r : IF r.at >= t THEN Append(kept, r) ELSE kept, << >>, changes)

\* Mutant: the window is always the aggregator's default
PrunedToDefault(s, w) == [s EXCEPT !.changes = Since(@, From(30))]

\* Mutant: the counters start anew with the window
PrunedAndReset(s, w) ==
    [s EXCEPT !.changes = Since(@, From(w)),
              !.count = [n \in Counters |-> IF clock > w THEN 0 ELSE @[n]]]

Pruned(s, w) == [s EXCEPT !.changes = Since(@, From(w))]

\* The changes of some kinds that are left
NumberOf(s, kinds) ==
    FoldLeft(LAMBDA n, r : IF r.kind \in kinds THEN n + r.times ELSE n, 0, s.changes)

CutAt(i, w) == IF From(w) > cut[i] THEN From(w) ELSE cut[i]

\* list_active_sessions: the dashboard lists every session with its last 30 seconds
List ==
    /\ sessions' = [i \in DOMAIN sessions |-> Pruned(sessions[i], 30)]
    /\ cut' = [i \in DOMAIN cut |-> CutAt(i, 30)]
    /\ UNCHANGED <<owner, pidMap, caller, clock, bursts, raced, made>>

\* RansomwareRuleEngine.evaluate_all: the first rule looks at 20 seconds, those on
\* renames and extensions at 60 of what it left; what they find is not kept
EvaluateRules(i) ==
    /\ sessions' = [sessions EXCEPT ![i] = Pruned(Pruned(@, 20), 60)]
    /\ cut' = [cut EXCEPT ![i] = CutAt(i, 20)]
    /\ UNCHANGED <<owner, pidMap, caller, clock, bursts, raced, made>>

\* calculate_correlation_score, of the session pruned to a minute
Correlation(s) ==
    LET n == s.count
        renames == NumberOf(s, {"rename"})
        modified == NumberOf(s, {"encrypt", "edit"})
        average(tenths) == n.samples > 0 /\ n.entropy >= tenths * n.samples
    IN  Least(100,
              (IF renames >= 5 THEN 35 ELSE IF renames >= 1 THEN 17 ELSE 0)
                + (IF n.high >= 5 \/ average(75) THEN 30
                   ELSE IF n.high >= 1 \/ average(65) THEN 15 ELSE 0)
                + (IF n.deleted >= 5 /\ HalfDeleted(n) THEN 20
                   ELSE Graded(n.deleted, <<<<2, 10>>>>))
                + (IF modified >= 300 THEN 15 ELSE Graded(NumberOf(s, DOMAIN Adds), <<<<50, 15>>, <<15, 7>>>>))
                + (IF s.wiped THEN 25 ELSE 0)
                + (IF n.known >= 1 THEN 30 ELSE 0))

Score(c, i) ==
    /\ caller[c].pc = "idle"
    /\ LET s == Pruned(sessions[i], 60) IN
       /\ sessions' = [sessions EXCEPT ![i] = s]
       /\ ToCaller(c, [pc |-> "responding", session |-> i, report |-> Correlation(s)])
    /\ UNCHANGED <<owner, pidMap, clock, bursts, raced, made, cut>>

\* handle_incident: from a report of 80 on, with the default policy, the process is
\* suspended and terminated, its files are moved and the session is contained;
\* every action reports success, also when it raised
Respond(c) ==
    /\ caller[c].pc = "responding"
    /\ sessions' = IF caller[c].report >= 80
                   THEN [sessions EXCEPT ![caller[c].session].status = "CONTAINED"] ELSE sessions
    /\ ToCaller(c, Idle)
    /\ UNCHANGED <<owner, pidMap, clock, bursts, raced, made, cut>>

Passes ==
    /\ clock + Delay <= MaxClock /\ clock' = clock + Delay
    /\ UNCHANGED <<sessions, owner, pidMap, caller, bursts, raced, made, cut>>

BehaviorNext ==
    \/ \E c \in Callers : \/ \E p \in Processes, burst \in Bursts : Find(c, p, burst)
                          \/ Create(c) \/ Ingest(c) \/ Respond(c)
                          \/ \E i \in DOMAIN sessions : Score(c, i)
    \/ \E i \in DOMAIN sessions : EvaluateRules(i)
    \/ List \/ Passes

BehaviorSpec == BehaviorInit /\ [][BehaviorNext]_behaviorVars

-----------------------------------------------------------------------------
(* What should hold                                                          *)

BehaviorTypeOK ==
    /\ \A i \in DOMAIN sessions :
         /\ sessions[i].status \in Verdicts
         /\ \A n \in Counters : sessions[i].count[n] \in Nat
         /\ \A j \in DOMAIN sessions[i].changes : sessions[i].changes[j].at \in 0..clock
    /\ pidMap \in [Processes -> 0..Len(sessions)]
    /\ owner \in Seq(Processes) /\ DOMAIN owner = DOMAIN sessions
    /\ DOMAIN made = DOMAIN sessions /\ DOMAIN cut = DOMAIN sessions

\* A process has a second session, and its evidence is divided, only when two
\* calls missed the first at once; pid_map names one of its sessions
SessionsSplit ==
    \A p \in Processes :
      LET own == {i \in DOMAIN owner : owner[i] = p} IN
      /\ Cardinality(own) <= 1 + raced[p]
      /\ own # {} => pidMap[p] \in own

\* The changes of the last minute are there for the score, except those that a
\* listing or the rules dropped with their shorter window
MinuteKept ==
    \A i \in DOMAIN sessions :
      Since(sessions[i].changes, CutAt(i, 60)) = Since(made[i], CutAt(i, 60))

\* A process that was found malicious, or was to be terminated, is found less than
\* that only when the same call told of so many more files written that its
\* deletions are no more the half of them
VerdictStands ==
    [][\A i \in DOMAIN sessions :
         \/ /\ sessions[i].status = "MALICIOUS_RANSOMWARE"
            /\ sessions'[i].status \notin {"MALICIOUS_RANSOMWARE", "CONTAINED"}
         \/ sessions[i].advised /\ ~sessions'[i].advised
         =>
              /\ HalfDeleted(sessions[i].count) /\ ~HalfDeleted(sessions'[i].count)
              /\ sessions'[i].count.deleted >= sessions[i].count.deleted]_behaviorVars

=============================================================================
