------------------------------ MODULE PolicySync ------------------------------
(* Security policies (backend/app/services/policy_service.py), the routes that
   change and serve them, and the agent's sync daemon (agent/policy_sync.py).

   Every change of a policy inserts a row or rewrites columns of rows that the
   request read before, so a request is a load and a commit.  The agent asks
   for the configurations and "a global version", the sum of the versions of
   the enabled rows, and hands a greater one to its subscribers.  A
   configuration stands for the row that it was first stored in.             *)
EXTENDS Naturals, Sequences, FiniteSets, FiniteSetsExt

CONSTANTS Categories, Areas,
          AreaOf,         \* the part of the answer that serves a category
          Subscribers, WantsOf,    \* the part that a subscriber applies
          Priorities,     \* what a request may ask for
          Admins,         \* requests that change a policy, each used once
          MaxPolicies,    \* bound: rows ever inserted
          MaxSyncFaults   \* bound: failed fetches and raising subscribers

ASSUME PolicyAssumption ==
    /\ AreaOf \in [Categories -> Areas] /\ WantsOf \in [Subscribers -> Areas]
    /\ Priorities \subseteq Nat /\ MaxPolicies \in Nat /\ MaxSyncFaults \in Nat

VARIABLES
    policies,    \* the rows of security_policies, in the order of their insertion
    admin,       \* each request: what it loaded
    sync,        \* the agent's cycle: where it is and what it fetched
    agentVersion, applied,    \* current_version; each subscriber's configuration
    syncFaults,
    excused,     \* history: what may keep an old configuration in force
    fresh        \* history: nothing changed since the last fetch

policyVars == <<policies, admin, sync, agentVersion, applied, syncFaults, excused, fresh>>

Default    == 0    \* DEFAULT_*_CONFIG
NoVersion  == 0    \* current_version = -1: every served version is greater
PolicyIds        == 1 .. MaxPolicies
Pinned     == 999
PolicyRow  == [cat : Categories, version : Nat, enabled : BOOLEAN, priority : Nat, config : PolicyIds]
Enabled(rows) == {p \in DOMAIN rows : rows[p].enabled}
InCategory(rows, c) == {p \in DOMAIN rows : rows[p].cat = c}

-----------------------------------------------------------------------------
(* What the backend serves                                                   *)

Outranks(a, b) == a.priority > b.priority \/ (a.priority = b.priority /\ a.version > b.version)

\* The configurations the area's query may return: several when rows tie
Active(rows, area) ==
    LET of == {p \in Enabled(rows) : AreaOf[rows[p].cat] = area}
    IN  IF of = {} THEN {Default}
        ELSE {rows[p].config : p \in {q \in of : \A o \in of : ~Outranks(rows[o], rows[q])}}

GlobalVersion(rows) ==
    IF Enabled(rows) = {} THEN 1
    ELSE MapThenSumSet(LAMBDA p : rows[p].version, Enabled(rows))

Served(rows) == [area \in Areas |-> Active(rows, area)]

-----------------------------------------------------------------------------
(* Changes                                                                   *)

NextId == Len(policies) + 1

NoConfigs == [area \in Areas |-> Default]
IdleSync == [pc |-> "idle", configs |-> NoConfigs, version |-> NoVersion, todo |-> {}, torn |-> FALSE]

\* The version that the agent has, or is about to take over
Reached == IF sync.pc \in {"compare", "apply"} THEN Max({agentVersion, sync.version}) ELSE agentVersion

\* What a commit does to the histories: the new number does not announce the
\* change to an agent that has reached it, and a fetch may be between its reads.
Commit(rows) ==
    /\ policies' = rows
    /\ excused' = IF /\ GlobalVersion(rows) <= Reached
                     /\ \/ GlobalVersion(rows) < GlobalVersion(policies)
                        \/ Served(rows) # Served(policies)
                  THEN excused \cup {"fell"} ELSE excused
    /\ sync' = [sync EXCEPT !.torn = @ \/ sync.pc = "version"]
    /\ fresh' = FALSE
    /\ UNCHANGED <<agentVersion, applied, syncFaults>>

\* create_policy: nothing is read before the insert.
CreatePolicy(c, enabled, priority) ==
    /\ NextId \in PolicyIds
    /\ Commit(Append(policies, [cat |-> c, version |-> 1, enabled |-> enabled,
                                priority |-> priority, config |-> NextId]))
    /\ UNCHANGED admin

\* The first of get_policies(category, enabled_only)
Foremost(rows, c) ==
    LET of == Enabled(rows) \cap InCategory(rows, c)
    IN  CHOOSE p \in of : \A o \in of : \/ rows[p].priority > rows[o].priority
                                        \/ rows[p].priority = rows[o].priority /\ p >= o

Load(a, op, target) ==
    /\ admin[a].op = "none" /\ target \in DOMAIN policies
    /\ admin' = [admin EXCEPT ![a] = [op |-> op, target |-> target, seen |-> policies]]
    /\ UNCHANGED <<policies, sync, agentVersion, applied, syncFaults, excused, fresh>>

\* PUT of an area's policy: update_policy of its foremost row
LoadPut(a, c) ==
    /\ Enabled(policies) \cap InCategory(policies, c) # {}
    /\ Load(a, "put", Foremost(policies, c))

Idle(op) == [op |-> op, target |-> Default, seen |-> << >>]
Done(a) == admin' = [admin EXCEPT ![a] = Idle("done")]
Seen(a) == admin[a].seen[admin[a].target]

Disabled(rows, c) == [p \in DOMAIN rows |->
    IF rows[p].cat = c THEN [rows[p] EXCEPT !.enabled = FALSE] ELSE rows[p]]

\* The rows of the category that are committed are disabled by one UPDATE, and
\* a snapshot with the version after the greatest that was read is inserted.
Put(a) ==
    LET c == Seen(a).cat
    IN  /\ admin[a].op = "put" /\ Done(a) /\ NextId \in PolicyIds
        /\ Commit(Append(Disabled(policies, c),
               [cat |-> c, enabled |-> TRUE, priority |-> Seen(a).priority, config |-> NextId,
                version |-> Max({admin[a].seen[p].version : p \in InCategory(admin[a].seen, c)}) + 1]))

Toggle(a, enabled) ==
    LET row == policies[admin[a].target]
    IN  /\ admin[a].op = "toggle" /\ Done(a)
        /\ Commit([policies EXCEPT ![admin[a].target] =
               [row EXCEPT !.enabled = IF Seen(a).enabled = enabled THEN @ ELSE enabled,
                           !.version = Seen(a).version + 1]])

Clone(a) ==
    /\ admin[a].op = "clone" /\ Done(a) /\ NextId \in PolicyIds
    /\ Commit(Append(policies, [Seen(a) EXCEPT !.enabled = FALSE,
           !.version = Cardinality(InCategory(admin[a].seen, Seen(a).cat)) + 1]))

\* Only the columns that differ from what was read are written.
Rollback(a) ==
    LET was(p) == admin[a].seen[p]
        kept   == InCategory(admin[a].seen, Seen(a).cat)
        now(p) == IF p = admin[a].target
                  THEN [policies[p] EXCEPT !.priority = Pinned, !.version = was(p).version + 1,
                                           !.enabled = IF was(p).enabled THEN @ ELSE TRUE]
                  ELSE [policies[p] EXCEPT !.enabled = IF was(p).enabled THEN FALSE ELSE @]
    IN  /\ admin[a].op = "rollback" /\ Done(a)
        /\ Commit([p \in DOMAIN policies |-> IF p \in kept THEN now(p) ELSE policies[p]])

-----------------------------------------------------------------------------
(* sync_once                                                                 *)

\* GET /policies/latest reads the configurations and, in a query of its own,
\* the versions (the heartbeat it records first is DeviceLifecycle's).
FetchConfigs ==
    /\ sync.pc = "idle"
    /\ \E got \in [Areas -> UNION {Active(policies, area) : area \in Areas}] :
        /\ \A area \in Areas : got[area] \in Active(policies, area)
        /\ sync' = [sync EXCEPT !.pc = "version", !.configs = got, !.torn = FALSE]
    /\ UNCHANGED <<policies, admin, agentVersion, applied, syncFaults, excused, fresh>>

FetchVersion ==
    /\ sync.pc = "version"
    /\ sync' = [sync EXCEPT !.pc = "compare", !.version = GlobalVersion(policies)]
    /\ fresh' = TRUE
    /\ UNCHANGED <<policies, admin, agentVersion, applied, syncFaults, excused>>

\* Mutant: a step of one is taken for the version in force
NewerBeyondOne == sync.version > agentVersion + 1

Newer == sync.version > agentVersion

\* The version is taken over before any subscriber is called.
Compare ==
    /\ sync.pc = "compare"
    /\ IF Newer
       THEN /\ agentVersion' = sync.version
            /\ sync' = [sync EXCEPT !.pc = "apply", !.todo = Subscribers]
            /\ excused' = (IF fresh THEN {} ELSE excused) \cup (IF sync.torn THEN {"torn"} ELSE {})
       ELSE sync' = IdleSync /\ UNCHANGED <<agentVersion, excused>>
    /\ UNCHANGED <<policies, admin, applied, syncFaults, fresh>>

Called(s) ==
    /\ sync.pc = "apply" /\ s \in sync.todo
    /\ sync' = IF sync.todo = {s} THEN IdleSync ELSE [sync EXCEPT !.todo = @ \ {s}]

Apply(s) ==
    /\ Called(s)
    /\ applied' = [applied EXCEPT ![s] = sync.configs[WantsOf[s]]]
    /\ UNCHANGED <<policies, admin, agentVersion, syncFaults, excused, fresh>>

Fault == syncFaults < MaxSyncFaults /\ syncFaults' = syncFaults + 1

\* The subscriber raises: logged, and the next one is called.
ApplyRaises(s) ==
    /\ Called(s) /\ Fault
    /\ excused' = excused \cup {"raised"}
    /\ UNCHANGED <<policies, admin, agentVersion, applied, fresh>>

\* The answer is lost or an error: nothing is applied in this cycle.
FetchFails ==
    /\ sync.pc \in {"version", "compare"} /\ Fault
    /\ sync' = IdleSync /\ fresh' = FALSE
    /\ UNCHANGED <<policies, admin, agentVersion, applied, excused>>

-----------------------------------------------------------------------------

PolicyInit ==
    /\ policies = << >>
    /\ admin = [a \in Admins |-> Idle("none")]
    /\ sync = IdleSync
    /\ agentVersion = NoVersion /\ applied = [s \in Subscribers |-> Default]
    /\ syncFaults = 0 /\ excused = {} /\ fresh = FALSE

PolicyNext ==
    \/ \E c \in Categories, e \in BOOLEAN, priority \in Priorities : CreatePolicy(c, e, priority)
    \/ \E a \in Admins :
        \/ \E c \in Categories : LoadPut(a, c)
        \/ \E op \in {"toggle", "clone", "rollback"}, p \in PolicyIds : Load(a, op, p)
        \/ Put(a) \/ Clone(a) \/ Rollback(a)
        \/ \E e \in BOOLEAN : Toggle(a, e)
    \/ FetchConfigs \/ FetchVersion \/ FetchFails \/ Compare
    \/ \E s \in Subscribers : Apply(s) \/ ApplyRaises(s)

PolicySpec == PolicyInit /\ [][PolicyNext]_policyVars

-----------------------------------------------------------------------------

PolicyTypeOK ==
    /\ policies \in Seq(PolicyRow) /\ Len(policies) <= MaxPolicies
    /\ \A a \in Admins : admin[a].op \in {"none", "put", "toggle", "clone", "rollback", "done"}
    /\ sync.pc \in {"idle", "version", "compare", "apply"}
    /\ sync.torn \in BOOLEAN /\ excused \subseteq {"fell", "torn", "raised"}
    /\ sync.configs \in [Areas -> PolicyIds \cup {Default}] /\ sync.todo \subseteq Subscribers
    /\ agentVersion \in Nat /\ applied \in [Subscribers -> PolicyIds \cup {Default}]

Settled == sync.pc = "idle" /\ fresh
InForce == \A s \in Subscribers : applied[s] \in Active(policies, WantsOf[s])

\* The causes that the code leaves, since the configurations in force were
\* taken over: a change gave a sum that the agent had reached (fell), it was
\* committed between the two reads of the fetch (torn), a subscriber raised
\* after the version was taken over (raised).  Without one of them a synced
\* agent runs what is active.
SyncedInForceUnlessExcused == Settled /\ excused = {} => InForce
=============================================================================
