--------------------------- MODULE InventoriesProofs ---------------------------
(* Proofs about what the backend keeps of an endpoint.                       *)
EXTENDS MCInventories, FiniteSetTheorems, WellFoundedInduction, TLAPS

(* The event logs.                                                           *)

\* What the rules find in a batch.
GivenOf(batch) == [i \in DOMAIN batch |-> Given(batch[i])]
Detected(batch) == Evaluate(GivenOf(batch))

\* A batch is raw as a whole: that of the collector is, that of another client
\* is not.
Uniform(batch) == (\A i \in DOMAIN batch : batch[i].raw) \/ (\A i \in DOMAIN batch : ~batch[i].raw)

Finding == [rule : {"brute force", "multi device"} \cup SingleRules, of : SUBSET Nat]

UploadType == [pc : {"new", "store", "threat", "threat again", "alert", "done", "failed"},
               batch : Seq(LogEvent), todo : SUBSET Finding, now : SUBSET Finding]

\* Before its rows are stored an ingestion has left nothing behind.
Untouched(r) ==
    /\ upload[r].todo = {} /\ \A row \in eventRows : row[1] # r
    /\ \A a \in osAlerts : a[1] # r

\* From then on what it found is in its alerts or still to do.
Ingested(r) ==
    /\ \A row \in eventRows : row[1] = r => row[2] \in DOMAIN upload[r].batch
    /\ \A i \in DOMAIN upload[r].batch : <<r, i>> \in eventRows
    /\ upload[r].todo \subseteq Detected(upload[r].batch)
    /\ \A f \in Detected(upload[r].batch) : f \in upload[r].todo \/ <<r, f>> \in osAlerts
    /\ \A a \in osAlerts : a[1] = r => a[2] \in Detected(upload[r].batch)

UploadInv(r) ==
    /\ Len(upload[r].batch) <= CollectLimit + MaxEntries /\ Uniform(upload[r].batch)
    /\ upload[r].now \subseteq upload[r].todo
    /\ upload[r].pc \in {"new", "store"} => Untouched(r)
    /\ upload[r].pc \in {"threat", "threat again", "alert", "done"} => Ingested(r)
    /\ upload[r].pc = "alert" => \A f \in upload[r].now : <<r, f>> \in osThreats
    /\ upload[r].pc = "done" => upload[r].todo = {}

EventTypes ==
    /\ log \in Seq(LogEvent) /\ Len(log) <= MaxEntries /\ \A i \in DOMAIN log : ~log[i].raw
    /\ eventRows \subseteq Uploads \X (1 .. CollectLimit + MaxEntries)
    /\ osThreats \subseteq Uploads \X Finding /\ osAlerts \subseteq osThreats
    /\ uploadFaults \in 0 .. MaxUploadFaults
    /\ upload \in [Uploads -> UploadType]

EventInv == EventTypes /\ \A r \in Uploads : UploadInv(r)

\* What a finding is of, by its rule.
LEMMA OfBruteForce ==
    ASSUME NEW g, NEW f \in BruteForce(g)
    PROVE  \E j \in DOMAIN g : /\ Cardinality(FailuresIn(g, g[j].user)) >= FailureThreshold
                               /\ f = [rule |-> "brute force", of |-> FailuresIn(g, g[j].user)]
  BY Zenon DEF BruteForce

LEMMA OfMultiDevice ==
    ASSUME NEW g, NEW f \in MultiDevice(g)
    PROVE  \E j \in DOMAIN g : f = [rule |-> "multi device", of |-> LogonsIn(g, g[j].user)]
  BY Zenon DEF MultiDevice

LEMMA OfEvaluate ==
    ASSUME NEW g, NEW f \in Evaluate(g)
    PROVE  \/ f \in BruteForce(g) \/ f \in MultiDevice(g)
           \/ \E rule \in SingleRules : \E i \in DOMAIN g : f = [rule |-> rule, of |-> {i}]
  BY Zenon DEF Evaluate

\* The rules find findings.
LEMMA FoundType ==
    ASSUME NEW batch \in Seq(LogEvent), NEW f \in Detected(batch) PROVE f \in Finding
<1> DEFINE g == GivenOf(batch)
<1>1. DOMAIN g \subseteq Nat
  BY DEF GivenOf
<1> HIDE DEF g
<1>2. ASSUME NEW v PROVE FailuresIn(g, v) \subseteq Nat /\ LogonsIn(g, v) \subseteq Nat
  BY <1>1 DEF FailuresIn, LogonsIn
<1>3. CASE f \in BruteForce(g)
  <2>1. PICK j \in DOMAIN g : f = [rule |-> "brute force", of |-> FailuresIn(g, g[j].user)]
    BY <1>3, OfBruteForce, Zenon
  <2> QED
    BY <1>2, <2>1 DEF Finding
<1>4. CASE f \in MultiDevice(g)
  <2>1. PICK j \in DOMAIN g : f = [rule |-> "multi device", of |-> LogonsIn(g, g[j].user)]
    BY <1>4, OfMultiDevice, Zenon
  <2> QED
    BY <1>2, <2>1 DEF Finding
<1>5. CASE \E rule \in SingleRules : \E i \in DOMAIN g : f = [rule |-> rule, of |-> {i}]
  <2>1. PICK rule \in SingleRules : \E i \in DOMAIN g : f = [rule |-> rule, of |-> {i}]
    BY <1>5, Zenon
  <2>2. PICK i \in DOMAIN g : f = [rule |-> rule, of |-> {i}]
    BY <2>1, Zenon
  <2> QED
    BY <1>1, <2>2 DEF Finding
<1>6. f \in Evaluate(g)
  BY DEF Detected, g
<1> QED
  BY <1>3, <1>4, <1>5, <1>6, OfEvaluate, Zenon

\* The failed-logon rule finds an account by its own failures only, and only
\* where no event is raw.
LEMMA BruteForceFound ==
    ASSUME NEW batch \in Seq(LogEvent), Uniform(batch), NEW u
    PROVE  (\E f \in Detected(batch) : f.rule = "brute force" /\ \E i \in f.of : batch[i].user = u)
             <=> /\ Cardinality(FailuresIn(batch, u)) >= FailureThreshold
                 /\ \A i \in FailuresIn(batch, u) : ~batch[i].raw
<1> DEFINE g == GivenOf(batch)
<1>0. ~(Cardinality({}) >= FailureThreshold)
  <2>1. Cardinality({}) = 0
    BY FS_EmptySet
  <2> QED
    BY <2>1, EventAssumption
<1>1. DOMAIN g = DOMAIN batch /\ DOMAIN batch = 1 .. Len(batch) /\ Len(batch) \in Nat
  BY DEF GivenOf
<1>2. ASSUME NEW i \in DOMAIN batch
      PROVE  /\ batch[i].raw => g[i].kind = "other"
             /\ ~batch[i].raw => g[i].kind = batch[i].kind /\ g[i].user = batch[i].user
  <2>1. batch[i] \in LogEvent /\ g[i] = Given(batch[i])
    BY DEF GivenOf
  <2> QED
    BY <2>1 DEF Given, LogEvent
<1> HIDE DEF g
<1>3. ASSUME NEW f \in Detected(batch), f.rule = "brute force" PROVE f \in BruteForce(g)
  <2>1. f \in Evaluate(g)
    BY DEF Detected, g
  <2>2. ASSUME f \in MultiDevice(g) PROVE FALSE
    <3>1. PICK j \in DOMAIN g : f = [rule |-> "multi device", of |-> LogonsIn(g, g[j].user)]
      BY <2>2, OfMultiDevice, Zenon
    <3> QED
      BY <1>3, <3>1
  <2>3. ASSUME NEW rule \in SingleRules, NEW i \in DOMAIN g, f = [rule |-> rule, of |-> {i}] PROVE FALSE
    <3>1. rule # "brute force"
      BY DEF SingleRules, LooksAt
    <3> QED
      BY <1>3, <2>3, <3>1
  <2> QED
    BY <2>1, <2>2, <2>3, OfEvaluate, Zenon
<1>4. ASSUME NEW f \in BruteForce(g) PROVE f \in Detected(batch) /\ f.rule = "brute force"
  <2>1. f \in Detected(batch)
    BY Zenon DEF Detected, Evaluate, g
  <2>2. PICK j \in DOMAIN g : f = [rule |-> "brute force", of |-> FailuresIn(g, g[j].user)]
    BY OfBruteForce, Zenon
  <2> QED
    BY <2>1, <2>2
<1>5. CASE \A i \in DOMAIN batch : batch[i].raw
  <2>1. \A v : FailuresIn(g, v) = {}
    BY <1>1, <1>2, <1>5 DEF FailuresIn
  <2>2. BruteForce(g) = {}
    <3>1. \A v : ~(Cardinality(FailuresIn(g, v)) >= FailureThreshold)
      BY <1>0, <2>1, Zenon
    <3> QED
      BY <3>1, OfBruteForce, Zenon
  <2>3. ASSUME Cardinality(FailuresIn(batch, u)) >= FailureThreshold,
               \A i \in FailuresIn(batch, u) : ~batch[i].raw
        PROVE  FALSE
    <3>1. FailuresIn(batch, u) = {}
      BY <1>5, <2>3 DEF FailuresIn
    <3> QED
      BY <1>0, <2>3, <3>1, Zenon
  <2> QED
    BY <1>3, <2>2, <2>3
<1>6. CASE \A i \in DOMAIN batch : ~batch[i].raw
  <2>1. ASSUME NEW v PROVE FailuresIn(g, v) = FailuresIn(batch, v)
    BY <1>1, <1>2, <1>6 DEF FailuresIn
  <2>2. ASSUME NEW f \in BruteForce(g), NEW i \in f.of, batch[i].user = u
        PROVE  Cardinality(FailuresIn(batch, u)) >= FailureThreshold
    <3>1. PICK j \in DOMAIN g : /\ Cardinality(FailuresIn(g, g[j].user)) >= FailureThreshold
                                /\ f = [rule |-> "brute force", of |-> FailuresIn(g, g[j].user)]
      BY OfBruteForce, Zenon
    <3>2. i \in FailuresIn(batch, g[j].user)
      BY <2>1, <3>1
    <3>3. g[j].user = u
      BY <2>2, <3>2 DEF FailuresIn
    <3> QED
      BY <2>1, <3>1, <3>3
  <2>3. ASSUME Cardinality(FailuresIn(batch, u)) >= FailureThreshold
        PROVE  \E f \in BruteForce(g) : \E i \in f.of : batch[i].user = u
    <3>1. FailuresIn(batch, u) # {}
      BY <1>0, <2>3, Zenon
    <3>2. PICK i \in DOMAIN batch : i \in FailuresIn(batch, u)
      BY <3>1 DEF FailuresIn
    <3>3. i \in DOMAIN g /\ g[i].user = u /\ batch[i].user = u
      BY <1>1, <1>2, <1>6, <3>2 DEF FailuresIn
    <3>4. [rule |-> "brute force", of |-> FailuresIn(g, g[i].user)] \in BruteForce(g)
      BY <2>1, <2>3, <3>3, Zenon DEF BruteForce
    <3>5. [rule |-> "brute force", of |-> FailuresIn(g, g[i].user)].of = FailuresIn(batch, u)
      BY <2>1, <3>3
    <3> QED
      BY <3>2, <3>3, <3>4, <3>5
  <2>4. \A i \in FailuresIn(batch, u) : ~batch[i].raw
    BY <1>6 DEF FailuresIn
  <2> QED
    BY <1>3, <1>4, <2>2, <2>3, <2>4
<1> QED
  BY <1>5, <1>6 DEF Uniform

\* A step of one ingestion leaves what is known of the others.
LEMMA OthersUpload ==
    ASSUME NEW r \in Uploads, UploadInv(r), upload'[r] = upload[r], osThreats \subseteq osThreats',
           \A row : row[1] = r => (row \in eventRows <=> row \in eventRows'),
           \A a : a[1] = r => (a \in osAlerts <=> a \in osAlerts')
    PROVE  UploadInv(r)'
  BY DEF UploadInv, Untouched, Ingested

\* A collected batch is raw, of the last entries of the log and made-up ones.
LEMMA Collected ==
    ASSUME EventTypes, NEW r \in Uploads, CollectEvents(r)
    PROVE  /\ upload' = [upload EXCEPT ![r] = upload'[r]] /\ upload'[r] \in UploadType
           /\ upload'[r].pc = "store" /\ upload'[r].todo = upload[r].todo /\ upload'[r].now = upload[r].now
           /\ Len(upload'[r].batch) <= CollectLimit /\ \A i \in DOMAIN upload'[r].batch : upload'[r].batch[i].raw
<1>1. Queried \in Seq(LogEvent)
  BY EventAssumption DEF EventTypes, Queried
<1> DEFINE all == IF Len(Queried) < CollectLeast THEN Queried \o Samples ELSE Queried
           least == IF Len(all) < CollectLimit THEN Len(all) ELSE CollectLimit
           taken == SubSeq(all, 1, least)
<1>2. all \in Seq(LogEvent)
  BY <1>1, EventAssumption
<1>3. taken \in Seq(LogEvent) /\ Len(taken) = least /\ least <= CollectLimit
  BY <1>2, EventAssumption
<1>4. upload' = [upload EXCEPT ![r] = [upload[r] EXCEPT !.pc = "store", !.batch = Raw(taken)]]
  BY DEF CollectEvents, ToUpload
<1> HIDE DEF taken
<1>5. Raw(taken) \in Seq(LogEvent) /\ Len(Raw(taken)) = Len(taken) /\ \A i \in DOMAIN Raw(taken) : Raw(taken)[i].raw
  <2>1. DOMAIN Raw(taken) = 1 .. Len(taken) /\ Len(taken) \in Nat
    BY <1>3 DEF Raw
  <2>2. ASSUME NEW i \in 1 .. Len(taken) PROVE Raw(taken)[i] \in LogEvent /\ Raw(taken)[i].raw
    <3>1. taken[i] \in LogEvent /\ i \in DOMAIN taken
      BY <1>3, <2>2
    <3>3. Raw(taken)[i] = [taken[i] EXCEPT !.raw = TRUE]
      BY <3>1 DEF Raw
    <3>2. [taken[i] EXCEPT !.raw = TRUE] \in LogEvent /\ [taken[i] EXCEPT !.raw = TRUE].raw = TRUE
      BY <3>1 DEF LogEvent
    <3> QED
      BY <3>2, <3>3
  <2>3. Raw(taken) = [i \in 1 .. Len(taken) |-> Raw(taken)[i]]
    BY <2>1, <1>3 DEF Raw
  <2> QED
    BY <2>1, <2>2, <2>3
<1> QED
  BY <1>3, <1>4, <1>5 DEF EventTypes, UploadType

LEMMA EventInitial == EventInit => EventInv
<1> SUFFICES ASSUME EventInit PROVE EventInv
  OBVIOUS
<1>1. << >> \in Seq(LogEvent) /\ Len(<< >>) = 0 /\ Uniform(<< >>)
  BY DEF Uniform
<1>2. NewUpload \in UploadType
  BY <1>1 DEF NewUpload, UploadType
<1>3. EventTypes
  BY <1>1, <1>2, EventAssumption DEF EventInit, EventTypes
<1>4. ASSUME NEW r \in Uploads PROVE UploadInv(r)
  <2>1. upload[r] = NewUpload /\ eventRows = {} /\ osAlerts = {}
    BY DEF EventInit
  <2> QED
    BY <1>1, <2>1, EventAssumption DEF UploadInv, Untouched, NewUpload
<1> QED
  BY <1>3, <1>4 DEF EventInv

\* The steps of one ingestion: its own state is as UploadInv says, the others'
\* as it was.
LEMMA UploadSteps ==
    ASSUME EventInv, NEW r \in Uploads, EventTypes', UploadInv(r)', osThreats \subseteq osThreats',
           \A o \in Uploads \ {r} : upload'[o] = upload[o],
           \A row : row[1] # r => (row \in eventRows <=> row \in eventRows'),
           \A a : a[1] # r => (a \in osAlerts <=> a \in osAlerts')
    PROVE  EventInv'
<1>1. ASSUME NEW o \in Uploads \ {r} PROVE UploadInv(o)'
  <2>1. UploadInv(o) /\ upload'[o] = upload[o]
    BY DEF EventInv
  <2>2. \A row : row[1] = o => (row \in eventRows <=> row \in eventRows')
    OBVIOUS
  <2>3. \A a : a[1] = o => (a \in osAlerts <=> a \in osAlerts')
    OBVIOUS
  <2> QED
    BY <2>1, <2>2, <2>3, OthersUpload
<1> QED
  BY <1>1 DEF EventInv

LEMMA EventInductive == EventInv /\ [EventNext]_eventVars => EventInv'
<1> SUFFICES ASSUME EventInv, [EventNext]_eventVars PROVE EventInv'
  OBVIOUS
<1>0. EventTypes /\ \A r \in Uploads : UploadInv(r) /\ upload[r] \in UploadType
  BY DEF EventInv, EventTypes
<1>1. CASE UNCHANGED eventVars
  <2>1. EventTypes'
    BY <1>0, <1>1 DEF EventTypes, eventVars
  <2>2. ASSUME NEW r \in Uploads PROVE UploadInv(r)'
    BY <1>0, <1>1, <2>2, OthersUpload DEF eventVars
  <2> QED
    BY <2>1, <2>2 DEF EventInv
<1>2. ASSUME NEW e \in Happenings, Happens(e) PROVE EventInv'
  <2>2. e \in LogEvent /\ ~e.raw
    BY EventAssumption
  <2>1. /\ log' \in Seq(LogEvent) /\ Len(log') = Len(log) + 1 /\ Len(log) \in Nat
        /\ \A i \in DOMAIN log' : log'[i] = e \/ (i \in DOMAIN log /\ log'[i] = log[i])
    <3>1. log' = Append(log, e) /\ log \in Seq(LogEvent)
      BY <1>0, <1>2 DEF Happens, EventTypes
    <3> QED
      BY <2>2, <3>1
  <2>3. Len(log') <= MaxEntries
    BY <1>2, <2>1, EventAssumption DEF Happens
  <2>4. \A i \in DOMAIN log' : ~log'[i].raw
    BY <1>0, <2>1, <2>2 DEF EventTypes
  <2>5. EventTypes'
    BY <1>0, <1>2, <2>1, <2>3, <2>4 DEF Happens, EventTypes
  <2>6. ASSUME NEW r \in Uploads PROVE UploadInv(r)'
    BY <1>0, <1>2, <2>6, OthersUpload DEF Happens
  <2> QED
    BY <2>5, <2>6 DEF EventInv
<1>3. ASSUME NEW r \in Uploads, CollectEvents(r) PROVE EventInv'
  <2>1. /\ upload' = [upload EXCEPT ![r] = upload'[r]] /\ upload'[r] \in UploadType
        /\ upload'[r].pc = "store" /\ upload'[r].todo = upload[r].todo /\ upload'[r].now = upload[r].now
        /\ Len(upload'[r].batch) <= CollectLimit /\ Uniform(upload'[r].batch)
    BY <1>0, <1>3, Collected DEF Uniform
  <2>2. upload[r].pc = "new" /\ UNCHANGED <<log, eventRows, osThreats, osAlerts, uploadFaults>>
    BY <1>3 DEF CollectEvents, AtUpload
  <2>3. EventTypes'
    BY <1>0, <2>1, <2>2 DEF EventTypes
  <2>4. Len(upload'[r].batch) <= CollectLimit + MaxEntries
    <3>0. upload'[r].batch \in Seq(LogEvent)
      BY <2>1 DEF UploadType
    <3>1. Len(upload'[r].batch) \in Nat
      BY <3>0
    <3>2. CollectLimit \in Nat /\ MaxEntries \in Nat
      BY EventAssumption
    <3> QED
      BY <2>1, <3>1, <3>2
  <2>5. UploadInv(r)'
    BY <1>0, <2>1, <2>2, <2>4 DEF UploadInv, Untouched
  <2>6. \A o \in Uploads \ {r} : upload'[o] = upload[o]
    BY <1>0, <2>1 DEF EventTypes
  <2> QED
    BY <2>2, <2>3, <2>5, <2>6, UploadSteps
<1>4. ASSUME NEW r \in Uploads, NEW i \in DOMAIN log, NEW j \in DOMAIN log, Post(r, i, j) PROVE EventInv'
  <2> DEFINE taken == SubSeq(log, i, j)
  <2>1. upload[r].pc = "new" /\ UNCHANGED <<log, eventRows, osThreats, osAlerts, uploadFaults>>
        /\ upload' = [upload EXCEPT ![r] = [upload[r] EXCEPT !.pc = "store", !.batch = taken]]
    BY <1>4 DEF Post, AtUpload, ToUpload
  <2>2. taken \in Seq(LogEvent) /\ Len(taken) <= MaxEntries /\ \A k \in DOMAIN taken : taken[k] = log[i + k - 1] /\ i + k - 1 \in DOMAIN log
    <3>1. log \in Seq(LogEvent) /\ Len(log) \in Nat /\ Len(log) <= MaxEntries /\ i \in 1..Len(log) /\ j \in 1..Len(log) /\ i <= j
      BY <1>0, <1>4 DEF Post, EventTypes
    <3>2. taken \in Seq(LogEvent) /\ Len(taken) = j - i + 1 /\ \A k \in 1..(j - i + 1) : taken[k] = log[i + k - 1]
      BY <3>1
    <3> QED
      BY <3>1, <3>2, EventAssumption
  <2>3. Uniform(taken)
    BY <1>0, <2>2 DEF Uniform, EventTypes
  <2> HIDE DEF taken
  <2>4. Len(taken) <= CollectLimit + MaxEntries
    BY <2>2, EventAssumption
  <2>5. /\ upload'[r] \in UploadType /\ upload'[r].pc = "store" /\ upload'[r].batch = taken
        /\ upload'[r].todo = upload[r].todo /\ upload'[r].now = upload[r].now
        /\ \A o \in Uploads \ {r} : upload'[o] = upload[o]
    BY <1>0, <2>1, <2>2 DEF EventTypes, UploadType
  <2>6. EventTypes'
    BY <1>0, <2>1, <2>5 DEF EventTypes
  <2>7. UploadInv(r)'
    BY <1>0, <2>1, <2>3, <2>4, <2>5 DEF UploadInv, Untouched
  <2> QED
    BY <2>1, <2>5, <2>6, <2>7, UploadSteps
<1>5. ASSUME NEW r \in Uploads, StoreEvents(r) PROVE EventInv'
  <2> DEFINE batch == upload[r].batch
             found == Detected(batch)
  <2>1. /\ upload[r].pc = "store" /\ eventRows' = eventRows \cup ({r} \X DOMAIN batch)
        /\ upload' = [upload EXCEPT ![r] = [upload[r] EXCEPT !.todo = found, !.pc = Onward(found)]]
        /\ UNCHANGED <<log, osThreats, osAlerts, uploadFaults>>
    BY <1>5 DEF StoreEvents, Detected, GivenOf, AtUpload, ToUpload
  <2>2. batch \in Seq(LogEvent) /\ DOMAIN batch \subseteq 1 .. CollectLimit + MaxEntries
    <3>1. batch \in Seq(LogEvent) /\ Len(batch) <= CollectLimit + MaxEntries
      BY <1>0 DEF UploadType, UploadInv
    <3> QED
      BY <3>1, EventAssumption
  <2>3. \A f \in found : f \in Finding
    BY <2>2, FoundType
  <2> HIDE DEF found
  <2>4. Onward(found) \in {"threat", "done"} /\ (Onward(found) = "done" => found = {})
    BY DEF Onward
  <2>5. /\ upload'[r] \in UploadType /\ upload'[r].pc = Onward(found) /\ upload'[r].batch = batch
        /\ upload'[r].todo = found /\ upload'[r].now = upload[r].now
        /\ \A o \in Uploads \ {r} : upload'[o] = upload[o]
    BY <1>0, <2>1, <2>3, <2>4 DEF EventTypes, UploadType
  <2>6. EventTypes'
    BY <1>0, <2>1, <2>2, <2>5 DEF EventTypes
  <2>7. Untouched(r) /\ upload[r].now \subseteq upload[r].todo
    BY <1>0, <2>1 DEF UploadInv
  <2>8. Ingested(r)'
    BY <2>1, <2>5, <2>7 DEF Ingested, Untouched, found
  <2>9. UploadInv(r)'
    BY <1>0, <2>4, <2>5, <2>7, <2>8 DEF UploadInv, Untouched
  <2> QED
    BY <2>1, <2>5, <2>6, <2>9, UploadSteps
<1>6. ASSUME NEW r \in Uploads, NEW f \in upload[r].todo, StoreThreat(r, f) PROVE EventInv'
  <2>1. /\ upload[r].pc \in {"threat", "threat again"} /\ osThreats' = osThreats \cup {<<r, f>>}
        /\ upload' = [upload EXCEPT ![r] = [upload[r] EXCEPT !.pc = "alert", !.now = {f}]]
        /\ UNCHANGED <<log, eventRows, osAlerts, uploadFaults>>
    BY <1>6 DEF StoreThreat, ToUpload
  <2>2. f \in Finding
    BY <1>0 DEF UploadType
  <2>3. /\ upload'[r] \in UploadType /\ upload'[r].pc = "alert" /\ upload'[r].batch = upload[r].batch
        /\ upload'[r].todo = upload[r].todo /\ upload'[r].now = {f}
        /\ \A o \in Uploads \ {r} : upload'[o] = upload[o]
    BY <1>0, <2>1, <2>2 DEF EventTypes, UploadType
  <2>4. EventTypes'
    <3>0. osThreats \subseteq Uploads \X Finding /\ osAlerts \subseteq osThreats
      BY <1>0 DEF EventTypes
    <3>3. osThreats' = osThreats \cup {<<r, f>>} /\ osAlerts' = osAlerts
      BY <2>1
    <3>4. <<r, f>> \in Uploads \X Finding
      BY <2>2
    <3>1. osThreats' \subseteq Uploads \X Finding /\ osAlerts' \subseteq osThreats'
      BY <3>0, <3>3, <3>4
    <3>2. upload' \in [Uploads -> UploadType]
      BY <1>0, <2>1, <2>3 DEF EventTypes
    <3> QED
      BY <1>0, <2>1, <3>1, <3>2 DEF EventTypes
  <2>5. Ingested(r)'
    BY <1>0, <2>1, <2>3 DEF Ingested, UploadInv
  <2>6. UploadInv(r)'
    BY <1>0, <2>1, <2>3, <2>5 DEF UploadInv
  <2> QED
    BY <2>1, <2>3, <2>4, <2>6, UploadSteps
<1>7. ASSUME NEW r \in Uploads, StoreAlert(r) PROVE EventInv'
  <2> DEFINE left == upload[r].todo \ upload[r].now
  <2>1. /\ upload[r].pc = "alert" /\ osAlerts' = osAlerts \cup ({r} \X upload[r].now)
        /\ upload' = [upload EXCEPT ![r] = [upload[r] EXCEPT !.todo = left, !.now = {}, !.pc = Onward(left)]]
        /\ UNCHANGED <<log, eventRows, osThreats, uploadFaults>>
    BY <1>7 DEF StoreAlert, AtUpload, ToUpload
  <2>2. left \subseteq Finding /\ Onward(left) \in {"threat", "done"} /\ (Onward(left) = "done" => left = {})
    BY <1>0 DEF UploadType, Onward
  <2>3. /\ upload'[r] \in UploadType /\ upload'[r].pc = Onward(left) /\ upload'[r].batch = upload[r].batch
        /\ upload'[r].todo = left /\ upload'[r].now = {}
        /\ \A o \in Uploads \ {r} : upload'[o] = upload[o]
    BY <1>0, <2>1, <2>2 DEF EventTypes, UploadType
  <2>4. Ingested(r) /\ upload[r].now \subseteq upload[r].todo /\ \A f \in upload[r].now : <<r, f>> \in osThreats
    BY <1>0, <2>1 DEF UploadInv
  <2>5. EventTypes'
    BY <1>0, <2>1, <2>3, <2>4 DEF EventTypes
  <2>6. Ingested(r)'
    BY <2>1, <2>3, <2>4 DEF Ingested
  <2>7. UploadInv(r)'
    BY <1>0, <2>1, <2>2, <2>3, <2>6 DEF UploadInv
  <2> QED
    BY <2>1, <2>3, <2>5, <2>7, UploadSteps
<1>8. ASSUME NEW r \in Uploads, UploadBreaks(r) PROVE EventInv'
  <2>1. /\ uploadFaults < MaxUploadFaults /\ uploadFaults' = uploadFaults + 1
        /\ upload[r].pc \in {"store", "threat", "threat again", "alert"}
        /\ upload' = [upload EXCEPT ![r] = [upload[r] EXCEPT !.pc =
                         IF upload[r].pc = "threat" THEN "threat again" ELSE "failed"]]
        /\ UNCHANGED <<log, eventRows, osThreats, osAlerts>>
    BY <1>8 DEF UploadBreaks, ToUpload
  <2>2. /\ upload'[r] \in UploadType /\ upload'[r].batch = upload[r].batch
        /\ upload'[r].pc = IF upload[r].pc = "threat" THEN "threat again" ELSE "failed"
        /\ upload'[r].todo = upload[r].todo /\ upload'[r].now = upload[r].now
        /\ \A o \in Uploads \ {r} : upload'[o] = upload[o]
    BY <1>0, <2>1 DEF EventTypes, UploadType
  <2>8. UNCHANGED <<log, eventRows, osThreats, osAlerts>>
    BY <2>1
  <2>3. EventTypes'
    <3>1. upload' \in [Uploads -> UploadType]
      BY <1>0, <2>1, <2>2 DEF EventTypes
    <3>3. uploadFaults \in 0 .. MaxUploadFaults /\ MaxUploadFaults \in Nat
      BY <1>0, EventAssumption DEF EventTypes
    <3>2. uploadFaults' \in 0 .. MaxUploadFaults
      <4>1. uploadFaults < MaxUploadFaults /\ uploadFaults' = uploadFaults + 1
        BY <2>1
      <4> QED
        BY <3>3, <4>1
    <3> QED
      BY <1>0, <2>8, <3>1, <3>2 DEF EventTypes
  <2>5. ASSUME Ingested(r) PROVE Ingested(r)'
    BY <2>2, <2>5, <2>8 DEF Ingested
  <2>6. upload'[r].pc \in {"threat again", "failed"}
    BY <2>2
  <2>7. upload'[r].pc = "threat again" => upload[r].pc = "threat"
    BY <2>2
  <2>4. UploadInv(r)'
    BY <1>0, <2>2, <2>5, <2>6, <2>7 DEF UploadInv
  <2> QED
    BY <2>1, <2>2, <2>3, <2>4, UploadSteps
<1> QED
  BY <1>1, <1>2, <1>3, <1>4, <1>5, <1>6, <1>7, <1>8, Zenon DEF EventNext

LEMMA EventInvHolds == EventSpec => []EventInv
  BY EventInitial, EventInductive, PTL DEF EventSpec

\* The requests, the rows and what the rules raised are well-typed; no alert is
\* without its threat (event_log_service.py:18-113, pipeline.py:50-92).
THEOREM EventTypeCorrect == EventSpec => []EventTypeOK
<1>1. EventInv => EventTypeOK
  BY DEF EventInv, EventTypes, EventTypeOK, UploadType
<1> QED
  BY <1>1, EventInvHolds, PTL

\* An ingestion that answered success has raised the alert for failed logons
\* exactly where a batch without raw events held the threshold of them
\* (event_log_service.py:79-113, event_log_rules.py:35-112).
THEOREM BruteForceIsSeen == EventSpec => []BruteForceSeen
<1>1. EventInv => BruteForceSeen
  <2> SUFFICES ASSUME EventInv, NEW r \in Uploads, NEW u \in Accounts, upload[r].pc = "done"
               PROVE  BruteForceOf({a \in osAlerts : a[1] = r}, u) # {}
                        <=> /\ Cardinality(Failures(r, u)) >= FailureThreshold
                            /\ ~\E row \in Failures(r, u) : upload[r].batch[row[2]].raw
    BY DEF BruteForceSeen, AtUpload
  <2> DEFINE batch == upload[r].batch
             found == Detected(batch)
             own == FailuresIn(batch, u)
  <2>1. batch \in Seq(LogEvent) /\ Uniform(batch) /\ Ingested(r) /\ upload[r].todo = {}
    BY DEF EventInv, EventTypes, UploadType, UploadInv
  <2>2. eventRows \subseteq Uploads \X (1 .. CollectLimit + MaxEntries) /\ osAlerts \subseteq Uploads \X Finding
    BY DEF EventInv, EventTypes
  <2>3. \A f : <<r, f>> \in osAlerts <=> f \in found
    BY <2>1, <2>2 DEF Ingested
  <2>4. \A i : <<r, i>> \in eventRows <=> i \in DOMAIN batch
    BY <2>1, <2>2 DEF Ingested
  <2>5. \A row : row \in Failures(r, u) <=> \E i \in own : row = <<r, i>>
    BY <2>2, <2>4 DEF Failures, FailuresIn
  <2>6. Cardinality(Failures(r, u)) = Cardinality(own)
    <3> DEFINE place == [i \in own |-> <<r, i>>]
    <3>1. IsFiniteSet(own)
      <4>1. DOMAIN batch = 1 .. Len(batch) /\ Len(batch) \in Nat
        BY <2>1
      <4>2. IsFiniteSet(1 .. Len(batch))
        BY <4>1, FS_Interval
      <4> QED
        BY <4>1, <4>2, FS_Subset DEF FailuresIn
    <3>2. place \in Bijection(own, Failures(r, u))
      BY <2>5 DEF Bijection, Injection, Surjection, IsInjective
    <3> QED
      BY <3>1, <3>2, FS_Bijection DEF ExistsBijection
  <2>7. (\E row \in Failures(r, u) : batch[row[2]].raw) <=> \E i \in own : batch[i].raw
    <3>1. ASSUME NEW row \in Failures(r, u), batch[row[2]].raw PROVE \E i \in own : batch[i].raw
      <4>1. PICK i \in own : row = <<r, i>>
        BY <2>5
      <4>2. row[2] = i
        BY <4>1
      <4> QED
        BY <3>1, <4>2, Zenon
    <3>2. ASSUME NEW i \in own, batch[i].raw PROVE \E row \in Failures(r, u) : batch[row[2]].raw
      <4>1. <<r, i>> \in Failures(r, u) /\ <<r, i>>[2] = i
        BY <2>5
      <4> QED
        BY <3>2, <4>1, Zenon
    <3> QED
      BY <3>1, <3>2, Zenon
  <2>8. BruteForceOf({a \in osAlerts : a[1] = r}, u) # {}
          <=> \E f \in found : f.rule = "brute force" /\ \E i \in f.of : batch[i].user = u
    <3>1. ASSUME NEW f \in found, f.rule = "brute force", NEW i \in f.of, batch[i].user = u
          PROVE  <<r, f>> \in BruteForceOf({a \in osAlerts : a[1] = r}, u)
      BY <2>3, <3>1 DEF BruteForceOf
    <3>2. ASSUME NEW a \in BruteForceOf({b \in osAlerts : b[1] = r}, u)
          PROVE  \E f \in found : f.rule = "brute force" /\ \E i \in f.of : batch[i].user = u
      <4>1. /\ a \in osAlerts /\ a[1] = r /\ a[2].rule = "brute force"
            /\ \E i \in a[2].of : upload[a[1]].batch[i].user = u
        BY DEF BruteForceOf
      <4>2. a = <<r, a[2]>>
        <5>1. a \in Uploads \X Finding
          BY <2>2, <4>1
        <5>2. a[1] = r
          BY <4>1
        <5> QED
          BY <5>1, <5>2
      <4>3. a[2] \in found
        BY <2>3, <4>1, <4>2
      <4> QED
        BY <4>1, <4>3
    <3> QED
      BY <3>1, <3>2
  <2> HIDE DEF found
  <2> QED
    BY <2>1, <2>6, <2>7, <2>8, BruteForceFound DEF found
<1> QED
  BY <1>1, EventInvHolds, PTL


-----------------------------------------------------------------------------
(* The processes.                                                            *)

Image == Images \cup {NoImage}
Pairs == Pids \X Images
ProcessRow == [by : Posts, pid : Pids, image : Images]
Request == [op : {"none", "live", "snapshot"},
            pc : {"new", "clear", "insert", "created", "store", "alert", "audit", "done", "failed"},
            created : SUBSET Pairs, terminated : SUBSET Pids,
            todo : SUBSET Pairs, ends : SUBSET Pids, now : SUBSET Pairs,
            pending : SUBSET ProcessRow, cleared : SUBSET ProcessRow]
Cycle == [pc : {"idle", "post", "wait"}, created : SUBSET Pairs, terminated : SUBSET Pids,
          call : Posts \cup {NoImage}]

\* A request tells one image of a pid and does not also end it; what it holds is
\* of its own making, and written before it goes on to the next process.
RequestInv(r) ==
    /\ post[r].todo \subseteq post[r].created /\ post[r].now \subseteq post[r].created
    /\ post[r].ends \subseteq post[r].terminated
    /\ \A c \in post[r].created : c[1] \notin post[r].terminated /\ \A d \in post[r].created : c[1] = d[1] => c = d
    /\ \A row \in post[r].pending : row.by = r /\ <<row.pid, row.image>> \in post[r].created \ post[r].todo
    /\ post[r].op = "none" => post[r].created = {} /\ post[r].terminated = {} /\ post[r].pc \in {"new", "failed"}
    /\ post[r].op = "live" => post[r].pc \in {"created", "store", "alert", "audit", "done"} /\ post[r].cleared = {}
    /\ post[r].op = "snapshot" => post[r].pc \in {"clear", "insert", "alert", "audit", "done"}
    /\ post[r].pc \in {"clear", "created", "audit"} => post[r].pending = {}
    /\ post[r].pc = "clear" => post[r].todo = post[r].created

\* What the monitor is about to post is what it has seen.
CycleInv ==
    diff.pc = "post" =>
        /\ \A c \in diff.created : known[c[1]] = c[2] /\ c[1] \notin diff.terminated
        /\ \A p \in diff.terminated : known[p] = NoImage

ProcessTypes ==
    /\ running \in [Pids -> Image] /\ known \in [Pids -> Image] /\ diff \in Cycle
    /\ post \in [Posts -> Request] /\ processes \subseteq ProcessRow /\ missed \subseteq Pids

Holds(r, p) == Working(r) /\ p \in Mentions(post[r])

\* The backend may hold v of a pid: the monitor's next post, or the next after
\* it, puts it right.
Fits(p, v) ==
    \/ diff.pc = "post" /\ p \in diff.terminated
    \/ diff.pc = "post" /\ (\E c \in diff.created : c[1] = p) /\ v \in {NoImage, known[p]}
    \/ ~(diff.pc = "post" /\ p \in Changed(diff)) /\ v \in {known[p], running[p]}

\* The rows of a pid say that it runs v.
Reads(rows, v) ==
    \/ v = NoImage /\ rows = {}
    \/ v # NoImage /\ \E row \in rows : rows = {row} /\ row.image = v

\* The rows of a pid once a request has committed what it holds
RowsAfter(r, p) == (RowsOf(p) \ post[r].cleared) \cup {row \in post[r].pending : row.pid = p}

\* What a request tells of a pid
Tells(r, p, v) ==
    \/ v = NoImage /\ \A c \in post[r].created : c[1] # p
    \/ v # NoImage /\ <<p, v>> \in post[r].created

\* How far it is with the rows of the pid
Progress(r, p, v) ==
    \/ post[r].op = "snapshot" /\ post[r].pc = "clear"
    \/ post[r].op = "snapshot" /\ <<p, v>> \in post[r].todo /\ RowsAfter(r, p) = {}
    \/ post[r].op = "snapshot" /\ <<p, v>> \notin post[r].todo /\ Reads(RowsAfter(r, p), v)
    \/ post[r].op = "live" /\ v = NoImage /\ p \in post[r].ends
    \/ post[r].op = "live" /\ v # NoImage /\ <<p, v>> \in post[r].todo
         /\ (Reads(RowsOf(p), NoImage) \/ Reads(RowsOf(p), v))
    \/ post[r].op = "live" /\ p \notin post[r].ends /\ <<p, v>> \notin post[r].todo /\ Reads(RowsAfter(r, p), v)

PidInv(p) ==
    /\ known[p] = running[p] \/ known[p] = NoImage \/ running[p] = NoImage
    /\ \A r, o \in Posts : Holds(r, p) /\ Holds(o, p) => r = o
    /\ \A r \in Posts : Holds(r, p) => \E v \in Image : Tells(r, p, v) /\ Fits(p, v) /\ Progress(r, p, v)
    /\ (\A r \in Posts : ~Holds(r, p)) => \E v \in Image : Fits(p, v) /\ Reads(RowsOf(p), v)

ProcessInv ==
    /\ ProcessTypes /\ CycleInv /\ (\A r \in Posts : RequestInv(r))
    /\ \A p \in Pids \ missed : PidInv(p)

-----------------------------------------------------------------------------

\* What the endpoint does leaves the backend's taken.
LEMMA EndpointStep ==
    ASSUME NEW p \in Pids, PidInv(p), UNCHANGED <<post, processes>>,
           known'[p] = running'[p] \/ known'[p] = NoImage \/ running'[p] = NoImage,
           \A v \in Image : Fits(p, v) => Fits(p, v)'
    PROVE  PidInv(p)'
<1>1. ASSUME NEW r \in Posts, NEW v \in Image
      PROVE  /\ Holds(r, p)' <=> Holds(r, p)
             /\ Tells(r, p, v)' <=> Tells(r, p, v)
             /\ Progress(r, p, v)' <=> Progress(r, p, v)
  <2>1. Holds(r, p)' <=> Holds(r, p)
    BY DEF Holds, Working, Mentions, Changed
  <2>2. Tells(r, p, v)' <=> Tells(r, p, v)
    BY DEF Tells
  <2>3. Progress(r, p, v)' <=> Progress(r, p, v)
    BY DEF Progress, Reads, RowsAfter, RowsOf
  <2> QED
    BY <2>1, <2>2, <2>3
<1>0. ASSUME NEW r \in Posts PROVE Holds(r, p)' <=> Holds(r, p)
  BY DEF Holds, Working, Mentions, Changed
<1>2. ASSUME NEW v \in Image PROVE Reads(RowsOf(p), v)' <=> Reads(RowsOf(p), v)
  BY DEF RowsOf, Reads
<1>3. ASSUME NEW r \in Posts, Holds(r, p)'
      PROVE  \E v \in Image : Tells(r, p, v)' /\ Fits(p, v)' /\ Progress(r, p, v)'
  <2>1. PICK v \in Image : Tells(r, p, v) /\ Fits(p, v) /\ Progress(r, p, v)
    BY <1>0, <1>3 DEF PidInv
  <2> QED
    BY <1>1, <2>1
<1>4. ASSUME \A r \in Posts : ~Holds(r, p)' PROVE \E v \in Image : Fits(p, v)' /\ Reads(RowsOf(p), v)'
  <2>1. PICK v \in Image : Fits(p, v) /\ Reads(RowsOf(p), v)
    BY <1>0, <1>4 DEF PidInv
  <2> QED
    BY <1>2, <2>1
<1> QED
  BY <1>1, <1>3, <1>4, <1>0 DEF PidInv

\* What is to show of a step of the endpoint.
LEMMA EndpointKeeps ==
    ASSUME ProcessInv, UNCHANGED <<post, processes>>, missed \subseteq missed', missed' \subseteq Pids,
           running' \in [Pids -> Image], known' \in [Pids -> Image], diff' \in Cycle, CycleInv',
           \A p \in Pids \ missed' :
              /\ known'[p] = running'[p] \/ known'[p] = NoImage \/ running'[p] = NoImage
              /\ \A v \in Image : Fits(p, v) => Fits(p, v)'
    PROVE  ProcessInv'
<1>1. ProcessTypes'
  BY DEF ProcessInv, ProcessTypes
<1>2. ASSUME NEW r \in Posts PROVE RequestInv(r)'
  BY DEF ProcessInv, RequestInv
<1>3. ASSUME NEW p \in Pids \ missed' PROVE PidInv(p)'
  <2>1. PidInv(p)
    BY DEF ProcessInv
  <2> QED
    BY <2>1, EndpointStep
<1> QED
  BY <1>1, <1>2, <1>3 DEF ProcessInv

LEMMA EndpointActs ==
    ASSUME ProcessInv,
           \/ \E p \in Pids : End(p) \/ \E image \in Images : Start(p, image)
           \/ UpdateProcessPolicy \/ Collect \/ PostLost \/ PostAnswered \/ PostTimesOut
    PROVE  ProcessInv'
<1>0. /\ running \in [Pids -> Image] /\ known \in [Pids -> Image] /\ diff \in Cycle /\ missed \subseteq Pids /\ CycleInv
      /\ \A p \in Pids \ missed : known[p] = running[p] \/ known[p] = NoImage \/ running[p] = NoImage
  BY DEF ProcessInv, ProcessTypes, PidInv
<1>1. ASSUME NEW q \in Pids, NEW image \in Images, Start(q, image) PROVE ProcessInv'
  <2>1. /\ running[q] = NoImage /\ running' = [running EXCEPT ![q] = image]
        /\ missed' = IF known[q] = NoImage THEN missed ELSE missed \cup {q}
        /\ UNCHANGED <<known, diff, post, processes>>
    BY <1>1 DEF Start
  <2>2. running' \in [Pids -> Image] /\ missed \subseteq missed' /\ missed' \subseteq Pids
    BY <1>0, <2>1 DEF Image
  <2>3. CycleInv'
    BY <1>0, <2>1 DEF CycleInv
  <2>4. ASSUME NEW p \in Pids \ missed'
        PROVE  /\ known'[p] = running'[p] \/ known'[p] = NoImage \/ running'[p] = NoImage
               /\ \A v \in Image : Fits(p, v) => Fits(p, v)'
    <3>1. CASE p = q
      <4>1. known[q] = NoImage
        BY <2>1, <2>4, <3>1
      <4> QED
        BY <2>1, <3>1, <4>1 DEF Fits, Changed
    <3>2. CASE p # q
      <4>1. running'[p] = running[p] /\ p \in Pids \ missed
        BY <1>0, <2>1, <2>2, <3>2
      <4> QED
        BY <1>0, <2>1, <4>1 DEF Fits, Changed
    <3> QED
      BY <3>1, <3>2
  <2> QED
    BY <1>0, <2>1, <2>2, <2>3, <2>4, EndpointKeeps
<1>2. ASSUME NEW q \in Pids, End(q) PROVE ProcessInv'
  <2>1. /\ running[q] # NoImage /\ running' = [running EXCEPT ![q] = NoImage]
        /\ missed' = IF known[q] = NoImage THEN missed \cup {q} ELSE missed
        /\ UNCHANGED <<known, diff, post, processes>>
    BY <1>2 DEF End
  <2>2. running' \in [Pids -> Image] /\ missed \subseteq missed' /\ missed' \subseteq Pids
    BY <1>0, <2>1 DEF Image
  <2>3. CycleInv'
    BY <1>0, <2>1 DEF CycleInv
  <2>4. ASSUME NEW p \in Pids \ missed'
        PROVE  /\ known'[p] = running'[p] \/ known'[p] = NoImage \/ running'[p] = NoImage
               /\ \A v \in Image : Fits(p, v) => Fits(p, v)'
    <3>1. CASE p = q
      <4>1. known[q] # NoImage /\ p \in Pids \ missed
        BY <2>1, <2>2, <2>4, <3>1
      <4>2. known[q] = running[q] /\ running'[q] = NoImage
        BY <1>0, <2>1, <3>1, <4>1
      <4> QED
        BY <2>1, <3>1, <4>2 DEF Fits, Changed
    <3>2. CASE p # q
      <4>1. running'[p] = running[p] /\ p \in Pids \ missed
        BY <1>0, <2>1, <2>2, <3>2
      <4> QED
        BY <1>0, <2>1, <4>1 DEF Fits, Changed
    <3> QED
      BY <3>1, <3>2
  <2> QED
    BY <1>0, <2>1, <2>2, <2>3, <2>4, EndpointKeeps
<1>3. CASE UpdateProcessPolicy
  <2>1. UNCHANGED <<running, known, diff, post, processes, missed>>
    BY <1>3 DEF UpdateProcessPolicy
  <2>2. CycleInv'
    BY <1>0, <2>1 DEF CycleInv
  <2>3. \A p \in Pids : \A v \in Image : Fits(p, v) => Fits(p, v)'
    BY <2>1 DEF Fits, Changed
  <2> QED
    BY <1>0, <2>1, <2>2, <2>3, EndpointKeeps
<1>4. CASE Collect
  <2>1. /\ diff.pc = "idle" /\ known' = running /\ UNCHANGED <<post, processes>>
        /\ diff' = [pc |-> "post", created |-> Created, terminated |-> Terminated, call |-> NoImage]
        /\ missed' = missed \cup {p \in Pids : New(p) /\ Skipped(p)}
    BY <1>4 DEF Collect
  <2>2. running' \in [Pids -> Image] /\ \A p \in Pids : running'[p] \in {running[p], NoImage}
    <3>1. PICK killed : running' = [p \in Pids |-> IF p \in killed THEN NoImage ELSE running[p]]
      BY <1>4 DEF Collect
    <3> QED
      BY <1>0, <3>1 DEF Image
  <2>3. /\ \A c : c \in Created <=> \E p \in Pids : New(p) /\ ~Skipped(p) /\ c = <<p, running[p]>>
        /\ Terminated = {p \in Pids : known[p] # NoImage /\ running[p] = NoImage}
    BY DEF Created, Terminated
  <2>4. Created \subseteq Pairs /\ Terminated \subseteq Pids
    <3>1. ASSUME NEW p \in Pids, New(p) PROVE <<p, running[p]>> \in Pairs
      BY <1>0, <3>1 DEF New, Pairs, Image
    <3> QED
      BY <2>3, <3>1
  <2>5. diff' \in Cycle
    BY <2>1, <2>4 DEF Cycle
  <2>6. CycleInv'
    BY <1>0, <2>1, <2>3 DEF CycleInv, New
  <2>7. ASSUME NEW p \in Pids \ missed', NEW v \in Image, Fits(p, v) PROVE Fits(p, v)'
    <3>1. v \in {known[p], running[p]} /\ p \in Pids \ missed
      BY <2>1, <2>7 DEF Fits
    <3>2. CASE p \in Terminated
      BY <2>1, <3>2 DEF Fits
    <3>3. CASE New(p)
      <4>1. ~Skipped(p) /\ known[p] = NoImage
        BY <2>1, <2>7, <3>3 DEF New
      <4>2. <<p, running[p]>> \in Created /\ v \in {NoImage, running[p]}
        BY <2>3, <3>1, <3>3, <4>1
      <4>3. \E c \in Created : c[1] = p
        BY <4>2
      <4> QED
        BY <2>1, <4>2, <4>3 DEF Fits
    <3>4. CASE p \notin Terminated /\ ~New(p)
      <4>1. known[p] = running[p]
        BY <1>0, <2>3, <3>1, <3>4 DEF New
      <4>2. \A c \in Created : c[1] # p
        BY <2>3, <3>4
      <4> QED
        BY <2>1, <3>1, <3>4, <4>1, <4>2 DEF Fits, Changed
    <3> QED
      BY <3>2, <3>3, <3>4
  <2>8. missed \subseteq missed' /\ missed' \subseteq Pids /\ known' \in [Pids -> Image]
    BY <1>0, <2>1
  <2>9. \A p \in Pids : known'[p] = running'[p] \/ known'[p] = NoImage \/ running'[p] = NoImage
    BY <2>1, <2>2
  <2> QED
    BY <2>1, <2>2, <2>5, <2>6, <2>7, <2>8, <2>9, EndpointKeeps
<1>5. CASE PostLost
  <2>1. /\ diff.pc = "post" /\ diff' = IdleDiff /\ missed' = missed \cup Changed(diff)
        /\ UNCHANGED <<running, known, post, processes>>
    BY <1>5 DEF PostLost
  <2>2. diff' \in Cycle /\ CycleInv' /\ diff'.pc = "idle"
    BY <2>1 DEF IdleDiff, Cycle, CycleInv
  <2>3. missed' \subseteq Pids
    BY <1>0, <2>1 DEF Changed, Cycle, Pairs
  <2>4. \A p \in Pids \ missed' : \A v \in Image : Fits(p, v) => Fits(p, v)'
    BY <2>1, <2>2 DEF Fits, Changed
  <2> QED
    BY <1>0, <2>1, <2>2, <2>3, <2>4, EndpointKeeps
<1>6. CASE PostAnswered \/ PostTimesOut
  <2>1. diff.pc = "wait" /\ diff' = IdleDiff /\ UNCHANGED <<running, known, post, processes, missed>>
    BY <1>6 DEF PostAnswered, PostTimesOut
  <2>2. diff' \in Cycle /\ CycleInv' /\ diff'.pc = "idle"
    BY <2>1 DEF IdleDiff, Cycle, CycleInv
  <2>4. \A p \in Pids : \A v \in Image : Fits(p, v) => Fits(p, v)'
    BY <2>1, <2>2 DEF Fits, Changed
  <2> QED
    BY <1>0, <2>1, <2>2, <2>4, EndpointKeeps
<1> QED
  BY <1>1, <1>2, <1>3, <1>4, <1>5, <1>6

\* A request begins: of the pids it mentions, no other request is at work.
LEMMA BeginStep ==
    ASSUME ProcessInv, NEW r \in Posts, NEW q \in Request, post[r].pc = "new",
           post' = [post EXCEPT ![r] = q], q.pc \notin {"new", "done", "failed"},
           UNCHANGED <<running, known, processes>>, diff' \in Cycle, CycleInv', RequestInv(r)',
           missed' \subseteq Pids, missed \subseteq missed', Mentions(q) \cap Handled(r) \subseteq missed',
           \A p \in Pids \ missed', v \in Image : Fits(p, v) /\ p \notin Mentions(q) => Fits(p, v)',
           \A p \in Pids \ missed', v \in Image : Fits(p, v) /\ Reads(RowsOf(p), v) /\ p \in Mentions(q) =>
              \E w \in Image : Tells(r, p, w)' /\ Fits(p, w)' /\ Progress(r, p, w)'
    PROVE  ProcessInv'
<1>0. post \in [Posts -> Request]
  BY DEF ProcessInv, ProcessTypes
<1>1. ProcessTypes'
  BY <1>0 DEF ProcessInv, ProcessTypes
<1>2. post'[r] = q /\ \A o \in Posts \ {r} : post'[o] = post[o]
  BY <1>0
<1>3. ASSUME NEW o \in Posts PROVE RequestInv(o)'
  <2>1. CASE o # r
    <3>1. RequestInv(o) /\ post'[o] = post[o]
      BY <1>2, <2>1 DEF ProcessInv
    <3> QED
      BY <3>1 DEF RequestInv
  <2> QED
    BY <2>1
<1>4. ASSUME NEW p \in Pids \ missed' PROVE PidInv(p)'
  <2>0. PidInv(p)
    BY DEF ProcessInv
  <2>1. ~Holds(r, p) /\ (Holds(r, p)' <=> p \in Mentions(q))
    BY <1>2 DEF Holds, Working, Mentions, Changed
  <2>2. ASSUME NEW o \in Posts, o # r
        PROVE  /\ Holds(o, p)' <=> Holds(o, p)
               /\ p \in Mentions(q) => ~Holds(o, p)
    <3>1. post'[o] = post[o]
      BY <1>2, <2>2
    <3>2. Holds(o, p)' <=> Holds(o, p)
      BY <3>1 DEF Holds, Working, Mentions, Changed
    <3>3. Holds(o, p) => p \in Handled(r)
      BY <2>2 DEF Holds, Handled
    <3>4. p \in Mentions(q) => ~Holds(o, p)
      BY <3>3
    <3> QED
      BY <3>2, <3>4
  <2>3. RowsOf(p)' = RowsOf(p) /\ \A v : Reads(RowsOf(p), v)' <=> Reads(RowsOf(p), v)
    BY DEF RowsOf, Reads
  <2>4. known'[p] = running'[p] \/ known'[p] = NoImage \/ running'[p] = NoImage
    BY <2>0 DEF PidInv
  <2>5. \A o, s \in Posts : Holds(o, p)' /\ Holds(s, p)' => o = s
    BY <2>0, <2>1, <2>2 DEF PidInv
  <2>6. ASSUME NEW o \in Posts, Holds(o, p)'
        PROVE  \E v \in Image : Tells(o, p, v)' /\ Fits(p, v)' /\ Progress(o, p, v)'
    <3>1. CASE o = r
      <4>1. p \in Mentions(q) /\ \A s \in Posts : ~Holds(s, p)
        BY <2>1, <2>2, <2>6, <3>1
      <4>2. PICK v \in Image : Fits(p, v) /\ Reads(RowsOf(p), v)
        BY <2>0, <4>1 DEF PidInv
      <4> QED
        BY <3>1, <4>1, <4>2
    <3>2. CASE o # r
      <4>1. Holds(o, p) /\ p \notin Mentions(q) /\ post'[o] = post[o]
        BY <1>2, <2>2, <2>6, <3>2
      <4>2. PICK v \in Image : Tells(o, p, v) /\ Fits(p, v) /\ Progress(o, p, v)
        BY <2>0, <4>1 DEF PidInv
      <4>3. Fits(p, v)'
        BY <4>1, <4>2
      <4>4. Tells(o, p, v)'
        BY <4>1, <4>2 DEF Tells
      <4>5. Progress(o, p, v)'
        BY <4>1, <4>2 DEF Progress, RowsAfter, RowsOf, Reads
      <4> QED
        BY <4>3, <4>4, <4>5
    <3> QED
      BY <3>1, <3>2
  <2>7. ASSUME \A o \in Posts : ~Holds(o, p)'
        PROVE  \E v \in Image : Fits(p, v)' /\ Reads(RowsOf(p), v)'
    <3>1. p \notin Mentions(q) /\ \A o \in Posts : ~Holds(o, p)
      BY <2>1, <2>2, <2>7
    <3>2. PICK v \in Image : Fits(p, v) /\ Reads(RowsOf(p), v)
      BY <2>0, <3>1 DEF PidInv
    <3>3. Fits(p, v)' /\ Reads(RowsOf(p), v)'
      BY <2>3, <3>1, <3>2
    <3> QED
      BY <3>3
  <2> QED
    BY <2>4, <2>5, <2>6, <2>7 DEF PidInv
<1> QED
  BY <1>1, <1>3, <1>4 DEF ProcessInv

LEMMA PostDiffKeeps == ASSUME ProcessInv, NEW r \in Posts, PostDiff(r) PROVE ProcessInv'
<1>0. diff \in Cycle /\ CycleInv /\ missed \subseteq Pids /\ post \in [Posts -> Request]
  BY DEF ProcessInv, ProcessTypes
<1>a. PICK q : q = [NewPost EXCEPT !.op = "live", !.pc = "created", !.created = diff.created, !.todo = diff.created,
                                   !.terminated = diff.terminated, !.ends = diff.terminated]
  OBVIOUS
<1>b. q = [op |-> "live", pc |-> "created", created |-> diff.created, terminated |-> diff.terminated,
           todo |-> diff.created, ends |-> diff.terminated, now |-> {}, pending |-> {}, cleared |-> {}]
  BY <1>a DEF NewPost
<1>2. q \in Request /\ q.pc = "created" /\ q.op = "live" /\ q.created = diff.created
      /\ q.todo = diff.created /\ q.ends = diff.terminated /\ q.terminated = diff.terminated
      /\ q.now = {} /\ q.pending = {} /\ q.cleared = {}
  BY <1>0, <1>b DEF Cycle, Request
<1>1. /\ diff.pc = "post" /\ post[r].pc = "new" /\ post' = [post EXCEPT ![r] = q]
      /\ diff' = [diff EXCEPT !.pc = "wait", !.call = r]
      /\ missed' = missed \cup (Mentions(q) \cap Handled(r))
      /\ UNCHANGED <<running, known, processes>>
  BY <1>a DEF PostDiff, Begin
<1>3. diff' \in Cycle /\ diff'.pc = "wait"
  BY <1>0, <1>1 DEF Cycle
<1>4. CycleInv'
  BY <1>3 DEF CycleInv
<1>5. post'[r] = q
  BY <1>0, <1>1
<1>6. Mentions(q) = Changed(diff)
  BY <1>2 DEF Mentions, Changed
<1>7. \A c \in diff.created : c \in Pairs /\ known[c[1]] = c[2] /\ c[1] \notin diff.terminated
  BY <1>0, <1>1 DEF CycleInv, Cycle
<1>8. \A c \in diff.created : c = <<c[1], known[c[1]]>> /\ c[1] \in Pids /\ c[2] \in Images
  BY <1>7 DEF Pairs
<1>9. RequestInv(r)'
  <2>1. \A c \in diff.created : c[1] \notin diff.terminated /\ \A d \in diff.created : c[1] = d[1] => c = d
    BY <1>7, <1>8
  <2> QED
    BY <2>1, <1>2, <1>5 DEF RequestInv
<1>10. Changed(diff) \subseteq Pids
  BY <1>0, <1>8 DEF Changed, Cycle
<1>11. ASSUME NEW p \in Pids \ missed', NEW v \in Image, Fits(p, v), p \notin Mentions(q) PROVE Fits(p, v)'
  BY <1>11, <1>1, <1>3, <1>6 DEF Fits, Changed
<1>12. ASSUME NEW p \in Pids \ missed', NEW v \in Image, Fits(p, v), Reads(RowsOf(p), v), p \in Mentions(q)
       PROVE  \E w \in Image : Tells(r, p, w)' /\ Fits(p, w)' /\ Progress(r, p, w)'
  <2>0. ASSUME NEW w \in Image, w = known[p] PROVE Fits(p, w)'
    BY <2>0, <1>1, <1>3 DEF Fits
  <2>1. CASE p \in diff.terminated
    <3>1. known[p] = NoImage /\ NoImage \in Image
      BY <1>0, <1>1, <2>1 DEF CycleInv, Image
    <3>4. Fits(p, NoImage)'
      BY <2>0, <3>1
    <3>2. Tells(r, p, NoImage)'
      BY <1>2, <1>5, <1>7, <2>1 DEF Tells
    <3>3. Progress(r, p, NoImage)'
      BY <1>2, <1>5, <2>1 DEF Progress
    <3> QED
      BY <3>1, <3>2, <3>3, <3>4
  <2>2. CASE p \notin diff.terminated
    <3>1. PICK c \in diff.created : c[1] = p
      BY <1>6, <1>12, <2>2 DEF Changed
    <3>2. c = <<p, known[p]>> /\ known[p] \in Images /\ known[p] # NoImage
      BY <1>8, <3>1, ProcessAssumption
    <3>a. PICK w \in Image : w = known[p]
      BY <3>2 DEF Image
    <3>3. v \in {NoImage, w}
      BY <1>12, <1>1, <2>2, <3>1, <3>a DEF Fits, Changed
    <3>4. Tells(r, p, w)'
      BY <1>2, <1>5, <3>1, <3>2, <3>a DEF Tells
    <3>5. RowsOf(p)' = RowsOf(p) /\ (Reads(RowsOf(p), NoImage) \/ Reads(RowsOf(p), w))
      BY <1>1, <1>12, <3>3 DEF RowsOf
    <3>6. Reads(RowsOf(p), NoImage)' \/ Reads(RowsOf(p), w)'
      BY <3>5 DEF Reads
    <3>7. Progress(r, p, w)'
      BY <1>2, <1>5, <3>1, <3>2, <3>6, <3>a DEF Progress
    <3>8. Fits(p, w)'
      BY <2>0, <3>a
    <3> QED
      BY <3>4, <3>7, <3>8
  <2> QED
    BY <2>1, <2>2
<1>13. missed' \subseteq Pids
  BY <1>0, <1>1, <1>6, <1>10
<1> QED
  BY <1>1, <1>2, <1>3, <1>4, <1>9, <1>11, <1>12, <1>13, BeginStep

LEMMA SendSnapshotKeeps == ASSUME ProcessInv, NEW r \in Posts, SendSnapshot(r) PROVE ProcessInv'
<1>0. /\ diff \in Cycle /\ CycleInv /\ missed \subseteq Pids /\ post \in [Posts -> Request]
      /\ running \in [Pids -> Image]
      /\ \A p \in Pids \ missed : known[p] = running[p] \/ known[p] = NoImage \/ running[p] = NoImage
  BY DEF ProcessInv, ProcessTypes, PidInv
<1>2. \A c : c \in Seen(running) <=> \E p \in Pids : running[p] # NoImage /\ c = <<p, running[p]>>
  BY DEF Seen
<1>3. Seen(running) \subseteq Pairs
  BY <1>0, <1>2 DEF Pairs, Image
<1>a. PICK q : q = [NewPost EXCEPT !.op = "snapshot", !.pc = "clear", !.created = Seen(running), !.todo = Seen(running)]
  OBVIOUS
<1>b. q = [op |-> "snapshot", pc |-> "clear", created |-> Seen(running), terminated |-> {},
           todo |-> Seen(running), ends |-> {}, now |-> {}, pending |-> {}, cleared |-> {}]
  BY <1>a DEF NewPost
<1>4. q \in Request /\ q.pc = "clear" /\ q.op = "snapshot" /\ q.created = Seen(running)
      /\ q.todo = Seen(running) /\ q.ends = {} /\ q.terminated = {}
      /\ q.now = {} /\ q.pending = {} /\ q.cleared = {}
  BY <1>3, <1>b DEF Request
<1>1. /\ post[r].pc = "new" /\ post' = [post EXCEPT ![r] = q]
      /\ missed' = missed \cup (Mentions(q) \cap Handled(r))
      /\ UNCHANGED <<running, known, processes, diff>>
  BY <1>a DEF SendSnapshot, Begin
<1>5. post'[r] = q
  BY <1>0, <1>1
<1>6. Mentions(q) = Pids
  BY <1>4 DEF Mentions
<1>7. CycleInv'
  BY <1>0, <1>1 DEF CycleInv
<1>9. RequestInv(r)'
  <2>1. \A c \in q.created : c[1] \notin q.terminated /\ \A d \in q.created : c[1] = d[1] => c = d
    BY <1>2, <1>4
  <2> QED
    BY <2>1, <1>4, <1>5 DEF RequestInv
<1>11. ASSUME NEW p \in Pids, NEW v \in Image, Fits(p, v) PROVE Fits(p, v)'
  BY <1>11, <1>1 DEF Fits, Changed
<1>12. ASSUME NEW p \in Pids \ missed'
       PROVE  \E w \in Image : Tells(r, p, w)' /\ Fits(p, w)' /\ Progress(r, p, w)'
  <2>1. Progress(r, p, running[p])'
    BY <1>4, <1>5 DEF Progress
  <2>2. running[p] \in Image /\ p \in Pids \ missed
    BY <1>0, <1>1
  <2>3. Tells(r, p, running[p])'
    <3>1. CASE running[p] = NoImage
      <4>1. \A c \in q.created : c[1] # p
        BY <1>2, <1>4, <3>1
      <4> QED
        BY <1>1, <1>5, <3>1, <4>1 DEF Tells
    <3>2. CASE running[p] # NoImage
      <4>1. <<p, running[p]>> \in q.created
        BY <1>2, <1>4, <3>2
      <4> QED
        BY <1>1, <1>5, <3>2, <4>1 DEF Tells
    <3> QED
      BY <3>1, <3>2
  <2>4. Fits(p, running[p])
    <3>1. CASE diff.pc = "post" /\ \E c \in diff.created : c[1] = p
      <4>1. PICK c \in diff.created : c[1] = p
        BY <3>1
      <4>2. known[p] \in Images
        <5>1. known[p] = c[2] /\ c \in Pairs
          BY <1>0, <3>1, <4>1 DEF CycleInv, Cycle
        <5> QED
          BY <5>1 DEF Pairs
      <4>3. running[p] \in {NoImage, known[p]}
        BY <1>0, <2>2, <4>2, ProcessAssumption
      <4> QED
        BY <3>1, <4>3 DEF Fits
    <3>2. CASE ~(diff.pc = "post" /\ \E c \in diff.created : c[1] = p)
      BY <3>2 DEF Fits, Changed
    <3> QED
      BY <3>1, <3>2
  <2>5. Fits(p, running[p])'
    BY <1>1, <2>4 DEF Fits, Changed
  <2> QED
    BY <2>1, <2>2, <2>3, <2>5, <1>1
<1>13. missed' \subseteq Pids
  BY <1>0, <1>1, <1>6
<1>14. diff' \in Cycle
  BY <1>0, <1>1
<1> QED
  BY <1>1, <1>4, <1>7, <1>9, <1>11, <1>12, <1>13, <1>14, BeginStep

\* A request changes nothing of the pids it does not hold, and goes on with,
\* or is done with, those it holds.
LEMMA BackendStep ==
    ASSUME ProcessInv, NEW r \in Posts, NEW q \in Request, post' = [post EXCEPT ![r] = q],
           UNCHANGED <<running, known, diff>>, processes' \subseteq ProcessRow, RequestInv(r)',
           missed' \subseteq Pids, missed \subseteq missed',
           \A p \in Pids \ missed' : Holds(r, p)' => Holds(r, p),
           \A p \in Pids \ missed' : ~Holds(r, p) => RowsOf(p)' = RowsOf(p),
           \A p \in Pids \ missed', v \in Image : Holds(r, p) /\ Tells(r, p, v) /\ Progress(r, p, v) =>
              \/ Holds(r, p)' /\ Tells(r, p, v)' /\ Progress(r, p, v)'
              \/ ~Holds(r, p)' /\ Reads(RowsOf(p), v)'
    PROVE  ProcessInv'
<1>0. post \in [Posts -> Request]
  BY DEF ProcessInv, ProcessTypes
<1>1. ProcessTypes' /\ CycleInv'
  BY <1>0 DEF ProcessInv, ProcessTypes, CycleInv
<1>2. post'[r] = q /\ \A o \in Posts \ {r} : post'[o] = post[o]
  BY <1>0
<1>3. ASSUME NEW o \in Posts PROVE RequestInv(o)'
  <2>1. CASE o # r
    <3>1. RequestInv(o) /\ post'[o] = post[o]
      BY <1>2, <2>1 DEF ProcessInv
    <3> QED
      BY <3>1 DEF RequestInv
  <2> QED
    BY <2>1
<1>4. ASSUME NEW p \in Pids \ missed' PROVE PidInv(p)'
  <2>0. PidInv(p)
    BY DEF ProcessInv
  <2>1. ASSUME NEW o \in Posts, o # r PROVE Holds(o, p)' <=> Holds(o, p)
    <3>1. post'[o] = post[o]
      BY <1>2, <2>1
    <3> QED
      BY <3>1 DEF Holds, Working, Mentions, Changed
  <2>2. \A v \in Image : Fits(p, v) => Fits(p, v)'
    BY DEF Fits, Changed
  <2>3. known'[p] = running'[p] \/ known'[p] = NoImage \/ running'[p] = NoImage
    BY <2>0 DEF PidInv
  <2>4. \A o, s \in Posts : Holds(o, p)' /\ Holds(s, p)' => o = s
    BY <2>0, <2>1 DEF PidInv
  <2>5. ASSUME NEW o \in Posts, Holds(o, p)'
        PROVE  \E v \in Image : Tells(o, p, v)' /\ Fits(p, v)' /\ Progress(o, p, v)'
    <3>1. CASE o = r
      <4>1. PICK v \in Image : Tells(r, p, v) /\ Fits(p, v) /\ Progress(r, p, v)
        BY <2>0, <2>5, <3>1 DEF PidInv
      <4>2. Tells(r, p, v)' /\ Progress(r, p, v)'
        BY <2>5, <3>1, <4>1
      <4>3. Fits(p, v)'
        BY <2>2, <4>1
      <4> QED
        BY <3>1, <4>2, <4>3
    <3>2. CASE o # r
      <4>1. Holds(o, p) /\ post'[o] = post[o]
        BY <1>2, <2>1, <2>5, <3>2
      <4>2. ~Holds(r, p)
        BY <2>0, <3>2, <4>1 DEF PidInv
      <4>3. RowsOf(p)' = RowsOf(p)
        BY <4>2
      <4>4. PICK v \in Image : Tells(o, p, v) /\ Fits(p, v) /\ Progress(o, p, v)
        BY <2>0, <4>1 DEF PidInv
      <4>5. Fits(p, v)'
        BY <2>2, <4>4
      <4>6. Tells(o, p, v)'
        BY <4>1, <4>4 DEF Tells
      <4>7. RowsAfter(o, p)' = RowsAfter(o, p)
        BY <4>1, <4>3 DEF RowsAfter
      <4>8. Progress(o, p, v)'
        BY <4>1, <4>3, <4>4, <4>7 DEF Progress, Reads
      <4> QED
        BY <4>5, <4>6, <4>8
    <3> QED
      BY <3>1, <3>2
  <2>6. ASSUME \A o \in Posts : ~Holds(o, p)'
        PROVE  \E v \in Image : Fits(p, v)' /\ Reads(RowsOf(p), v)'
    <3>1. CASE Holds(r, p)
      <4>1. PICK v \in Image : Tells(r, p, v) /\ Fits(p, v) /\ Progress(r, p, v)
        BY <2>0, <3>1 DEF PidInv
      <4>2. Reads(RowsOf(p), v)'
        BY <2>6, <3>1, <4>1
      <4>3. Fits(p, v)'
        BY <2>2, <4>1
      <4> QED
        BY <4>2, <4>3
    <3>2. CASE ~Holds(r, p)
      <4>1. (\A o \in Posts : ~Holds(o, p)) /\ RowsOf(p)' = RowsOf(p)
        BY <2>1, <2>6, <3>2
      <4>2. PICK v \in Image : Fits(p, v) /\ Reads(RowsOf(p), v)
        BY <2>0, <4>1 DEF PidInv
      <4>3. Reads(RowsOf(p), v)'
        BY <4>1, <4>2 DEF Reads
      <4>4. Fits(p, v)'
        BY <2>2, <4>2
      <4> QED
        BY <4>3, <4>4
    <3> QED
      BY <3>1, <3>2
  <2> QED
    BY <2>3, <2>4, <2>5, <2>6 DEF PidInv
<1> QED
  BY <1>1, <1>3, <1>4 DEF ProcessInv

\* The same of a request that goes on to q: what it was told does not change.
LEMMA BackendGoesOn ==
    ASSUME ProcessInv, NEW r \in Posts, NEW q \in Request, post' = [post EXCEPT ![r] = q], Working(r),
           q.op = post[r].op, q.created = post[r].created, q.terminated = post[r].terminated,
           q.pc \notin {"new", "failed"}, RequestInv(r)',
           UNCHANGED <<running, known, diff, missed>>, processes' \subseteq ProcessRow,
           \A p \in Pids : p \notin Mentions(post[r]) => RowsOf(p)' = RowsOf(p),
           \A p \in Pids, v \in Image : p \in Mentions(post[r]) /\ Tells(r, p, v) /\ Progress(r, p, v) =>
              IF q.pc = "done" THEN Reads(RowsOf(p), v)' ELSE Progress(r, p, v)'
    PROVE  ProcessInv'
<1>0. post \in [Posts -> Request] /\ missed \subseteq Pids
  BY DEF ProcessInv, ProcessTypes
<1>1. post'[r] = q
  BY <1>0
<1>2. ASSUME NEW p \in Pids
      PROVE  /\ Holds(r, p) <=> p \in Mentions(post[r])
             /\ Holds(r, p)' <=> Holds(r, p) /\ q.pc # "done"
             /\ \A v \in Image : Tells(r, p, v)' <=> Tells(r, p, v)
  <2>1. Holds(r, p) <=> p \in Mentions(post[r])
    BY DEF Holds
  <2>2. Mentions(post[r])' = Mentions(post[r])
    BY <1>1 DEF Mentions, Changed
  <2>3. Holds(r, p)' <=> Holds(r, p) /\ q.pc # "done"
    BY <1>1, <2>1, <2>2 DEF Holds, Working
  <2>4. \A v \in Image : Tells(r, p, v)' <=> Tells(r, p, v)
    BY <1>1 DEF Tells
  <2> QED
    BY <2>1, <2>3, <2>4
<1>3. \A p \in Pids, v \in Image : Holds(r, p) /\ Tells(r, p, v) /\ Progress(r, p, v) =>
              \/ Holds(r, p)' /\ Tells(r, p, v)' /\ Progress(r, p, v)'
              \/ ~Holds(r, p)' /\ Reads(RowsOf(p), v)'
  BY <1>2
<1>4. /\ \A p \in Pids : Holds(r, p)' => Holds(r, p)
      /\ \A p \in Pids : ~Holds(r, p) => RowsOf(p)' = RowsOf(p)
  BY <1>2
<1> QED
  BY <1>0, <1>3, <1>4, BackendStep

\* What a commit does to the rows of a pid
LEMMA CommitReads ==
    ASSUME NEW r \in Posts, NEW p \in Pids, ProcessTypes, RequestInv(r), Working(r), processes' = Committed(r)
    PROVE  /\ RowsOf(p)' = RowsAfter(r, p)
           /\ p \notin Mentions(post[r]) => RowsOf(p)' = RowsOf(p)
<1>1. RowsOf(p)' = RowsAfter(r, p)
  BY DEF RowsOf, Committed, RowsAfter
<1>2. ASSUME p \notin Mentions(post[r]) PROVE RowsAfter(r, p) = RowsOf(p)
  <2>1. post[r].op = "live"
    BY <1>2 DEF Mentions, RequestInv, ProcessTypes, Request, Working
  <2>2. post[r].cleared = {} /\ \A c \in post[r].created : c[1] # p
    BY <1>2, <2>1 DEF Mentions, Changed, RequestInv
  <2>3. {row \in post[r].pending : row.pid = p} = {}
    <3>1. \A row \in post[r].pending : <<row.pid, row.image>> \in post[r].created
      BY DEF RequestInv
    <3>2. \A row \in post[r].pending : row.pid # p
      BY <2>2, <3>1
    <3> QED
      BY <3>2
  <2> QED
    BY <2>2, <2>3 DEF RowsAfter
<1> QED
  BY <1>1, <1>2

LEMMA CommittedRows ==
    ASSUME NEW r \in Posts, ProcessTypes
    PROVE  Committed(r) \subseteq ProcessRow
BY DEF ProcessTypes, Request, Committed

\* What the request holds of a pid is not to do any more.
LEMMA PendingIsDone ==
    ASSUME NEW r \in Posts, NEW p, NEW v, RequestInv(r), <<p, v>> \in post[r].todo, post[r].op = "live"
    PROVE  RowsAfter(r, p) = RowsOf(p)
<1>1. post[r].cleared = {} /\ <<p, v>> \in post[r].created
  BY DEF RequestInv
<1>2. ASSUME NEW row \in post[r].pending PROVE row.pid # p
  <2>1. <<row.pid, row.image>> \in post[r].created /\ <<row.pid, row.image>> \notin post[r].todo
    BY DEF RequestInv
  <2>2. ASSUME row.pid = p PROVE FALSE
    <3>1. \A c, d \in post[r].created : c[1] = d[1] => c = d
      BY DEF RequestInv
    <3>2. <<row.pid, row.image>> = <<p, v>>
      BY <1>1, <2>1, <2>2, <3>1
    <3> QED
      BY <2>1, <3>2
  <2> QED
    BY <2>2
<1>3. {row \in post[r].pending : row.pid = p} = {}
  BY <1>2
<1> QED
  BY <1>1, <1>3 DEF RowsAfter

LEMMA KindOf ==
    ASSUME NEW r \in Posts, ProcessInv
    PROVE  /\ post \in [Posts -> Request] /\ post[r] \in Request /\ processes \subseteq ProcessRow
           /\ ProcessTypes /\ RequestInv(r)
           /\ post[r].pc \in {"clear", "insert"} => post[r].op = "snapshot" /\ Working(r)
           /\ post[r].pc \in {"created", "store"} => post[r].op = "live" /\ Working(r)
           /\ post[r].pc \in {"alert", "audit"} => post[r].op \in {"live", "snapshot"} /\ Working(r)
<1>1. post \in [Posts -> Request] /\ post[r] \in Request /\ processes \subseteq ProcessRow /\ RequestInv(r) /\ ProcessTypes
  BY DEF ProcessInv, ProcessTypes
<1>2. post[r].op \in {"none", "live", "snapshot"}
  BY <1>1 DEF Request
<1> QED
  BY <1>1, <1>2 DEF RequestInv, Working

\* A pid of a created process is told nothing else.
LEMMA ToldOnce ==
    ASSUME NEW r \in Posts, NEW c \in post[r].created, NEW v \in Image, RequestInv(r), Tells(r, c[1], v),
           c \in Pairs
    PROVE  c = <<c[1], v>> /\ v # NoImage /\ c[1] \notin post[r].ends
<1>1. v # NoImage /\ <<c[1], v>> \in post[r].created
  BY DEF Tells
<1>2. c[1] \notin post[r].terminated /\ \A d \in post[r].created : c[1] = d[1] => c = d
  BY DEF RequestInv
<1>3. c = <<c[1], v>>
  BY <1>1, <1>2
<1> QED
  BY <1>1, <1>2, <1>3 DEF RequestInv

LEMMA ClearKeeps == ASSUME ProcessInv, NEW r \in Posts, Clear(r) PROVE ProcessInv'
<1>0. /\ post \in [Posts -> Request] /\ post[r] \in Request /\ processes \subseteq ProcessRow
      /\ RequestInv(r) /\ post[r].op = "snapshot" /\ Working(r) /\ post[r].pc = "clear"
  BY KindOf DEF Clear
<1>1. PICK q : q = [post[r] EXCEPT !.pc = "insert", !.cleared = processes]
  OBVIOUS
<1>2. /\ post' = [post EXCEPT ![r] = q]
      /\ UNCHANGED <<running, known, diff, processes, missed>>
  BY <1>1 DEF Clear, On
<1>3. q \in Request /\ q.pc = "insert" /\ q.cleared = processes
      /\ q.op = post[r].op /\ q.created = post[r].created /\ q.terminated = post[r].terminated
      /\ q.todo = post[r].todo /\ q.ends = post[r].ends /\ q.now = post[r].now /\ q.pending = post[r].pending
  BY <1>0, <1>1 DEF Request
<1>4. post'[r] = q
  BY <1>0, <1>2
<1>5. RequestInv(r)'
  BY <1>0, <1>3, <1>4 DEF RequestInv
<1>6. ASSUME NEW p \in Pids, NEW v \in Image, Tells(r, p, v) PROVE Progress(r, p, v)'
  <2>1. q.pending = {} /\ q.todo = q.created
    BY <1>0, <1>3 DEF RequestInv
  <2>2. RowsAfter(r, p)' = {}
    BY <1>2, <1>3, <1>4, <2>1 DEF RowsAfter, RowsOf
  <2>3. v = NoImage => <<p, v>> \notin q.todo
    BY <1>3, <1>6, <2>1 DEF Tells
  <2>4. v = NoImage \/ <<p, v>> \in q.todo
    BY <1>3, <1>6, <2>1 DEF Tells
  <2>5. CASE v = NoImage
    <3>1. Reads(RowsAfter(r, p), v)'
      BY <2>2, <2>5 DEF Reads
    <3> QED
      BY <1>0, <1>3, <1>4, <2>3, <2>5, <3>1 DEF Progress
  <2>6. CASE v # NoImage
    BY <1>0, <1>3, <1>4, <2>2, <2>4, <2>6 DEF Progress
  <2> QED
    BY <2>5, <2>6
<1>7. \A p \in Pids : RowsOf(p)' = RowsOf(p)
  BY <1>2 DEF RowsOf
<1> QED
  BY <1>0, <1>2, <1>3, <1>5, <1>6, <1>7, BackendGoesOn

LEMMA InsertKeeps == ASSUME ProcessInv, NEW r \in Posts, NEW c, InsertNext(r, c) PROVE ProcessInv'
<1>0. /\ post \in [Posts -> Request] /\ post[r] \in Request /\ processes \subseteq ProcessRow
      /\ RequestInv(r) /\ post[r].op = "snapshot" /\ Working(r) /\ post[r].pc = "insert" /\ c \in post[r].todo
  BY KindOf DEF InsertNext
<1>1. PICK q : q = [post[r] EXCEPT !.todo = post[r].todo \ {c}, !.now = {c},
                                   !.pending = post[r].pending \cup {Row(r, c)},
                                   !.pc = IF c[2] \in Hostile THEN "alert" ELSE "insert"]
  OBVIOUS
<1>2. /\ post' = [post EXCEPT ![r] = q]
      /\ UNCHANGED <<running, known, diff, processes, missed>>
  BY <1>1 DEF InsertNext, On
<1>a. c \in Pairs /\ c \in post[r].created /\ Row(r, c) \in ProcessRow
      /\ Row(r, c).by = r /\ Row(r, c).pid = c[1] /\ Row(r, c).image = c[2] /\ c = <<c[1], c[2]>>
  <2>1. c \in Pairs /\ c \in post[r].created
    BY <1>0 DEF RequestInv, Request
  <2> QED
    BY <2>1 DEF Pairs, Row, ProcessRow
<1>3. q.pc \in {"alert", "insert"} /\ q.cleared = post[r].cleared
      /\ q.op = post[r].op /\ q.created = post[r].created /\ q.terminated = post[r].terminated
      /\ q.todo = post[r].todo \ {c} /\ q.ends = post[r].ends /\ q.now = {c}
      /\ q.pending = post[r].pending \cup {Row(r, c)}
  BY <1>0, <1>1 DEF Request
<1>b. q \in Request
  <2>1. /\ post[r].todo \ {c} \in SUBSET Pairs /\ {c} \in SUBSET Pairs
        /\ post[r].pending \cup {Row(r, c)} \in SUBSET ProcessRow
    BY <1>0, <1>a DEF Request
  <2>2. (IF c[2] \in Hostile THEN "alert" ELSE "insert") \in {"alert", "insert"}
    OBVIOUS
  <2> QED
    BY <1>0, <1>1, <2>1, <2>2 DEF Request
<1>4. post'[r] = q
  BY <1>0, <1>2
<1>5. RequestInv(r)'
  <2>1. \A row \in q.pending : row.by = r /\ <<row.pid, row.image>> \in q.created \ q.todo
    <3>1. \A row \in post[r].pending : row.by = r /\ <<row.pid, row.image>> \in post[r].created \ post[r].todo
      BY <1>0 DEF RequestInv
    <3> QED
      BY <1>3, <1>a, <3>1
  <2>2. q.todo \subseteq q.created /\ q.now \subseteq q.created /\ q.ends \subseteq q.terminated
    BY <1>0, <1>3, <1>a DEF RequestInv
  <2>3. \A d \in q.created : d[1] \notin q.terminated /\ \A e \in q.created : d[1] = e[1] => d = e
    BY <1>0, <1>3 DEF RequestInv
  <2> QED
    BY <1>0, <1>3, <1>4, <2>1, <2>2, <2>3 DEF RequestInv
<1>6. ASSUME NEW p \in Pids, NEW v \in Image, Tells(r, p, v), Progress(r, p, v) PROVE Progress(r, p, v)'
  <2>0. RowsOf(p)' = RowsOf(p)
    BY <1>2 DEF RowsOf
  <2>1. CASE p # c[1]
    <3>1. <<p, v>> \in q.todo <=> <<p, v>> \in post[r].todo
      BY <1>3, <2>1
    <3>2. {row \in q.pending : row.pid = p} = {row \in post[r].pending : row.pid = p}
      BY <1>3, <1>a, <2>1
    <3>3. RowsAfter(r, p)' = RowsAfter(r, p)
      BY <1>3, <1>4, <2>0, <3>2 DEF RowsAfter
    <3>4. Reads(RowsAfter(r, p), v)' <=> Reads(RowsAfter(r, p), v)
      BY <3>3 DEF Reads
    <3>5. \/ <<p, v>> \in post[r].todo /\ RowsAfter(r, p) = {}
          \/ <<p, v>> \notin post[r].todo /\ Reads(RowsAfter(r, p), v)
      BY <1>0, <1>6 DEF Progress
    <3> QED
      BY <1>0, <1>3, <1>4, <3>1, <3>3, <3>4, <3>5 DEF Progress
  <2>2. CASE p = c[1]
    <3>1. c = <<p, v>> /\ v # NoImage
      BY <1>0, <1>6, <1>a, <2>2, ToldOnce
    <3>2. RowsAfter(r, p) = {}
      BY <1>0, <1>6, <3>1 DEF Progress
    <3>3. {row \in q.pending : row.pid = p} = {row \in post[r].pending : row.pid = p} \cup {Row(r, c)}
      BY <1>3, <1>a, <2>2
    <3>4. RowsAfter(r, p)' = {Row(r, c)}
      BY <1>3, <1>4, <2>0, <3>2, <3>3 DEF RowsAfter
    <3>5. Row(r, c).image = v
      BY <1>a, <3>1
    <3>6. PICK row : row = Row(r, c)
      OBVIOUS
    <3>7. RowsAfter(r, p)' = {row} /\ row.image = v
      BY <3>4, <3>5, <3>6
    <3>8. Reads(RowsAfter(r, p), v)'
      BY <3>1, <3>7 DEF Reads
    <3>9. <<p, v>> \notin q.todo
      BY <1>3, <3>1
    <3> QED
      BY <1>0, <1>3, <1>4, <3>8, <3>9 DEF Progress
  <2> QED
    BY <2>1, <2>2
<1>7. \A p \in Pids : RowsOf(p)' = RowsOf(p)
  BY <1>2 DEF RowsOf
<1> QED
  BY <1>0, <1>2, <1>3, <1>b, <1>5, <1>6, <1>7, BackendGoesOn

\* The requests' commits: Store, AlertFinding, CommitSnapshot
LEMMA CommitKeeps ==
    ASSUME ProcessInv, NEW r \in Posts, NEW q \in Request, post' = [post EXCEPT ![r] = q], processes' = Committed(r),
           UNCHANGED <<running, known, diff, missed>>, Working(r), post[r].pc # "clear",
           q.op = post[r].op, q.created = post[r].created, q.terminated = post[r].terminated,
           q.todo = post[r].todo, q.ends = post[r].ends, q.now \subseteq post[r].now,
           q.pending = {}, q.cleared = {},
           \/ q.pc = "audit"
           \/ q.pc \in {"alert", "created"} /\ q.op = "live"
           \/ q.pc = "done" /\ q.op = "snapshot" /\ q.todo = {}
    PROVE  ProcessInv'
<1>0. /\ post \in [Posts -> Request] /\ post[r] \in Request /\ processes \subseteq ProcessRow
      /\ RequestInv(r) /\ ProcessTypes /\ processes' \subseteq ProcessRow
  BY KindOf, CommittedRows
<1>1. post'[r] = q
  BY <1>0
<1>2. RequestInv(r)'
  <2>1. q.todo \subseteq q.created /\ q.now \subseteq q.created /\ q.ends \subseteq q.terminated
    BY <1>0 DEF RequestInv
  <2>2. \A d \in q.created : d[1] \notin q.terminated /\ \A e \in q.created : d[1] = e[1] => d = e
    BY <1>0 DEF RequestInv
  <2>3. q.op = "none" => FALSE
    BY <1>0 DEF RequestInv, Working
  <2> QED
    BY <1>1, <2>1, <2>2, <2>3 DEF RequestInv
<1>3. ASSUME NEW p \in Pids
      PROVE  /\ RowsOf(p)' = RowsAfter(r, p) /\ RowsAfter(r, p)' = RowsAfter(r, p)
             /\ p \notin Mentions(post[r]) => RowsOf(p)' = RowsOf(p)
  <2>1. RowsOf(p)' = RowsAfter(r, p) /\ (p \notin Mentions(post[r]) => RowsOf(p)' = RowsOf(p))
    BY <1>0, CommitReads
  <2>2. RowsAfter(r, p)' = RowsOf(p)'
    BY <1>1 DEF RowsAfter
  <2> QED
    BY <2>1, <2>2
<1>4. ASSUME NEW p \in Pids, NEW v \in Image, Tells(r, p, v), Progress(r, p, v)
      PROVE  IF q.pc = "done" THEN Reads(RowsOf(p), v)' ELSE Progress(r, p, v)'
  <2>1. Reads(RowsAfter(r, p), v)' <=> Reads(RowsAfter(r, p), v)
    BY <1>3 DEF Reads
  <2>2. Reads(RowsOf(p), v)' <=> Reads(RowsAfter(r, p), v)
    BY <1>3 DEF Reads
  <2>3. CASE q.op = "snapshot"
    <3>1. \/ <<p, v>> \in post[r].todo /\ RowsAfter(r, p) = {}
          \/ <<p, v>> \notin post[r].todo /\ Reads(RowsAfter(r, p), v)
      BY <1>4, <2>3 DEF Progress
    <3>2. CASE q.pc = "done"
      BY <2>2, <3>1, <3>2
    <3>3. CASE q.pc # "done"
      <4>1. Progress(r, p, v)'
        BY <1>1, <1>3, <2>1, <2>3, <3>1 DEF Progress
      <4> QED
        BY <3>3, <4>1
    <3> QED
      BY <3>2, <3>3
  <2>4. CASE q.op # "snapshot"
    <3>1. q.op = "live" /\ q.pc # "done"
      BY <1>0, <2>4 DEF RequestInv, Working, Request
    <3>2. CASE v # NoImage /\ <<p, v>> \in post[r].todo /\ (Reads(RowsOf(p), NoImage) \/ Reads(RowsOf(p), v))
      <4>1. RowsOf(p)' = RowsOf(p)
        BY <1>0, <1>3, <3>1, <3>2, PendingIsDone
      <4>2. Reads(RowsOf(p), NoImage)' \/ Reads(RowsOf(p), v)'
        BY <3>2, <4>1 DEF Reads
      <4>3. Progress(r, p, v)'
        BY <1>1, <3>1, <3>2, <4>2 DEF Progress
      <4> QED
        BY <3>1, <4>3
    <3>3. CASE v = NoImage /\ p \in post[r].ends
      <4>1. Progress(r, p, v)'
        BY <1>1, <3>1, <3>3 DEF Progress
      <4> QED
        BY <3>1, <4>1
    <3>4. CASE p \notin post[r].ends /\ <<p, v>> \notin post[r].todo /\ Reads(RowsAfter(r, p), v)
      <4>1. Progress(r, p, v)'
        BY <1>1, <2>1, <3>1, <3>4 DEF Progress
      <4> QED
        BY <3>1, <4>1
    <3> QED
      BY <1>4, <3>1, <3>2, <3>3, <3>4 DEF Progress
  <2> QED
    BY <2>3, <2>4
<1>5. \A p \in Pids : p \notin Mentions(post[r]) => RowsOf(p)' = RowsOf(p)
  BY <1>3
<1>6. q.pc \notin {"new", "failed"}
  OBVIOUS
<1> QED
  BY <1>0, <1>2, <1>4, <1>5, <1>6, BackendGoesOn

LEMMA CommitsKeep ==
    ASSUME ProcessInv, NEW r \in Posts, CommitSnapshot(r) \/ Store(r) \/ AlertFinding(r)
    PROVE  ProcessInv'
<1>0. /\ post \in [Posts -> Request] /\ post[r] \in Request /\ RequestInv(r)
      /\ post[r].pc \in {"insert", "store", "alert"} /\ Working(r)
  BY KindOf DEF CommitSnapshot, Store, AlertFinding
<1>1. PICK f : f = Flushed(post[r])
  OBVIOUS
<1>2. f \in Request /\ f.pc = post[r].pc /\ f.pending = {} /\ f.cleared = {}
      /\ f.op = post[r].op /\ f.created = post[r].created /\ f.terminated = post[r].terminated
      /\ f.todo = post[r].todo /\ f.ends = post[r].ends /\ f.now = post[r].now
  BY <1>0, <1>1 DEF Flushed, Request
<1>3. ASSUME CommitSnapshot(r) PROVE ProcessInv'
  <2>1. PICK q : q = [f EXCEPT !.pc = "done", !.now = {}]
    OBVIOUS
  <2>2. post[r].op = "snapshot" /\ post[r].pc = "insert" /\ post[r].todo = {}
    BY <1>3, KindOf DEF CommitSnapshot
  <2>3. /\ post' = [post EXCEPT ![r] = q] /\ processes' = Committed(r)
        /\ UNCHANGED <<running, known, diff, missed>>
    BY <1>1, <1>3, <2>1 DEF CommitSnapshot, On
  <2>4. q \in Request /\ q.pc = "done" /\ q.pending = {} /\ q.cleared = {}
        /\ q.op = post[r].op /\ q.created = post[r].created /\ q.terminated = post[r].terminated
        /\ q.todo = post[r].todo /\ q.ends = post[r].ends /\ q.now = {}
    BY <1>2, <2>1 DEF Request
  <2> QED
    BY <1>0, <2>2, <2>3, <2>4, CommitKeeps
<1>4. ASSUME Store(r) PROVE ProcessInv'
  <2>1. PICK q : q = [f EXCEPT !.pc = AfterStore(r)]
    OBVIOUS
  <2>2. post[r].op = "live" /\ post[r].pc = "store"
    BY <1>4, KindOf DEF Store
  <2>3. /\ post' = [post EXCEPT ![r] = q] /\ processes' = Committed(r)
        /\ UNCHANGED <<running, known, diff, missed>>
    BY <1>1, <1>4, <2>1 DEF Store, On
  <2>a. AfterStore(r) \in {"alert", "created"}
    BY DEF AfterStore
  <2>4. q \in Request /\ q.pc \in {"alert", "created"} /\ q.pending = {} /\ q.cleared = {}
        /\ q.op = post[r].op /\ q.created = post[r].created /\ q.terminated = post[r].terminated
        /\ q.todo = post[r].todo /\ q.ends = post[r].ends /\ q.now = post[r].now
    BY <1>2, <2>1, <2>a DEF Request
  <2> QED
    BY <1>0, <2>2, <2>3, <2>4, CommitKeeps
<1>5. ASSUME AlertFinding(r) PROVE ProcessInv'
  <2>1. PICK q : q = [f EXCEPT !.pc = "audit"]
    OBVIOUS
  <2>2. post[r].pc = "alert"
    BY <1>5 DEF AlertFinding
  <2>3. /\ post' = [post EXCEPT ![r] = q] /\ processes' = Committed(r)
        /\ UNCHANGED <<running, known, diff, missed>>
    BY <1>1, <1>5, <2>1 DEF AlertFinding, On
  <2>4. q \in Request /\ q.pc = "audit" /\ q.pending = {} /\ q.cleared = {}
        /\ q.op = post[r].op /\ q.created = post[r].created /\ q.terminated = post[r].terminated
        /\ q.todo = post[r].todo /\ q.ends = post[r].ends /\ q.now = post[r].now
    BY <1>2, <2>1 DEF Request
  <2> QED
    BY <1>0, <2>2, <2>3, <2>4, CommitKeeps
<1> QED
  BY <1>3, <1>4, <1>5

LEMMA AuditKeeps == ASSUME ProcessInv, NEW r \in Posts, AuditFinding(r) PROVE ProcessInv'
<1>0. /\ post \in [Posts -> Request] /\ post[r] \in Request /\ RequestInv(r) /\ processes \subseteq ProcessRow
      /\ post[r].pc = "audit" /\ post[r].op \in {"live", "snapshot"} /\ Working(r)
  BY KindOf DEF AuditFinding
<1>1. PICK q : q = [post[r] EXCEPT !.pc = Next_(post[r])]
  OBVIOUS
<1>2. post' = [post EXCEPT ![r] = q] /\ UNCHANGED <<running, known, diff, missed, processes>>
  BY <1>1 DEF AuditFinding, On
<1>3. /\ post[r].op = "snapshot" => Next_(post[r]) = "insert"
      /\ post[r].op = "live" => Next_(post[r]) = "created"
  BY DEF Next_
<1>4. q \in Request /\ q.pc = Next_(post[r]) /\ q.pending = post[r].pending /\ q.cleared = post[r].cleared
      /\ q.op = post[r].op /\ q.created = post[r].created /\ q.terminated = post[r].terminated
      /\ q.todo = post[r].todo /\ q.ends = post[r].ends /\ q.now = post[r].now
  BY <1>0, <1>1, <1>3 DEF Request
<1>5. post'[r] = q
  BY <1>0, <1>2
<1>6. RequestInv(r)'
  BY <1>0, <1>3, <1>4, <1>5 DEF RequestInv
<1>7. ASSUME NEW p \in Pids, NEW v \in Image, Progress(r, p, v) PROVE Progress(r, p, v)'
  <2>1. RowsOf(p)' = RowsOf(p) /\ RowsAfter(r, p)' = RowsAfter(r, p)
    BY <1>2, <1>4, <1>5 DEF RowsOf, RowsAfter
  <2>2. /\ Reads(RowsOf(p), v)' <=> Reads(RowsOf(p), v)
        /\ Reads(RowsOf(p), NoImage)' <=> Reads(RowsOf(p), NoImage)
        /\ Reads(RowsAfter(r, p), v)' <=> Reads(RowsAfter(r, p), v)
    BY <2>1 DEF Reads
  <2> QED
    BY <1>0, <1>4, <1>5, <1>7, <2>1, <2>2 DEF Progress
<1>8. \A p \in Pids : RowsOf(p)' = RowsOf(p)
  BY <1>2 DEF RowsOf
<1> QED
  BY <1>0, <1>2, <1>3, <1>4, <1>6, <1>7, <1>8, BackendGoesOn

LEMMA LookUpKeeps == ASSUME ProcessInv, NEW r \in Posts, NEW c, LookUp(r, c) PROVE ProcessInv'
<1>0. /\ post \in [Posts -> Request] /\ post[r] \in Request /\ processes \subseteq ProcessRow
      /\ RequestInv(r) /\ post[r].op = "live" /\ Working(r) /\ post[r].pc = "created" /\ c \in post[r].todo
  BY KindOf DEF LookUp
<1>1. PICK held : held = IF Found(c[1]) THEN {} ELSE {Row(r, c)}
  OBVIOUS
<1>2. PICK at : at = IF ~Found(c[1]) THEN "store" ELSE IF c[2] \in Hostile THEN "alert" ELSE "created"
  OBVIOUS
<1>3. PICK q : q = [post[r] EXCEPT !.todo = post[r].todo \ {c}, !.now = {c}, !.pending = held, !.pc = at]
  OBVIOUS
<1>4. /\ post' = [post EXCEPT ![r] = q]
      /\ UNCHANGED <<running, known, diff, processes, missed>>
  BY <1>1, <1>2, <1>3 DEF LookUp, On
<1>a. c \in Pairs /\ c \in post[r].created /\ Row(r, c) \in ProcessRow
      /\ Row(r, c).by = r /\ Row(r, c).pid = c[1] /\ Row(r, c).image = c[2] /\ c = <<c[1], c[2]>>
  <2>1. c \in Pairs /\ c \in post[r].created
    BY <1>0 DEF RequestInv, Request
  <2> QED
    BY <2>1 DEF Pairs, Row, ProcessRow
<1>b. /\ held \in {{}, {Row(r, c)}} /\ (Found(c[1]) => held = {}) /\ (~Found(c[1]) => held = {Row(r, c)})
      /\ at \in {"store", "alert", "created"} /\ (~Found(c[1]) => at = "store")
  BY <1>1, <1>2
<1>c. held \in SUBSET ProcessRow
  BY <1>a, <1>b
<1>5. q.pc = at /\ q.cleared = post[r].cleared
      /\ q.op = post[r].op /\ q.created = post[r].created /\ q.terminated = post[r].terminated
      /\ q.todo = post[r].todo \ {c} /\ q.ends = post[r].ends /\ q.now = {c} /\ q.pending = held
  BY <1>0, <1>3 DEF Request
<1>6. q \in Request
  <2>1. post[r].todo \ {c} \in SUBSET Pairs /\ {c} \in SUBSET Pairs
    BY <1>0, <1>a DEF Request
  <2> QED
    BY <1>0, <1>3, <1>b, <1>c, <2>1 DEF Request
<1>7. post'[r] = q
  BY <1>0, <1>4
<1>8. RequestInv(r)'
  <2>1. \A row \in q.pending : row.by = r /\ <<row.pid, row.image>> \in q.created \ q.todo
    BY <1>5, <1>a, <1>b
  <2>2. q.todo \subseteq q.created /\ q.now \subseteq q.created /\ q.ends \subseteq q.terminated
    BY <1>0, <1>5, <1>a DEF RequestInv
  <2>3. \A d \in q.created : d[1] \notin q.terminated /\ \A e \in q.created : d[1] = e[1] => d = e
    BY <1>0, <1>5 DEF RequestInv
  <2>4. at = "created" => q.pending = {}
    BY <1>5, <1>b
  <2>5. q.cleared = {}
    BY <1>0, <1>5 DEF RequestInv
  <2> QED
    BY <1>0, <1>5, <1>7, <1>b, <2>1, <2>2, <2>3, <2>4, <2>5 DEF RequestInv
<1>9. ASSUME NEW p \in Pids, NEW v \in Image, Tells(r, p, v), Progress(r, p, v) PROVE Progress(r, p, v)'
  <2>0. RowsOf(p)' = RowsOf(p) /\ post[r].pending = {} /\ post[r].cleared = {} /\ RowsAfter(r, p) = RowsOf(p)
    BY <1>0, <1>4 DEF RowsOf, RequestInv, RowsAfter
  <2>2. /\ Reads(RowsOf(p), v)' <=> Reads(RowsOf(p), v)
        /\ Reads(RowsOf(p), NoImage)' <=> Reads(RowsOf(p), NoImage)
    BY <2>0 DEF Reads
  <2>3. \/ v = NoImage /\ p \in post[r].ends
        \/ v # NoImage /\ <<p, v>> \in post[r].todo /\ (Reads(RowsOf(p), NoImage) \/ Reads(RowsOf(p), v))
        \/ p \notin post[r].ends /\ <<p, v>> \notin post[r].todo /\ Reads(RowsOf(p), v)
    BY <1>0, <1>9, <2>0 DEF Progress
  <2>4. RowsAfter(r, p)' = RowsOf(p) \cup {row \in held : row.pid = p}
    BY <1>5, <1>7, <2>0 DEF RowsAfter
  <2>5. CASE p # c[1]
    <3>1. <<p, v>> \in q.todo <=> <<p, v>> \in post[r].todo
      BY <1>5, <2>5
    <3>2. {row \in held : row.pid = p} = {}
      BY <1>a, <1>b, <2>5
    <3>3. RowsAfter(r, p)' = RowsOf(p)
      BY <2>4, <3>2
    <3>4. Reads(RowsAfter(r, p), v)' <=> Reads(RowsOf(p), v)
      BY <3>3 DEF Reads
    <3> QED
      BY <1>0, <1>5, <1>7, <2>2, <2>3, <3>1, <3>4 DEF Progress
  <2>6. CASE p = c[1]
    <3>1. c = <<p, v>> /\ v # NoImage /\ p \notin post[r].ends
      BY <1>0, <1>9, <1>a, <2>6, ToldOnce
    <3>2. Reads(RowsOf(p), NoImage) \/ Reads(RowsOf(p), v)
      BY <1>0, <2>3, <3>1
    <3>3. Reads(RowsAfter(r, p), v)'
      <4>1. CASE RowsOf(p) = {}
        <5>1. held = {Row(r, c)}
          BY <1>b, <2>6, <4>1 DEF Found
        <5>2. RowsAfter(r, p)' = {Row(r, c)}
          BY <1>a, <2>4, <2>6, <4>1, <5>1
        <5>3. PICK row : row = Row(r, c)
          OBVIOUS
        <5>4. RowsAfter(r, p)' = {row} /\ row.image = v
          BY <1>a, <3>1, <5>2, <5>3
        <5> QED
          BY <3>1, <5>4 DEF Reads
      <4>2. CASE RowsOf(p) # {}
        <5>1. held = {} /\ Reads(RowsOf(p), v)
          BY <1>b, <2>6, <3>2, <4>2 DEF Found, Reads
        <5>2. RowsAfter(r, p)' = RowsOf(p)
          BY <2>4, <5>1
        <5> QED
          BY <5>1, <5>2 DEF Reads
      <4> QED
        BY <4>1, <4>2
    <3>4. <<p, v>> \notin q.todo /\ p \notin q.ends
      BY <1>5, <3>1
    <3> QED
      BY <1>0, <1>5, <1>7, <3>3, <3>4 DEF Progress
  <2> QED
    BY <2>5, <2>6
<1>10. \A p \in Pids : RowsOf(p)' = RowsOf(p)
  BY <1>4 DEF RowsOf
<1> QED
  BY <1>0, <1>4, <1>5, <1>6, <1>b, <1>8, <1>9, <1>10, BackendGoesOn

LEMMA TerminateKeeps == ASSUME ProcessInv, NEW r \in Posts, NEW e \in post[r].ends, Terminate(r, e) PROVE ProcessInv'
<1>0. /\ post \in [Posts -> Request] /\ post[r] \in Request /\ processes \subseteq ProcessRow
      /\ RequestInv(r) /\ post[r].op = "live" /\ Working(r) /\ post[r].pc = "created" /\ post[r].todo = {}
  BY KindOf DEF Terminate
<1>1. PICK q : q = [post[r] EXCEPT !.ends = post[r].ends \ {e}]
  OBVIOUS
<1>2. /\ post' = [post EXCEPT ![r] = q] /\ processes' = processes \ RowsOf(e)
      /\ UNCHANGED <<running, known, diff, missed>>
  BY <1>1 DEF Terminate, On
<1>3. q \in Request /\ q.pc = "created" /\ q.cleared = post[r].cleared
      /\ q.op = post[r].op /\ q.created = post[r].created /\ q.terminated = post[r].terminated
      /\ q.todo = post[r].todo /\ q.ends = post[r].ends \ {e} /\ q.now = post[r].now /\ q.pending = post[r].pending
  BY <1>0, <1>1 DEF Request
<1>4. post'[r] = q
  BY <1>0, <1>2
<1>5. RequestInv(r)'
  BY <1>0, <1>3, <1>4 DEF RequestInv
<1>6. e \in post[r].terminated /\ (\A c \in post[r].created : c[1] # e) /\ post[r].pending = {} /\ post[r].cleared = {}
  BY <1>0 DEF RequestInv
<1>7. ASSUME NEW p \in Pids, p # e PROVE RowsOf(p)' = RowsOf(p)
  BY <1>2, <1>7 DEF RowsOf
<1>8. RowsOf(e)' = {}
  BY <1>2 DEF RowsOf
<1>9. ASSUME NEW p \in Pids PROVE RowsAfter(r, p)' = RowsOf(p)' /\ RowsAfter(r, p) = RowsOf(p)
  BY <1>3, <1>4, <1>6 DEF RowsAfter
<1>10. ASSUME NEW p \in Pids, NEW v \in Image, Tells(r, p, v), Progress(r, p, v) PROVE Progress(r, p, v)'
  <2>1. CASE p = e
    <3>1. v = NoImage
      <4>1. <<p, v>> \notin post[r].created
        BY <1>6, <2>1
      <4> QED
        BY <1>10, <4>1 DEF Tells
    <3>2. Reads(RowsAfter(r, p), v)'
      BY <1>8, <1>9, <2>1, <3>1 DEF Reads
    <3> QED
      BY <1>0, <1>3, <1>4, <2>1, <3>2 DEF Progress
  <2>2. CASE p # e
    <3>1. Reads(RowsAfter(r, p), v)' <=> Reads(RowsAfter(r, p), v)
      BY <1>7, <1>9, <2>2 DEF Reads
    <3> QED
      BY <1>0, <1>3, <1>4, <1>10, <2>2, <3>1 DEF Progress
  <2> QED
    BY <2>1, <2>2
<1>11. \A p \in Pids : p \notin Mentions(post[r]) => RowsOf(p)' = RowsOf(p)
  BY <1>0, <1>6, <1>7 DEF Mentions, Changed
<1>12. processes' \subseteq ProcessRow
  BY <1>0, <1>2
<1> QED
  BY <1>0, <1>2, <1>3, <1>5, <1>10, <1>11, <1>12, BackendGoesOn

LEMMA FinishKeeps == ASSUME ProcessInv, NEW r \in Posts, FinishDiff(r) PROVE ProcessInv'
<1>0. /\ post \in [Posts -> Request] /\ post[r] \in Request /\ processes \subseteq ProcessRow
      /\ RequestInv(r) /\ post[r].op = "live" /\ Working(r) /\ post[r].pc = "created"
      /\ post[r].todo = {} /\ post[r].ends = {}
  BY KindOf DEF FinishDiff
<1>1. PICK q : q = [post[r] EXCEPT !.pc = "done", !.now = {}]
  OBVIOUS
<1>2. /\ post' = [post EXCEPT ![r] = q] /\ UNCHANGED <<running, known, diff, missed, processes>>
  BY <1>1 DEF FinishDiff, On
<1>3. q \in Request /\ q.pc = "done" /\ q.cleared = post[r].cleared
      /\ q.op = post[r].op /\ q.created = post[r].created /\ q.terminated = post[r].terminated
      /\ q.todo = post[r].todo /\ q.ends = post[r].ends /\ q.now = {} /\ q.pending = post[r].pending
  BY <1>0, <1>1 DEF Request
<1>4. post'[r] = q
  BY <1>0, <1>2
<1>5. RequestInv(r)'
  BY <1>0, <1>3, <1>4 DEF RequestInv
<1>6. \A p \in Pids : RowsOf(p)' = RowsOf(p)
  BY <1>2 DEF RowsOf
<1>7. ASSUME NEW p \in Pids, NEW v \in Image, Progress(r, p, v) PROVE Reads(RowsOf(p), v)'
  <2>1. RowsAfter(r, p) = RowsOf(p)
    BY <1>0 DEF RowsAfter, RequestInv
  <2>2. Reads(RowsOf(p), v)
    BY <1>0, <1>7, <2>1 DEF Progress
  <2> QED
    BY <1>6, <2>2 DEF Reads
<1> QED
  BY <1>0, <1>2, <1>3, <1>5, <1>6, <1>7, BackendGoesOn

LEMMA FailsKeeps == ASSUME ProcessInv, NEW r \in Posts, Fails(r) PROVE ProcessInv'
<1>0. /\ post \in [Posts -> Request] /\ post[r] \in Request /\ processes \subseteq ProcessRow /\ missed \subseteq Pids
  BY KindOf DEF ProcessInv, ProcessTypes
<1>1. PICK q : q = [NewPost EXCEPT !.pc = "failed"]
  OBVIOUS
<1>2. /\ post' = [post EXCEPT ![r] = q] /\ missed' = missed \cup Mentions(post[r])
      /\ UNCHANGED <<running, known, diff, processes>>
  BY <1>1 DEF Fails
<1>3. q = [op |-> "none", pc |-> "failed", created |-> {}, terminated |-> {},
           todo |-> {}, ends |-> {}, now |-> {}, pending |-> {}, cleared |-> {}]
  BY <1>1 DEF NewPost
<1>4. q \in Request /\ q.op = "none" /\ q.pc = "failed" /\ q.created = {} /\ q.terminated = {} /\ q.todo = {}
      /\ q.ends = {} /\ q.now = {} /\ q.pending = {} /\ q.cleared = {}
  BY <1>3 DEF Request
<1>5. post'[r] = q
  BY <1>0, <1>2
<1>6. RequestInv(r)'
  BY <1>4, <1>5 DEF RequestInv
<1>7. Mentions(post[r]) \subseteq Pids
  <2>1. \A c \in post[r].created : c[1] \in Pids
    BY <1>0 DEF Request, Pairs
  <2> QED
    BY <1>0, <2>1 DEF Mentions, Changed, Request
<1>8. \A p \in Pids \ missed' : ~Holds(r, p) /\ ~Holds(r, p)'
  BY <1>2, <1>4, <1>5 DEF Holds, Working
<1>9. \A p \in Pids : RowsOf(p)' = RowsOf(p)
  BY <1>2 DEF RowsOf
<1>10. missed' \subseteq Pids /\ missed \subseteq missed'
  BY <1>0, <1>2, <1>7
<1> QED
  BY <1>0, <1>2, <1>4, <1>6, <1>8, <1>9, <1>10, BackendStep

LEMMA ProcessStart == ProcessInit => ProcessInv
<1> SUFFICES ASSUME ProcessInit PROVE ProcessInv
  OBVIOUS
<1>1. /\ running \in [Pids -> Image] /\ known = [p \in Pids |-> NoImage]
      /\ diff = IdleDiff /\ post = [r \in Posts |-> NewPost] /\ processes = {} /\ missed = {}
  BY DEF ProcessInit, Image
<1>2. NewPost \in Request /\ IdleDiff \in Cycle /\ NoImage \in Image
  BY DEF NewPost, Request, IdleDiff, Cycle, Image
<1>3. ProcessTypes
  BY <1>1, <1>2 DEF ProcessTypes
<1>4. CycleInv
  BY <1>1 DEF CycleInv, IdleDiff
<1>5. ASSUME NEW r \in Posts PROVE RequestInv(r)
  BY <1>1 DEF RequestInv, NewPost
<1>6. ASSUME NEW p \in Pids PROVE PidInv(p)
  <2>1. \A r \in Posts : ~Holds(r, p)
    BY <1>1 DEF Holds, Working, NewPost
  <2>2. Fits(p, NoImage)
    BY <1>1 DEF Fits, IdleDiff
  <2>3. Reads(RowsOf(p), NoImage)
    BY <1>1 DEF Reads, RowsOf
  <2> QED
    BY <1>1, <1>2, <2>1, <2>2, <2>3 DEF PidInv
<1> QED
  BY <1>3, <1>4, <1>5, <1>6 DEF ProcessInv

LEMMA ProcessInductive == ProcessInv /\ [ProcessNext]_processVars => ProcessInv'
<1> SUFFICES ASSUME ProcessInv, [ProcessNext]_processVars PROVE ProcessInv'
  OBVIOUS
<1>1. CASE UNCHANGED processVars
  <2>1. UNCHANGED <<running, known, diff, post, processes, missed>>
    BY <1>1 DEF processVars
  <2>2. /\ running \in [Pids -> Image] /\ known \in [Pids -> Image] /\ diff \in Cycle /\ missed \subseteq Pids /\ CycleInv
        /\ \A p \in Pids \ missed : known[p] = running[p] \/ known[p] = NoImage \/ running[p] = NoImage
    BY DEF ProcessInv, ProcessTypes, PidInv
  <2>3. \A p \in Pids : \A v \in Image : Fits(p, v) => Fits(p, v)'
    BY <2>1 DEF Fits, Changed
  <2>4. CycleInv'
    BY <2>1, <2>2 DEF CycleInv
  <2> QED
    BY <2>1, <2>2, <2>3, <2>4, EndpointKeeps
<1>2. ASSUME NEW r \in Posts, Backend(r) PROVE ProcessInv'
  <2>1. ASSUME NEW c, InsertNext(r, c) \/ LookUp(r, c) PROVE ProcessInv'
    BY <2>1, InsertKeeps, LookUpKeeps
  <2>2. ASSUME NEW e \in post[r].ends, Terminate(r, e) PROVE ProcessInv'
    BY <2>2, TerminateKeeps
  <2> QED
    BY <1>2, <2>1, <2>2, ClearKeeps, CommitsKeep, AuditKeeps, FinishKeeps, FailsKeeps DEF Backend
<1> QED
  BY <1>1, <1>2, EndpointActs, PostDiffKeeps, SendSnapshotKeeps DEF ProcessNext

LEMMA ProcessHolds == ProcessSpec => []ProcessInv
BY ProcessStart, ProcessInductive, PTL DEF ProcessSpec

(* The inventory's variables keep their types.                               *)
THEOREM ProcessTypeCorrect == ProcessSpec => []ProcessTypeOK
<1>1. ProcessInv => ProcessTypeOK
  BY DEF ProcessInv, ProcessTypes, ProcessTypeOK, Image, Cycle, ProcessRow, Request
<1> QED
  BY <1>1, ProcessHolds, PTL

(* Once the monitor has seen what runs and the backend is done with what was
   posted, the device's rows are the running processes, except where a pid was
   reused between two polls, was skipped by the policy, was in a post that was
   lost or failed, or was handled by two requests at a time.                 *)
THEOREM InventoryHolds == ProcessSpec => []InventoryAgrees
<1>1. ProcessInv => InventoryAgrees
  <2> SUFFICES ASSUME ProcessInv, diff.pc = "idle", known = running, \A r \in Posts : ~Working(r),
                      NEW p \in Pids \ missed
               PROVE  IF running[p] = NoImage THEN RowsOf(p) = {}
                      ELSE \E row \in processes : RowsOf(p) = {row} /\ row.image = running[p]
    BY DEF InventoryAgrees
  <2>1. \A r \in Posts : ~Holds(r, p)
    BY DEF Holds
  <2>2. PICK v \in Image : Fits(p, v) /\ Reads(RowsOf(p), v)
    BY <2>1 DEF ProcessInv, PidInv
  <2>3. v = running[p]
    BY <2>2 DEF Fits
  <2> QED
    BY <2>2, <2>3 DEF Reads, RowsOf
<1> QED
  BY <1>1, ProcessHolds, PTL

-----------------------------------------------------------------------------
(* The incidents.                                                            *)

Entry == [e : Events, by : Sequels]
Incident == [device : Devices, id : CorrIds, events : Seq(Entry), updated : Nat,
             severity : {"HIGH", "CRITICAL"}, root : {"UNKNOWN", "USB", "PROCESS"}]
Sequence == [pc : {"looking", "opening", "joining", "storing", "stored", "failed"},
             device : Devices, id : CorrIds, todo : Seq(Events), found : Nat]

IncidentTypes ==
    /\ incidents \in Seq(Incident) /\ (\A i \in DOMAIN incidents : incidents[i].updated <= time)
    /\ active \in [Devices -> 0..Len(incidents)] /\ registered \in [CorrIds -> 0..Len(incidents)]
    /\ sequel \in [Sequels -> Sequence \cup {NewSequel}]
    /\ logs \subseteq Sequels /\ time \in Nat
    /\ overlaps \in [Devices -> Nat] /\ expiries \in [Devices -> Nat]

\* What a request is about to join is of its id or of its device.
Joins(i, s) == incidents[i].id = sequel[s].id \/ incidents[i].device = sequel[s].device
SequelInv(s) ==
    /\ sequel[s].pc \in {"looking", "opening", "joining"} => sequel[s].todo # << >>
    /\ sequel[s].pc = "joining" => sequel[s].found \in DOMAIN incidents /\ Joins(sequel[s].found, s)

\* The events of an incident are of requests that had a reason to join it.
Joining(i) == \A j \in DOMAIN incidents[i].events :
                 LET s == incidents[i].events[j].by IN sequel[s].pc # "new" /\ Joins(i, s)

RegisteredInv(c) == registered[c] # 0 => incidents[registered[c]].id = c

\* A device is known by its newest incident; those it has and those that requests
\* are opening are one and one more for each look-up that missed a recent one.
OwnIncidents(d) == {i \in DOMAIN incidents : incidents[i].device = d}
Openers(d) == {s \in Sequels : Opens(s, d)}
DeviceInv(d) ==
    /\ active[d] = 0 => OwnIncidents(d) = {}
    /\ active[d] # 0 => active[d] \in OwnIncidents(d) /\ \A i \in OwnIncidents(d) : i <= active[d]
    /\ IsFiniteSet(OwnIncidents(d)) /\ IsFiniteSet(Openers(d))
    /\ Cardinality(OwnIncidents(d)) + Cardinality(Openers(d)) <= 1 + expiries[d] + overlaps[d]

IncidentInv ==
    /\ IncidentTypes /\ (\A s \in Sequels : SequelInv(s)) /\ (\A i \in DOMAIN incidents : Joining(i))
    /\ (\A c \in CorrIds : RegisteredInv(c)) /\ \A d \in Devices : DeviceInv(d)

-----------------------------------------------------------------------------

\* One more, and one less
LEMMA OneMore ==
    ASSUME NEW S, NEW T, NEW x, IsFiniteSet(S), x \notin S, T = S \cup {x}
    PROVE  IsFiniteSet(T) /\ Cardinality(T) = Cardinality(S) + 1
BY FS_AddElement

LEMMA OneLess ==
    ASSUME NEW S, NEW T, NEW x, IsFiniteSet(S), x \in S, T = S \ {x}
    PROVE  IsFiniteSet(T) /\ Cardinality(T) = Cardinality(S) - 1
BY FS_RemoveElement

\* A step that opens and joins no incident.
LEMMA RequestSteps ==
    ASSUME IncidentInv, UNCHANGED <<incidents, active, registered>>, NEW s \in Sequels,
           \A o \in Sequels \ {s} : sequel'[o] = sequel[o],
           sequel' \in [Sequels -> Sequence \cup {NewSequel}], SequelInv(s)',
           sequel'[s].pc # "new", sequel[s].pc # "new" => sequel'[s].id = sequel[s].id /\ sequel'[s].device = sequel[s].device,
           logs' \subseteq Sequels, time' \in Nat, time <= time',
           overlaps' \in [Devices -> Nat], expiries' \in [Devices -> Nat],
           \A d \in Devices : /\ IsFiniteSet(Openers(d)')
                              /\ Cardinality(OwnIncidents(d)) + Cardinality(Openers(d)') <= 1 + expiries'[d] + overlaps'[d]
    PROVE  IncidentInv'
<1>1. IncidentTypes'
  <2>0. \A i \in DOMAIN incidents : incidents[i] \in Incident
    BY DEF IncidentInv, IncidentTypes
  <2>1. \A i \in DOMAIN incidents : incidents[i].updated <= time /\ incidents[i].updated \in Nat /\ time \in Nat
    BY <2>0 DEF IncidentInv, IncidentTypes, Incident
  <2>2. \A i \in DOMAIN incidents' : incidents'[i].updated <= time'
    BY <2>1
  <2> QED
    BY <2>2 DEF IncidentInv, IncidentTypes
<1>2. ASSUME NEW o \in Sequels PROVE SequelInv(o)'
  <2>1. CASE o # s
    <3>1. SequelInv(o) /\ sequel'[o] = sequel[o]
      BY <2>1 DEF IncidentInv
    <3> QED
      BY <3>1 DEF SequelInv, Joins
  <2> QED
    BY <2>1
<1>3. ASSUME NEW i \in DOMAIN incidents' PROVE Joining(i)'
  <2>1. ASSUME NEW j \in DOMAIN incidents[i].events
        PROVE  LET o == incidents[i].events[j].by IN sequel'[o].pc # "new" /\ Joins(i, o)'
    <3> DEFINE o == incidents[i].events[j].by
    <3>1. sequel[o].pc # "new" /\ Joins(i, o)
      BY DEF IncidentInv, Joining
    <3>2. o \in Sequels
      <4>1. incidents[i] \in Incident
        BY DEF IncidentInv, IncidentTypes
      <4>2. incidents[i].events \in Seq(Entry)
        BY <4>1 DEF Incident
      <4>3. incidents[i].events[j] \in Entry
        BY <4>2
      <4> QED
        BY <4>3 DEF Entry
    <3> HIDE DEF o
    <3>3. sequel'[o].pc # "new" /\ sequel'[o].id = sequel[o].id /\ sequel'[o].device = sequel[o].device
      BY <3>1, <3>2
    <3>4. incidents'[i].id = sequel'[o].id \/ incidents'[i].device = sequel'[o].device
      BY <3>1, <3>3 DEF Joins
    <3> QED
      BY <3>3, <3>4 DEF Joins, o
  <2> QED
    BY <2>1 DEF Joining, Joins
<1>4. ASSUME NEW c \in CorrIds PROVE RegisteredInv(c)'
  BY DEF IncidentInv, RegisteredInv
<1>5. ASSUME NEW d \in Devices PROVE DeviceInv(d)'
  <2>1. DeviceInv(d)
    BY DEF IncidentInv
  <2>2. OwnIncidents(d)' = OwnIncidents(d)
    BY DEF OwnIncidents
  <2> QED
    BY <2>1, <2>2 DEF DeviceInv
<1> QED
  BY <1>1, <1>2, <1>3, <1>4, <1>5 DEF IncidentInv

\* A request that neither was nor gets about to open leaves the openers.
LEMMA OpenersStay ==
    ASSUME NEW s \in Sequels, NEW d \in Devices, \A o \in Sequels \ {s} : sequel'[o] = sequel[o],
           sequel[s].pc # "opening", sequel'[s].pc # "opening"
    PROVE  Openers(d)' = Openers(d)
<1>1. \A o \in Sequels : Opens(o, d)' <=> Opens(o, d)
  BY DEF Opens, AtSequel
<1> QED
  BY <1>1 DEF Openers

LEMMA PostKeeps == ASSUME IncidentInv, NEW s \in Sequels, PostSequel(s) PROVE IncidentInv'
<1>0. /\ sequel \in [Sequels -> Sequence \cup {NewSequel}] /\ logs \subseteq Sequels /\ time \in Nat
      /\ overlaps \in [Devices -> Nat] /\ expiries \in [Devices -> Nat]
      /\ \A d \in Devices : DeviceInv(d)
  BY DEF IncidentInv, IncidentTypes
<1>1. PICK d \in Devices, c \in CorrIds, batch \in [1..SequelLength -> Events] :
         sequel' = [sequel EXCEPT ![s] = [pc |-> "looking", device |-> d, id |-> c, todo |-> batch, found |-> 0]]
  BY DEF PostSequel, ToSequel
<1>2. sequel[s].pc = "new" /\ UNCHANGED <<incidents, active, registered, logs, time, overlaps, expiries>>
  BY DEF PostSequel, AtSequel
<1>3. batch \in Seq(Events) /\ batch # << >>
  BY IncidentAssumption
<1>4. PICK q : q = [pc |-> "looking", device |-> d, id |-> c, todo |-> batch, found |-> 0]
  OBVIOUS
<1>5. q \in Sequence /\ q.pc = "looking" /\ q.todo # << >>
  BY <1>3, <1>4 DEF Sequence
<1>6. sequel'[s] = q /\ (\A o \in Sequels \ {s} : sequel'[o] = sequel[o]) /\ sequel' \in [Sequels -> Sequence \cup {NewSequel}]
  BY <1>0, <1>1, <1>4, <1>5
<1>7. SequelInv(s)'
  BY <1>5, <1>6 DEF SequelInv
<1>8. \A e \in Devices : Openers(e)' = Openers(e)
  BY <1>2, <1>5, <1>6, OpenersStay
<1>9. \A e \in Devices : /\ IsFiniteSet(Openers(e)')
                         /\ Cardinality(OwnIncidents(e)) + Cardinality(Openers(e)') <= 1 + expiries'[e] + overlaps'[e]
  BY <1>0, <1>2, <1>8 DEF DeviceInv
<1>10. time <= time'
  BY <1>0, <1>2
<1> QED
  BY <1>0, <1>2, <1>5, <1>6, <1>7, <1>9, <1>10, RequestSteps

LEMMA EndsKeep == ASSUME IncidentInv, NEW s \in Sequels, StoreLogs(s) \/ LoseLogs(s) PROVE IncidentInv'
<1>0. /\ sequel \in [Sequels -> Sequence \cup {NewSequel}] /\ logs \subseteq Sequels /\ time \in Nat
      /\ overlaps \in [Devices -> Nat] /\ expiries \in [Devices -> Nat]
      /\ \A d \in Devices : DeviceInv(d)
  BY DEF IncidentInv, IncidentTypes
<1>1. PICK pc \in {"stored", "failed"} : sequel' = [sequel EXCEPT ![s] = [sequel[s] EXCEPT !.pc = pc]]
  BY DEF StoreLogs, LoseLogs, ToSequel
<1>2. sequel[s].pc = "storing" /\ UNCHANGED <<incidents, active, registered, time, overlaps, expiries>> /\ logs' \subseteq Sequels
  BY <1>0 DEF StoreLogs, LoseLogs, AtSequel
<1>3. sequel[s] \in Sequence
  BY <1>0, <1>2 DEF NewSequel
<1>4. PICK q : q = [sequel[s] EXCEPT !.pc = pc]
  OBVIOUS
<1>5. q \in Sequence /\ q.pc \in {"stored", "failed"} /\ q.id = sequel[s].id /\ q.device = sequel[s].device
  BY <1>3, <1>4 DEF Sequence
<1>6. sequel'[s] = q /\ (\A o \in Sequels \ {s} : sequel'[o] = sequel[o]) /\ sequel' \in [Sequels -> Sequence \cup {NewSequel}]
  BY <1>0, <1>1, <1>4, <1>5
<1>7. SequelInv(s)'
  BY <1>5, <1>6 DEF SequelInv
<1>8. \A e \in Devices : Openers(e)' = Openers(e)
  BY <1>2, <1>5, <1>6, OpenersStay
<1>9. \A e \in Devices : /\ IsFiniteSet(Openers(e)')
                         /\ Cardinality(OwnIncidents(e)) + Cardinality(Openers(e)') <= 1 + expiries'[e] + overlaps'[e]
  BY <1>0, <1>2, <1>8 DEF DeviceInv
<1>10. time <= time' /\ time' \in Nat
  BY <1>0, <1>2
<1> QED
  BY <1>0, <1>2, <1>5, <1>6, <1>7, <1>9, <1>10, RequestSteps

LEMMA CorrelateKeeps == ASSUME IncidentInv, NEW s \in Sequels, Correlate(s) PROVE IncidentInv'
<1>0. /\ sequel \in [Sequels -> Sequence \cup {NewSequel}] /\ logs \subseteq Sequels /\ time \in Nat
      /\ overlaps \in [Devices -> Nat] /\ expiries \in [Devices -> Nat] /\ incidents \in Seq(Incident)
      /\ active \in [Devices -> 0..Len(incidents)] /\ registered \in [CorrIds -> 0..Len(incidents)]
      /\ \A d \in Devices : DeviceInv(d)
      /\ \A c \in CorrIds : RegisteredInv(c)
      /\ \A i \in DOMAIN incidents : incidents[i].updated <= time
      /\ SequelInv(s)
  BY DEF IncidentInv, IncidentTypes
<1> DEFINE d == sequel[s].device
           found == Correlated(d, sequel[s].id)
           overdue == found = 0
           overlap == \E r \in Sequels : Opens(r, d)
           expired == active[d] # 0 /\ time > incidents[active[d]].updated + 300
<1>1. /\ sequel[s].pc = "looking"
      /\ sequel' = [sequel EXCEPT ![s] = [sequel[s] EXCEPT !.pc = IF overdue THEN "opening" ELSE "joining", !.found = found]]
      /\ overlaps' = [overlaps EXCEPT ![d] = @ + (IF overdue /\ overlap THEN 1 ELSE 0)]
      /\ expiries' = [expiries EXCEPT ![d] = @ + (IF overdue /\ ~overlap /\ expired THEN 1 ELSE 0)]
      /\ UNCHANGED <<incidents, active, registered, logs, time>>
  BY DEF Correlate, AtSequel, ToSequel
<1>2. sequel[s] \in Sequence
  BY <1>0, <1>1 DEF NewSequel
<1>3. d \in Devices /\ sequel[s].id \in CorrIds
  BY <1>2 DEF Sequence
<1>4. PICK next \in {"opening", "joining"} : next = IF overdue THEN "opening" ELSE "joining"
  OBVIOUS
<1>5. \A i \in 0..Len(incidents) : i # 0 <=> i \in DOMAIN incidents
  BY <1>0
<1>6. found \in 0..Len(incidents) /\ (found # 0 => found \in DOMAIN incidents /\ Joins(found, s))
  <2>1. found \in {0, registered[sequel[s].id], active[d]}
    BY DEF Correlated
  <2>2. found \in 0..Len(incidents)
    BY <1>0, <1>3, <2>1
  <2>3. registered[sequel[s].id] # 0 => found = registered[sequel[s].id] /\ incidents[found].id = sequel[s].id
    BY <1>0, <1>3 DEF Correlated, RegisteredInv
  <2>4. registered[sequel[s].id] = 0 /\ found # 0 => found = active[d] /\ incidents[found].device = d
    BY <1>0, <1>3 DEF Correlated, DeviceInv, OwnIncidents
  <2> QED
    BY <1>5, <2>2, <2>3, <2>4 DEF Joins
<1>7. overdue => active[d] = 0 \/ expired
  <2>1. ASSUME overdue, active[d] # 0 PROVE expired
    <3>1. active[d] \in DOMAIN incidents /\ ~InWindow(active[d])
      <4>1. active[d] \in DOMAIN incidents
        BY <1>0, <1>3, <1>5, <2>1
      <4>2. found = 0 /\ registered[sequel[s].id] = 0
        BY <1>0, <1>3, <2>1 DEF Correlated
      <4> QED
        BY <2>1, <4>1, <4>2 DEF Correlated
    <3>2. incidents[active[d]].updated \in Nat
      <4>1. incidents[active[d]] \in Incident
        BY <1>0, <3>1
      <4> QED
        BY <4>1 DEF Incident
    <3> QED
      BY <1>0, <2>1, <3>1, <3>2 DEF InWindow, CorrelationWindow
  <2> QED
    BY <2>1
<1> HIDE DEF found, expired
<1>8. PICK q : q = [sequel[s] EXCEPT !.pc = next, !.found = found]
  OBVIOUS
<1>9. q \in Sequence /\ q.pc = next /\ q.id = sequel[s].id /\ q.device = d /\ q.found = found /\ q.todo = sequel[s].todo
  <2>1. Len(incidents) \in Nat
    BY <1>0
  <2>2. found \in Nat
    BY <1>6, <2>1
  <2> QED
    BY <1>2, <1>8, <2>2 DEF Sequence
<1>10. sequel'[s] = q /\ (\A o \in Sequels \ {s} : sequel'[o] = sequel[o]) /\ sequel' \in [Sequels -> Sequence \cup {NewSequel}]
  BY <1>0, <1>1, <1>4, <1>8, <1>9
<1>11. SequelInv(s)'
  <2>1. q.todo # << >>
    BY <1>0, <1>1, <1>9 DEF SequelInv
  <2>2. PICK f : f = found
    OBVIOUS
  <2>3. q.pc = "joining" => f \in DOMAIN incidents /\ Joins(f, s)
    BY <1>4, <1>6, <1>9, <2>2
  <2>4. q.pc = "joining" => incidents'[f].id = sequel'[s].id \/ incidents'[f].device = sequel'[s].device
    BY <1>1, <1>9, <1>10, <2>3 DEF Joins
  <2>5. sequel'[s].found = f
    BY <1>9, <1>10, <2>2
  <2>6. sequel'[s].pc = "joining" => f \in DOMAIN incidents' /\ Joins(f, s)'
    <3>1. UNCHANGED incidents
      BY <1>1
    <3> QED
      BY <1>10, <2>3, <2>4, <3>1 DEF Joins
  <2>7. sequel'[s].todo # << >>
    BY <1>10, <2>1
  <2> QED
    BY <2>5, <2>6, <2>7 DEF SequelInv, Joins
<1>12. overlaps' \in [Devices -> Nat] /\ expiries' \in [Devices -> Nat]
  <2>1. PICK k \in {0, 1} : overlaps' = [overlaps EXCEPT ![d] = overlaps[d] + k]
    BY <1>1
  <2>2. PICK m \in {0, 1} : expiries' = [expiries EXCEPT ![d] = expiries[d] + m]
    BY <1>1
  <2>3. \A x \in Nat : x + k \in Nat /\ x + m \in Nat
    OBVIOUS
  <2> QED
    BY <1>0, <1>3, <2>1, <2>2, <2>3
<1>13. ASSUME NEW e \in Devices
       PROVE  /\ IsFiniteSet(Openers(e)')
              /\ Cardinality(OwnIncidents(e)) + Cardinality(Openers(e)') <= 1 + expiries'[e] + overlaps'[e]
  <2>0. /\ IsFiniteSet(Openers(e)) /\ IsFiniteSet(OwnIncidents(e))
        /\ Cardinality(OwnIncidents(e)) + Cardinality(Openers(e)) <= 1 + expiries[e] + overlaps[e]
        /\ active[e] = 0 => OwnIncidents(e) = {}
        /\ expiries[e] \in Nat /\ overlaps[e] \in Nat
    BY <1>0 DEF DeviceInv
  <2>1. Cardinality(OwnIncidents(e)) \in Nat /\ Cardinality(Openers(e)) \in Nat
    BY <2>0, FS_CardinalityType
  <2>2. CASE e = d /\ overdue
    <3>1. \A o \in Sequels : Opens(o, e)' <=> Opens(o, e) \/ o = s
      BY <1>4, <1>9, <1>10, <2>2 DEF Opens, AtSequel
    <3>2. Openers(e)' = Openers(e) \cup {s} /\ s \notin Openers(e)
      BY <1>1, <3>1 DEF Openers, Opens, AtSequel
    <3>3. IsFiniteSet(Openers(e)') /\ Cardinality(Openers(e)') = Cardinality(Openers(e)) + 1
      BY <2>0, <3>2, OneMore
    <3>4. CASE overlap
      <4>1. overlaps'[e] = overlaps[e] + 1 /\ expiries'[e] = expiries[e]
        BY <1>0, <1>1, <2>0, <2>2, <3>4
      <4> QED
        BY <2>0, <2>1, <3>3, <4>1
    <3>5. CASE ~overlap /\ expired
      <4>1. overlaps'[e] = overlaps[e] /\ expiries'[e] = expiries[e] + 1
        BY <1>0, <1>1, <2>0, <2>2, <3>5
      <4> QED
        BY <2>0, <2>1, <3>3, <4>1
    <3>6. CASE ~overlap /\ ~expired
      <4>1. overlaps'[e] = overlaps[e] /\ expiries'[e] = expiries[e]
        BY <1>0, <1>1, <2>0, <2>2, <3>6
      <4>2. OwnIncidents(e) = {} /\ Openers(e) = {}
        BY <1>7, <2>0, <2>2, <3>6 DEF Openers
      <4>3. Cardinality(OwnIncidents(e)) = 0 /\ Cardinality(Openers(e)) = 0
        BY <4>2, FS_EmptySet
      <4> QED
        BY <2>0, <3>3, <4>1, <4>3
    <3> QED
      BY <3>4, <3>5, <3>6
  <2>3. CASE ~(e = d /\ overdue)
    <3>1. \A o \in Sequels : Opens(o, e)' <=> Opens(o, e)
      BY <1>1, <1>4, <1>9, <1>10, <2>3 DEF Opens, AtSequel
    <3>2. Openers(e)' = Openers(e)
      BY <3>1 DEF Openers
    <3>3. overlaps'[e] = overlaps[e] /\ expiries'[e] = expiries[e]
      BY <1>0, <1>1, <2>0, <2>3
    <3> QED
      BY <2>0, <3>2, <3>3
  <2> QED
    BY <2>2, <2>3
<1>14. time <= time' /\ time' \in Nat /\ logs' \subseteq Sequels /\ sequel'[s].pc # "new" /\ sequel'[s].id = sequel[s].id /\ sequel'[s].device = sequel[s].device
  BY <1>0, <1>1, <1>4, <1>9, <1>10
<1> QED
  BY <1>1, <1>10, <1>11, <1>12, <1>13, <1>14, RequestSteps

LEMMA OpenKeeps == ASSUME IncidentInv, NEW s \in Sequels, OpenIncident(s) PROVE IncidentInv'
<1>0. /\ sequel \in [Sequels -> Sequence \cup {NewSequel}] /\ logs \subseteq Sequels /\ time \in Nat
      /\ overlaps \in [Devices -> Nat] /\ expiries \in [Devices -> Nat] /\ incidents \in Seq(Incident)
      /\ active \in [Devices -> 0..Len(incidents)] /\ registered \in [CorrIds -> 0..Len(incidents)]
      /\ \A i \in DOMAIN incidents : incidents[i].updated <= time
      /\ \A o \in Sequels : SequelInv(o)
  BY DEF IncidentInv, IncidentTypes
<1>1. PICK d : d = sequel[s].device
  OBVIOUS
<1>2. PICK new : new = NewIncident(d, sequel[s].id)
  OBVIOUS
<1>3. PICK n : n = Len(incidents) + 1
  OBVIOUS
<1>4. /\ sequel[s].pc = "opening" /\ incidents' = Append(incidents, new)
      /\ active' = [active EXCEPT ![d] = n] /\ registered' = [registered EXCEPT ![sequel[s].id] = n]
      /\ sequel' = [sequel EXCEPT ![s] = [sequel[s] EXCEPT !.pc = "joining", !.found = n]]
      /\ UNCHANGED <<logs, time, overlaps, expiries>>
  BY <1>1, <1>2, <1>3 DEF OpenIncident, AtSequel, ToSequel, Activates
<1>5. sequel[s] \in Sequence
  BY <1>0, <1>4 DEF NewSequel
<1>6. d \in Devices /\ sequel[s].id \in CorrIds
  BY <1>1, <1>5 DEF Sequence
<1>7. new \in Incident /\ new.device = d /\ new.id = sequel[s].id /\ new.events = << >> /\ new.updated = time
  BY <1>0, <1>2, <1>6 DEF NewIncident, Incident
<1>8. /\ incidents' \in Seq(Incident) /\ Len(incidents') = n /\ n \in Nat /\ DOMAIN incidents' = DOMAIN incidents \cup {n}
      /\ n \notin DOMAIN incidents /\ (\A i \in DOMAIN incidents : incidents'[i] = incidents[i] /\ i < n) /\ incidents'[n] = new
  BY <1>0, <1>3, <1>4, <1>7
<1>9. PICK q : q = [sequel[s] EXCEPT !.pc = "joining", !.found = n]
  OBVIOUS
<1>10. q \in Sequence /\ q.pc = "joining" /\ q.id = sequel[s].id /\ q.device = d /\ q.found = n /\ q.todo = sequel[s].todo
  BY <1>1, <1>5, <1>8, <1>9 DEF Sequence
<1>11. sequel'[s] = q /\ (\A o \in Sequels \ {s} : sequel'[o] = sequel[o]) /\ sequel' \in [Sequels -> Sequence \cup {NewSequel}]
  BY <1>0, <1>4, <1>9, <1>10
<1>12. IncidentTypes'
  <2>1. active' \in [Devices -> 0..Len(incidents')] /\ registered' \in [CorrIds -> 0..Len(incidents')]
    <3>1. \A i \in 0..Len(incidents) : i \in 0..n
      BY <1>0, <1>3
    <3>2. n \in 0..n
      BY <1>8
    <3> QED
      BY <1>0, <1>4, <1>8, <3>1, <3>2
  <2>2. \A i \in DOMAIN incidents' : incidents'[i].updated <= time
    BY <1>0, <1>7, <1>8
  <2> QED
    BY <1>0, <1>4, <1>8, <1>11, <2>1, <2>2 DEF IncidentTypes
<1>13. ASSUME NEW o \in Sequels PROVE SequelInv(o)'
  <2>1. CASE o = s
    <3>1. q.todo # << >>
      BY <1>0, <1>4, <1>10 DEF SequelInv
    <3> QED
      BY <1>7, <1>8, <1>10, <1>11, <2>1, <3>1 DEF SequelInv, Joins
  <2>2. CASE o # s
    <3>1. SequelInv(o) /\ sequel'[o] = sequel[o]
      BY <1>0, <1>11, <2>2
    <3> QED
      BY <1>8, <3>1 DEF SequelInv, Joins
  <2> QED
    BY <2>1, <2>2
<1>14. ASSUME NEW i \in DOMAIN incidents' PROVE Joining(i)'
  <2>1. CASE i = n
    BY <1>7, <1>8, <2>1 DEF Joining
  <2>2. CASE i # n
    <3>1. i \in DOMAIN incidents /\ incidents'[i] = incidents[i] /\ Joining(i)
      BY <1>8, <2>2 DEF IncidentInv
    <3>2. \A o \in Sequels : sequel'[o].id = sequel[o].id \/ sequel[o].pc = "new"
      BY <1>10, <1>11
    <3>3. \A o : o \in Sequels => (sequel'[o].pc # "new" /\ sequel'[o].id = sequel[o].id /\ sequel'[o].device = sequel[o].device) \/ sequel[o].pc = "new"
      BY <1>1, <1>10, <1>11
    <3>4. \A j \in DOMAIN incidents[i].events : incidents[i].events[j].by \in Sequels
      <4>1. incidents[i] \in Incident
        BY <1>0, <3>1
      <4>2. incidents[i].events \in Seq(Entry)
        BY <4>1 DEF Incident
      <4>3. \A j \in DOMAIN incidents[i].events : incidents[i].events[j] \in Entry
        BY <4>2
      <4> QED
        BY <4>3 DEF Entry
    <3> QED
      BY <3>1, <3>3, <3>4 DEF Joining, Joins
  <2> QED
    BY <2>1, <2>2
<1>15. ASSUME NEW c \in CorrIds PROVE RegisteredInv(c)'
  <2>1. CASE c = sequel[s].id
    BY <1>0, <1>4, <1>7, <1>8, <2>1 DEF RegisteredInv
  <2>2. CASE c # sequel[s].id
    <3>1. registered'[c] = registered[c] /\ registered[c] \in 0..Len(incidents) /\ RegisteredInv(c)
      BY <1>0, <1>4, <2>2 DEF IncidentInv
    <3>2. registered[c] # 0 => registered[c] \in DOMAIN incidents
      BY <1>0, <3>1
    <3> QED
      BY <1>8, <3>1, <3>2 DEF RegisteredInv
  <2> QED
    BY <2>1, <2>2
<1>16. ASSUME NEW e \in Devices PROVE DeviceInv(e)'
  <2>0. /\ IsFiniteSet(Openers(e)) /\ IsFiniteSet(OwnIncidents(e)) /\ DeviceInv(e)
        /\ Cardinality(OwnIncidents(e)) + Cardinality(Openers(e)) <= 1 + expiries[e] + overlaps[e]
        /\ expiries[e] \in Nat /\ overlaps[e] \in Nat /\ expiries'[e] = expiries[e] /\ overlaps'[e] = overlaps[e]
    BY <1>0, <1>4 DEF DeviceInv, IncidentInv
  <2>1. Cardinality(OwnIncidents(e)) \in Nat /\ Cardinality(Openers(e)) \in Nat
    BY <2>0, FS_CardinalityType
  <2>2. CASE e = d
    <3>1. OwnIncidents(e)' = OwnIncidents(e) \cup {n} /\ n \notin OwnIncidents(e)
      BY <1>7, <1>8, <2>2 DEF OwnIncidents
    <3>2. \A o \in Sequels : Opens(o, e)' <=> Opens(o, e) /\ o # s
      BY <1>10, <1>11 DEF Opens, AtSequel
    <3>3. Openers(e)' = Openers(e) \ {s} /\ s \in Openers(e)
      BY <1>1, <1>4, <2>2, <3>2 DEF Openers, Opens, AtSequel
    <3>4. IsFiniteSet(OwnIncidents(e)') /\ Cardinality(OwnIncidents(e)') = Cardinality(OwnIncidents(e)) + 1
      BY <2>0, <3>1, OneMore
    <3>5. IsFiniteSet(Openers(e)') /\ Cardinality(Openers(e)') = Cardinality(Openers(e)) - 1
      BY <2>0, <3>3, OneLess
    <3>6. active'[e] = n /\ n # 0
      BY <1>0, <1>3, <1>4, <2>2
    <3>7. \A i \in OwnIncidents(e)' : i <= n
      BY <1>8, <3>1 DEF OwnIncidents
    <3>8. Cardinality(OwnIncidents(e)') + Cardinality(Openers(e)') <= 1 + expiries[e] + overlaps[e]
      BY <2>0, <2>1, <3>4, <3>5
    <3> QED
      BY <2>0, <3>1, <3>4, <3>5, <3>6, <3>7, <3>8 DEF DeviceInv
  <2>3. CASE e # d
    <3>1. OwnIncidents(e)' = OwnIncidents(e)
      BY <1>7, <1>8, <2>3 DEF OwnIncidents
    <3>2. \A o \in Sequels : Opens(o, e)' <=> Opens(o, e)
      BY <1>1, <1>10, <1>11, <2>3 DEF Opens, AtSequel
    <3>3. Openers(e)' = Openers(e) /\ active'[e] = active[e]
      BY <1>0, <1>4, <2>3, <3>2 DEF Openers
    <3> QED
      BY <2>0, <3>1, <3>3 DEF DeviceInv
  <2> QED
    BY <2>2, <2>3
<1> QED
  BY <1>12, <1>13, <1>14, <1>15, <1>16 DEF IncidentInv

\* What an incident becomes with one more event
LEMMA JoinedIs ==
    ASSUME NEW incident \in Incident, NEW e \in Events, NEW s \in Sequels, time \in Nat
    PROVE  /\ Joined(incident, e, s) \in Incident
           /\ Joined(incident, e, s).device = incident.device /\ Joined(incident, e, s).id = incident.id
           /\ Joined(incident, e, s).updated = time
           /\ Joined(incident, e, s).events = Append(incident.events, [e |-> e, by |-> s])
<1>1. PICK events : events = Append(incident.events, [e |-> e, by |-> s])
  OBVIOUS
<1>2. [e |-> e, by |-> s] \in Entry /\ incident.events \in Seq(Entry)
  BY DEF Entry, Incident
<1>3. events \in Seq(Entry)
  BY <1>1, <1>2
<1>4. PICK severity \in {"HIGH", "CRITICAL"}, root \in {incident.root, e.subsystem} :
         /\ (root # incident.root => root \in {"USB", "PROCESS"})
         /\ Joined(incident, e, s) = [incident EXCEPT !.events = events, !.updated = time, !.severity = severity, !.root = root]
  BY <1>1 DEF Joined
<1>5. root \in {"UNKNOWN", "USB", "PROCESS"}
  BY <1>4 DEF Incident
<1> QED
  BY <1>1, <1>3, <1>4, <1>5 DEF Incident

LEMMA JoinKeeps == ASSUME IncidentInv, NEW s \in Sequels, JoinEvent(s) PROVE IncidentInv'
<1>0. /\ sequel \in [Sequels -> Sequence \cup {NewSequel}] /\ logs \subseteq Sequels /\ time \in Nat
      /\ overlaps \in [Devices -> Nat] /\ expiries \in [Devices -> Nat] /\ incidents \in Seq(Incident)
      /\ active \in [Devices -> 0..Len(incidents)] /\ registered \in [CorrIds -> 0..Len(incidents)]
      /\ \A i \in DOMAIN incidents : incidents[i].updated <= time
      /\ \A o \in Sequels : SequelInv(o)
  BY DEF IncidentInv, IncidentTypes
<1>1. PICK i : i = sequel[s].found
  OBVIOUS
<1>2. PICK e : e = Head(sequel[s].todo)
  OBVIOUS
<1>3. PICK new : new = Joined(incidents[i], e, s)
  OBVIOUS
<1>4. PICK next \in {"storing", "looking"} :
        next = IF Len(sequel[s].todo) = 1 THEN "storing" ELSE "looking"
  OBVIOUS
<1>5. /\ sequel[s].pc = "joining" /\ incidents' = [incidents EXCEPT ![i] = new]
      /\ sequel' = [sequel EXCEPT ![s] = [sequel[s] EXCEPT !.todo = Tail(@), !.pc = next]]
      /\ UNCHANGED <<active, registered, logs, time, overlaps, expiries>>
  BY <1>1, <1>2, <1>3, <1>4 DEF JoinEvent, AtSequel, ToSequel
<1>6. sequel[s] \in Sequence
  BY <1>0, <1>5 DEF NewSequel
<1>7. sequel[s].todo \in Seq(Events) /\ sequel[s].todo # << >> /\ i \in DOMAIN incidents /\ Joins(i, s)
  BY <1>0, <1>1, <1>5, <1>6 DEF Sequence, SequelInv
<1>8. e \in Events /\ Tail(sequel[s].todo) \in Seq(Events) /\ Len(Tail(sequel[s].todo)) = Len(sequel[s].todo) - 1
      /\ Len(sequel[s].todo) \in Nat
  BY <1>2, <1>7
<1>9. incidents[i] \in Incident
  BY <1>0, <1>7
<1>10. /\ new \in Incident /\ new.device = incidents[i].device /\ new.id = incidents[i].id /\ new.updated = time
       /\ new.events = Append(incidents[i].events, [e |-> e, by |-> s])
  BY <1>0, <1>3, <1>8, <1>9, JoinedIs
<1>11. /\ incidents' \in Seq(Incident) /\ Len(incidents') = Len(incidents) /\ DOMAIN incidents' = DOMAIN incidents
       /\ incidents'[i] = new /\ \A j \in DOMAIN incidents \ {i} : incidents'[j] = incidents[j]
  BY <1>0, <1>5, <1>7, <1>10
<1>12. PICK q : q = [sequel[s] EXCEPT !.todo = Tail(sequel[s].todo), !.pc = next]
  OBVIOUS
<1>13. /\ q \in Sequence /\ q.pc = next /\ q.id = sequel[s].id /\ q.device = sequel[s].device
       /\ q.todo = Tail(sequel[s].todo)
  BY <1>6, <1>8, <1>12 DEF Sequence
<1>14. sequel'[s] = q /\ (\A o \in Sequels \ {s} : sequel'[o] = sequel[o]) /\ sequel' \in [Sequels -> Sequence \cup {NewSequel}]
  BY <1>0, <1>5, <1>12, <1>13
<1>15. \A j \in DOMAIN incidents : incidents'[j].device = incidents[j].device /\ incidents'[j].id = incidents[j].id
  BY <1>10, <1>11
<1>16. IncidentTypes'
  <2>1. \A j \in DOMAIN incidents' : incidents'[j].updated <= time
    BY <1>0, <1>10, <1>11
  <2> QED
    BY <1>0, <1>5, <1>11, <1>14, <2>1 DEF IncidentTypes
<1>17. ASSUME NEW o \in Sequels PROVE SequelInv(o)'
  <2>1. CASE o = s
    <3>1. q.pc = "looking" => q.todo # << >>
      <4>1. ASSUME q.pc = "looking" PROVE Len(q.todo) # 0
        <5>1. Len(sequel[s].todo) # 1 /\ Len(sequel[s].todo) # 0
          BY <1>4, <1>7, <1>13, <4>1
        <5> QED
          BY <1>8, <1>13, <5>1
      <4> QED
        BY <4>1
    <3> QED
      BY <1>13, <1>14, <2>1, <3>1 DEF SequelInv
  <2>2. CASE o # s
    <3>1. SequelInv(o) /\ sequel'[o] = sequel[o]
      BY <1>0, <1>14, <2>2
    <3>2. PICK f : f = sequel[o].found
      OBVIOUS
    <3>3. sequel[o].pc = "joining" => f \in DOMAIN incidents /\ Joins(f, o)
      BY <3>1, <3>2 DEF SequelInv
    <3>4. sequel[o].pc = "joining" => f \in DOMAIN incidents' /\ Joins(f, o)'
      BY <1>11, <1>15, <3>1, <3>3 DEF Joins
    <3>5. sequel'[o].found = f
      BY <3>1, <3>2
    <3> QED
      BY <3>1, <3>4, <3>5 DEF SequelInv, Joins
  <2> QED
    BY <2>1, <2>2
<1>18. \A o \in Sequels : sequel[o].pc # "new" =>
          sequel'[o].pc # "new" /\ sequel'[o].id = sequel[o].id /\ sequel'[o].device = sequel[o].device
  BY <1>13, <1>14
<1>19. ASSUME NEW k \in DOMAIN incidents' PROVE Joining(k)'
  <2>1. k \in DOMAIN incidents /\ incidents[k] \in Incident /\ Joining(k) /\ incidents[k].events \in Seq(Entry)
    <3>1. k \in DOMAIN incidents /\ incidents[k] \in Incident /\ Joining(k)
      BY <1>0, <1>11 DEF IncidentInv
    <3> QED
      BY <3>1 DEF Incident
  <2>2. ASSUME NEW j \in DOMAIN incidents[k].events, NEW o, o = incidents[k].events[j].by
        PROVE  o \in Sequels /\ sequel[o].pc # "new" /\ Joins(k, o)
    <3>1. incidents[k].events[j] \in Entry
      BY <2>1
    <3> QED
      BY <2>1, <2>2, <3>1 DEF Joining, Entry
  <2>a. ASSUME k = i
        PROVE  /\ DOMAIN incidents'[k].events = 1..(Len(incidents[k].events) + 1) /\ Len(incidents[k].events) \in Nat
               /\ \A j \in DOMAIN incidents[k].events : incidents'[k].events[j] = incidents[k].events[j]
               /\ incidents'[k].events[Len(incidents[k].events) + 1] = [e |-> e, by |-> s]
    <3>1. PICK entry \in Entry : entry = [e |-> e, by |-> s]
      BY <1>8 DEF Entry
    <3>2. incidents'[k].events = Append(incidents[k].events, entry)
      BY <1>10, <1>11, <2>a, <3>1
    <3> QED
      BY <2>1, <3>1, <3>2
  <2>3. ASSUME NEW j \in DOMAIN incidents'[k].events, NEW o, o = incidents'[k].events[j].by
        PROVE  o \in Sequels /\ sequel[o].pc # "new" /\ Joins(k, o)
    <3>1. CASE k # i
      BY <1>11, <2>1, <2>2, <2>3, <3>1
    <3>2. CASE k = i /\ j \in DOMAIN incidents[i].events
      <4>1. incidents'[k].events[j] = incidents[k].events[j]
        BY <2>1, <2>a, <3>2
      <4> QED
        BY <2>2, <2>3, <3>2, <4>1
    <3>3. CASE k = i /\ j \notin DOMAIN incidents[i].events
      <4>1. incidents'[k].events[j] = [e |-> e, by |-> s]
        BY <2>1, <2>3, <2>a, <3>3
      <4> QED
        BY <1>5, <1>7, <2>3, <3>3, <4>1
    <3> QED
      BY <3>1, <3>2, <3>3
  <2>4. ASSUME NEW j \in DOMAIN incidents'[k].events, NEW o, o = incidents'[k].events[j].by
        PROVE  sequel'[o].pc # "new" /\ Joins(k, o)'
    BY <1>15, <1>18, <2>1, <2>3, <2>4 DEF Joins
  <2> QED
    BY <2>4 DEF Joining
<1>20. ASSUME NEW c \in CorrIds PROVE RegisteredInv(c)'
  <2>1. registered[c] \in 0..Len(incidents) /\ RegisteredInv(c)
    BY <1>0 DEF IncidentInv
  <2>2. registered[c] # 0 => registered[c] \in DOMAIN incidents
    BY <1>0, <2>1
  <2> QED
    BY <1>5, <1>15, <2>1, <2>2 DEF RegisteredInv
<1>21. ASSUME NEW d \in Devices PROVE DeviceInv(d)'
  <2>1. DeviceInv(d)
    BY DEF IncidentInv
  <2>2. OwnIncidents(d)' = OwnIncidents(d)
    BY <1>11, <1>15 DEF OwnIncidents
  <2>3. Openers(d)' = Openers(d)
    BY <1>5, <1>13, <1>14, OpenersStay
  <2> QED
    BY <1>5, <2>1, <2>2, <2>3 DEF DeviceInv
<1> QED
  BY <1>16, <1>17, <1>19, <1>20, <1>21 DEF IncidentInv

LEMMA WaitKeeps == IncidentInv /\ (Waits \/ UNCHANGED incidentVars) => IncidentInv'
<1> SUFFICES ASSUME IncidentInv, Waits \/ UNCHANGED incidentVars PROVE IncidentInv'
  OBVIOUS
<1>1. UNCHANGED <<incidents, active, registered, sequel, logs, overlaps, expiries>> /\ time \in Nat
  BY DEF Waits, incidentVars, IncidentInv, IncidentTypes
<1>2. time' \in Nat /\ time <= time'
  BY <1>1, IncidentAssumption DEF Waits, incidentVars
<1>3. IncidentTypes'
  <2>1. \A i \in DOMAIN incidents : incidents[i] \in Incident /\ incidents[i].updated <= time
    BY DEF IncidentInv, IncidentTypes
  <2>2. \A i \in DOMAIN incidents : incidents[i].updated <= time'
    BY <1>1, <1>2, <2>1 DEF Incident
  <2> QED
    BY <1>1, <1>2, <2>2 DEF IncidentInv, IncidentTypes
<1>4. ASSUME NEW s \in Sequels PROVE SequelInv(s)'
  BY <1>1 DEF IncidentInv, SequelInv, Joins
<1>5. ASSUME NEW i \in DOMAIN incidents' PROVE Joining(i)'
  BY <1>1 DEF IncidentInv, Joining, Joins
<1>6. ASSUME NEW c \in CorrIds PROVE RegisteredInv(c)'
  BY <1>1 DEF IncidentInv, RegisteredInv
<1>7. ASSUME NEW d \in Devices PROVE DeviceInv(d)'
  <2>1. DeviceInv(d)
    BY DEF IncidentInv
  <2>2. OwnIncidents(d)' = OwnIncidents(d)
    BY <1>1 DEF OwnIncidents
  <2>3. Openers(d)' = Openers(d)
    BY <1>1 DEF Openers, Opens, AtSequel
  <2> QED
    BY <1>1, <2>1, <2>2, <2>3 DEF DeviceInv
<1> QED
  BY <1>3, <1>4, <1>5, <1>6, <1>7 DEF IncidentInv

LEMMA IncidentStart == IncidentInit => IncidentInv
<1> SUFFICES ASSUME IncidentInit PROVE IncidentInv
  OBVIOUS
<1>1. /\ incidents = << >> /\ active = [d \in Devices |-> 0] /\ registered = [c \in CorrIds |-> 0]
      /\ sequel = [s \in Sequels |-> NewSequel] /\ logs = {} /\ time = 0
      /\ overlaps = [d \in Devices |-> 0] /\ expiries = [d \in Devices |-> 0]
  BY DEF IncidentInit
<1>2. incidents \in Seq(Incident) /\ Len(incidents) = 0 /\ DOMAIN incidents = {}
  BY <1>1
<1>3. IncidentTypes
  BY <1>1, <1>2 DEF IncidentTypes
<1>4. ASSUME NEW s \in Sequels PROVE SequelInv(s)
  BY <1>1 DEF SequelInv, NewSequel
<1>5. ASSUME NEW d \in Devices PROVE DeviceInv(d)
  <2>1. OwnIncidents(d) = {} /\ Openers(d) = {}
    BY <1>1, <1>2 DEF OwnIncidents, Openers, Opens, AtSequel, NewSequel
  <2>2. IsFiniteSet({}) /\ Cardinality({}) = 0
    BY FS_EmptySet
  <2> QED
    BY <1>1, <2>1, <2>2 DEF DeviceInv
<1>6. \A c \in CorrIds : RegisteredInv(c)
  BY <1>1 DEF RegisteredInv
<1> QED
  BY <1>2, <1>3, <1>4, <1>5, <1>6 DEF IncidentInv

LEMMA IncidentInductive == IncidentInv /\ [IncidentNext]_incidentVars => IncidentInv'
BY PostKeeps, CorrelateKeeps, OpenKeeps, JoinKeeps, EndsKeep, WaitKeeps DEF IncidentNext

LEMMA IncidentHolds == IncidentSpec => []IncidentInv
BY IncidentStart, IncidentInductive, PTL DEF IncidentSpec

(* The engine's dictionaries refer to incidents that exist.                  *)
THEOREM IncidentTypeCorrect == IncidentSpec => []IncidentTypeOK
<1>1. ASSUME IncidentInv PROVE IncidentTypeOK
  <2>1. IncidentTypes
    BY <1>1 DEF IncidentInv
  <2>2. \A i \in DOMAIN incidents : incidents[i] \in Incident /\ incidents[i].updated <= time
    BY <2>1 DEF IncidentTypes
  <2>3. \A i \in DOMAIN incidents : incidents[i].updated \in 0..time
    BY <2>1, <2>2 DEF Incident, IncidentTypes
  <2> QED
    BY <2>1, <2>2, <2>3 DEF IncidentTypes, IncidentTypeOK, Incident
<1> QED
  BY <1>1, IncidentHolds, PTL

(* A device has a further incident only for a pause longer than the window or for
   a look-up that overdue while another request opened one, and the newest takes
   the next events.                                                          *)
THEOREM IncidentsAreOne == IncidentSpec => []IncidentsSplit
<1>1. ASSUME IncidentInv, NEW d \in Devices
      PROVE  /\ Cardinality(OwnIncidents(d)) <= 1 + expiries[d] + overlaps[d]
             /\ OwnIncidents(d) # {} => active[d] = Max(OwnIncidents(d))
  <2>1. DeviceInv(d) /\ expiries[d] \in Nat /\ overlaps[d] \in Nat /\ incidents \in Seq(Incident)
    BY <1>1 DEF IncidentInv, IncidentTypes
  <2>2. Cardinality(OwnIncidents(d)) \in Nat /\ Cardinality(Openers(d)) \in Nat
    BY <2>1, FS_CardinalityType DEF DeviceInv
  <2>3. Cardinality(OwnIncidents(d)) <= 1 + expiries[d] + overlaps[d]
    BY <2>1, <2>2 DEF DeviceInv
  <2>4. ASSUME OwnIncidents(d) # {} PROVE active[d] = Max(OwnIncidents(d))
    <3>1. active[d] \in OwnIncidents(d) /\ \A i \in OwnIncidents(d) : active[d] >= i
      BY <2>1, <2>4 DEF DeviceInv, OwnIncidents
    <3>2. OwnIncidents(d) \subseteq Nat
      BY <2>1 DEF OwnIncidents
    <3> QED
      BY <3>1, <3>2 DEF Max
  <2> QED
    BY <2>3, <2>4
<1>2. IncidentInv => IncidentsSplit
  BY <1>1 DEF IncidentsSplit, OwnIncidents
<1> QED
  BY <1>2, IncidentHolds, PTL

(* An event is in an incident of its correlation id or of its device.        *)
THEOREM EventsAreJoined == IncidentSpec => []EventsJoined
<1>1. IncidentInv => EventsJoined
  BY DEF IncidentInv, EventsJoined, Joining, Joins
<1> QED
  BY <1>1, IncidentHolds, PTL

-----------------------------------------------------------------------------
(* The sessions.                                                             *)

SessionTypes ==
    /\ owner \in Seq(Processes) /\ pidMap \in [Processes -> Nat] /\ raced \in [Processes -> Nat]
    /\ DOMAIN caller = Callers
    /\ \A c \in Callers : caller[c].pc = "creating" =>
         caller[c] \in [pc : {"creating"}, process : Processes, burst : Bursts, session : Nat]

\* The sessions of a process and the threads that are about to create one are as
\* many as the look-ups that missed while another was creating it, and one.
Sessions(p) == {i \in DOMAIN owner : owner[i] = p}
Creating(c, p) == caller[c].pc = "creating" /\ caller[c].process = p
Creators(p) == {c \in Callers : Creating(c, p)}
SessionInv(p) ==
    /\ pidMap[p] = 0 => Sessions(p) = {}
    /\ pidMap[p] # 0 => pidMap[p] \in Sessions(p)
    /\ IsFiniteSet(Sessions(p)) /\ IsFiniteSet(Creators(p))
    /\ Cardinality(Sessions(p)) + Cardinality(Creators(p)) <= 1 + raced[p]

BehaviorInv == SessionTypes /\ \A p \in Processes : SessionInv(p)

\* Telling, listing, scoring and responding create no session.
LEMMA NoneCreated ==
    ASSUME BehaviorInv, UNCHANGED <<owner, pidMap, raced>>, DOMAIN caller' = Callers,
           \A c \in Callers : caller'[c] = caller[c] \/ (caller[c].pc # "creating" /\ caller'[c].pc # "creating")
    PROVE  BehaviorInv'
<1>1. SessionTypes'
  BY DEF BehaviorInv, SessionTypes
<1>2. ASSUME NEW p \in Processes PROVE SessionInv(p)'
  <2>1. SessionInv(p)
    BY DEF BehaviorInv
  <2>2. \A c \in Callers : Creating(c, p)' <=> Creating(c, p)
    BY DEF Creating
  <2>3. Creators(p)' = Creators(p)
    BY <2>2 DEF Creators
  <2>4. Sessions(p)' = Sessions(p)
    BY DEF Sessions
  <2> QED
    BY <2>1, <2>3, <2>4 DEF SessionInv
<1> QED
  BY <1>1, <1>2 DEF BehaviorInv

LEMMA FindKeeps ==
    ASSUME BehaviorInv, NEW c \in Callers, NEW p \in Processes, NEW burst \in Bursts, Find(c, p, burst)
    PROVE  BehaviorInv'
<1>0. /\ owner \in Seq(Processes) /\ pidMap \in [Processes -> Nat] /\ raced \in [Processes -> Nat]
      /\ DOMAIN caller = Callers /\ SessionTypes
  BY DEF BehaviorInv, SessionTypes
<1>1. PICK pc \in {"creating", "adding"} : pc = IF pidMap[p] = 0 THEN "creating" ELSE "adding"
  OBVIOUS
<1>2. PICK q : q = [pc |-> pc, process |-> p, burst |-> burst, session |-> pidMap[p]]
  OBVIOUS
<1>3. /\ caller[c].pc = "idle" /\ caller' = [caller EXCEPT ![c] = q] /\ UNCHANGED <<owner, pidMap>>
  BY <1>1, <1>2 DEF Find, ToCaller
<1>4. DOMAIN caller' = Callers /\ caller'[c] = q /\ \A o \in Callers \ {c} : caller'[o] = caller[o]
  BY <1>0, <1>3
<1>5. q.pc = pc /\ q.process = p /\ (pc = "creating" => q \in [pc : {"creating"}, process : Processes, burst : Bursts, session : Nat])
  BY <1>0, <1>2
<1>6. CASE pidMap[p] # 0
  <2>1. pc = "adding" /\ raced' = raced
    BY <1>1, <1>6 DEF Find
  <2> QED
    BY <1>3, <1>4, <1>5, <2>1, NoneCreated
<1>7. CASE pidMap[p] = 0
  <2>1. pc = "creating"
    BY <1>1, <1>7
  <2>2. /\ (\E d \in Callers : Creating(d, p)) => raced' = [raced EXCEPT ![p] = raced[p] + 1]
        /\ ~(\E d \in Callers : Creating(d, p)) => raced' = raced
    BY <1>7 DEF Find, Creating
  <2>3. raced' \in [Processes -> Nat] /\ \A o \in Processes : raced'[o] >= raced[o] /\ raced[o] \in Nat
    BY <1>0, <2>2
  <2>4. SessionTypes'
    BY <1>0, <1>3, <1>4, <1>5, <2>3 DEF SessionTypes
  <2>5. ASSUME NEW o \in Processes PROVE SessionInv(o)'
    <3>1. SessionInv(o) /\ Cardinality(Sessions(o)) \in Nat /\ Cardinality(Creators(o)) \in Nat
      BY FS_CardinalityType DEF BehaviorInv, SessionInv
    <3>2. Sessions(o)' = Sessions(o) /\ pidMap'[o] = pidMap[o]
      BY <1>3 DEF Sessions
    <3>3. CASE o # p
      <4>1. \A d \in Callers : Creating(d, o)' <=> Creating(d, o)
        BY <1>3, <1>4, <1>5, <3>3 DEF Creating
      <4>2. Creators(o)' = Creators(o)
        BY <4>1 DEF Creators
      <4>3. raced'[o] \in Nat /\ raced'[o] >= raced[o] /\ raced[o] \in Nat
        BY <2>3
      <4>4. Cardinality(Sessions(o)) + Cardinality(Creators(o)) <= 1 + raced'[o]
        BY <3>1, <4>3 DEF SessionInv
      <4> QED
        BY <3>1, <3>2, <4>2, <4>4 DEF SessionInv
    <3>4. CASE o = p
      <4>1. \A d \in Callers : Creating(d, p)' <=> Creating(d, p) \/ d = c
        BY <1>3, <1>4, <1>5, <2>1 DEF Creating
      <4>2. Creators(p)' = Creators(p) \cup {c} /\ c \notin Creators(p)
        BY <1>3, <4>1 DEF Creators, Creating
      <4>3. IsFiniteSet(Creators(p)') /\ Cardinality(Creators(p)') = Cardinality(Creators(p)) + 1
        BY <3>1, <3>4, <4>2, OneMore DEF SessionInv
      <4>4. Cardinality(Sessions(p)) + Cardinality(Creators(p)') <= 1 + raced'[p]
        <5>1. CASE Creators(p) = {}
          <6>1. Sessions(p) = {}
            BY <1>7, <3>1, <3>4 DEF SessionInv
          <6>2. Cardinality(Sessions(p)) = 0 /\ Cardinality(Creators(p)) = 0
            BY <5>1, <6>1, FS_EmptySet
          <6>3. raced'[p] \in Nat
            BY <2>3
          <6> QED
            BY <4>3, <6>2, <6>3
        <5>2. CASE Creators(p) # {}
          <6>1. raced'[p] = raced[p] + 1 /\ raced[p] \in Nat
            BY <1>0, <2>2, <5>2 DEF Creators
          <6> QED
            BY <3>1, <3>4, <4>3, <6>1 DEF SessionInv
        <5> QED
          BY <5>1, <5>2
      <4> QED
        BY <3>1, <3>2, <3>4, <4>3, <4>4 DEF SessionInv
    <3> QED
      BY <3>3, <3>4
  <2> QED
    BY <2>4, <2>5 DEF BehaviorInv
<1> QED
  BY <1>6, <1>7

LEMMA CreateKeeps == ASSUME BehaviorInv, NEW c \in Callers, Create(c) PROVE BehaviorInv'
<1>0. /\ owner \in Seq(Processes) /\ pidMap \in [Processes -> Nat] /\ raced \in [Processes -> Nat]
      /\ DOMAIN caller = Callers /\ SessionTypes
  BY DEF BehaviorInv, SessionTypes
<1>1. PICK p : p = caller[c].process
  OBVIOUS
<1>2. PICK n : n = Len(owner) + 1
  OBVIOUS
<1>3. PICK q : q = [caller[c] EXCEPT !.pc = "adding", !.session = n]
  OBVIOUS
<1>4. /\ caller[c].pc = "creating" /\ owner' = Append(owner, p) /\ pidMap' = [pidMap EXCEPT ![p] = n]
      /\ caller' = [caller EXCEPT ![c] = q] /\ UNCHANGED raced
  BY <1>1, <1>2, <1>3 DEF Create, Enters, ToCaller
<1>5. caller[c] \in [pc : {"creating"}, process : Processes, burst : Bursts, session : Nat]
  BY <1>0, <1>4 DEF SessionTypes
<1>6. p \in Processes /\ q.pc = "adding"
  BY <1>1, <1>3, <1>5
<1>7. DOMAIN caller' = Callers /\ caller'[c] = q /\ \A o \in Callers \ {c} : caller'[o] = caller[o]
  BY <1>0, <1>4
<1>8. /\ owner' \in Seq(Processes) /\ n \in Nat \ {0} /\ DOMAIN owner' = DOMAIN owner \cup {n} /\ n \notin DOMAIN owner
      /\ owner'[n] = p /\ \A i \in DOMAIN owner : owner'[i] = owner[i]
  BY <1>0, <1>2, <1>4, <1>6
<1>9. SessionTypes'
  BY <1>0, <1>4, <1>6, <1>7, <1>8 DEF SessionTypes
<1>10. ASSUME NEW o \in Processes PROVE SessionInv(o)'
  <2>1. SessionInv(o) /\ Cardinality(Sessions(o)) \in Nat /\ Cardinality(Creators(o)) \in Nat /\ raced[o] \in Nat
    BY <1>0, FS_CardinalityType DEF BehaviorInv, SessionInv
  <2>2. CASE o # p
    <3>1. Sessions(o)' = Sessions(o) /\ pidMap'[o] = pidMap[o]
      BY <1>0, <1>4, <1>8, <2>2 DEF Sessions
    <3>2. \A d \in Callers : Creating(d, o)' <=> Creating(d, o)
      BY <1>1, <1>6, <1>7, <2>2 DEF Creating
    <3>3. Creators(o)' = Creators(o)
      BY <3>2 DEF Creators
    <3> QED
      BY <1>4, <2>1, <3>1, <3>3 DEF SessionInv
  <2>3. CASE o = p
    <3>1. Sessions(p)' = Sessions(p) \cup {n} /\ n \notin Sessions(p)
      BY <1>8 DEF Sessions
    <3>2. \A d \in Callers : Creating(d, p)' <=> Creating(d, p) /\ d # c
      BY <1>6, <1>7 DEF Creating
    <3>3. Creators(p)' = Creators(p) \ {c} /\ c \in Creators(p)
      BY <1>1, <1>4, <3>2 DEF Creators, Creating
    <3>4. IsFiniteSet(Sessions(p)') /\ Cardinality(Sessions(p)') = Cardinality(Sessions(p)) + 1
      BY <2>1, <2>3, <3>1, OneMore DEF SessionInv
    <3>5. IsFiniteSet(Creators(p)') /\ Cardinality(Creators(p)') = Cardinality(Creators(p)) - 1
      BY <2>1, <2>3, <3>3, OneLess DEF SessionInv
    <3>6. pidMap'[p] = n /\ n # 0
      BY <1>0, <1>4, <1>6, <1>8
    <3>7. Cardinality(Sessions(p)') + Cardinality(Creators(p)') <= 1 + raced[p]
      BY <2>1, <2>3, <3>4, <3>5 DEF SessionInv
    <3> QED
      BY <1>4, <2>3, <3>1, <3>4, <3>5, <3>6, <3>7 DEF SessionInv
  <2> QED
    BY <2>2, <2>3
<1> QED
  BY <1>9, <1>10 DEF BehaviorInv

LEMMA BehaviorInductive == BehaviorInv /\ [BehaviorNext]_behaviorVars => BehaviorInv'
<1> SUFFICES ASSUME BehaviorInv, [BehaviorNext]_behaviorVars PROVE BehaviorInv'
  OBVIOUS
<1>0. DOMAIN caller = Callers
  BY DEF BehaviorInv, SessionTypes
<1>1. ASSUME NEW c \in Callers, Ingest(c) \/ Respond(c) PROVE BehaviorInv'
  <2>1. /\ caller[c].pc \in {"adding", "responding"} /\ caller' = [caller EXCEPT ![c] = Idle]
        /\ UNCHANGED <<owner, pidMap, raced>>
    BY <1>1 DEF Ingest, Respond, ToCaller
  <2>2. /\ DOMAIN caller' = Callers
        /\ \A o \in Callers : caller'[o] = caller[o] \/ (caller[o].pc # "creating" /\ caller'[o].pc # "creating")
    BY <1>0, <2>1 DEF Idle
  <2> QED
    BY <2>1, <2>2, NoneCreated
<1>2. ASSUME NEW c \in Callers, NEW i \in DOMAIN sessions, Score(c, i) PROVE BehaviorInv'
  <2>1. PICK report : caller' = [caller EXCEPT ![c] = [pc |-> "responding", session |-> i, report |-> report]]
    BY <1>2 DEF Score, ToCaller
  <2>2. caller[c].pc = "idle" /\ UNCHANGED <<owner, pidMap, raced>>
    BY <1>2 DEF Score
  <2>3. /\ DOMAIN caller' = Callers
        /\ \A o \in Callers : caller'[o] = caller[o] \/ (caller[o].pc # "creating" /\ caller'[o].pc # "creating")
    BY <1>0, <2>1, <2>2
  <2> QED
    BY <2>2, <2>3, NoneCreated
<1>3. CASE (\E i \in DOMAIN sessions : EvaluateRules(i)) \/ List \/ Passes \/ UNCHANGED behaviorVars
  <2>1. UNCHANGED <<caller, owner, pidMap, raced>>
    BY <1>3 DEF EvaluateRules, List, Passes, behaviorVars
  <2> QED
    BY <1>0, <2>1, NoneCreated
<1> QED
  BY <1>1, <1>2, <1>3, FindKeeps, CreateKeeps DEF BehaviorNext

LEMMA BehaviorStart == BehaviorInit => BehaviorInv
<1> SUFFICES ASSUME BehaviorInit PROVE BehaviorInv
  OBVIOUS
<1>1. /\ owner = << >> /\ pidMap = [p \in Processes |-> 0] /\ caller = [c \in Callers |-> Idle]
      /\ raced = [p \in Processes |-> 0]
  BY DEF BehaviorInit
<1>2. SessionTypes
  BY <1>1 DEF SessionTypes, Idle
<1>3. ASSUME NEW p \in Processes PROVE SessionInv(p)
  <2>1. Sessions(p) = {} /\ Creators(p) = {}
    BY <1>1 DEF Sessions, Creators, Creating, Idle
  <2> QED
    BY <1>1, <2>1, FS_EmptySet DEF SessionInv
<1> QED
  BY <1>2, <1>3 DEF BehaviorInv

LEMMA BehaviorHolds == BehaviorSpec => []BehaviorInv
BY BehaviorStart, BehaviorInductive, PTL DEF BehaviorSpec

(* A process has a further session only for a look-up that missed while another
   thread was creating one, and pid_map names one of its sessions.           *)
THEOREM SessionsAreOne == BehaviorSpec => []SessionsSplit
<1>1. ASSUME BehaviorInv, NEW p \in Processes
      PROVE  Cardinality(Sessions(p)) <= 1 + raced[p] /\ (Sessions(p) # {} => pidMap[p] \in Sessions(p))
  <2>1. SessionInv(p) /\ raced[p] \in Nat
    BY <1>1 DEF BehaviorInv, SessionTypes
  <2>2. Cardinality(Sessions(p)) \in Nat /\ Cardinality(Creators(p)) \in Nat
    BY <2>1, FS_CardinalityType DEF SessionInv
  <2> QED
    BY <2>1, <2>2 DEF SessionInv
<1>2. BehaviorInv => SessionsSplit
  BY <1>1 DEF SessionsSplit, Sessions
<1> QED
  BY <1>2, BehaviorHolds, PTL
-----------------------------------------------------------------------------
(* Folds.  The library folds a sequence by a recursive function on the sets of
   its positions, which takes the last position first.                       *)

LEMMA LeastNatural ==
    ASSUME NEW T \in SUBSET Nat, T # {}
    PROVE  \E x \in T : \A y \in T : x <= y
<1>1. \A x, y \in Nat : <<y, x>> \in OpToRel(<, Nat) <=> y < x
  BY DEF OpToRel
<1>2. \E x \in T : \A y \in T : ~ (<<y, x>> \in OpToRel(<, Nat))
  BY WFMin, NatLessThanWellFounded
<1>3. \E x \in T : \A y \in T : ~ (y < x)
  BY <1>1, <1>2, Zenon
<1> QED
  BY <1>3

LEMMA PositionSets ==
    ASSUME NEW n \in Nat
    PROVE  \A s \in SUBSET (1 .. n) : IsFiniteSet(s) /\ Cardinality(s) \in Nat /\ Cardinality(s) <= n
<1>1. IsFiniteSet(1 .. n) /\ Cardinality(1 .. n) = n
  <2>1. 1 \in Int /\ n \in Int
    OBVIOUS
  <2>2. IsFiniteSet(1 .. n) /\ Cardinality(1 .. n) = IF 1 > n THEN 0 ELSE n - 1 + 1
    BY <2>1, FS_Interval
  <2> QED
    BY <2>2
<1> QED
  BY <1>1, FS_Subset, FS_CardinalityType

LEMMA MaxFacts ==
    ASSUME NEW n \in Nat, NEW s \in SUBSET (1 .. n), s # {}
    PROVE  /\ Max(s) \in s /\ \A y \in s : y <= Max(s)
           /\ s \ {Max(s)} \in SUBSET (1 .. n)
           /\ Cardinality(s) \in Nat /\ Cardinality(s) # 0
           /\ Cardinality(s \ {Max(s)}) = Cardinality(s) - 1
<1> DEFINE T == {m \in Nat : n - m \in s}
<1>1. T \in SUBSET Nat /\ T # {}
  <2>1. PICK y \in s : TRUE
    OBVIOUS
  <2>2. y \in 1 .. n /\ n - y \in Nat /\ n - (n - y) = y
    OBVIOUS
  <2> QED
    BY <2>1, <2>2
<1>2. PICK x \in T : \A y \in T : x <= y
  <2> HIDE DEF T
  <2> QED
    BY <1>1, LeastNatural
<1>3. ASSUME NEW y \in s PROVE n - x >= y
  <2>1. y \in 1 .. n /\ n - y \in Nat /\ n - (n - y) = y
    OBVIOUS
  <2>2. n - y \in T
    BY <2>1
  <2>3. x \in Nat /\ x <= n - y
    BY <1>2, <2>2
  <2> QED
    BY <2>1, <2>3
<1>4. \E x1 \in s : \A y \in s : x1 >= y
  BY <1>2, <1>3
<1>5. Max(s) \in s /\ \A y \in s : Max(s) >= y
  BY <1>4 DEF Max
<1>6. IsFiniteSet(s) /\ s \ {Max(s)} \in SUBSET (1 .. n)
  BY PositionSets
<1> QED
  BY <1>5, <1>6, FS_RemoveElement, FS_CardinalityType, FS_EmptySet

\* What holds of no position, and of some when it holds of them without the last,
\* holds of every set of positions.
LEMMA ByLast ==
    ASSUME NEW n \in Nat, NEW Good, {} \in Good,
           \A s \in SUBSET (1 .. n) : s # {} /\ s \ {Max(s)} \in Good => s \in Good
    PROVE  \A s \in SUBSET (1 .. n) : s \in Good
<1> DEFINE Bad == {k \in Nat : \E s \in SUBSET (1 .. n) : Cardinality(s) = k /\ s \notin Good}
<1>1. Bad = {}
  <2> SUFFICES ASSUME Bad # {} PROVE FALSE
    OBVIOUS
  <2>1. PICK k \in Bad : \A m \in Bad : k <= m
    <3>1. Bad \in SUBSET Nat
      OBVIOUS
    <3> HIDE DEF Bad
    <3> QED
      BY <3>1, LeastNatural
  <2>2. PICK s \in SUBSET (1 .. n) : Cardinality(s) = k /\ s \notin Good
    BY <2>1
  <2>3. s # {}
    BY <2>2
  <2>4. s \ {Max(s)} \in SUBSET (1 .. n) /\ Cardinality(s \ {Max(s)}) = k - 1 /\ k - 1 \in Nat /\ k \in Nat
    <3>1. /\ s \ {Max(s)} \in SUBSET (1 .. n) /\ Cardinality(s \ {Max(s)}) = Cardinality(s) - 1
          /\ Cardinality(s) \in Nat /\ Cardinality(s) # 0
      BY <2>3, MaxFacts
    <3> QED
      BY <2>2, <3>1
  <2>5. s \ {Max(s)} \notin Good
    BY <2>2, <2>3
  <2>6. k - 1 \in Bad
    BY <2>4, <2>5
  <2> QED
    BY <2>1, <2>4, <2>6
<1> SUFFICES ASSUME NEW s \in SUBSET (1 .. n), s \notin Good PROVE FALSE
  OBVIOUS
<1>2. Cardinality(s) \in Nat
  BY PositionSets
<1> QED
  BY <1>1, <1>2

Folding(f, A, base, step, q) ==
    /\ f \in [SUBSET (DOMAIN q) -> A]
    /\ \A s \in SUBSET (DOMAIN q) :
         f[s] = IF s = {} THEN base ELSE step[<<f[s \ {Max(s)}], q[Max(s)]>>]

\* There is the function that folds, whatever a step makes of a value and an
\* element, as long as it is a value again.
LEMMA FoldExists ==
    ASSUME NEW A, NEW E, NEW base \in A, NEW step \in [A \X E -> A], NEW q \in Seq(E)
    PROVE  \E f : Folding(f, A, base, step, q)
<1> DEFINE n == Len(q)
           Upto(k) == {s \in SUBSET (1 .. n) : Cardinality(s) <= k}
           Next1(g, s) == IF s = {} THEN base ELSE step[<<g[s \ {Max(s)}], q[Max(s)]>>]
           Partial(g, k) == g \in [Upto(k) -> A] /\ \A s \in Upto(k) : g[s] = Next1(g, s)
           Bad == {k \in Nat : ~ \E g : Partial(g, k)}
<1>0. n \in Nat /\ DOMAIN q = 1 .. n /\ \A i \in 1 .. n : q[i] \in E
  OBVIOUS
<1> HIDE DEF n
<1>1. Bad = {}
  <2> SUFFICES ASSUME Bad # {} PROVE FALSE
    OBVIOUS
  <2>1. PICK k \in Bad : \A m \in Bad : k <= m
    <3>1. Bad \in SUBSET Nat
      OBVIOUS
    <3> HIDE DEF Bad
    <3> QED
      BY <3>1, LeastNatural
  <2>2. k # 0
    <3> SUFFICES ASSUME k = 0 PROVE \E g : Partial(g, k)
      BY <2>1
    <3>1. ASSUME NEW s \in Upto(0) PROVE s = {}
      <4> SUFFICES ASSUME s # {} PROVE FALSE
        OBVIOUS
      <4>1. s \in SUBSET (1 .. n) /\ Cardinality(s) <= 0
        OBVIOUS
      <4>2. Cardinality(s) \in Nat /\ Cardinality(s) # 0
        BY <4>1, <1>0, MaxFacts
      <4> QED
        BY <4>1, <4>2
    <3>2. Partial([s \in Upto(0) |-> base], 0)
      BY <3>1
    <3> QED
      BY <3>2
  <2>3. k - 1 \in Nat /\ k - 1 \notin Bad /\ k \in Nat
    <3>1. k \in Nat
      OBVIOUS
    <3>2. k - 1 \in Nat /\ ~(k <= k - 1)
      BY <3>1, <2>2
    <3> QED
      BY <3>1, <3>2, <2>1
  <2>4. PICK g : Partial(g, k - 1)
    BY <2>3
  <2>5. ASSUME NEW s \in Upto(k), s # {}
        PROVE  s \ {Max(s)} \in Upto(k - 1) /\ s \ {Max(s)} \in Upto(k) /\ q[Max(s)] \in E
    <3>1. s \in SUBSET (1 .. n) /\ Cardinality(s) <= k
      OBVIOUS
    <3>2. /\ s \ {Max(s)} \in SUBSET (1 .. n) /\ Cardinality(s \ {Max(s)}) = Cardinality(s) - 1
          /\ Cardinality(s) \in Nat /\ Max(s) \in 1 .. n
      BY <3>1, <2>5, <1>0, MaxFacts
    <3>3. Cardinality(s \ {Max(s)}) <= k - 1 /\ Cardinality(s \ {Max(s)}) <= k
      BY <3>1, <3>2, <2>3
    <3> QED
      BY <3>2, <3>3, <1>0
  <2> DEFINE h == [s \in Upto(k) |-> Next1(g, s)]
  <2>6. ASSUME NEW s \in Upto(k - 1) PROVE s \in Upto(k) /\ h[s] = g[s]
    <3>1. s \in Upto(k)
      <4>1. s \in SUBSET (1 .. n) /\ Cardinality(s) <= k - 1
        OBVIOUS
      <4>2. Cardinality(s) \in Nat
        BY <4>1, <1>0, PositionSets
      <4> QED
        BY <4>1, <4>2, <2>3
    <3> QED
      BY <3>1, <2>4
  <2>7. ASSUME NEW s \in Upto(k) PROVE h[s] \in A /\ h[s] = Next1(h, s)
    <3>1. CASE s = {}
      BY <3>1
    <3>2. CASE s # {}
      <4>1. h[s \ {Max(s)}] = g[s \ {Max(s)}]
        BY <2>5, <2>6, <3>2
      <4>2. g[s \ {Max(s)}] \in A
        BY <2>4, <2>5, <3>2
      <4>3. h[s] = step[<<g[s \ {Max(s)}], q[Max(s)]>>]
        BY <3>2
      <4>4. step[<<g[s \ {Max(s)}], q[Max(s)]>>] \in A
        BY <4>2, <2>5, <3>2
      <4> HIDE DEF h
      <4> QED
        BY <4>1, <4>3, <4>4, <3>2
    <3> QED
      BY <3>1, <3>2
  <2>8. Partial(h, k)
    <3>1. h \in [Upto(k) -> A]
      <4>1. h = [s \in Upto(k) |-> h[s]]
        OBVIOUS
      <4> HIDE DEF h, Upto
      <4> QED
        BY <4>1, <2>7
    <3> HIDE DEF h
    <3> QED
      BY <3>1, <2>7
  <2> QED
    BY <2>1, <2>8
<1>2. PICK g : Partial(g, n)
  BY <1>0, <1>1
<1>3. Upto(n) = SUBSET (1 .. n)
  <2>1. ASSUME NEW s \in SUBSET (1 .. n) PROVE Cardinality(s) <= n
    BY <1>0, PositionSets
  <2> QED
    BY <2>1
<1> QED
  BY <1>0, <1>2, <1>3 DEF Folding

\* What holds of the empty sequence, and of a longer one when it holds of it
\* without its last element, holds of every sequence.
LEMMA BySequence ==
    ASSUME NEW R, NEW Good, << >> \in Good, \A q \in Seq(R), x \in R : q \in Good => Append(q, x) \in Good
    PROVE  \A q \in Seq(R) : q \in Good
<1> DEFINE Bad == {k \in Nat : \E q \in Seq(R) : Len(q) = k /\ q \notin Good}
<1>1. Bad = {}
  <2> SUFFICES ASSUME Bad # {} PROVE FALSE
    OBVIOUS
  <2>1. PICK k \in Bad : \A m \in Bad : k <= m
    <3>1. Bad \in SUBSET Nat
      OBVIOUS
    <3> HIDE DEF Bad
    <3> QED
      BY <3>1, LeastNatural
  <2>2. PICK q \in Seq(R) : Len(q) = k /\ q \notin Good
    BY <2>1
  <2>3. k \in Nat /\ k # 0
    <3>1. k = 0 => q = << >>
      BY <2>2
    <3> QED
      BY <2>2, <3>1
  <2> DEFINE p == [i \in 1 .. k - 1 |-> q[i]]
  <2>4. p \in Seq(R) /\ Len(p) = k - 1 /\ q[k] \in R /\ k - 1 \in Nat
    BY <2>2, <2>3
  <2>5. q = Append(p, q[k])
    <3>1. Append(p, q[k]) \in Seq(R) /\ Len(Append(p, q[k])) = k
      BY <2>3, <2>4
    <3>2. ASSUME NEW i \in 1 .. k PROVE q[i] = Append(p, q[k])[i]
      BY <2>3, <2>4
    <3> HIDE DEF p
    <3> QED
      BY <2>2, <3>1, <3>2
  <2>6. p \notin Good
    <3> HIDE DEF p
    <3> QED
      BY <2>2, <2>4, <2>5
  <2>7. k - 1 \in Bad
    BY <2>4, <2>6
  <2> QED
    BY <2>1, <2>3, <2>7
<1> SUFFICES ASSUME NEW q \in Seq(R), q \notin Good PROVE FALSE
  OBVIOUS
<1>2. Len(q) \in Nat
  OBVIOUS
<1> QED
  BY <1>1, <1>2

-----------------------------------------------------------------------------
(* What is left of the changes of a session                                  *)

FileChange == [kind : EventKinds, times : Nat, at : Nat]

Sieving(f, q, t) ==
    f = [s \in SUBSET (DOMAIN q) |->
           IF s = {} THEN << >>
           ELSE IF q[Max(s)].at >= t THEN Append(f[s \ {Max(s)}], q[Max(s)]) ELSE f[s \ {Max(s)}]]
Keeper(q, t) == CHOOSE f : Sieving(f, q, t)

LEMMA SinceIs == ASSUME NEW q, NEW t PROVE Since(q, t) = Keeper(q, t)[DOMAIN q]
BY DEF Since, FoldLeft, MapThenFoldSet, Sieving, Keeper

LEMMA KeeperKeeps == ASSUME NEW q \in Seq(FileChange), NEW t PROVE Sieving(Keeper(q, t), q, t)
<1> DEFINE step == [p \in Seq(FileChange) \X FileChange |-> IF p[2].at >= t THEN Append(p[1], p[2]) ELSE p[1]]
<1>1. step \in [Seq(FileChange) \X FileChange -> Seq(FileChange)]
  OBVIOUS
<1>2. \A p \in Seq(FileChange), x \in FileChange : step[<<p, x>>] = IF x.at >= t THEN Append(p, x) ELSE p
  OBVIOUS
<1> HIDE DEF step
<1>3. PICK f \in [SUBSET (DOMAIN q) -> Seq(FileChange)] : \A s \in SUBSET (DOMAIN q) :
        f[s] = IF s = {} THEN << >> ELSE step[<<f[s \ {Max(s)}], q[Max(s)]>>]
  <2>1. << >> \in Seq(FileChange)
    OBVIOUS
  <2>2. \E f : Folding(f, Seq(FileChange), << >>, step, q)
    BY <1>1, <2>1, FoldExists
  <2> QED
    BY <2>2 DEF Folding
<1>4. ASSUME NEW s \in SUBSET (DOMAIN q), s # {}
      PROVE  f[s \ {Max(s)}] \in Seq(FileChange) /\ q[Max(s)] \in FileChange
  <2>1. DOMAIN q = 1 .. Len(q) /\ Len(q) \in Nat /\ \A i \in DOMAIN q : q[i] \in FileChange
    OBVIOUS
  <2>2. Max(s) \in s /\ s \ {Max(s)} \in SUBSET (DOMAIN q)
    BY <1>4, <2>1, MaxFacts
  <2> QED
    BY <2>1, <2>2
<1>5. \A s \in SUBSET (DOMAIN q) :
        f[s] = IF s = {} THEN << >>
               ELSE IF q[Max(s)].at >= t THEN Append(f[s \ {Max(s)}], q[Max(s)]) ELSE f[s \ {Max(s)}]
  BY <1>2, <1>3, <1>4
<1>6. Sieving(f, q, t)
  BY <1>5 DEF Sieving
<1> QED
  BY <1>6 DEF Keeper

LEMMA SinceEmpty == \A t : Since(<< >>, t) = << >>
<1> SUFFICES ASSUME NEW t PROVE Since(<< >>, t) = << >>
  OBVIOUS
<1>1. << >> \in Seq(FileChange) /\ DOMAIN << >> = {}
  OBVIOUS
<1>2. Keeper(<< >>, t)[{}] = << >>
  <2>1. Sieving(Keeper(<< >>, t), << >>, t)
    BY <1>1, KeeperKeeps
  <2>2. {} \in SUBSET (DOMAIN << >>)
    OBVIOUS
  <2> QED
    BY <2>1, <2>2 DEF Sieving
<1> QED
  BY <1>1, <1>2, SinceIs

LEMMA SinceAppend ==
    ASSUME NEW q \in Seq(FileChange), NEW x \in FileChange, NEW t
    PROVE  Since(Append(q, x), t) = IF x.at >= t THEN Append(Since(q, t), x) ELSE Since(q, t)
<1> DEFINE n == Len(q)
           r == Append(q, x)
           f == Keeper(q, t)
           g == Keeper(r, t)
           Good == {s \in SUBSET (1 .. n) : f[s] = g[s]}
<1>1. /\ n \in Nat /\ DOMAIN q = 1 .. n /\ r \in Seq(FileChange) /\ DOMAIN r = 1 .. n + 1
      /\ r[n + 1] = x /\ \A i \in 1 .. n : r[i] = q[i]
  OBVIOUS
<1>2. /\ \A s \in SUBSET (1 .. n) :
           f[s] = IF s = {} THEN << >>
                  ELSE IF q[Max(s)].at >= t THEN Append(f[s \ {Max(s)}], q[Max(s)]) ELSE f[s \ {Max(s)}]
      /\ \A s \in SUBSET (1 .. n + 1) :
           g[s] = IF s = {} THEN << >>
                  ELSE IF r[Max(s)].at >= t THEN Append(g[s \ {Max(s)}], r[Max(s)]) ELSE g[s \ {Max(s)}]
  <2> HIDE DEF n, r
  <2>1. Sieving(f, q, t) /\ Sieving(g, r, t)
    BY <1>1, KeeperKeeps
  <2> HIDE DEF f, g
  <2> QED
    BY <1>1, <2>1 DEF Sieving
<1> HIDE DEF n, r, f, g
<1>3. \A s \in SUBSET (1 .. n) : s \in SUBSET (1 .. n + 1)
  BY <1>1
<1>4. {} \in Good
  <2>1. f[{}] = << >> /\ g[{}] = << >>
    BY <1>2
  <2> QED
    BY <2>1
<1>5. ASSUME NEW s \in SUBSET (1 .. n), s # {}, s \ {Max(s)} \in Good PROVE s \in Good
  <2>1. Max(s) \in 1 .. n /\ r[Max(s)] = q[Max(s)]
    BY <1>1, <1>5, MaxFacts
  <2> QED
    BY <1>2, <1>3, <1>5, <2>1
<1>6. \A s \in SUBSET (1 .. n) : s \in Good
  <2> HIDE DEF Good
  <2> QED
    BY <1>1, <1>4, <1>5, ByLast
<1>7. Max(1 .. n + 1) = n + 1 /\ (1 .. n + 1) \ {n + 1} = 1 .. n /\ 1 .. n + 1 # {}
  <2>1. n + 1 \in 1 .. n + 1 /\ \A y \in 1 .. n + 1 : n + 1 >= y
    BY <1>1
  <2>2. \A y \in 1 .. n + 1 : y >= n + 1 => y = n + 1
    BY <1>1
  <2>3. Max(1 .. n + 1) = n + 1
    <3>1. Max(1 .. n + 1) \in 1 .. n + 1 /\ \A y \in 1 .. n + 1 : Max(1 .. n + 1) >= y
      BY <2>1 DEF Max
    <3> QED
      BY <2>1, <2>2, <3>1
  <2>4. (1 .. n + 1) \ {n + 1} = 1 .. n
    BY <1>1
  <2> QED
    BY <2>1, <2>3, <2>4
<1>8. g[1 .. n + 1] = IF x.at >= t THEN Append(f[1 .. n], x) ELSE f[1 .. n]
  <2>1. g[1 .. n] = f[1 .. n]
    BY <1>6
  <2>2. g[1 .. n + 1] = IF r[n + 1].at >= t THEN Append(g[1 .. n], r[n + 1]) ELSE g[1 .. n]
    BY <1>2, <1>7
  <2> QED
    BY <1>1, <2>1, <2>2
<1>9. Since(q, t) = f[1 .. n] /\ Since(r, t) = g[1 .. n + 1]
  BY <1>1, SinceIs DEF f, g
<1> QED
  BY <1>8, <1>9 DEF r

LEMMA SinceType == \A t : \A q \in Seq(FileChange) : Since(q, t) \in Seq(FileChange)
<1> SUFFICES ASSUME NEW t PROVE \A q \in Seq(FileChange) : Since(q, t) \in Seq(FileChange)
  OBVIOUS
<1> DEFINE Good == {q \in Seq(FileChange) : Since(q, t) \in Seq(FileChange)}
<1>1. << >> \in Good
  <2>1. << >> \in Seq(FileChange) /\ Since(<< >>, t) = << >>
    BY SinceEmpty
  <2> QED
    BY <2>1
<1>2. \A q \in Seq(FileChange), x \in FileChange : q \in Good => Append(q, x) \in Good
  <2> SUFFICES ASSUME NEW q \in Seq(FileChange), NEW x \in FileChange, q \in Good PROVE Append(q, x) \in Good
    OBVIOUS
  <2>1. Since(Append(q, x), t) = IF x.at >= t THEN Append(Since(q, t), x) ELSE Since(q, t)
    BY SinceAppend
  <2> QED
    BY <2>1
<1>3. \A q \in Seq(FileChange) : q \in Good
  <2> HIDE DEF Good
  <2> QED
    BY <1>1, <1>2, BySequence
<1> QED
  BY <1>3

\* What is not older than b is found among what is not older than an earlier a.
LEMMA SinceSince ==
    \A a, b \in Nat : a <= b => \A q \in Seq(FileChange) : Since(Since(q, a), b) = Since(q, b)
<1> SUFFICES ASSUME NEW a \in Nat, NEW b \in Nat, a <= b
             PROVE  \A q \in Seq(FileChange) : Since(Since(q, a), b) = Since(q, b)
  OBVIOUS
<1> DEFINE Good == {q \in Seq(FileChange) : Since(Since(q, a), b) = Since(q, b)}
<1>1. << >> \in Good
  BY SinceEmpty
<1>2. \A q \in Seq(FileChange), x \in FileChange : q \in Good => Append(q, x) \in Good
  <2> SUFFICES ASSUME NEW q \in Seq(FileChange), NEW x \in FileChange, q \in Good PROVE Append(q, x) \in Good
    OBVIOUS
  <2>1. /\ Since(Append(q, x), a) = IF x.at >= a THEN Append(Since(q, a), x) ELSE Since(q, a)
        /\ Since(Append(q, x), b) = IF x.at >= b THEN Append(Since(q, b), x) ELSE Since(q, b)
    BY SinceAppend
  <2>2. Since(q, a) \in Seq(FileChange)
    BY SinceType
  <2>3. Since(Append(Since(q, a), x), b)
          = IF x.at >= b THEN Append(Since(Since(q, a), b), x) ELSE Since(Since(q, a), b)
    BY <2>2, SinceAppend
  <2>4. x.at \in Nat /\ Append(q, x) \in Seq(FileChange) /\ Since(Since(q, a), b) = Since(q, b)
    BY DEF FileChange
  <2>5. x.at >= b => x.at >= a
    BY <2>4
  <2>6. Since(Since(Append(q, x), a), b) = Since(Append(q, x), b)
    BY <2>1, <2>3, <2>4, <2>5
  <2> QED
    BY <2>4, <2>6
<1>3. \A q \in Seq(FileChange) : q \in Good
  <2> HIDE DEF Good
  <2> QED
    BY <1>1, <1>2, BySequence
<1> QED
  BY <1>3

\* The changes are of the past, the last of them the newest.
OfThePast(q) == \A i \in DOMAIN q : q[i].at <= clock /\ q[i].at <= q[Len(q)].at

\* A filter keeps elements of the sequence, not older than t.
LEMMA SinceFrom ==
    ASSUME NEW t
    PROVE  \A q \in Seq(FileChange) : \A i \in DOMAIN Since(q, t) :
             Since(q, t)[i].at >= t /\ \E j \in DOMAIN q : q[j] = Since(q, t)[i]
<1> DEFINE From1(q, r) == \A i \in DOMAIN r : r[i].at >= t /\ \E j \in DOMAIN q : q[j] = r[i]
           Good == {q \in Seq(FileChange) : From1(q, Since(q, t))}
<1>1. << >> \in Good
  <2>1. << >> \in Seq(FileChange) /\ Since(<< >>, t) = << >>
    BY SinceEmpty
  <2> QED
    BY <2>1
<1>2. \A q \in Seq(FileChange), x \in FileChange : q \in Good => Append(q, x) \in Good
  <2> SUFFICES ASSUME NEW q \in Seq(FileChange), NEW x \in FileChange, q \in Good PROVE Append(q, x) \in Good
    OBVIOUS
  <2> DEFINE r == Since(q, t)
  <2>1. r \in Seq(FileChange) /\ From1(q, r)
    BY SinceType
  <2>2. Since(Append(q, x), t) = IF x.at >= t THEN Append(r, x) ELSE r
    BY SinceAppend
  <2> HIDE DEF r
  <2>3. ASSUME NEW i \in DOMAIN r PROVE r[i].at >= t /\ \E j \in DOMAIN Append(q, x) : Append(q, x)[j] = r[i]
    <3>1. PICK j \in DOMAIN q : q[j] = r[i]
      BY <2>1
    <3>2. j \in DOMAIN Append(q, x) /\ Append(q, x)[j] = q[j]
      OBVIOUS
    <3> QED
      BY <2>1, <3>1, <3>2
  <2>4. Len(q) + 1 \in DOMAIN Append(q, x) /\ Append(q, x)[Len(q) + 1] = x /\ Append(q, x) \in Seq(FileChange)
    OBVIOUS
  <2>5. ASSUME x.at >= t PROVE From1(Append(q, x), Append(r, x))
    <3> SUFFICES ASSUME NEW i \in DOMAIN Append(r, x)
                 PROVE  /\ Append(r, x)[i].at >= t
                        /\ \E j \in DOMAIN Append(q, x) : Append(q, x)[j] = Append(r, x)[i]
      OBVIOUS
    <3>1. CASE i \in DOMAIN r
      <4>1. Append(r, x)[i] = r[i]
        BY <2>1, <3>1
      <4> QED
        BY <2>3, <3>1, <4>1
    <3>2. CASE i \notin DOMAIN r
      <4>1. Append(r, x)[i] = x
        BY <2>1, <3>2
      <4> QED
        BY <2>4, <2>5, <4>1
    <3> QED
      BY <3>1, <3>2
  <2>6. From1(Append(q, x), r)
    BY <2>3
  <2> QED
    BY <2>2, <2>4, <2>5, <2>6
<1>3. \A q \in Seq(FileChange) : q \in Good
  <2> HIDE DEF Good
  <2> QED
    BY <1>1, <1>2, BySequence
<1> QED
  BY <1>3

\* A sequence that is not empty is one without its last element, and that element.
LEMMA Splits ==
    ASSUME NEW q \in Seq(FileChange), q # << >>
    PROVE  \E p \in Seq(FileChange) : q = Append(p, q[Len(q)]) /\ Len(p) = Len(q) - 1 /\ q[Len(q)] \in FileChange
<1> DEFINE p == [i \in 1 .. Len(q) - 1 |-> q[i]]
<1>1. Len(q) \in Nat /\ Len(q) # 0 /\ Len(q) - 1 \in Nat
  OBVIOUS
<1>2. p \in Seq(FileChange) /\ Len(p) = Len(q) - 1 /\ q[Len(q)] \in FileChange
  BY <1>1
<1>3. q = Append(p, q[Len(q)])
  <2>1. Append(p, q[Len(q)]) \in Seq(FileChange) /\ Len(Append(p, q[Len(q)])) = Len(q)
    BY <1>1, <1>2
  <2>2. ASSUME NEW i \in 1 .. Len(q) PROVE q[i] = Append(p, q[Len(q)])[i]
    <3>1. CASE i = Len(q)
      BY <1>1, <1>2, <3>1
    <3>2. CASE i # Len(q)
      <4>1. i \in 1 .. Len(q) - 1
        BY <1>1, <3>2
      <4>2. Append(p, q[Len(q)])[i] = p[i]
        BY <1>2, <4>1
      <4> QED
        BY <4>1, <4>2
    <3> QED
      BY <3>1, <3>2
  <2> HIDE DEF p
  <2> QED
    BY <2>1, <2>2
<1> QED
  BY <1>2, <1>3

LEMMA SinceLast ==
    ASSUME NEW q \in Seq(FileChange), q # << >>, NEW t, q[Len(q)].at >= t
    PROVE  Since(q, t) # << >> /\ Since(q, t)[Len(Since(q, t))] = q[Len(q)]
<1>1. PICK p \in Seq(FileChange) : q = Append(p, q[Len(q)]) /\ q[Len(q)] \in FileChange
  BY Splits
<1>2. Since(q, t) = Append(Since(p, t), q[Len(q)]) /\ Since(p, t) \in Seq(FileChange)
  BY <1>1, SinceAppend, SinceType
<1> HIDE DEF Since
<1> QED
  BY <1>1, <1>2

LEMMA SinceFits ==
    ASSUME NEW q \in Seq(FileChange), OfThePast(q), NEW t \in Nat
    PROVE  OfThePast(Since(q, t))
<1> DEFINE r == Since(q, t)
<1>0. r \in Seq(FileChange)
  BY SinceType
<1> SUFFICES ASSUME NEW i \in DOMAIN r PROVE r[i].at <= clock /\ r[i].at <= r[Len(r)].at
  BY DEF OfThePast
<1>1. PICK j \in DOMAIN q : q[j] = r[i] /\ r[i].at >= t
  BY SinceFrom
<1>2. q[j].at <= clock /\ q[j].at <= q[Len(q)].at /\ q # << >>
  BY <1>1 DEF OfThePast
<1>3. q[Len(q)].at >= t
  <2>1. q[j] \in FileChange /\ q[Len(q)] \in FileChange
    BY <1>2
  <2> QED
    BY <1>1, <1>2, <2>1 DEF FileChange
<1>4. r[Len(r)] = q[Len(q)]
  BY <1>2, <1>3, SinceLast
<1> QED
  BY <1>1, <1>2, <1>4

\* Another change is told to what is left as it is to all there were.
LEMMA SinceRecorded ==
    ASSUME NEW q \in Seq(FileChange), OfThePast(q), clock \in Nat, NEW d \in Nat, d <= clock, NEW kind \in EventKinds
    PROVE  /\ Recorded(q, kind) \in Seq(FileChange) /\ OfThePast(Recorded(q, kind))
           /\ Since(Recorded(q, kind), d) = Recorded(Since(q, d), kind)
<1> DEFINE new == [kind |-> kind, times |-> 1, at |-> clock]
           r == Since(q, d)
<1>0. new \in FileChange /\ r \in Seq(FileChange) /\ new.at = clock
  BY SinceType DEF FileChange
<1>1. CASE q # << >> /\ q[Len(q)].kind = kind /\ q[Len(q)].at = clock
  <2>0. PICK x \in FileChange : x = q[Len(q)]
    BY <1>1, Splits
  <2> DEFINE y == [x EXCEPT !.times = @ + 1]
  <2>1. PICK p \in Seq(FileChange) : q = Append(p, x) /\ x \in FileChange /\ Len(p) = Len(q) - 1
    BY <1>1, <2>0, Splits
  <2>2. y \in FileChange /\ y.at = clock /\ x.at = clock /\ x.kind = kind
    <3>1. x = [kind |-> x.kind, times |-> x.times, at |-> x.at] /\ x.times \in Nat /\ x.kind \in EventKinds /\ x.at \in Nat
      BY DEF FileChange
    <3>2. y = [kind |-> x.kind, times |-> x.times + 1, at |-> x.at]
      BY <3>1
    <3> QED
      BY <1>1, <2>0, <3>1, <3>2 DEF FileChange
  <2>3. ASSUME NEW s \in Seq(FileChange) PROVE Recorded(Append(s, x), kind) = Append(s, y)
    <3> DEFINE z == Append(s, x)
    <3>1. z # << >> /\ z[Len(z)] = x /\ Last(z) = x /\ Len(z) = Len(s) + 1 /\ z \in Seq(FileChange)
      BY <2>1 DEF Last
    <3>2. Recorded(z, kind) = [z EXCEPT ![Len(z)] = y]
      BY <2>2, <3>1 DEF Recorded
    <3>3. [z EXCEPT ![Len(z)] = y] = Append(s, y)
      <4>1. [z EXCEPT ![Len(z)] = y] \in Seq(FileChange) /\ Len([z EXCEPT ![Len(z)] = y]) = Len(z)
        BY <2>2, <3>1
      <4>2. Append(s, y) \in Seq(FileChange) /\ Len(Append(s, y)) = Len(z)
        BY <2>2, <3>1
      <4>3. ASSUME NEW i \in 1 .. Len(z) PROVE [z EXCEPT ![Len(z)] = y][i] = Append(s, y)[i]
        <5>1. CASE i = Len(z)
          BY <2>2, <3>1, <5>1
        <5>2. CASE i # Len(z)
          <6>1. i \in DOMAIN s /\ i \in DOMAIN z
            BY <3>1, <5>2
          <6>2. Append(s, y)[i] = s[i] /\ z[i] = s[i] /\ [z EXCEPT ![Len(z)] = y][i] = z[i]
            <7>1. Append(s, y)[i] = s[i]
              BY <2>2, <6>1
            <7>2. z[i] = s[i]
              BY <6>1
            <7>3. [z EXCEPT ![Len(z)] = y][i] = z[i]
              <8> HIDE DEF z, y
              <8> QED
                BY <5>2, <6>1
            <7> QED
              BY <7>1, <7>2, <7>3
          <6> QED
            BY <6>2
        <5> QED
          BY <5>1, <5>2
      <4> DEFINE u == [z EXCEPT ![Len(z)] = y]
                 w == Append(s, y)
      <4>4. u \in Seq(FileChange) /\ w \in Seq(FileChange) /\ Len(u) = Len(w) /\ \A i \in 1 .. Len(u) : u[i] = w[i]
        BY <4>1, <4>2, <4>3
      <4> HIDE DEF u, w
      <4>5. u = w
        BY <4>4
      <4> QED
        BY <4>5 DEF u, w
    <3> QED
      BY <3>2, <3>3
  <2> HIDE DEF y, r
  <2>4. Recorded(q, kind) = Append(p, y)
    BY <2>1, <2>3
  <2>5. OfThePast(Append(p, y))
    <3> SUFFICES ASSUME NEW i \in DOMAIN Append(p, y)
                 PROVE  Append(p, y)[i].at <= clock /\ Append(p, y)[i].at <= Append(p, y)[Len(Append(p, y))].at
      BY DEF OfThePast
    <3>1. Append(p, y)[Len(Append(p, y))] = y
      BY <2>1, <2>2
    <3>2. CASE i \in DOMAIN p
      <4>1. Append(p, y)[i] = q[i] /\ i \in DOMAIN q
        BY <2>1, <2>2, <3>2
      <4> QED
        BY <2>2, <3>1, <4>1 DEF OfThePast
    <3>3. CASE i \notin DOMAIN p
      <4>1. Append(p, y)[i] = y
        BY <2>1, <2>2, <3>3
      <4> QED
        BY <2>2, <3>1, <4>1
    <3> QED
      BY <3>2, <3>3
  <2>6. Since(Append(p, y), d) = Append(Since(p, d), y) /\ r = Append(Since(p, d), x)
    BY <2>1, <2>2, SinceAppend DEF r
  <2>7. Since(p, d) \in Seq(FileChange)
    BY SinceType
  <2>8. Recorded(r, kind) = Append(Since(p, d), y)
    BY <2>3, <2>6, <2>7
  <2>9. Append(p, y) \in Seq(FileChange)
    BY <2>2
  <2> QED
    BY <2>4, <2>5, <2>6, <2>8, <2>9 DEF r
<1>2. CASE ~ (q # << >> /\ q[Len(q)].kind = kind /\ q[Len(q)].at = clock)
  <2>1. Recorded(q, kind) = Append(q, new)
    BY <1>2 DEF Recorded, Last
  <2>2. ~ (r # << >> /\ r[Len(r)].kind = kind /\ r[Len(r)].at = clock)
    <3> SUFFICES ASSUME r # << >>, r[Len(r)].kind = kind, r[Len(r)].at = clock PROVE FALSE
      OBVIOUS
    <3>1. Len(r) \in DOMAIN r
      BY <1>0
    <3>2. PICK j \in DOMAIN q : q[j] = r[Len(r)]
      BY <3>1, SinceFrom
    <3>3. q # << >> /\ q[j].at <= q[Len(q)].at /\ Len(q) \in DOMAIN q /\ q[j].at = clock
      BY <3>2 DEF OfThePast
    <3>4. q[Len(q)].at <= clock /\ q[Len(q)] \in FileChange
      BY <3>3 DEF OfThePast
    <3>5. q[Len(q)].at = clock
      BY <3>3, <3>4 DEF FileChange
    <3>6. r[Len(r)] = q[Len(q)]
      BY <3>3, <3>5, SinceLast
    <3> QED
      BY <1>2, <3>3, <3>5, <3>6
  <2> HIDE DEF r, new
  <2>3. Recorded(r, kind) = Append(r, new)
    BY <2>2 DEF Recorded, Last, new
  <2>4. Since(Append(q, new), d) = Append(r, new)
    BY <1>0, SinceAppend DEF r
  <2>5. OfThePast(Append(q, new))
    <3> SUFFICES ASSUME NEW i \in DOMAIN Append(q, new)
                 PROVE  /\ Append(q, new)[i].at <= clock
                        /\ Append(q, new)[i].at <= Append(q, new)[Len(Append(q, new))].at
      BY DEF OfThePast
    <3>1. Append(q, new)[Len(Append(q, new))] = new
      BY <1>0
    <3>2. CASE i \in DOMAIN q
      <4>1. Append(q, new)[i] = q[i]
        BY <1>0, <3>2
      <4> QED
        BY <1>0, <3>1, <3>2, <4>1 DEF OfThePast
    <3>3. CASE i \notin DOMAIN q
      <4>1. Append(q, new)[i] = new
        BY <1>0, <3>3
      <4> QED
        BY <1>0, <3>1, <4>1
    <3> QED
      BY <3>2, <3>3
  <2>6. Append(q, new) \in Seq(FileChange)
    BY <1>0
  <2> QED
    BY <2>1, <2>3, <2>4, <2>5, <2>6 DEF r
<1> QED
  BY <1>1, <1>2

-----------------------------------------------------------------------------
(* The score of a session                                                    *)

\* The first of the bounds that n reaches
LEMMA FirstReached ==
    ASSUME NEW hit \in SUBSET Nat, NEW k \in hit, \A i \in hit : k <= i
    PROVE  Min(hit) = k
<1>1. \E x \in hit : \A y \in hit : x <= y
  OBVIOUS
<1>2. Min(hit) \in hit /\ \A y \in hit : Min(hit) <= y
  BY <1>1 DEF Min
<1>3. Min(hit) \in Nat /\ k \in Nat /\ Min(hit) <= k /\ k <= Min(hit)
  BY <1>2
<1> QED
  BY <1>3

LEMMA GradedOne ==
    ASSUME NEW n \in Nat, NEW a \in Nat, NEW p \in Nat
    PROVE  Graded(n, << <<a, p>> >>) = IF n >= a THEN p ELSE 0
<1> DEFINE scale == << <<a, p>> >>
           hit == {i \in DOMAIN scale : n >= scale[i][1]}
<1>1. DOMAIN scale = {1} /\ scale[1][1] = a /\ scale[1][2] = p
  OBVIOUS
<1>2. Graded(n, scale) = IF hit = {} THEN 0 ELSE scale[Min(hit)][2]
  BY DEF Graded
<1> SUFFICES Graded(n, scale) = IF n >= a THEN p ELSE 0
  OBVIOUS
<1> HIDE DEF scale
<1>3. CASE n >= a
  <2>1. hit = {1} /\ Min(hit) = 1
    <3>1. hit = {1}
      BY <1>1, <1>3
    <3> HIDE DEF hit
    <3> QED
      BY <3>1, FirstReached
  <2> QED
    BY <1>1, <1>2, <1>3, <2>1
<1>4. CASE ~(n >= a)
  <2>1. hit = {}
    BY <1>1, <1>4
  <2> QED
    BY <1>2, <1>4, <2>1
<1> QED
  BY <1>3, <1>4

LEMMA GradedTwo ==
    ASSUME NEW n \in Nat, NEW a \in Nat, NEW p \in Nat, NEW b \in Nat, NEW q \in Nat
    PROVE  Graded(n, << <<a, p>>, <<b, q>> >>) = IF n >= a THEN p ELSE IF n >= b THEN q ELSE 0
<1> DEFINE scale == << <<a, p>>, <<b, q>> >>
           hit == {i \in DOMAIN scale : n >= scale[i][1]}
<1>1. /\ DOMAIN scale = {1, 2} /\ scale[1][1] = a /\ scale[1][2] = p /\ scale[2][1] = b /\ scale[2][2] = q
  OBVIOUS
<1>2. Graded(n, scale) = IF hit = {} THEN 0 ELSE scale[Min(hit)][2]
  BY DEF Graded
<1> SUFFICES Graded(n, scale) = IF n >= a THEN p ELSE IF n >= b THEN q ELSE 0
  OBVIOUS
<1> HIDE DEF scale
<1>3. hit \in SUBSET Nat /\ (1 \in hit <=> n >= a) /\ (2 \in hit <=> n >= b) /\ \A i \in hit : i = 1 \/ i = 2
  BY <1>1
<1> HIDE DEF hit
<1>4. CASE n >= a
  <2>1. Min(hit) = 1 /\ hit # {}
    BY <1>3, <1>4, FirstReached
  <2> QED
    BY <1>1, <1>2, <1>4, <2>1
<1>5. CASE ~(n >= a) /\ n >= b
  <2>1. 2 \in hit /\ \A i \in hit : 2 <= i
    BY <1>3, <1>5
  <2>2. Min(hit) = 2
    BY <1>3, <2>1, FirstReached
  <2> QED
    BY <1>1, <1>2, <1>5, <2>1, <2>2
<1>6. CASE ~(n >= a) /\ ~(n >= b)
  <2>1. hit = {}
    BY <1>3, <1>6
  <2> QED
    BY <1>2, <1>6, <2>1
<1> QED
  BY <1>4, <1>5, <1>6

LEMMA GradedHigh ==
    ASSUME NEW n \in Nat
    PROVE  Graded(n, << <<10, 30>>, <<5, 22>>, <<2, 12>>, <<1, 5>> >>)
             = IF n >= 10 THEN 30 ELSE IF n >= 5 THEN 22 ELSE IF n >= 2 THEN 12 ELSE IF n >= 1 THEN 5 ELSE 0
<1> DEFINE scale == << <<10, 30>>, <<5, 22>>, <<2, 12>>, <<1, 5>> >>
           hit == {i \in DOMAIN scale : n >= scale[i][1]}
<1>1. /\ DOMAIN scale = {1, 2, 3, 4} /\ scale[1][1] = 10 /\ scale[1][2] = 30 /\ scale[2][1] = 5 /\ scale[2][2] = 22
      /\ scale[3][1] = 2 /\ scale[3][2] = 12 /\ scale[4][1] = 1 /\ scale[4][2] = 5
  OBVIOUS
<1>2. Graded(n, scale) = IF hit = {} THEN 0 ELSE scale[Min(hit)][2]
  BY DEF Graded
<1> SUFFICES Graded(n, scale) = IF n >= 10 THEN 30 ELSE IF n >= 5 THEN 22 ELSE IF n >= 2 THEN 12 ELSE IF n >= 1 THEN 5 ELSE 0
  OBVIOUS
<1> HIDE DEF scale
<1>3. /\ hit \in SUBSET Nat /\ \A i \in hit : i = 1 \/ i = 2 \/ i = 3 \/ i = 4
      /\ (1 \in hit <=> n >= 10) /\ (2 \in hit <=> n >= 5) /\ (3 \in hit <=> n >= 2) /\ (4 \in hit <=> n >= 1)
  BY <1>1
<1> HIDE DEF hit
<1>4. CASE n >= 10
  <2>1. 1 \in hit /\ \A i \in hit : 1 <= i
    BY <1>3, <1>4
  <2>2. Min(hit) = 1
    BY <1>3, <2>1, FirstReached
  <2> QED
    BY <1>1, <1>2, <1>4, <2>1, <2>2
<1>5. CASE ~(n >= 10) /\ n >= 5
  <2>1. 2 \in hit /\ \A i \in hit : 2 <= i
    BY <1>3, <1>5
  <2>2. Min(hit) = 2
    BY <1>3, <2>1, FirstReached
  <2> QED
    BY <1>1, <1>2, <1>5, <2>1, <2>2
<1>6. CASE ~(n >= 10) /\ ~(n >= 5) /\ n >= 2
  <2>1. 3 \in hit /\ \A i \in hit : 3 <= i
    BY <1>3, <1>6
  <2>2. Min(hit) = 3
    BY <1>3, <2>1, FirstReached
  <2> QED
    BY <1>1, <1>2, <1>6, <2>1, <2>2
<1>7. CASE ~(n >= 10) /\ ~(n >= 5) /\ ~(n >= 2) /\ n >= 1
  <2>1. 4 \in hit /\ \A i \in hit : 4 <= i
    BY <1>3, <1>7
  <2>2. Min(hit) = 4
    BY <1>3, <2>1, FirstReached
  <2> QED
    BY <1>1, <1>2, <1>7, <2>1, <2>2
<1>8. CASE ~(n >= 10) /\ ~(n >= 5) /\ ~(n >= 2) /\ ~(n >= 1)
  <2>1. hit = {}
    BY <1>3, <1>8
  <2> QED
    BY <1>2, <1>8, <2>1
<1> QED
  BY <1>4, <1>5, <1>6, <1>7, <1>8

\* The points of each kind of evidence
HighPoints(n)  == IF n.high >= 10 THEN 30 ELSE IF n.high >= 5 THEN 22 ELSE IF n.high >= 2 THEN 12
            ELSE IF n.high >= 1 THEN 5 ELSE 0
KnownPoints(n) == IF n.known >= 3 THEN 25 ELSE IF n.known >= 1 THEN 15 ELSE 0
RenamedPoints(n) == IF n.renamed >= 10 THEN 15 ELSE IF n.renamed >= 5 THEN 8 ELSE 0
NotePoints(n) == IF n.notes >= 2 THEN 20 ELSE IF n.notes >= 1 THEN 12 ELSE 0
DeletedPoints(n) == IF n.deleted >= 10 /\ HalfDeleted(n) THEN 15 ELSE IF n.deleted >= 5 THEN 8 ELSE 0
WipedPoints(w) == IF w THEN 25 ELSE 0

LEMMA CompositeIs ==
    ASSUME NEW s, s.count \in [Counters -> Nat]
    PROVE  Composite(s) = Least(100, HighPoints(s.count) + KnownPoints(s.count) + RenamedPoints(s.count) + WipedPoints(s.wiped)
                                       + NotePoints(s.count) + DeletedPoints(s.count))
<1> DEFINE n == s.count
<1>1. /\ n.high \in Nat /\ n.known \in Nat /\ n.renamed \in Nat /\ n.notes \in Nat /\ n.deleted \in Nat
  BY DEF Counters
<1> HIDE DEF n
<1>2. Graded(n.high, <<<<10, 30>>, <<5, 22>>, <<2, 12>>, <<1, 5>>>>) = HighPoints(n)
  BY <1>1, GradedHigh DEF HighPoints
<1>3. Graded(n.known, <<<<3, 25>>, <<1, 15>>>>) = KnownPoints(n)
  BY <1>1, GradedTwo DEF KnownPoints
<1>4. Graded(n.renamed, <<<<10, 15>>, <<5, 8>>>>) = RenamedPoints(n)
  BY <1>1, GradedTwo DEF RenamedPoints
<1>5. Graded(n.notes, <<<<2, 20>>, <<1, 12>>>>) = NotePoints(n)
  BY <1>1, GradedTwo DEF NotePoints
<1>6. (IF n.deleted >= 10 /\ HalfDeleted(n) THEN 15 ELSE Graded(n.deleted, <<<<5, 8>>>>)) = DeletedPoints(n)
  BY <1>1, GradedOne DEF DeletedPoints
<1>7. Composite(s) =
        Least(100,
          Graded(n.high, <<<<10, 30>>, <<5, 22>>, <<2, 12>>, <<1, 5>>>>)
            + Graded(n.known, <<<<3, 25>>, <<1, 15>>>>)
            + Graded(n.renamed, <<<<10, 15>>, <<5, 8>>>>)
            + WipedPoints(s.wiped)
            + Graded(n.notes, <<<<2, 20>>, <<1, 12>>>>)
            + (IF n.deleted >= 10 /\ HalfDeleted(n) THEN 15 ELSE Graded(n.deleted, <<<<5, 8>>>>)))
  BY DEF Composite, WipedPoints, n
<1> QED
  BY <1>2, <1>3, <1>4, <1>5, <1>6, <1>7 DEF n

\* More evidence scores more, but for the share of deletions, which is worth seven
\* points.
LEMMA CompositeGrows ==
    ASSUME NEW s, NEW t, s.count \in [Counters -> Nat], t.count \in [Counters -> Nat],
           \A n \in Counters : s.count[n] <= t.count[n], s.wiped => t.wiped
    PROVE  /\ Composite(s) >= 75 => Composite(t) >= 68
           /\ Composite(s) >= 75 /\ ~(HalfDeleted(s.count) /\ ~HalfDeleted(t.count)) => Composite(t) >= 75
           /\ Composite(t) \in Nat
<1> DEFINE n == s.count
           m == t.count
<1>1. /\ n.high \in Nat /\ n.known \in Nat /\ n.renamed \in Nat /\ n.notes \in Nat /\ n.deleted \in Nat
      /\ m.high \in Nat /\ m.known \in Nat /\ m.renamed \in Nat /\ m.notes \in Nat /\ m.deleted \in Nat
      /\ n.high <= m.high /\ n.known <= m.known /\ n.renamed <= m.renamed /\ n.notes <= m.notes
      /\ n.deleted <= m.deleted
  BY DEF Counters
<1>2. Composite(s) = Least(100, HighPoints(n) + KnownPoints(n) + RenamedPoints(n) + WipedPoints(s.wiped) + NotePoints(n) + DeletedPoints(n))
  BY CompositeIs
<1>3. Composite(t) = Least(100, HighPoints(m) + KnownPoints(m) + RenamedPoints(m) + WipedPoints(t.wiped) + NotePoints(m) + DeletedPoints(m))
  BY CompositeIs
<1> HIDE DEF n, m
<1>4. HighPoints(n) \in Nat /\ HighPoints(m) \in Nat /\ HighPoints(n) <= HighPoints(m)
  BY <1>1 DEF HighPoints
<1>5. KnownPoints(n) \in Nat /\ KnownPoints(m) \in Nat /\ KnownPoints(n) <= KnownPoints(m)
  BY <1>1 DEF KnownPoints
<1>6. RenamedPoints(n) \in Nat /\ RenamedPoints(m) \in Nat /\ RenamedPoints(n) <= RenamedPoints(m)
  BY <1>1 DEF RenamedPoints
<1>7. NotePoints(n) \in Nat /\ NotePoints(m) \in Nat /\ NotePoints(n) <= NotePoints(m)
  BY <1>1 DEF NotePoints
<1>8. WipedPoints(s.wiped) \in Nat /\ WipedPoints(t.wiped) \in Nat /\ WipedPoints(s.wiped) <= WipedPoints(t.wiped)
  BY DEF WipedPoints
<1>9. /\ DeletedPoints(n) \in Nat /\ DeletedPoints(m) \in Nat /\ DeletedPoints(n) <= DeletedPoints(m) + 7
      /\ ~(HalfDeleted(n) /\ ~HalfDeleted(m)) => DeletedPoints(n) <= DeletedPoints(m)
  <2>1. DeletedPoints(n) \in {0, 8, 15} /\ DeletedPoints(m) \in {0, 8, 15}
    BY DEF DeletedPoints
  <2>2. DeletedPoints(n) = 15 => n.deleted >= 10 /\ HalfDeleted(n)
    BY DEF DeletedPoints
  <2>3. DeletedPoints(n) # 0 => n.deleted >= 5
    BY <1>1 DEF DeletedPoints
  <2>4. m.deleted >= 5 => DeletedPoints(m) >= 8
    BY DEF DeletedPoints
  <2>5. m.deleted >= 10 /\ HalfDeleted(m) => DeletedPoints(m) = 15
    BY DEF DeletedPoints
  <2> QED
    BY <1>1, <2>1, <2>2, <2>3, <2>4, <2>5
<1> HIDE DEF HighPoints, KnownPoints, RenamedPoints, NotePoints, WipedPoints, DeletedPoints, HalfDeleted
<1> QED
  BY <1>2, <1>3, <1>4, <1>5, <1>6, <1>7, <1>8, <1>9 DEF Least, n, m

-----------------------------------------------------------------------------
(* Telling a session of an event, and of a burst                             *)

Session == [count : [Counters -> Nat], wiped : BOOLEAN, status : Verdicts, advised : BOOLEAN,
            changes : Seq(FileChange)]

\* A session says of itself what its score did when it was told of last.
Sound(s) == /\ s.status = "MALICIOUS_RANSOMWARE" => Composite(s) >= 75
            /\ s.advised => Recommended(s)

Grows(s, t) == (\A n \in Counters : s.count[n] <= t.count[n]) /\ (s.wiped => t.wiped)

LEMMA AddsFacts == \A kind \in EventKinds : \A n \in DOMAIN Adds[kind] : Adds[kind][n] \in Nat
<1> SUFFICES ASSUME NEW kind \in EventKinds, NEW n \in DOMAIN Adds[kind] PROVE Adds[kind][n] \in Nat
  OBVIOUS
<1>1. CASE kind = "encrypt"
  <2>1. Adds[kind] = [modified |-> 1, high |-> 1, entropy |-> 79, samples |-> 1]
    BY <1>1 DEF Adds
  <2> QED
    BY <2>1
<1>2. CASE kind = "edit"
  <2>1. Adds[kind] = [modified |-> 1, entropy |-> 40, samples |-> 1]
    BY <1>2 DEF Adds
  <2> QED
    BY <2>1
<1>3. CASE kind = "rename"
  <2>1. Adds[kind] = [renamed |-> 1, known |-> 1]
    BY <1>3 DEF Adds
  <2> QED
    BY <2>1
<1>4. CASE kind = "delete"
  <2>1. Adds[kind] = [deleted |-> 1]
    BY <1>4 DEF Adds
  <2> QED
    BY <2>1
<1>5. CASE kind = "note"
  <2>1. Adds[kind] = [created |-> 1, notes |-> 1]
    BY <1>5 DEF Adds
  <2> QED
    BY <2>1
<1>6. CASE kind = "connect"
  <2>1. Adds[kind] = [connects |-> 1]
    BY <1>6 DEF Adds
  <2> QED
    BY <2>1
<1>7. CASE kind = "wipe"
  <2>1. Adds[kind] = << >>
    BY <1>7 DEF Adds
  <2> QED
    BY <2>1
<1> QED
  BY <1>1, <1>2, <1>3, <1>4, <1>5, <1>6, <1>7 DEF EventKinds

\* The score and the recommendation are of the counters and of whether copies
\* were wiped.
LEMMA SameScore ==
    ASSUME NEW s, NEW t, s.count = t.count, s.wiped = t.wiped
    PROVE  Composite(s) = Composite(t) /\ (Recommended(s) <=> Recommended(t))
<1>1. Composite(s) = Composite(t)
  BY DEF Composite
<1>2. CriticalMatch(s) <=> CriticalMatch(t)
  BY DEF CriticalMatch
<1> QED
  BY <1>1, <1>2 DEF Recommended

\* A session with three of its fields changed
WithFields(s, count, wiped, later) == [s EXCEPT !.count = count, !.wiped = wiped, !.changes = later]

LEMMA FieldsChanged ==
    ASSUME NEW s, NEW count, NEW wiped, NEW later,
           s = [count |-> s.count, wiped |-> s.wiped, status |-> s.status, advised |-> s.advised, changes |-> s.changes]
    PROVE  WithFields(s, count, wiped, later)
             = [count |-> count, wiped |-> wiped, status |-> s.status, advised |-> s.advised, changes |-> later]
<1> DEFINE e == [s EXCEPT !.count = count, !.wiped = wiped, !.changes = later]
           r == [count |-> count, wiped |-> wiped, status |-> s.status, advised |-> s.advised, changes |-> later]
           D == {"count", "wiped", "status", "advised", "changes"}
<1>1. e = [x \in D |-> e[x]]
  OBVIOUS
<1>2. r = [x \in D |-> r[x]]
  OBVIOUS
<1>3. /\ e.count = r.count /\ e.wiped = r.wiped /\ e.status = r.status /\ e.advised = r.advised
      /\ e.changes = r.changes
  OBVIOUS
<1>4. \A x \in D : e[x] = r[x]
  BY <1>3
<1> SUFFICES e = r
  BY DEF WithFields
<1> HIDE DEF e, r, D
<1>5. [x \in D |-> e[x]] = [x \in D |-> r[x]]
  BY <1>4
<1> QED
  BY <1>1, <1>2, <1>5

LEMMA ToldFacts ==
    ASSUME NEW s \in Session, OfThePast(s.changes), clock \in Nat, NEW kind \in EventKinds
    PROVE  /\ Told(s, kind) \in Session /\ Grows(s, Told(s, kind))
           /\ Told(s, kind).changes = IF IsChange(kind) THEN Recorded(s.changes, kind) ELSE s.changes
           /\ Told(s, kind).status = IF Composite(Told(s, kind)) >= 75 THEN "MALICIOUS_RANSOMWARE"
                                     ELSE IF Composite(Told(s, kind)) >= 40 THEN "SUSPICIOUS" ELSE s.status
           /\ Told(s, kind).advised <=> Recommended(Told(s, kind))
<1> DEFINE adds == Adds[kind]
           count == [n \in Counters |-> s.count[n] + (IF n \in DOMAIN adds THEN adds[n] ELSE 0)]
           wiped == s.wiped \/ kind = "wipe"
           later == IF IsChange(kind) THEN Recorded(s.changes, kind) ELSE s.changes
           t == [count |-> count, wiped |-> wiped, status |-> s.status, advised |-> s.advised, changes |-> later]
           u == [count |-> count, wiped |-> wiped, status |-> Verdict(t), advised |-> Recommended(t), changes |-> later]
<1>1. /\ s.count \in [Counters -> Nat] /\ s.wiped \in BOOLEAN /\ s.status \in Verdicts /\ s.advised \in BOOLEAN
      /\ s.changes \in Seq(FileChange)
      /\ s = [count |-> s.count, wiped |-> s.wiped, status |-> s.status, advised |-> s.advised, changes |-> s.changes]
  BY DEF Session
<1>2. Told(s, kind) = u
  <2>1. t = [s EXCEPT !.count = [n \in Counters |-> s.count[n] + (IF n \in DOMAIN adds THEN adds[n] ELSE 0)],
                      !.wiped = @ \/ kind = "wipe",
                      !.changes = IF IsChange(kind) THEN Recorded(@, kind) ELSE @]
    <3>1. t = [s EXCEPT !.count = count, !.wiped = wiped, !.changes = later]
      <4>1. PICK w : w = wiped
        OBVIOUS
      <4>2. s = [count |-> s.count, wiped |-> s.wiped, status |-> s.status, advised |-> s.advised, changes |-> s.changes]
        BY <1>1
      <4> HIDE DEF count, wiped, later
      <4>3. WithFields(s, count, w, later)
              = [count |-> count, wiped |-> w, status |-> s.status, advised |-> s.advised, changes |-> later]
        BY <4>2, FieldsChanged
      <4> QED
        BY <4>1, <4>3 DEF WithFields
    <3> HIDE DEF t
    <3> QED
      BY <3>1
  <2>2. Told(s, kind) = [t EXCEPT !.status = Verdict(t), !.advised = Recommended(t)]
    BY <2>1 DEF Told
  <2> QED
    BY <2>2
<1>3. count \in [Counters -> Nat] /\ \A n \in Counters : s.count[n] <= count[n]
  <2>1. \A n \in DOMAIN adds : adds[n] \in Nat
    BY AddsFacts
  <2> HIDE DEF adds
  <2> QED
    BY <1>1, <2>1
<1>4. later \in Seq(FileChange)
  <2>1. Recorded(s.changes, kind) \in Seq(FileChange)
    <3>1. 0 \in Nat /\ 0 <= clock
      OBVIOUS
    <3> QED
      BY <1>1, <3>1, SinceRecorded
  <2> QED
    BY <1>1, <2>1
<1>5. wiped \in BOOLEAN /\ Recommended(t) \in BOOLEAN
  BY DEF Recommended
<1>6. Verdict(t) = IF Composite(t) >= 75 THEN "MALICIOUS_RANSOMWARE"
                   ELSE IF Composite(t) >= 40 THEN "SUSPICIOUS" ELSE s.status
  BY DEF Verdict
<1>7. Verdict(t) \in Verdicts
  BY <1>1, <1>6 DEF Verdicts
<1>8. u.count = t.count /\ u.wiped = t.wiped /\ u.count = count /\ u.wiped = wiped /\ u.changes = later
      /\ u.status = Verdict(t) /\ u.advised = Recommended(t)
  OBVIOUS
<1>9. Composite(u) = Composite(t) /\ (Recommended(u) <=> Recommended(t))
  <2> HIDE DEF u, t
  <2> QED
    BY <1>8, SameScore
<1>10. u \in Session
  <2>1. \E v, r : v = Verdict(t) /\ r = Recommended(t)
    OBVIOUS
  <2>2. PICK v, r : v = Verdict(t) /\ r = Recommended(t)
    BY <2>1
  <2>3. u = [count |-> count, wiped |-> wiped, status |-> v, advised |-> r, changes |-> later]
    BY <2>2
  <2>4. v \in Verdicts /\ r \in BOOLEAN
    BY <1>5, <1>7, <2>2
  <2> HIDE DEF count, wiped, later, u, t
  <2> QED
    BY <1>3, <1>4, <1>5, <2>3, <2>4 DEF Session
<1>11. Grows(s, u)
  <2>1. s.wiped => u.wiped
    BY <1>8
  <2>2. \A n \in Counters : s.count[n] <= u.count[n]
    BY <1>3, <1>8
  <2> HIDE DEF u
  <2> QED
    BY <2>1, <2>2 DEF Grows
<1> HIDE DEF u, t, count, wiped
<1> QED
  BY <1>2, <1>6, <1>8, <1>9, <1>10, <1>11

Telling(f, s, burst) ==
    f = [p \in SUBSET (DOMAIN burst) |->
           IF p = {} THEN s ELSE Told(f[p \ {Max(p)}], burst[Max(p)])]
Teller(s, burst) == CHOOSE f : Telling(f, s, burst)

LEMMA ToldBurstIs == ASSUME NEW s, NEW burst PROVE ToldBurst(s, burst) = Teller(s, burst)[DOMAIN burst]
BY DEF ToldBurst, FoldLeft, MapThenFoldSet, Telling, Teller

\* Sessions that have been told of the past
Fitting == {s \in Session : OfThePast(s.changes)}

LEMMA ToldFits ==
    ASSUME clock \in Nat, NEW s \in Fitting, NEW kind \in EventKinds
    PROVE  Told(s, kind) \in Fitting
<1>1. s \in Session /\ OfThePast(s.changes) /\ s.changes \in Seq(FileChange)
  BY DEF Fitting, Session
<1>2. Told(s, kind) \in Session
      /\ Told(s, kind).changes = IF IsChange(kind) THEN Recorded(s.changes, kind) ELSE s.changes
  BY <1>1, ToldFacts
<1>3. OfThePast(Recorded(s.changes, kind))
  <2>1. 0 \in Nat /\ 0 <= clock
    OBVIOUS
  <2> QED
    BY <1>1, <2>1, SinceRecorded
<1> QED
  BY <1>1, <1>2, <1>3 DEF Fitting

LEMMA TellerTells ==
    ASSUME clock \in Nat, NEW s \in Fitting, NEW burst \in Seq(EventKinds)
    PROVE  /\ Telling(Teller(s, burst), s, burst)
           /\ \A p \in SUBSET (DOMAIN burst) : Teller(s, burst)[p] \in Fitting
<1> DEFINE step == [q \in Fitting \X EventKinds |-> Told(q[1], q[2])]
           D == DOMAIN burst
<1>0. D = 1 .. Len(burst) /\ Len(burst) \in Nat /\ \A i \in D : burst[i] \in EventKinds
  OBVIOUS
<1>1. \A t \in Fitting, kind \in EventKinds : step[<<t, kind>>] = Told(t, kind) /\ Told(t, kind) \in Fitting
  BY ToldFits
<1>2. step \in [Fitting \X EventKinds -> Fitting]
  BY ToldFits
<1> HIDE DEF step
<1>3. PICK f : Folding(f, Fitting, s, step, burst)
  BY <1>2, FoldExists
<1>4. ASSUME NEW p \in SUBSET D, p # {}
      PROVE  Max(p) \in D /\ burst[Max(p)] \in EventKinds /\ p \ {Max(p)} \in SUBSET D
  BY <1>0, <1>4, MaxFacts
<1>5. f \in [SUBSET D -> Fitting]
      /\ \A p \in SUBSET D : f[p] = IF p = {} THEN s ELSE Told(f[p \ {Max(p)}], burst[Max(p)])
  <2>1. f \in [SUBSET D -> Fitting]
        /\ \A p \in SUBSET D : f[p] = IF p = {} THEN s ELSE step[<<f[p \ {Max(p)}], burst[Max(p)]>>]
    BY <1>3 DEF Folding
  <2> HIDE DEF D
  <2> QED
    BY <1>1, <1>4, <2>1
<1>6. Telling(f, s, burst)
  BY <1>5 DEF Telling
<1>7. Telling(Teller(s, burst), s, burst)
  BY <1>6 DEF Teller
<1> DEFINE g == Teller(s, burst)
           Good == {p \in SUBSET D : g[p] = f[p]}
<1>8. \A p \in SUBSET D : g[p] = IF p = {} THEN s ELSE Told(g[p \ {Max(p)}], burst[Max(p)])
  BY <1>7 DEF Telling
<1> HIDE DEF g
<1>9. {} \in Good
  BY <1>5, <1>8
<1>10. ASSUME NEW p \in SUBSET D, p # {}, p \ {Max(p)} \in Good PROVE p \in Good
  BY <1>5, <1>8, <1>10
<1>11. \A p \in SUBSET D : p \in Good
  <2> HIDE DEF Good
  <2> QED
    BY <1>0, <1>9, <1>10, ByLast
<1>12. \A p \in SUBSET D : g[p] \in Fitting
  BY <1>5, <1>11
<1> QED
  BY <1>7, <1>12 DEF g

LEMMA FittingFacts ==
    ASSUME NEW s \in Fitting
    PROVE  /\ s \in Session /\ OfThePast(s.changes) /\ s.changes \in Seq(FileChange) /\ s.count \in [Counters -> Nat]
           /\ s.status \in Verdicts /\ s.wiped \in BOOLEAN /\ s.advised \in BOOLEAN
BY DEF Fitting, Session

LEMMA GrowsOn ==
    ASSUME NEW r \in Fitting, NEW s \in Fitting, NEW t \in Fitting, Grows(r, s), Grows(s, t)
    PROVE  Grows(r, t)
<1>1. ASSUME NEW n \in Counters PROVE r.count[n] <= t.count[n]
  <2>1. r.count[n] \in Nat /\ s.count[n] \in Nat /\ t.count[n] \in Nat
    BY FittingFacts
  <2> QED
    BY <2>1 DEF Grows
<1> QED
  BY <1>1 DEF Grows

LEMMA StaysSound ==
    ASSUME clock \in Nat, NEW s \in Fitting, NEW kind \in EventKinds, Sound(s)
    PROVE  Sound(Told(s, kind))
<1> DEFINE u == Told(s, kind)
<1>1. /\ u \in Fitting /\ Grows(s, u) /\ (u.advised <=> Recommended(u))
      /\ u.status = IF Composite(u) >= 75 THEN "MALICIOUS_RANSOMWARE"
                    ELSE IF Composite(u) >= 40 THEN "SUSPICIOUS" ELSE s.status
  BY FittingFacts, ToldFacts, ToldFits
<1> HIDE DEF u
<1>2. (Composite(s) >= 75 => Composite(u) >= 68) /\ Composite(u) \in Nat
  BY <1>1, FittingFacts, CompositeGrows DEF Grows
<1>3. u.status = "MALICIOUS_RANSOMWARE" => Composite(u) >= 75
  BY <1>1, <1>2 DEF Sound
<1> QED
  BY <1>1, <1>3 DEF Sound, u

\* What is found of a session that has been told of more, by its score
LEMMA Withdrawn ==
    ASSUME NEW s \in Fitting, NEW u \in Fitting, Sound(s), Grows(s, u), u.advised <=> Recommended(u),
           Composite(u) >= 75 => u.status = "MALICIOUS_RANSOMWARE",
           \/ s.status = "MALICIOUS_RANSOMWARE" /\ u.status # "MALICIOUS_RANSOMWARE"
           \/ s.advised /\ ~u.advised
    PROVE  HalfDeleted(s.count) /\ ~HalfDeleted(u.count)
<1>1. s.count \in [Counters -> Nat] /\ u.count \in [Counters -> Nat]
  BY FittingFacts
<1>2. CriticalMatch(s) => CriticalMatch(u)
  <2> DEFINE n == s.count
             m == u.count
  <2>1. /\ n.high <= m.high /\ n.connects <= m.connects /\ Mutations(n) <= Mutations(m) /\ (s.wiped => u.wiped)
        /\ n.high \in Nat /\ m.high \in Nat /\ n.connects \in Nat /\ m.connects \in Nat
        /\ Mutations(n) \in Nat /\ Mutations(m) \in Nat
    <3>1. \A c \in Counters : n[c] \in Nat /\ m[c] \in Nat /\ n[c] <= m[c]
      BY <1>1 DEF Grows
    <3>2. s.wiped => u.wiped
      BY DEF Grows
    <3> HIDE DEF n, m
    <3>3. /\ n.high \in Nat /\ m.high \in Nat /\ n.high <= m.high
          /\ n.connects \in Nat /\ m.connects \in Nat /\ n.connects <= m.connects
          /\ n.modified \in Nat /\ m.modified \in Nat /\ n.modified <= m.modified
          /\ n.created \in Nat /\ m.created \in Nat /\ n.created <= m.created
          /\ n.deleted \in Nat /\ m.deleted \in Nat /\ n.deleted <= m.deleted
          /\ n.renamed \in Nat /\ m.renamed \in Nat /\ n.renamed <= m.renamed
      BY <3>1 DEF Counters
    <3> QED
      BY <3>2, <3>3 DEF Mutations
  <2> HIDE DEF Mutations
  <2> QED
    BY <2>1 DEF CriticalMatch
<1>3. Composite(s) >= 75 /\ ~(Composite(u) >= 75)
  BY <1>2 DEF Sound, Recommended
<1> QED
  BY <1>1, <1>3, CompositeGrows DEF Grows

LEMMA BurstFacts ==
    ASSUME clock \in Nat, NEW s \in Fitting, NEW burst \in Seq(EventKinds)
    PROVE  /\ ToldBurst(s, burst) \in Fitting /\ Grows(s, ToldBurst(s, burst))
           /\ Sound(s) => Sound(ToldBurst(s, burst))
           /\ \/ ToldBurst(s, burst) = s
              \/ /\ ToldBurst(s, burst).advised <=> Recommended(ToldBurst(s, burst))
                 /\ Composite(ToldBurst(s, burst)) >= 75 => ToldBurst(s, burst).status = "MALICIOUS_RANSOMWARE"
<1> DEFINE D == DOMAIN burst
           g == Teller(s, burst)
           Good == {p \in SUBSET D : Grows(s, g[p]) /\ (Sound(s) => Sound(g[p]))}
<1>0. D = 1 .. Len(burst) /\ Len(burst) \in Nat /\ \A i \in D : burst[i] \in EventKinds
  OBVIOUS
<1>1. /\ \A p \in SUBSET D : g[p] = IF p = {} THEN s ELSE Told(g[p \ {Max(p)}], burst[Max(p)])
      /\ \A p \in SUBSET D : g[p] \in Fitting
  <2>1. Telling(g, s, burst) /\ \A p \in SUBSET D : g[p] \in Fitting
    BY TellerTells
  <2> HIDE DEF g
  <2> QED
    BY <2>1 DEF Telling
<1>2. ToldBurst(s, burst) = g[D]
  BY ToldBurstIs
<1> HIDE DEF g
<1>3. {} \in Good
  <2>1. g[{}] = s /\ s.count \in [Counters -> Nat]
    BY <1>1, FittingFacts
  <2>2. Grows(s, s)
    BY <2>1 DEF Grows
  <2> QED
    BY <2>1, <2>2
<1>4. ASSUME NEW p \in SUBSET D, p # {}
      PROVE  /\ burst[Max(p)] \in EventKinds /\ p \ {Max(p)} \in SUBSET D
             /\ g[p \ {Max(p)}] \in Fitting /\ g[p] = Told(g[p \ {Max(p)}], burst[Max(p)])
  <2>1. Max(p) \in D /\ p \ {Max(p)} \in SUBSET D
    BY <1>0, <1>4, MaxFacts
  <2> QED
    BY <1>0, <1>1, <1>4, <2>1
<1>5. ASSUME NEW p \in SUBSET D, p # {}, p \ {Max(p)} \in Good PROVE p \in Good
  <2> DEFINE t == g[p \ {Max(p)}]
  <2>1. t \in Fitting /\ g[p] = Told(t, burst[Max(p)]) /\ burst[Max(p)] \in EventKinds /\ g[p] \in Fitting
    BY <1>1, <1>4, <1>5
  <2>2. Grows(s, t) /\ (Sound(s) => Sound(t))
    BY <1>5
  <2> HIDE DEF t
  <2>3. Grows(t, g[p])
    BY <2>1, FittingFacts, ToldFacts
  <2>4. Grows(s, g[p])
    BY <2>1, <2>2, <2>3, GrowsOn
  <2>5. Sound(s) => Sound(g[p])
    BY <2>1, <2>2, StaysSound
  <2> QED
    BY <2>4, <2>5
<1>6. \A p \in SUBSET D : p \in Good
  <2> HIDE DEF Good
  <2> QED
    BY <1>0, <1>3, <1>5, ByLast
<1>7. \/ g[D] = s
      \/ (g[D].advised <=> Recommended(g[D])) /\ (Composite(g[D]) >= 75 => g[D].status = "MALICIOUS_RANSOMWARE")
  <2>1. CASE D = {}
    BY <1>1, <2>1
  <2>2. CASE D # {}
    <3> DEFINE t == g[D \ {Max(D)}]
               kind == burst[Max(D)]
    <3>1. t \in Fitting /\ g[D] = Told(t, kind) /\ kind \in EventKinds
      BY <1>4, <2>2
    <3> HIDE DEF t, kind
    <3>2. /\ g[D].advised <=> Recommended(g[D])
          /\ g[D].status = IF Composite(g[D]) >= 75 THEN "MALICIOUS_RANSOMWARE"
                           ELSE IF Composite(g[D]) >= 40 THEN "SUSPICIOUS" ELSE t.status
      BY <3>1, FittingFacts, ToldFacts
    <3> QED
      BY <3>2
  <2> QED
    BY <2>1, <2>2
<1>8. g[D] \in Fitting /\ Grows(s, g[D]) /\ (Sound(s) => Sound(g[D]))
  BY <1>1, <1>6
<1> QED
  BY <1>2, <1>7, <1>8

\* Two that agree on what is not older than d agree on it still when both are told
\* of the same.
LEMMA BurstSince ==
    ASSUME clock \in Nat, NEW s \in Fitting, NEW t \in Fitting, NEW burst \in Seq(EventKinds), NEW d \in Nat, d <= clock,
           Since(s.changes, d) = Since(t.changes, d)
    PROVE  Since(ToldBurst(s, burst).changes, d) = Since(ToldBurst(t, burst).changes, d)
<1> DEFINE D == DOMAIN burst
           f == Teller(s, burst)
           g == Teller(t, burst)
           Good == {p \in SUBSET D : Since(f[p].changes, d) = Since(g[p].changes, d)}
<1>0. D = 1 .. Len(burst) /\ Len(burst) \in Nat /\ \A i \in D : burst[i] \in EventKinds
  OBVIOUS
<1>1. /\ \A p \in SUBSET D : f[p] = IF p = {} THEN s ELSE Told(f[p \ {Max(p)}], burst[Max(p)])
      /\ \A p \in SUBSET D : g[p] = IF p = {} THEN t ELSE Told(g[p \ {Max(p)}], burst[Max(p)])
      /\ \A p \in SUBSET D : f[p] \in Fitting /\ g[p] \in Fitting
  <2>1. Telling(f, s, burst) /\ Telling(g, t, burst) /\ \A p \in SUBSET D : f[p] \in Fitting /\ g[p] \in Fitting
    BY TellerTells
  <2> HIDE DEF f, g
  <2> QED
    BY <2>1 DEF Telling
<1>2. ToldBurst(s, burst) = f[D] /\ ToldBurst(t, burst) = g[D]
  BY ToldBurstIs
<1> HIDE DEF f, g
<1>3. {} \in Good
  BY <1>1
<1>4. ASSUME NEW p \in SUBSET D, p # {}, p \ {Max(p)} \in Good PROVE p \in Good
  <2> DEFINE x == f[p \ {Max(p)}]
             y == g[p \ {Max(p)}]
             kind == burst[Max(p)]
  <2>1. Max(p) \in D /\ p \ {Max(p)} \in SUBSET D
    BY <1>0, <1>4, MaxFacts
  <2>2. x \in Fitting /\ y \in Fitting /\ kind \in EventKinds /\ f[p] = Told(x, kind) /\ g[p] = Told(y, kind)
    BY <1>0, <1>1, <1>4, <2>1
  <2>3. Since(x.changes, d) = Since(y.changes, d)
    BY <1>4
  <2> HIDE DEF x, y, kind
  <2>4. /\ Told(x, kind).changes = IF IsChange(kind) THEN Recorded(x.changes, kind) ELSE x.changes
        /\ Told(y, kind).changes = IF IsChange(kind) THEN Recorded(y.changes, kind) ELSE y.changes
    BY <2>2, FittingFacts, ToldFacts
  <2>5. /\ Since(Recorded(x.changes, kind), d) = Recorded(Since(x.changes, d), kind)
        /\ Since(Recorded(y.changes, kind), d) = Recorded(Since(y.changes, d), kind)
    BY <2>2, FittingFacts, SinceRecorded
  <2>6. Since(Told(x, kind).changes, d) = Since(Told(y, kind).changes, d)
    BY <2>3, <2>4, <2>5
  <2> QED
    BY <2>2, <2>6
<1>5. \A p \in SUBSET D : p \in Good
  <2> HIDE DEF Good
  <2> QED
    BY <1>0, <1>3, <1>4, ByLast
<1> QED
  BY <1>2, <1>5

-----------------------------------------------------------------------------
(* The sessions, in every behaviour                                          *)

CallerFits(r, n) ==
    /\ r.pc = "creating" => r \in [pc : {"creating"}, process : Processes, burst : Bursts, session : Nat]
    /\ r.pc = "adding" => r.burst \in Bursts /\ r.session \in 1 .. n
    /\ r.pc = "responding" => r.session \in 1 .. n

\* What a summary of a minute keeps is kept of all changes.
SessionKept(i) ==
    /\ Sound(sessions[i]) /\ OfThePast(sessions[i].changes) /\ OfThePast(made[i]) /\ cut[i] <= clock
    /\ Since(sessions[i].changes, CutAt(i, 60)) = Since(made[i], CutAt(i, 60))

KeptInv ==
    /\ clock \in Nat
    /\ sessions \in Seq(Session) /\ made \in Seq(Seq(FileChange)) /\ cut \in Seq(Nat) /\ owner \in Seq(Processes)
    /\ Len(made) = Len(sessions) /\ Len(cut) = Len(sessions) /\ Len(owner) = Len(sessions)
    /\ pidMap \in [Processes -> 0 .. Len(sessions)]
    /\ DOMAIN caller = Callers /\ \A c \in Callers : CallerFits(caller[c], Len(sessions))
    /\ \A i \in 1 .. Len(sessions) : SessionKept(i)

\* What a step may make of a session
Stands(s, t) ==
    \/ s.status = "MALICIOUS_RANSOMWARE" /\ t.status \notin {"MALICIOUS_RANSOMWARE", "CONTAINED"}
    \/ s.advised /\ ~t.advised
    => /\ HalfDeleted(s.count) /\ ~HalfDeleted(t.count)
       /\ t.count.deleted >= s.count.deleted

LEMMA LaterCut ==
    ASSUME NEW q \in Seq(FileChange), NEW m \in Seq(FileChange), NEW a \in Nat, NEW b \in Nat, a <= b,
           Since(q, a) = Since(m, a)
    PROVE  Since(q, b) = Since(m, b)
<1>1. Since(Since(q, a), b) = Since(q, b) /\ Since(Since(m, a), b) = Since(m, b)
  BY SinceSince
<1> QED
  BY <1>1

LEMMA PrunedFacts ==
    ASSUME NEW s \in Session, OfThePast(s.changes), clock \in Nat, NEW w \in Nat
    PROVE  /\ Pruned(s, w) \in Session /\ Pruned(s, w).changes = Since(s.changes, From(w))
           /\ OfThePast(Pruned(s, w).changes) /\ (Sound(s) => Sound(Pruned(s, w))) /\ Stands(s, Pruned(s, w))
           /\ From(w) \in Nat /\ From(w) <= clock
<1> DEFINE t == Pruned(s, w)
<1>1. From(w) \in Nat /\ From(w) <= clock
  BY DEF From
<1>2. s.changes \in Seq(FileChange)
  BY DEF Session
<1>3. Since(s.changes, From(w)) \in Seq(FileChange) /\ OfThePast(Since(s.changes, From(w)))
  BY <1>1, <1>2, SinceType, SinceFits
<1>4. t = [s EXCEPT !.changes = Since(s.changes, From(w))]
  BY DEF Pruned
<1>5. /\ t \in Session /\ t.changes = Since(s.changes, From(w))
      /\ t.count = s.count /\ t.wiped = s.wiped /\ t.status = s.status /\ t.advised = s.advised
  <2> HIDE DEF t
  <2> QED
    BY <1>3, <1>4 DEF Session
<1> HIDE DEF t
<1>6. Composite(t) = Composite(s) /\ (Recommended(t) <=> Recommended(s))
  BY <1>5, SameScore
<1>7. Sound(s) => Sound(t)
  BY <1>5, <1>6 DEF Sound
<1>8. Stands(s, t)
  BY <1>5 DEF Stands
<1> QED
  BY <1>1, <1>3, <1>5, <1>7, <1>8 DEF t

LEMMA CutFacts ==
    ASSUME KeptInv, NEW i \in 1 .. Len(sessions), NEW w \in Nat
    PROVE  CutAt(i, w) \in Nat /\ CutAt(i, w) <= clock /\ From(w) <= CutAt(i, w) /\ cut[i] <= CutAt(i, w)
<1>1. cut[i] \in Nat /\ cut[i] <= clock /\ clock \in Nat
  BY DEF KeptInv, SessionKept
<1>2. From(w) \in Nat /\ From(w) <= clock
  BY <1>1 DEF From
<1> QED
  BY <1>1, <1>2 DEF CutAt

\* A step that leaves what a session was told, and drops no change of it that is
\* not older than its next cut, keeps it.
LEMMA KeepsOn ==
    ASSUME KeptInv, NEW i \in 1 .. Len(sessions), clock' = clock, made'[i] = made[i],
           NEW t \in Session, sessions'[i] = t, OfThePast(t.changes), Sound(t),
           cut'[i] \in Nat, cut[i] <= cut'[i], cut'[i] <= clock,
           NEW b \in Nat, b <= From(60) \/ b <= cut'[i],
           \A x \in Nat : b <= x => Since(t.changes, x) = Since(sessions[i].changes, x)
    PROVE  SessionKept(i)'
<1> DEFINE s == sessions[i]
           d == CutAt(i, 60)
           e == IF From(60) > cut'[i] THEN From(60) ELSE cut'[i]
<1>1. s \in Session /\ made[i] \in Seq(FileChange) /\ clock \in Nat /\ cut[i] \in Nat
  <2>1. Len(made) = Len(sessions) /\ made \in Seq(Seq(FileChange)) /\ sessions \in Seq(Session) /\ cut \in Seq(Nat)
        /\ Len(cut) = Len(sessions) /\ Len(sessions) \in Nat /\ clock \in Nat
    BY DEF KeptInv
  <2> QED
    BY <2>1
<1>2. OfThePast(made[i]) /\ Since(s.changes, d) = Since(made[i], d)
  BY DEF KeptInv, SessionKept
<1>3. From(60) \in Nat /\ d = IF From(60) > cut[i] THEN From(60) ELSE cut[i]
  BY <1>1 DEF From, CutAt
<1>4. d \in Nat /\ e \in Nat /\ d <= e /\ b <= e
  BY <1>1, <1>3
<1>5. CutAt(i, 60)' = e
  <2>1. From(60)' = From(60)
    BY DEF From
  <2> QED
    BY <2>1 DEF CutAt
<1>6. Since(t.changes, e) = Since(made[i], e)
  <2>1. s.changes \in Seq(FileChange)
    BY <1>1 DEF Session
  <2> HIDE DEF d, e, s
  <2>2. Since(s.changes, e) = Since(made[i], e)
    BY <1>1, <1>2, <1>4, <2>1, LaterCut
  <2> QED
    BY <1>4, <2>2 DEF s
<1>7. OfThePast(sessions[i].changes)' /\ OfThePast(made[i])'
  BY <1>2 DEF OfThePast
<1>8. Sound(sessions[i])'
  BY DEF Sound
<1>9. (cut[i] <= clock)' /\ (Since(sessions[i].changes, CutAt(i, 60)) = Since(made[i], CutAt(i, 60)))'
  BY <1>5, <1>6
<1> QED
  BY <1>7, <1>8, <1>9 DEF SessionKept

\* The session of a position, and its parts
LEMMA AtIndex ==
    ASSUME KeptInv, NEW i \in 1 .. Len(sessions)
    PROVE  /\ sessions[i] \in Session /\ made[i] \in Seq(FileChange) /\ clock \in Nat /\ cut[i] \in Nat /\ cut[i] <= clock
           /\ sessions[i].changes \in Seq(FileChange) /\ sessions[i] \in Fitting
           /\ Sound(sessions[i]) /\ OfThePast(sessions[i].changes) /\ OfThePast(made[i])
           /\ Since(sessions[i].changes, CutAt(i, 60)) = Since(made[i], CutAt(i, 60))
<1>1. Len(made) = Len(sessions) /\ made \in Seq(Seq(FileChange)) /\ sessions \in Seq(Session) /\ cut \in Seq(Nat)
      /\ Len(cut) = Len(sessions) /\ Len(sessions) \in Nat /\ clock \in Nat
  BY DEF KeptInv
<1>2. sessions[i] \in Session /\ made[i] \in Seq(FileChange) /\ cut[i] \in Nat
  BY <1>1
<1>3. SessionKept(i)
  BY DEF KeptInv
<1> QED
  BY <1>1, <1>2, <1>3 DEF SessionKept, Session, Fitting

\* What a step may do to a session
SessionStep(i) == SessionKept(i)' /\ sessions'[i] \in Session /\ Stands(sessions[i], sessions'[i])

LEMMA DropKeeps ==
    ASSUME KeptInv, NEW i \in 1 .. Len(sessions), clock' = clock, made'[i] = made[i], NEW w \in Nat,
           cut'[i] = CutAt(i, w) \/ (w = 60 /\ cut'[i] = cut[i]), sessions'[i] = Pruned(sessions[i], w)
    PROVE  SessionStep(i)
<1> DEFINE s == sessions[i]
           t == Pruned(s, w)
<1>1. s \in Session /\ s.changes \in Seq(FileChange) /\ clock \in Nat /\ cut[i] \in Nat /\ cut[i] <= clock /\ OfThePast(s.changes) /\ Sound(s)
  BY AtIndex
<1>2. /\ t \in Session /\ t.changes = Since(s.changes, From(w))
      /\ OfThePast(t.changes) /\ Sound(t) /\ Stands(s, t) /\ From(w) \in Nat /\ From(w) <= clock
  BY <1>1, PrunedFacts
<1>3. CutAt(i, w) \in Nat /\ CutAt(i, w) <= clock /\ From(w) <= CutAt(i, w) /\ cut[i] <= CutAt(i, w)
  BY CutFacts
<1>4. \A x \in Nat : From(w) <= x => Since(t.changes, x) = Since(s.changes, x)
  BY <1>1, <1>2, SinceSince
<1>5. cut'[i] \in Nat /\ cut[i] <= cut'[i] /\ cut'[i] <= clock /\ (From(w) <= From(60) \/ From(w) <= cut'[i])
  BY <1>1, <1>2, <1>3
<1>6. sessions'[i] = t
  OBVIOUS
<1> HIDE DEF t
<1>7. SessionKept(i)'
  BY <1>2, <1>4, <1>5, <1>6, KeepsOn
<1> QED
  BY <1>2, <1>6, <1>7 DEF SessionStep

LEMMA RulesKeep ==
    ASSUME KeptInv, NEW i \in 1 .. Len(sessions), clock' = clock, made'[i] = made[i],
           cut'[i] = CutAt(i, 20), sessions'[i] = Pruned(Pruned(sessions[i], 20), 60)
    PROVE  SessionStep(i)
<1> DEFINE s == sessions[i]
           t == Pruned(s, 20)
           u == Pruned(t, 60)
<1>1. s \in Session /\ s.changes \in Seq(FileChange) /\ clock \in Nat /\ cut[i] \in Nat /\ OfThePast(s.changes) /\ Sound(s)
  BY AtIndex
<1>2. /\ t \in Session /\ t.changes = Since(s.changes, From(20))
      /\ OfThePast(t.changes) /\ Sound(t) /\ Stands(s, t) /\ From(20) \in Nat /\ From(20) <= clock
  <2>1. 20 \in Nat
    OBVIOUS
  <2> QED
    BY <1>1, <2>1, PrunedFacts
<1>3. /\ u \in Session /\ u.changes = Since(t.changes, From(60)) /\ OfThePast(u.changes) /\ Sound(u) /\ From(60) \in Nat
  <2>1. 60 \in Nat
    OBVIOUS
  <2> HIDE DEF t
  <2> QED
    BY <1>1, <1>2, <2>1, PrunedFacts
<1>4. From(60) <= From(20)
  BY <1>1 DEF From
<1>5. CutAt(i, 20) \in Nat /\ CutAt(i, 20) <= clock /\ From(20) <= CutAt(i, 20) /\ cut[i] <= CutAt(i, 20)
  <2>1. 20 \in Nat
    OBVIOUS
  <2> QED
    BY <2>1, CutFacts
<1>6. u.count = s.count /\ u.status = s.status /\ u.advised = s.advised
  <2>1. \A r \in Session : Pruned(r, 20).count = r.count /\ Pruned(r, 20).status = r.status /\ Pruned(r, 20).advised = r.advised
    BY DEF Pruned, Session
  <2>2. \A r \in Session : Pruned(r, 60).count = r.count /\ Pruned(r, 60).status = r.status /\ Pruned(r, 60).advised = r.advised
    BY DEF Pruned, Session
  <2> HIDE DEF t
  <2>3. u.count = t.count /\ u.status = t.status /\ u.advised = t.advised
    BY <1>2, <2>2
  <2>4. t.count = s.count /\ t.status = s.status /\ t.advised = s.advised
    BY <1>1, <2>1 DEF t
  <2> QED
    BY <2>3, <2>4
<1>7. sessions'[i] = u
  OBVIOUS
<1> HIDE DEF u, t
<1>8. \A x \in Nat : From(20) <= x => Since(u.changes, x) = Since(s.changes, x)
  <2>1. t.changes \in Seq(FileChange)
    BY <1>2 DEF Session
  <2> SUFFICES ASSUME NEW x \in Nat, From(20) <= x PROVE Since(u.changes, x) = Since(s.changes, x)
    OBVIOUS
  <2>2. Since(t.changes, x) = Since(s.changes, x)
    BY <1>1, <1>2, SinceSince
  <2>3. From(60) <= x
    BY <1>2, <1>3, <1>4
  <2>4. Since(u.changes, x) = Since(t.changes, x)
    BY <1>3, <2>1, <2>3, SinceSince
  <2> QED
    BY <2>2, <2>4
<1>9. cut'[i] \in Nat /\ cut[i] <= cut'[i] /\ cut'[i] <= clock /\ From(20) <= cut'[i]
  BY <1>5
<1>10. SessionKept(i)'
  BY <1>2, <1>3, <1>7, <1>8, <1>9, KeepsOn
<1>11. Stands(s, u)
  BY <1>6 DEF Stands
<1> QED
  BY <1>3, <1>7, <1>10, <1>11 DEF SessionStep

\* A session that is left as it is
LEMMA StillKept ==
    ASSUME KeptInv, NEW i \in 1 .. Len(sessions), clock' = clock, made'[i] = made[i],
           cut'[i] = cut[i], sessions'[i] = sessions[i]
    PROVE  SessionStep(i)
<1>1. /\ sessions[i] \in Session /\ clock \in Nat /\ cut[i] \in Nat /\ cut[i] <= clock
      /\ OfThePast(sessions[i].changes) /\ Sound(sessions[i])
  BY AtIndex
<1>2. cut'[i] \in Nat /\ cut[i] <= cut'[i] /\ cut'[i] <= clock /\ cut[i] <= cut'[i]
  BY <1>1
<1>3. SessionKept(i)'
  BY <1>1, <1>2, KeepsOn
<1>4. Stands(sessions[i], sessions[i])
  BY DEF Stands
<1> QED
  BY <1>1, <1>3, <1>4 DEF SessionStep

LEMMA ContainedKeeps ==
    ASSUME KeptInv, NEW i \in 1 .. Len(sessions), clock' = clock, made'[i] = made[i],
           cut'[i] = cut[i], sessions'[i] = [sessions[i] EXCEPT !.status = "CONTAINED"]
    PROVE  SessionStep(i)
<1> DEFINE s == sessions[i]
           t == [s EXCEPT !.status = "CONTAINED"]
<1>1. s \in Session /\ clock \in Nat /\ cut[i] \in Nat /\ cut[i] <= clock /\ OfThePast(s.changes) /\ Sound(s)
  BY AtIndex
<1>2. /\ t \in Session /\ t.count = s.count /\ t.wiped = s.wiped /\ t.changes = s.changes
      /\ t.status = "CONTAINED" /\ t.advised = s.advised
  BY <1>1 DEF Session, Verdicts
<1>3. sessions'[i] = t
  OBVIOUS
<1> HIDE DEF t
<1>4. Sound(t)
  <2>1. Recommended(s) <=> Recommended(t)
    BY <1>2, SameScore
  <2> QED
    BY <1>1, <1>2, <2>1 DEF Sound
<1>5. cut'[i] \in Nat /\ cut[i] <= cut'[i] /\ cut'[i] <= clock
  BY <1>1
<1>6. OfThePast(t.changes) /\ \A x \in Nat : cut[i] <= x => Since(t.changes, x) = Since(s.changes, x)
  BY <1>1, <1>2
<1>7. SessionKept(i)'
  BY <1>1, <1>2, <1>3, <1>4, <1>5, <1>6, KeepsOn
<1>8. Stands(s, t)
  BY <1>2 DEF Stands
<1> QED
  BY <1>2, <1>3, <1>7, <1>8 DEF SessionStep

\* A burst that is told to a session, and to all that it was ever told
LEMMA ToldKeeps ==
    ASSUME KeptInv, NEW i \in 1 .. Len(sessions), NEW burst \in Seq(EventKinds), clock' = clock, cut'[i] = cut[i],
           sessions'[i] = ToldBurst(sessions[i], burst),
           made'[i] = ToldBurst([sessions[i] EXCEPT !.changes = made[i]], burst).changes
    PROVE  SessionStep(i) /\ made'[i] \in Seq(FileChange)
<1> DEFINE s == sessions[i]
           d == CutAt(i, 60)
           m == [s EXCEPT !.changes = made[i]]
           u == ToldBurst(s, burst)
           v == ToldBurst(m, burst)
<1>1. /\ s \in Fitting /\ s \in Session /\ clock \in Nat /\ cut[i] \in Nat /\ cut[i] <= clock /\ Sound(s)
      /\ made[i] \in Seq(FileChange) /\ OfThePast(made[i]) /\ Since(s.changes, d) = Since(made[i], d)
  BY AtIndex
<1>2. m \in Fitting /\ m.changes = made[i]
  BY <1>1 DEF Fitting, Session
<1>3. d \in Nat /\ d <= clock
  <2>1. 60 \in Nat
    OBVIOUS
  <2> QED
    BY <2>1, CutFacts
<1>4. sessions'[i] = u /\ made'[i] = v.changes
  OBVIOUS
<1> HIDE DEF s, m
<1>5. /\ u \in Fitting /\ Grows(s, u) /\ (Sound(s) => Sound(u))
      /\ \/ u = s
         \/ (u.advised <=> Recommended(u)) /\ (Composite(u) >= 75 => u.status = "MALICIOUS_RANSOMWARE")
  BY <1>1, BurstFacts
<1>6. v \in Fitting
  BY <1>1, <1>2, BurstFacts
<1>7. Since(u.changes, d) = Since(v.changes, d)
  <2> HIDE DEF d
  <2> QED
    BY <1>1, <1>2, <1>3, BurstSince
<1> HIDE DEF u, v, d
<1>8. u \in Session /\ OfThePast(u.changes) /\ OfThePast(v.changes) /\ v.changes \in Seq(FileChange)
  BY <1>5, <1>6, FittingFacts
<1>9. CutAt(i, 60)' = d
  BY DEF CutAt, From, d
<1>10. SessionKept(i)'
  <2>1. OfThePast(sessions[i].changes)' /\ OfThePast(made[i])'
    BY <1>4, <1>8 DEF OfThePast
  <2>2. Sound(sessions[i])'
    BY <1>1, <1>4, <1>5 DEF Sound
  <2>3. (cut[i] <= clock)' /\ (Since(sessions[i].changes, CutAt(i, 60)) = Since(made[i], CutAt(i, 60)))'
    BY <1>1, <1>4, <1>7, <1>9
  <2> QED
    BY <2>1, <2>2, <2>3 DEF SessionKept
<1>11. Stands(s, u)
  <2>1. u = s => Stands(s, u)
    BY DEF Stands
  <2>2. u.count.deleted >= s.count.deleted
    <3>1. s.count \in [Counters -> Nat] /\ u.count \in [Counters -> Nat] /\ s.count["deleted"] <= u.count["deleted"]
      BY <1>1, <1>5, FittingFacts DEF Grows, Counters
    <3>2. "deleted" \in Counters
      BY DEF Counters
    <3> QED
      BY <3>1, <3>2
  <2>3. ASSUME u # s,
               \/ s.status = "MALICIOUS_RANSOMWARE" /\ u.status # "MALICIOUS_RANSOMWARE"
               \/ s.advised /\ ~u.advised
        PROVE  HalfDeleted(s.count) /\ ~HalfDeleted(u.count)
    BY <1>1, <1>5, <2>3, Withdrawn
  <2> QED
    BY <2>1, <2>2, <2>3 DEF Stands
<1> QED
  BY <1>4, <1>8, <1>10, <1>11 DEF SessionStep, s

LEMMA CallsOn ==
    ASSUME KeptInv, NEW c \in Callers, NEW r, caller' = [caller EXCEPT ![c] = r], CallerFits(r, Len(sessions')),
           Len(sessions') \in Nat, Len(sessions) <= Len(sessions')
    PROVE  DOMAIN caller' = Callers /\ \A d \in Callers : CallerFits(caller'[d], Len(sessions'))
<1>1. DOMAIN caller' = Callers /\ caller'[c] = r /\ \A d \in Callers : d # c => caller'[d] = caller[d]
  BY DEF KeptInv
<1>2. ASSUME NEW d \in Callers, d # c PROVE CallerFits(caller'[d], Len(sessions'))
  <2>1. caller'[d] = caller[d] /\ CallerFits(caller[d], Len(sessions)) /\ Len(sessions) \in Nat
    BY <1>1, <1>2 DEF KeptInv
  <2>2. 1 .. Len(sessions) \in SUBSET (1 .. Len(sessions'))
    BY <2>1
  <2> QED
    BY <2>1, <2>2 DEF CallerFits
<1> QED
  BY <1>1, <1>2

\* A step that creates no session keeps the invariant when it keeps every session.
LEMMA KeptOn ==
    ASSUME KeptInv, clock' = clock, owner' = owner, pidMap' = pidMap,
           sessions' \in Seq(Session), made' \in Seq(Seq(FileChange)), cut' \in Seq(Nat),
           Len(sessions') = Len(sessions), Len(made') = Len(sessions), Len(cut') = Len(sessions),
           DOMAIN caller' = Callers /\ \A d \in Callers : CallerFits(caller'[d], Len(sessions)),
           \A i \in 1 .. Len(sessions) : SessionStep(i)
    PROVE  KeptInv' /\ \A i \in 1 .. Len(sessions) : Stands(sessions[i], sessions'[i])
BY DEF KeptInv, SessionStep

LEMMA Shapes ==
    ASSUME KeptInv
    PROVE  /\ sessions \in Seq(Session) /\ made \in Seq(Seq(FileChange)) /\ cut \in Seq(Nat) /\ owner \in Seq(Processes)
           /\ Len(sessions) \in Nat /\ Len(made) = Len(sessions) /\ Len(cut) = Len(sessions) /\ Len(owner) = Len(sessions)
           /\ DOMAIN sessions = 1 .. Len(sessions) /\ DOMAIN made = 1 .. Len(sessions) /\ DOMAIN cut = 1 .. Len(sessions)
           /\ DOMAIN caller = Callers /\ (\A c \in Callers : CallerFits(caller[c], Len(sessions)))
           /\ clock \in Nat /\ pidMap \in [Processes -> 0 .. Len(sessions)]
BY DEF KeptInv

LEMMA InitKept == BehaviorInit => KeptInv
<1> SUFFICES ASSUME BehaviorInit PROVE KeptInv
  OBVIOUS
<1>1. /\ clock = 0 /\ sessions = << >> /\ made = << >> /\ cut = << >> /\ owner = << >>
      /\ pidMap = [p \in Processes |-> 0] /\ caller = [c \in Callers |-> [pc |-> "idle"]]
  BY DEF BehaviorInit, Idle
<1>2. DOMAIN caller = Callers /\ \A c \in Callers : CallerFits(caller[c], Len(sessions))
  BY <1>1 DEF CallerFits
<1>3. Len(sessions) = 0 /\ Len(made) = 0 /\ Len(cut) = 0 /\ Len(owner) = 0
  BY <1>1
<1> QED
  BY <1>1, <1>2, <1>3 DEF KeptInv

LEMMA FindKept ==
    ASSUME KeptInv, NEW c \in Callers, NEW p \in Processes, NEW burst \in Bursts, Find(c, p, burst)
    PROVE  KeptInv' /\ \A i \in 1 .. Len(sessions) : Stands(sessions[i], sessions'[i])
<1> DEFINE r == [pc |-> IF pidMap[p] = 0 THEN "creating" ELSE "adding",
                 process |-> p, burst |-> burst, session |-> pidMap[p]]
<1>1. caller' = [caller EXCEPT ![c] = r] /\ UNCHANGED <<sessions, owner, pidMap, clock, made, cut>>
  BY DEF Find, ToCaller
<1>2. CallerFits(r, Len(sessions))
  <2>1. pidMap[p] \in 0 .. Len(sessions) /\ Len(sessions) \in Nat
    BY DEF KeptInv
  <2> QED
    BY <2>1 DEF CallerFits
<1> HIDE DEF r
<1>3. DOMAIN caller' = Callers /\ \A d \in Callers : CallerFits(caller'[d], Len(sessions))
  BY <1>1, <1>2, Shapes, CallsOn
<1>4. \A i \in 1 .. Len(sessions) : SessionStep(i)
  BY <1>1, StillKept
<1> QED
  BY <1>1, <1>3, <1>4, Shapes, KeptOn

LEMMA CreateKept ==
    ASSUME KeptInv, NEW c \in Callers, Create(c)
    PROVE  KeptInv' /\ \A i \in 1 .. Len(sessions) : Stands(sessions[i], sessions'[i])
<1> DEFINE n == Len(sessions) + 1
           r == [caller[c] EXCEPT !.pc = "adding", !.session = n]
<1>1. /\ caller[c].pc = "creating" /\ sessions' = Append(sessions, NewSession)
      /\ owner' = Append(owner, caller[c].process) /\ pidMap' = [pidMap EXCEPT ![caller[c].process] = n]
      /\ made' = Append(made, << >>) /\ cut' = Append(cut, 0)
      /\ caller' = [caller EXCEPT ![c] = r] /\ clock' = clock
  <2>1. Len(owner) = Len(sessions)
    BY Shapes
  <2> QED
    BY <2>1 DEF Create, ToCaller, Enters
<1>2. caller[c] \in [pc : {"creating"}, process : Processes, burst : Bursts, session : Nat]
  BY <1>1, Shapes DEF CallerFits
<1>3. NewSession \in Session /\ OfThePast(NewSession.changes) /\ Sound(NewSession) /\ NewSession.changes = << >>
  <2>1. NewSession = [count |-> [k \in Counters |-> 0], wiped |-> FALSE, status |-> "ACTIVE", advised |-> FALSE,
                      changes |-> << >>]
    BY DEF NewSession
  <2>2. [k \in Counters |-> 0] \in [Counters -> Nat] /\ << >> \in Seq(FileChange) /\ "ACTIVE" \in Verdicts
    BY DEF Verdicts
  <2>3. NewSession \in Session
    BY <2>1, <2>2 DEF Session
  <2>4. NewSession.changes = << >> /\ NewSession.status = "ACTIVE" /\ ~NewSession.advised
    BY <2>1
  <2> QED
    BY <2>3, <2>4 DEF OfThePast, Sound
<1>4. /\ sessions' \in Seq(Session) /\ made' \in Seq(Seq(FileChange)) /\ cut' \in Seq(Nat) /\ owner' \in Seq(Processes)
      /\ Len(sessions') = n /\ Len(made') = n /\ Len(cut') = n /\ Len(owner') = n /\ n \in Nat
      /\ \A i \in 1 .. Len(sessions) : sessions'[i] = sessions[i] /\ made'[i] = made[i] /\ cut'[i] = cut[i]
      /\ sessions'[n] = NewSession /\ made'[n] = << >> /\ cut'[n] = 0
  <2>1. << >> \in Seq(FileChange) /\ 0 \in Nat /\ caller[c].process \in Processes
    BY <1>2
  <2>0. ASSUME NEW S, NEW q \in Seq(S), NEW x \in S
        PROVE  /\ Append(q, x) \in Seq(S) /\ Len(Append(q, x)) = Len(q) + 1 /\ Append(q, x)[Len(q) + 1] = x
               /\ \A i \in 1 .. Len(q) : Append(q, x)[i] = q[i]
    OBVIOUS
  <2>2. sessions' \in Seq(Session) /\ Len(sessions') = n /\ n \in Nat /\ sessions'[n] = NewSession
        /\ \A i \in 1 .. Len(sessions) : sessions'[i] = sessions[i]
    BY <1>1, <1>3, Shapes
  <2>3. made' \in Seq(Seq(FileChange)) /\ Len(made') = n /\ made'[n] = << >>
        /\ \A i \in 1 .. Len(sessions) : made'[i] = made[i]
    BY <1>1, <2>1, Shapes
  <2>4. cut' \in Seq(Nat) /\ Len(cut') = n /\ cut'[n] = 0 /\ \A i \in 1 .. Len(sessions) : cut'[i] = cut[i]
    BY <1>1, <2>0, <2>1, Shapes
  <2>5. owner' \in Seq(Processes) /\ Len(owner') = n
    BY <1>1, <2>1, Shapes
  <2> QED
    BY <2>2, <2>3, <2>4, <2>5
<1>5. pidMap' \in [Processes -> 0 .. n]
  <2>1. 0 .. Len(sessions) \in SUBSET (0 .. n) /\ n \in 0 .. n
    BY Shapes
  <2> HIDE DEF n
  <2> QED
    BY <1>1, <2>1, Shapes
<1>6. CallerFits(r, n)
  <2>1. r.pc = "adding" /\ r.session = n /\ r.burst = caller[c].burst /\ n \in 1 .. n
    BY <1>2, Shapes
  <2> QED
    BY <1>2, <2>1 DEF CallerFits
<1>7. DOMAIN caller' = Callers /\ \A d \in Callers : CallerFits(caller'[d], Len(sessions'))
  <2>1. Len(sessions) <= n
    BY Shapes
  <2> HIDE DEF n, r
  <2> QED
    BY <1>1, <1>4, <1>6, <2>1, CallsOn
<1>8. \A i \in 1 .. Len(sessions) : SessionStep(i)
  BY <1>1, <1>4, StillKept
<1>9. ASSUME NEW k, k = n PROVE SessionKept(k)'
  <2> HIDE DEF n
  <2>1. sessions'[k] = NewSession /\ made'[k] = << >> /\ cut'[k] = 0
    BY <1>4, <1>9
  <2>2. OfThePast(sessions[k].changes)' /\ OfThePast(made[k])' /\ Sound(sessions[k])'
    <3>1. NewSession.status # "MALICIOUS_RANSOMWARE" /\ ~NewSession.advised
      BY DEF NewSession
    <3> QED
      BY <1>3, <2>1, <3>1 DEF OfThePast, Sound
  <2>3. (cut[k] <= clock)'
    <3>1. clock' \in Nat /\ cut'[k] = 0
      BY <1>1, <2>1, Shapes
    <3> QED
      BY <3>1
  <2>4. (Since(sessions[k].changes, CutAt(k, 60)) = Since(made[k], CutAt(k, 60)))'
    BY <1>3, <2>1
  <2> QED
    BY <2>2, <2>3, <2>4 DEF SessionKept
<1>10. \A i \in 1 .. Len(sessions') : SessionKept(i)'
  <2>1. \A i \in 1 .. Len(sessions') : i \in 1 .. Len(sessions) \/ i = n
    BY <1>4, Shapes
  <2> HIDE DEF n
  <2> QED
    BY <1>8, <1>9, <2>1 DEF SessionStep
<1>11. KeptInv'
  <2>1. clock' \in Nat
    BY <1>1, Shapes
  <2> HIDE DEF n
  <2> QED
    BY <1>4, <1>5, <1>7, <1>10, <2>1 DEF KeptInv
<1> QED
  BY <1>8, <1>11 DEF SessionStep

LEMMA IngestKeeps ==
    ASSUME KeptInv, NEW c \in Callers, Ingest(c)
    PROVE  KeptInv' /\ \A i \in 1 .. Len(sessions) : Stands(sessions[i], sessions'[i])
<1> DEFINE k == caller[c].session
           burst == caller[c].burst
           u == ToldBurst(sessions[k], burst)
           v == ToldBurst([sessions[k] EXCEPT !.changes = made[k]], burst).changes
<1>1. /\ caller[c].pc = "adding" /\ sessions' = [sessions EXCEPT ![k] = u] /\ made' = [made EXCEPT ![k] = v]
      /\ caller' = [caller EXCEPT ![c] = Idle] /\ UNCHANGED <<owner, pidMap, clock, cut>>
  BY DEF Ingest, ToCaller
<1>2. k \in 1 .. Len(sessions) /\ burst \in Seq(EventKinds)
  BY <1>1, Shapes, BehaviorAssumption DEF CallerFits
<1> HIDE DEF k, burst
<1>3. /\ sessions'[k] = u /\ made'[k] = v /\ cut'[k] = cut[k]
      /\ \A i \in 1 .. Len(sessions) : i # k => sessions'[i] = sessions[i] /\ made'[i] = made[i]
  <2> HIDE DEF u, v
  <2> QED
    BY <1>1, <1>2, Shapes
<1>4. SessionStep(k) /\ v \in Seq(FileChange)
  <2>1. SessionStep(k) /\ made'[k] \in Seq(FileChange)
    BY <1>1, <1>2, <1>3, ToldKeeps
  <2> QED
    BY <1>3, <2>1
<1> HIDE DEF u, v
<1>5. \A i \in 1 .. Len(sessions) : SessionStep(i)
  <2> SUFFICES ASSUME NEW i \in 1 .. Len(sessions), i # k PROVE SessionStep(i)
    BY <1>4
  <2> QED
    BY <1>1, <1>3, StillKept
<1>6. /\ sessions' \in Seq(Session) /\ made' \in Seq(Seq(FileChange))
      /\ Len(sessions') = Len(sessions) /\ Len(made') = Len(sessions)
  <2>1. u \in Session
    BY <1>3, <1>4 DEF SessionStep
  <2> QED
    BY <1>1, <1>2, <1>4, <2>1, Shapes
<1>7. DOMAIN caller' = Callers /\ \A d \in Callers : CallerFits(caller'[d], Len(sessions))
  <2>1. CallerFits(Idle, Len(sessions))
    BY DEF CallerFits, Idle
  <2> QED
    BY <1>1, <1>6, <2>1, Shapes, CallsOn
<1> QED
  BY <1>1, <1>5, <1>6, <1>7, Shapes, KeptOn

\* A step that prunes sessions, and leaves the rest
LEMMA PrunesKeep ==
    ASSUME KeptInv, UNCHANGED <<owner, pidMap, clock, made>>,
           DOMAIN caller' = Callers /\ \A d \in Callers : CallerFits(caller'[d], Len(sessions)),
           sessions' \in [1 .. Len(sessions) -> Session], cut' \in [1 .. Len(sessions) -> Nat],
           \A i \in 1 .. Len(sessions) : SessionStep(i)
    PROVE  KeptInv' /\ \A i \in 1 .. Len(sessions) : Stands(sessions[i], sessions'[i])
<1>1. sessions' \in Seq(Session) /\ cut' \in Seq(Nat) /\ Len(sessions') = Len(sessions) /\ Len(cut') = Len(sessions)
  <2>1. ASSUME NEW S, NEW n \in Nat, NEW f \in [1 .. n -> S] PROVE f \in Seq(S) /\ Len(f) = n
    OBVIOUS
  <2>2. Len(sessions) \in Nat
    BY Shapes
  <2> QED
    BY <2>1, <2>2
<1> QED
  BY <1>1, Shapes, KeptOn

LEMMA EvaluateKeeps ==
    ASSUME KeptInv, NEW k \in 1 .. Len(sessions), EvaluateRules(k)
    PROVE  KeptInv' /\ \A i \in 1 .. Len(sessions) : Stands(sessions[i], sessions'[i])
<1> DEFINE u == Pruned(Pruned(sessions[k], 20), 60)
           d == CutAt(k, 20)
<1>1. /\ sessions' = [sessions EXCEPT ![k] = u] /\ cut' = [cut EXCEPT ![k] = d]
      /\ UNCHANGED <<owner, pidMap, caller, clock, made>>
  BY DEF EvaluateRules
<1>2. sessions'[k] = u /\ cut'[k] = d
      /\ \A i \in 1 .. Len(sessions) : i # k => sessions'[i] = sessions[i] /\ cut'[i] = cut[i]
  <2> HIDE DEF u, d
  <2> QED
    BY <1>1, Shapes
<1>3. SessionStep(k)
  BY <1>1, <1>2, RulesKeep
<1>4. d \in Nat
  <2>1. 20 \in Nat
    OBVIOUS
  <2> QED
    BY <2>1, CutFacts
<1> HIDE DEF u, d
<1>5. \A i \in 1 .. Len(sessions) : SessionStep(i)
  <2> SUFFICES ASSUME NEW i \in 1 .. Len(sessions), i # k PROVE SessionStep(i)
    BY <1>3
  <2> QED
    BY <1>1, <1>2, StillKept
<1>6. sessions' \in [1 .. Len(sessions) -> Session] /\ cut' \in [1 .. Len(sessions) -> Nat]
  <2>1. u \in Session
    BY <1>2, <1>3 DEF SessionStep
  <2> QED
    BY <1>1, <1>4, <2>1, Shapes
<1> QED
  BY <1>1, <1>5, <1>6, Shapes, PrunesKeep

LEMMA ListKeeps ==
    ASSUME KeptInv, List
    PROVE  KeptInv' /\ \A i \in 1 .. Len(sessions) : Stands(sessions[i], sessions'[i])
<1>1. /\ sessions' = [i \in 1 .. Len(sessions) |-> Pruned(sessions[i], 30)]
      /\ cut' = [i \in 1 .. Len(sessions) |-> CutAt(i, 30)] /\ UNCHANGED <<owner, pidMap, caller, clock, made>>
  BY Shapes DEF List
<1>2. ASSUME NEW i \in 1 .. Len(sessions) PROVE SessionStep(i) /\ cut'[i] \in Nat
  <2>1. sessions'[i] = Pruned(sessions[i], 30) /\ cut'[i] = CutAt(i, 30) /\ 30 \in Nat /\ made'[i] = made[i]
    BY <1>1
  <2> QED
    BY <1>1, <2>1, DropKeeps, CutFacts
<1>3. sessions' \in [1 .. Len(sessions) -> Session] /\ cut' \in [1 .. Len(sessions) -> Nat]
  <2>1. \A i \in 1 .. Len(sessions) : sessions'[i] \in Session /\ cut'[i] \in Nat
    BY <1>2 DEF SessionStep
  <2>2. DOMAIN sessions' = 1 .. Len(sessions) /\ sessions' = [i \in 1 .. Len(sessions) |-> sessions'[i]]
        /\ DOMAIN cut' = 1 .. Len(sessions) /\ cut' = [i \in 1 .. Len(sessions) |-> cut'[i]]
    BY <1>1
  <2> QED
    BY <2>1, <2>2
<1> QED
  BY <1>1, <1>2, <1>3, Shapes, PrunesKeep

LEMMA ScoreKeeps ==
    ASSUME KeptInv, NEW c \in Callers, NEW k \in 1 .. Len(sessions), Score(c, k)
    PROVE  KeptInv' /\ \A i \in 1 .. Len(sessions) : Stands(sessions[i], sessions'[i])
<1> DEFINE u == Pruned(sessions[k], 60)
           r == [pc |-> "responding", session |-> k, report |-> Correlation(u)]
<1>1. /\ sessions' = [sessions EXCEPT ![k] = u] /\ caller' = [caller EXCEPT ![c] = r]
      /\ UNCHANGED <<owner, pidMap, clock, made, cut>>
  BY DEF Score, ToCaller
<1>2. CallerFits(r, Len(sessions))
  <2>1. r.pc = "responding" /\ r.session = k
    OBVIOUS
  <2> QED
    BY <2>1 DEF CallerFits
<1> HIDE DEF r
<1>3. sessions'[k] = u /\ \A i \in 1 .. Len(sessions) : i # k => sessions'[i] = sessions[i]
  <2> HIDE DEF u
  <2> QED
    BY <1>1, Shapes
<1>4. SessionStep(k)
  <2>1. 60 \in Nat /\ cut'[k] = cut[k] /\ made'[k] = made[k] /\ clock' = clock
    BY <1>1
  <2> QED
    BY <1>3, <2>1, DropKeeps
<1> HIDE DEF u
<1>5. \A i \in 1 .. Len(sessions) : SessionStep(i)
  <2> SUFFICES ASSUME NEW i \in 1 .. Len(sessions), i # k PROVE SessionStep(i)
    BY <1>4
  <2> QED
    BY <1>1, <1>3, StillKept
<1>6. sessions' \in [1 .. Len(sessions) -> Session] /\ cut' \in [1 .. Len(sessions) -> Nat] /\ Len(sessions') = Len(sessions)
  <2>1. u \in Session
    BY <1>3, <1>4 DEF SessionStep
  <2>2. ASSUME NEW q \in Seq(Nat) PROVE q \in [1 .. Len(q) -> Nat]
    OBVIOUS
  <2>3. cut' \in [1 .. Len(sessions) -> Nat]
    BY <1>1, <2>2, Shapes
  <2> QED
    BY <1>1, <2>1, <2>3, Shapes
<1>7. DOMAIN caller' = Callers /\ \A d \in Callers : CallerFits(caller'[d], Len(sessions))
  BY <1>1, <1>2, <1>6, Shapes, CallsOn
<1> QED
  BY <1>1, <1>5, <1>6, <1>7, PrunesKeep

LEMMA RespondKeeps ==
    ASSUME KeptInv, NEW c \in Callers, Respond(c)
    PROVE  KeptInv' /\ \A i \in 1 .. Len(sessions) : Stands(sessions[i], sessions'[i])
<1> DEFINE k == caller[c].session
           u == [sessions[k] EXCEPT !.status = "CONTAINED"]
<1>1. /\ sessions' = [sessions EXCEPT ![k] = u] \/ sessions' = sessions
      /\ caller' = [caller EXCEPT ![c] = Idle] /\ UNCHANGED <<owner, pidMap, clock, made, cut>>
  BY DEF Respond, ToCaller
<1>2. k \in 1 .. Len(sessions)
  <2>1. caller[c].pc = "responding"
    BY DEF Respond
  <2> QED
    BY <2>1, Shapes DEF CallerFits
<1> HIDE DEF k
<1>3. \A i \in 1 .. Len(sessions) : SessionStep(i)
  <2> SUFFICES ASSUME NEW i \in 1 .. Len(sessions) PROVE SessionStep(i)
    OBVIOUS
  <2>1. CASE sessions'[i] = sessions[i]
    BY <1>1, <2>1, StillKept
  <2>2. CASE i = k /\ sessions' = [sessions EXCEPT ![k] = u]
    <3>1. sessions'[i] = [sessions[i] EXCEPT !.status = "CONTAINED"]
      BY <1>2, <2>2, Shapes
    <3> QED
      BY <1>1, <3>1, ContainedKeeps
  <2> HIDE DEF u
  <2> QED
    BY <1>1, <1>2, <2>1, <2>2, Shapes
<1>4. sessions' \in [1 .. Len(sessions) -> Session] /\ cut' \in [1 .. Len(sessions) -> Nat] /\ Len(sessions') = Len(sessions)
  <2>1. \A i \in 1 .. Len(sessions) : sessions'[i] \in Session
    BY <1>3 DEF SessionStep
  <2>2. DOMAIN sessions' = 1 .. Len(sessions) /\ sessions' = [i \in 1 .. Len(sessions) |-> sessions'[i]]
        /\ Len(sessions') = Len(sessions)
    <3> HIDE DEF u
    <3> QED
      BY <1>1, <1>2, Shapes
  <2>3. cut' \in [1 .. Len(sessions) -> Nat]
    BY <1>1, Shapes
  <2> QED
    BY <2>1, <2>2, <2>3
<1>5. DOMAIN caller' = Callers /\ \A d \in Callers : CallerFits(caller'[d], Len(sessions))
  <2>1. CallerFits(Idle, Len(sessions))
    BY DEF CallerFits, Idle
  <2> HIDE DEF u
  <2> QED
    BY <1>1, <1>4, <2>1, Shapes, CallsOn
<1> QED
  BY <1>1, <1>3, <1>4, <1>5, PrunesKeep

LEMMA PassesKeeps ==
    ASSUME KeptInv, Passes
    PROVE  KeptInv' /\ \A i \in 1 .. Len(sessions) : Stands(sessions[i], sessions'[i])
<1>1. clock' = clock + Delay /\ UNCHANGED <<sessions, owner, pidMap, caller, made, cut>>
  BY DEF Passes
<1>2. clock \in Nat /\ clock' \in Nat /\ clock <= clock'
  BY <1>1, Shapes, BehaviorAssumption
<1>3. ASSUME NEW i \in 1 .. Len(sessions) PROVE SessionKept(i)' /\ Stands(sessions[i], sessions'[i])
  <2> DEFINE d == CutAt(i, 60)
             e == IF From(60)' > cut[i] THEN From(60)' ELSE cut[i]
  <2>1. /\ sessions[i].changes \in Seq(FileChange) /\ made[i] \in Seq(FileChange) /\ cut[i] \in Nat /\ cut[i] <= clock
        /\ Sound(sessions[i]) /\ OfThePast(sessions[i].changes) /\ OfThePast(made[i])
        /\ Since(sessions[i].changes, d) = Since(made[i], d)
    BY AtIndex
  <2>2. From(60) \in Nat /\ From(60)' \in Nat /\ From(60) <= From(60)'
    <3>1. From(60) = (IF clock > 60 THEN clock - 60 ELSE 0) /\ From(60)' = IF clock' > 60 THEN clock' - 60 ELSE 0
      BY DEF From
    <3> QED
      BY <1>2, <3>1
  <2>3. d \in Nat /\ e \in Nat /\ d <= e
    BY <2>1, <2>2 DEF CutAt
  <2>4. CutAt(i, 60)' = e
    BY <1>1 DEF CutAt
  <2>5. Since(sessions[i].changes, e) = Since(made[i], e)
    <3> HIDE DEF d, e
    <3> QED
      BY <2>1, <2>3, LaterCut
  <2>6. OfThePast(sessions[i].changes)' /\ OfThePast(made[i])'
    <3>1. \A q \in Seq(FileChange) : OfThePast(q) => \A j \in DOMAIN q : q[j].at <= clock' /\ q[j].at <= q[Len(q)].at
      <4> SUFFICES ASSUME NEW q \in Seq(FileChange), OfThePast(q), NEW j \in DOMAIN q
                   PROVE  q[j].at <= clock' /\ q[j].at <= q[Len(q)].at
        OBVIOUS
      <4>1. q[j] \in FileChange
        OBVIOUS
      <4>2. q[j].at \in Nat /\ q[j].at <= clock /\ q[j].at <= q[Len(q)].at
        BY <4>1 DEF FileChange, OfThePast
      <4> QED
        BY <1>2, <4>2
    <3> QED
      BY <1>1, <2>1, <3>1 DEF OfThePast
  <2>7. Sound(sessions[i])'
    BY <1>1, <2>1 DEF Sound
  <2>8. (cut[i] <= clock)'
    BY <1>1, <1>2, <2>1
  <2>9. Stands(sessions[i], sessions'[i])
    BY <1>1 DEF Stands
  <2>10. (Since(sessions[i].changes, CutAt(i, 60)) = Since(made[i], CutAt(i, 60)))'
    BY <1>1, <2>4, <2>5
  <2> QED
    BY <2>6, <2>7, <2>8, <2>9, <2>10 DEF SessionKept
<1> QED
  BY <1>1, <1>2, <1>3 DEF KeptInv

LEMMA BehaviorKeeps ==
    ASSUME KeptInv, [BehaviorNext]_behaviorVars
    PROVE  KeptInv' /\ \A i \in 1 .. Len(sessions) : Stands(sessions[i], sessions'[i])
<1>1. ASSUME NEW c \in Callers, NEW p \in Processes, NEW burst \in Bursts, Find(c, p, burst)
      PROVE  KeptInv' /\ \A i \in 1 .. Len(sessions) : Stands(sessions[i], sessions'[i])
  BY <1>1, FindKept
<1>2. ASSUME NEW c \in Callers, Create(c) \/ Ingest(c) \/ Respond(c) \/ \E k \in DOMAIN sessions : Score(c, k)
      PROVE  KeptInv' /\ \A i \in 1 .. Len(sessions) : Stands(sessions[i], sessions'[i])
  BY <1>2, CreateKept, IngestKeeps, RespondKeeps, ScoreKeeps, Shapes
<1>3. ASSUME NEW k \in DOMAIN sessions, EvaluateRules(k)
      PROVE  KeptInv' /\ \A i \in 1 .. Len(sessions) : Stands(sessions[i], sessions'[i])
  BY <1>3, EvaluateKeeps, Shapes
<1>4. ASSUME UNCHANGED behaviorVars
      PROVE  KeptInv' /\ \A i \in 1 .. Len(sessions) : Stands(sessions[i], sessions'[i])
  <2>1. UNCHANGED <<sessions, owner, pidMap, caller, clock, made, cut>>
    BY <1>4 DEF behaviorVars
  <2>2. \A i \in 1 .. Len(sessions) : SessionStep(i)
    BY <2>1, StillKept
  <2> QED
    BY <2>1, <2>2, Shapes, KeptOn
<1> QED
  BY <1>1, <1>2, <1>3, <1>4, ListKeeps, PassesKeeps DEF BehaviorNext

LEMMA KeptMeans == KeptInv => MinuteKept /\ BehaviorTypeOK
<1> SUFFICES ASSUME KeptInv PROVE MinuteKept /\ BehaviorTypeOK
  OBVIOUS
<1>1. MinuteKept
  BY Shapes, AtIndex DEF MinuteKept
<1>2. ASSUME NEW i \in DOMAIN sessions
      PROVE  /\ sessions[i].status \in Verdicts
             /\ \A n \in Counters : sessions[i].count[n] \in Nat
             /\ \A j \in DOMAIN sessions[i].changes : sessions[i].changes[j].at \in 0 .. clock
  <2> DEFINE s == sessions[i]
  <2>1. s \in Session /\ OfThePast(s.changes) /\ clock \in Nat /\ s.changes \in Seq(FileChange)
    BY Shapes, AtIndex
  <2> HIDE DEF s
  <2>2. s.status \in Verdicts /\ \A n \in Counters : s.count[n] \in Nat
    BY <2>1 DEF Session
  <2>3. ASSUME NEW j \in DOMAIN s.changes PROVE s.changes[j].at \in 0 .. clock
    <3>1. s.changes[j] \in FileChange
      BY <2>1
    <3>2. s.changes[j].at \in Nat /\ s.changes[j].at <= clock
      BY <2>1, <3>1 DEF FileChange, OfThePast
    <3> QED
      BY <2>1, <3>2
  <2> QED
    BY <2>2, <2>3 DEF s
<1>3. DOMAIN owner = DOMAIN sessions /\ DOMAIN made = DOMAIN sessions /\ DOMAIN cut = DOMAIN sessions
  BY Shapes
<1> QED
  BY <1>1, <1>2, <1>3, Shapes DEF BehaviorTypeOK

LEMMA KeptAlways == BehaviorSpec => []KeptInv
<1>1. KeptInv /\ [BehaviorNext]_behaviorVars => KeptInv'
  BY BehaviorKeeps
<1> QED
  BY <1>1, InitKept, PTL DEF BehaviorSpec

\* A summary that covers at most a minute leaves the changes of the last minute
\* as they were told, but for those that a summary of a shorter window had
\* dropped: for any bursts of events, processes and threads, and however the
\* summaries, the rules and the ingestions interleave (session.py, aggregator.py).
THEOREM MinuteIsKept == BehaviorSpec => []MinuteKept
BY KeptAlways, KeptMeans, PTL

\* The sessions, their counters and changes, and the index pid_map of them are
\* well-typed in every reachable state (engine.py, session.py).
THEOREM BehaviorTypeCorrect == BehaviorSpec => []BehaviorTypeOK
BY KeptAlways, KeptMeans, PTL

\* Whatever bursts a session is told of and whatever is dropped of its changes, a
\* verdict or a recommendation is withdrawn only with the bonus for deletions, the
\* one term of scoring.py that falls as the counters grow.
THEOREM VerdictsStand == BehaviorSpec => VerdictStands
<1>1. ASSUME KeptInv, BehaviorNext
      PROVE  \A i \in DOMAIN sessions :
               \/ /\ sessions[i].status = "MALICIOUS_RANSOMWARE"
                  /\ sessions'[i].status \notin {"MALICIOUS_RANSOMWARE", "CONTAINED"}
               \/ sessions[i].advised /\ ~sessions'[i].advised
               => /\ HalfDeleted(sessions[i].count) /\ ~HalfDeleted(sessions'[i].count)
                  /\ sessions'[i].count.deleted >= sessions[i].count.deleted
  BY <1>1, BehaviorKeeps, Shapes DEF Stands
<1> QED
  BY <1>1, KeptAlways, PTL DEF BehaviorSpec, VerdictStands

-----------------------------------------------------------------------------
(* The connections.                                                          *)

SocketState == States \cup {Closed}
ConnRow == [by : Calls, conn : Conns, state : States, linked : BOOLEAN]
Restating == UNION {[ids -> States] : ids \in SUBSET (Calls \X Conns)}
ConnCall == [op : {"none", "live", "snapshot"}, pc : {"new", "clear", "alert", "apply", "commit", "done", "failed"},
             closed : SUBSET Conns, turned : SUBSET (Conns \X States), mentions : SUBSET Conns,
             findings : SUBSET Conns, pending : SUBSET ConnRow, cleared : SUBSET ConnRow, links : SUBSET Conns,
             restated : Restating]
NetCycle == [pc : {"idle", "post", "wait"}, connected : SUBSET Conns, closed : SUBSET Conns, turned : SUBSET Conns,
             with : SUBSET (Conns \X States), call : Calls \cup {Closed}]

NetTypes ==
    /\ sockets \in [Conns -> SocketState] /\ cached \in [Conns -> SocketState]
    /\ netDiff \in NetCycle /\ call \in [Calls -> ConnCall] /\ connections \subseteq ConnRow
    /\ moves \in Nat /\ callFaults \in Nat /\ strayed \subseteq Conns

TurnedConns(r) == {w[1] : w \in call[r].turned}

CallFits(r) ==
    /\ call[r].op # "none" /\ call[r].pc \in {"clear", "alert", "apply", "commit"}
    /\ call[r].pc = "clear" => call[r].op = "snapshot" /\ call[r].cleared = {}
    /\ call[r].pc = "apply" => call[r].op = "live"
    /\ call[r].op = "snapshot" => call[r].mentions = Conns /\ call[r].closed = {} /\ call[r].turned = {}
    /\ call[r].closed \subseteq call[r].mentions /\ TurnedConns(r) \subseteq call[r].mentions
    /\ call[r].closed \cap TurnedConns(r) = {}
    /\ \A w, x \in call[r].turned : w[1] = x[1] => w = x
    /\ \A row \in call[r].pending : row.conn \in call[r].mentions \ (call[r].closed \cup TurnedConns(r))
    /\ call[r].links \subseteq call[r].mentions
    /\ call[r].op = "live" /\ call[r].pc # "commit" => call[r].cleared = {}
    /\ call[r].op = "live" => \A row \in call[r].cleared : row.conn \in call[r].closed \cup strayed
    /\ call[r].op = "snapshot" \/ call[r].pc # "commit" => DOMAIN call[r].restated = {}
    /\ \A id \in DOMAIN call[r].restated : id[2] \in TurnedConns(r) \cup strayed

\* The monitor's differences are from what it remembers.
DiffInv ==
    netDiff.pc = "post" =>
        /\ \A k \in netDiff.connected : cached[k] # Closed /\ k \notin netDiff.closed \cup netDiff.turned
        /\ \A k \in netDiff.closed : cached[k] = Closed
        /\ \A k \in netDiff.turned : cached[k] # Closed
        /\ netDiff.with = {<<k, cached[k]>> : k \in Open(cached)}

\* A connection that two requests deal with has strayed.
MentionsInv(r, o) == Busy(r) /\ Busy(o) => call[r].mentions \cap call[o].mentions \subseteq strayed

\* Rows that show a connection to be in a state
Show(rows, state) == IF state = Closed THEN rows = {} ELSE \E row \in rows : row.state = state
PendingOf(r, k) == {row \in call[r].pending : row.conn = k}
RestOf(r, k) == {row \in Kept(r) : row.conn = k} \cup PendingOf(r, k)

\* What a request will make of a connection that it mentions
Restates(r, k, state) ==
    \E row \in Kept(r) : /\ row.conn = k /\ <<row.by, k>> \in DOMAIN call[r].restated
                         /\ call[r].restated[<<row.by, k>>] = state
Will(r, k, state) ==
    LET live == call[r].op = "live"
        last == call[r].pc = "commit" IN
    /\ ~live /\ call[r].pc = "clear" => Show(PendingOf(r, k), state)
    /\ ~live /\ call[r].pc # "clear" => Show(RestOf(r, k), state)
    /\ live /\ k \in call[r].closed => state = Closed /\ (last => RestOf(r, k) = {})
    /\ live /\ k \in TurnedConns(r) /\ ~last => IF RowsOfConn(k) = {} THEN state = Closed ELSE <<k, state>> \in call[r].turned
    /\ live /\ k \in TurnedConns(r) /\ last => IF RestOf(r, k) = {} THEN state = Closed ELSE Restates(r, k, state)
    /\ live /\ k \notin call[r].closed \cup TurnedConns(r) => state # Closed /\ Show(RestOf(r, k), state)

\* How that fits what the monitor remembers, and what is the case
Ahead(k) == netDiff.pc = "post" /\ k \in Changes
FitsSockets(k, state) ==
    /\ ~Ahead(k) => \/ state = cached[k] \/ state = sockets[k]
                    \/ state # Closed /\ cached[k] # Closed /\ sockets[k] = Closed
    /\ Ahead(k) /\ k \in netDiff.turned => state # Closed \/ sockets[k] = Closed

ConnInv(k) ==
    k \notin strayed =>
        \E state \in SocketState :
            /\ FitsSockets(k, state)
            /\ \A r \in Calls : Busy(r) /\ k \in call[r].mentions => Will(r, k, state)
            /\ (\A r \in Calls : ~(Busy(r) /\ k \in call[r].mentions)) => Show(RowsOfConn(k), state)

NetInv ==
    /\ NetTypes /\ (\A r \in Calls : Busy(r) => CallFits(r)) /\ DiffInv
    /\ (\A r, o \in Calls : r # o => MentionsInv(r, o))
    /\ \A k \in Conns : ConnInv(k)

-----------------------------------------------------------------------------

LEMMA RestatingIs ==
    /\ \A f \in Restating : DOMAIN f \subseteq Calls \X Conns /\ \A id \in DOMAIN f : f[id] \in States
    /\ << >> \in Restating /\ DOMAIN << >> = {}
    /\ \A ids \in SUBSET (Calls \X Conns) : [ids -> States] \subseteq Restating
<1>1. \A ids \in SUBSET (Calls \X Conns) : [ids -> States] \subseteq Restating
  BY DEF Restating
<1>2. << >> \in [{} -> States] /\ DOMAIN << >> = {}
  OBVIOUS
<1>3. ASSUME NEW f \in Restating
      PROVE  DOMAIN f \subseteq Calls \X Conns /\ \A id \in DOMAIN f : f[id] \in States
  <2>1. PICK ids \in SUBSET (Calls \X Conns) : f \in [ids -> States]
    BY DEF Restating
  <2> QED
    BY <2>1
<1>4. {} \in SUBSET (Calls \X Conns)
  OBVIOUS
<1> QED
  BY <1>1, <1>2, <1>3, <1>4

\* A step of one request
OtherCalls(r) == \A o \in Calls \ {r} : call'[o] = call[o]

LEMMA CallWritten ==
    ASSUME NEW r \in Calls, call \in [Calls -> ConnCall], NEW q \in ConnCall, call' = [call EXCEPT ![r] = q]
    PROVE  OtherCalls(r) /\ call'[r] = q /\ call' \in [Calls -> ConnCall]
BY DEF OtherCalls

LEMMA OtherCallsKeep ==
    ASSUME NEW r \in Calls, OtherCalls(r), NEW o \in Calls, o # r, strayed \subseteq strayed'
    PROVE  /\ Busy(o)' = Busy(o) /\ call'[o] = call[o]
           /\ CallFits(o) => CallFits(o)'
<1>1. call'[o] = call[o]
  BY DEF OtherCalls
<1>2. Busy(o)' = Busy(o) /\ TurnedConns(o)' = TurnedConns(o)
  BY <1>1 DEF Busy, TurnedConns
<1> QED
  BY <1>1, <1>2 DEF CallFits

LEMMA MentionsKeep ==
    ASSUME NetInv, NEW r \in Calls, OtherCalls(r), strayed \subseteq strayed',
           Busy(r)' => Busy(r) /\ call'[r].mentions = call[r].mentions
    PROVE  \A s, o \in Calls : s # o => MentionsInv(s, o)'
<1> SUFFICES ASSUME NEW s \in Calls, NEW o \in Calls, s # o PROVE MentionsInv(s, o)'
  OBVIOUS
<1>1. ASSUME NEW x \in Calls, Busy(x)' PROVE Busy(x) /\ call'[x].mentions = call[x].mentions
  BY <1>1, OtherCallsKeep
<1>2. MentionsInv(s, o)
  BY DEF NetInv
<1> QED
  BY <1>1, <1>2 DEF MentionsInv

\* A step that leaves a connection's rows alone
LEMMA WillKeeps ==
    ASSUME NEW o \in Calls, NEW k \in Conns, NEW state, call'[o] = call[o], RowsOfConn(k)' = RowsOfConn(k),
           Will(o, k, state)
    PROVE  Will(o, k, state)'
<1>1. \A row : row \in connections' /\ row.conn = k <=> row \in connections /\ row.conn = k
  BY DEF RowsOfConn
<1>2. RestOf(o, k)' = RestOf(o, k) /\ PendingOf(o, k)' = PendingOf(o, k)
  BY <1>1 DEF RestOf, PendingOf, Kept
<1>3. Restates(o, k, state) => Restates(o, k, state)'
  BY <1>1 DEF Restates, Kept
<1>4. TurnedConns(o)' = TurnedConns(o)
  BY DEF TurnedConns
<1>5. Show(RestOf(o, k), state)' = Show(RestOf(o, k), state) /\ Show(PendingOf(o, k), state)' = Show(PendingOf(o, k), state)
  BY <1>2 DEF Show
<1>6. /\ (call[o].op = "live")' = (call[o].op = "live") /\ (call[o].pc = "commit")' = (call[o].pc = "commit")
      /\ (call[o].pc = "clear")' = (call[o].pc = "clear") /\ (k \in call[o].closed)' = (k \in call[o].closed)
      /\ (<<k, state>> \in call[o].turned)' = (<<k, state>> \in call[o].turned)
  OBVIOUS
<1> QED
  BY <1>2, <1>3, <1>4, <1>5, <1>6 DEF Will

\* A step of the system or of the monitor
LEMMA SocketSteps ==
    ASSUME NetInv, UNCHANGED <<call, connections>>, strayed \subseteq strayed', NetTypes', DiffInv',
           \A k \in Conns, state \in SocketState : k \notin strayed' /\ FitsSockets(k, state) => FitsSockets(k, state)'
    PROVE  NetInv'
<1>1. \A r \in Calls : Busy(r)' = Busy(r) /\ (CallFits(r) => CallFits(r)')
  BY DEF Busy, CallFits, TurnedConns
<1>2. \A r, o \in Calls : r # o => MentionsInv(r, o)'
  BY <1>1 DEF NetInv, MentionsInv
<1>3. ASSUME NEW k \in Conns PROVE ConnInv(k)'
  <2> SUFFICES ASSUME k \notin strayed'
               PROVE  \E state \in SocketState :
                         /\ FitsSockets(k, state)'
                         /\ \A r \in Calls : Busy(r)' /\ k \in call'[r].mentions => Will(r, k, state)'
                         /\ (\A r \in Calls : ~(Busy(r)' /\ k \in call'[r].mentions)) => Show(RowsOfConn(k), state)'
    BY DEF ConnInv, SocketState
  <2>1. PICK state \in SocketState :
           /\ FitsSockets(k, state)
           /\ \A r \in Calls : Busy(r) /\ k \in call[r].mentions => Will(r, k, state)
           /\ (\A r \in Calls : ~(Busy(r) /\ k \in call[r].mentions)) => Show(RowsOfConn(k), state)
    BY DEF NetInv, ConnInv
  <2>2. RowsOfConn(k)' = RowsOfConn(k) /\ Show(RowsOfConn(k), state)' = Show(RowsOfConn(k), state)
    BY DEF RowsOfConn, Show
  <2>3. \A r \in Calls : Will(r, k, state) => Will(r, k, state)'
    BY <2>2, WillKeeps
  <2> QED
    BY <2>1, <2>2, <2>3, <1>1
<1> QED
  BY <1>1, <1>2, <1>3 DEF NetInv

\* A step of a request at work
LEMMA CallSteps ==
    ASSUME NetInv, NEW r \in Calls, Busy(r), OtherCalls(r), UNCHANGED <<sockets, cached, netDiff>>,
           strayed \subseteq strayed', NetTypes', Busy(r)' => CallFits(r)',
           Busy(r)' => call'[r].mentions = call[r].mentions,
           \A k \in Conns : k \notin strayed' /\ k \notin call[r].mentions => RowsOfConn(k)' = RowsOfConn(k),
           \A k \in Conns, state \in SocketState :
               k \notin strayed' /\ k \in call[r].mentions /\ Will(r, k, state) =>
                   IF Busy(r)' THEN Will(r, k, state)' ELSE Show(RowsOfConn(k), state)'
    PROVE  NetInv'
<1>1. \A o \in Calls : Busy(o)' => CallFits(o)'
  BY OtherCallsKeep DEF NetInv
<1>2. \A s, o \in Calls : s # o => MentionsInv(s, o)'
  BY MentionsKeep
<1>3. DiffInv'
  BY DEF NetInv, DiffInv, Open
<1>4. ASSUME NEW k \in Conns PROVE ConnInv(k)'
  <2> SUFFICES ASSUME k \notin strayed'
               PROVE  \E state \in SocketState :
                         /\ FitsSockets(k, state)'
                         /\ \A o \in Calls : Busy(o)' /\ k \in call'[o].mentions => Will(o, k, state)'
                         /\ (\A o \in Calls : ~(Busy(o)' /\ k \in call'[o].mentions)) => Show(RowsOfConn(k), state)'
    BY DEF ConnInv, SocketState
  <2>1. PICK state \in SocketState :
           /\ FitsSockets(k, state)
           /\ \A o \in Calls : Busy(o) /\ k \in call[o].mentions => Will(o, k, state)
           /\ (\A o \in Calls : ~(Busy(o) /\ k \in call[o].mentions)) => Show(RowsOfConn(k), state)
    BY DEF NetInv, ConnInv
  <2>2. FitsSockets(k, state)'
    BY <2>1 DEF FitsSockets, Ahead, Changes
  <2>3. CASE k \in call[r].mentions
    <3>1. \A o \in Calls : o # r /\ Busy(o) => k \notin call[o].mentions
      BY <2>3 DEF NetInv, MentionsInv
    <3>2. \A o \in Calls : o # r => Busy(o)' = Busy(o) /\ call'[o] = call[o]
      BY OtherCallsKeep
    <3>3. IF Busy(r)' THEN Will(r, k, state)' ELSE Show(RowsOfConn(k), state)'
      BY <2>1, <2>3
    <3> QED
      BY <2>2, <2>3, <3>1, <3>2, <3>3
  <2>4. CASE k \notin call[r].mentions
    <3>1. RowsOfConn(k)' = RowsOfConn(k) /\ Show(RowsOfConn(k), state)' = Show(RowsOfConn(k), state)
      BY <2>4 DEF Show
    <3>2. \A o \in Calls : o # r => Busy(o)' = Busy(o) /\ call'[o] = call[o]
      BY OtherCallsKeep
    <3>3. ASSUME NEW o \in Calls, Busy(o)', k \in call'[o].mentions PROVE Will(o, k, state)'
      <4>1. o # r /\ call'[o] = call[o] /\ Busy(o) /\ k \in call[o].mentions
        BY <3>2, <3>3, <2>4
      <4> QED
        BY <4>1, <3>1, <2>1, WillKeeps
    <3> QED
      BY <2>1, <2>2, <2>4, <3>1, <3>2, <3>3
  <2> QED
    BY <2>3, <2>4
<1> QED
  BY <1>1, <1>2, <1>3, <1>4 DEF NetInv

\* A request begins
LEMMA StartSteps ==
    ASSUME NetInv, NEW r \in Calls, NEW q \in ConnCall, call[r].pc = "new", call' = [call EXCEPT ![r] = q],
           UNCHANGED <<sockets, cached, connections>>, NetTypes', DiffInv', CallFits(r)', Busy(r)',
           strayed' = strayed \cup (q.mentions \cap HandledBy(Calls)),
           \A k \in Conns, state \in SocketState :
               k \notin strayed' /\ k \notin q.mentions /\ FitsSockets(k, state) => FitsSockets(k, state)',
           \A k \in Conns, state \in SocketState :
               k \notin strayed' /\ k \in q.mentions /\ FitsSockets(k, state) /\ Show(RowsOfConn(k), state) =>
                   \E next \in SocketState : FitsSockets(k, next)' /\ Will(r, k, next)'
    PROVE  NetInv'
<1>1. OtherCalls(r) /\ call'[r] = q /\ ~Busy(r) /\ strayed \subseteq strayed'
  BY CallWritten DEF NetInv, NetTypes, Busy
<1>2. \A o \in Calls : o # r => Busy(o)' = Busy(o) /\ call'[o] = call[o]
  BY <1>1, OtherCallsKeep
<1>3. \A o \in Calls : Busy(o)' => CallFits(o)'
  BY <1>1, OtherCallsKeep DEF NetInv
<1>4. \A o \in Calls : o # r /\ Busy(o) => call[o].mentions \cap q.mentions \subseteq strayed'
  BY DEF HandledBy
<1>5. \A s, o \in Calls : s # o => MentionsInv(s, o)'
  BY <1>1, <1>2, <1>4 DEF NetInv, MentionsInv
<1>6. ASSUME NEW k \in Conns PROVE ConnInv(k)'
  <2> SUFFICES ASSUME k \notin strayed'
               PROVE  \E state \in SocketState :
                         /\ FitsSockets(k, state)'
                         /\ \A o \in Calls : Busy(o)' /\ k \in call'[o].mentions => Will(o, k, state)'
                         /\ (\A o \in Calls : ~(Busy(o)' /\ k \in call'[o].mentions)) => Show(RowsOfConn(k), state)'
    BY DEF ConnInv, SocketState
  <2>1. PICK state \in SocketState :
           /\ FitsSockets(k, state)
           /\ \A o \in Calls : Busy(o) /\ k \in call[o].mentions => Will(o, k, state)
           /\ (\A o \in Calls : ~(Busy(o) /\ k \in call[o].mentions)) => Show(RowsOfConn(k), state)
    BY <1>1 DEF NetInv, ConnInv
  <2>2. RowsOfConn(k)' = RowsOfConn(k) /\ Show(RowsOfConn(k), state)' = Show(RowsOfConn(k), state)
    BY DEF RowsOfConn, Show
  <2>3. CASE k \in q.mentions
    <3>1. \A o \in Calls : o # r /\ Busy(o) => k \notin call[o].mentions
      BY <1>4, <2>3
    <3>2. Show(RowsOfConn(k), state)
      BY <3>1, <1>1, <2>1
    <3>3. PICK next \in SocketState : FitsSockets(k, next)' /\ Will(r, k, next)'
      BY <3>2, <2>1, <2>3
    <3>4. \A o \in Calls : Busy(o)' /\ k \in call'[o].mentions => o = r
      BY <3>1, <1>2
    <3>5. Busy(r)' /\ k \in call'[r].mentions
      BY <2>3, <1>1
    <3> QED
      BY <3>3, <3>4, <3>5
  <2>4. CASE k \notin q.mentions
    <3>1. ASSUME NEW o \in Calls, Busy(o)', k \in call'[o].mentions PROVE Will(o, k, state)'
      <4>1. o # r /\ call'[o] = call[o] /\ Busy(o) /\ k \in call[o].mentions
        BY <3>1, <1>1, <1>2, <2>4
      <4> QED
        BY <4>1, <2>2, <2>1, WillKeeps
    <3>2. FitsSockets(k, state)'
      BY <2>1, <2>4
    <3> QED
      BY <3>1, <3>2, <2>1, <2>2, <1>1, <1>2
  <2> QED
    BY <2>3, <2>4
<1> QED
  BY <1>3, <1>5, <1>6 DEF NetInv

\* The system and the monitor
LEMMA ConnectStep ==
    ASSUME NetInv, NEW k \in Conns, NEW to \in States, Connect(k, to) PROVE NetInv'
<1> USE ConnectionAssumption
<1>1. NetTypes' /\ DiffInv' /\ strayed \subseteq strayed'
  BY DEF NetInv, NetTypes, DiffInv, SocketState, Connect, Move, Open
<1>2. ASSUME NEW j \in Conns, NEW state \in SocketState, j \notin strayed', FitsSockets(j, state)
      PROVE  FitsSockets(j, state)'
  <2>1. Ahead(j)' = Ahead(j) /\ (j \in netDiff.turned)' = (j \in netDiff.turned) /\ cached'[j] = cached[j]
    BY DEF Ahead, Changes, Connect
  <2>2. CASE j # k
    <3>1. sockets'[j] = sockets[j]
      BY <2>2 DEF Connect, NetInv, NetTypes
    <3> QED
      BY <1>2, <2>1, <3>1 DEF FitsSockets
  <2>3. CASE j = k
    <3>1. cached[k] = Closed /\ sockets[k] = Closed
      BY <1>2, <2>3 DEF Connect
    <3>2. netDiff.pc = "post" => k \notin netDiff.turned
      BY <3>1 DEF NetInv, DiffInv
    <3> QED
      BY <1>2, <2>1, <2>3, <3>1, <3>2 DEF FitsSockets, Ahead
  <2> QED
    BY <2>2, <2>3
<1> QED
  BY <1>1, <1>2, SocketSteps DEF Connect

LEMMA DisconnectStep ==
    ASSUME NetInv, NEW k \in Conns, Disconnect(k) PROVE NetInv'
<1> USE ConnectionAssumption
<1>1. NetTypes' /\ DiffInv' /\ strayed \subseteq strayed'
  BY DEF NetInv, NetTypes, DiffInv, SocketState, Disconnect, Move, Open
<1>2. ASSUME NEW j \in Conns, NEW state \in SocketState, j \notin strayed', FitsSockets(j, state)
      PROVE  FitsSockets(j, state)'
  <2>1. Ahead(j)' = Ahead(j) /\ (j \in netDiff.turned)' = (j \in netDiff.turned) /\ cached'[j] = cached[j]
    BY DEF Ahead, Changes, Disconnect
  <2>2. CASE j # k
    <3>1. sockets'[j] = sockets[j]
      BY <2>2 DEF Disconnect, NetInv, NetTypes
    <3> QED
      BY <1>2, <2>1, <3>1 DEF FitsSockets
  <2>3. CASE j = k
    <3>1. cached[k] # Closed /\ sockets[k] # Closed /\ sockets'[k] = Closed
      BY <1>2, <2>3 DEF Disconnect, NetInv, NetTypes
    <3> QED
      BY <1>2, <2>1, <2>3, <3>1 DEF FitsSockets
  <2> QED
    BY <2>2, <2>3
<1> QED
  BY <1>1, <1>2, SocketSteps DEF Disconnect

LEMMA TurnStep ==
    ASSUME NetInv, NEW k \in Conns, NEW to \in States, Turn(k, to) PROVE NetInv'
<1> USE ConnectionAssumption
<1>1. NetTypes' /\ DiffInv' /\ strayed \subseteq strayed'
  BY DEF NetInv, NetTypes, DiffInv, SocketState, Turn, Move, Open
<1>2. ASSUME NEW j \in Conns, NEW state \in SocketState, j \notin strayed', FitsSockets(j, state)
      PROVE  FitsSockets(j, state)'
  <2>1. Ahead(j)' = Ahead(j) /\ (j \in netDiff.turned)' = (j \in netDiff.turned) /\ cached'[j] = cached[j]
    BY DEF Ahead, Changes, Turn
  <2>2. CASE j # k
    <3>1. sockets'[j] = sockets[j]
      BY <2>2 DEF Turn, NetInv, NetTypes
    <3> QED
      BY <1>2, <2>1, <3>1 DEF FitsSockets
  <2>3. CASE j = k
    <3>1. cached[k] = sockets[k] /\ sockets[k] # Closed
      BY <1>2, <2>3 DEF Turn
    <3> QED
      BY <1>2, <2>1, <2>3, <3>1 DEF FitsSockets
  <2> QED
    BY <2>2, <2>3
<1> QED
  BY <1>1, <1>2, SocketSteps DEF Turn

LEMMA CollectSocketsStep ==
    ASSUME NetInv, CollectSockets PROVE NetInv'
<1> USE ConnectionAssumption
<1>1. PICK killed : sockets' = Severed(killed)
  BY DEF CollectSockets
<1>2. sockets' \in [Conns -> SocketState] /\ \A j \in Conns : sockets'[j] \in {sockets[j], Closed}
  BY <1>1 DEF NetInv, NetTypes, Severed, SocketState
<1>3. sockets \in [Conns -> SocketState] /\ cached \in [Conns -> SocketState]
  BY DEF NetInv, NetTypes
<1>4. {<<j, sockets[j]>> : j \in Open(sockets)} \in SUBSET (Conns \X States)
  BY <1>3 DEF Open, SocketState
<1>5. Turned \in SUBSET Conns /\ Open(sockets) \ Open(cached) \in SUBSET Conns /\ Open(cached) \ Open(sockets) \in SUBSET Conns
  BY DEF Turned, Open
<1>6. netDiff' \in NetCycle
  BY <1>4, <1>5 DEF NetCycle, CollectSockets
<1>7. NetTypes' /\ strayed \subseteq strayed'
  BY <1>2, <1>3, <1>6 DEF NetInv, NetTypes, CollectSockets
<1>8. DiffInv'
  BY DEF DiffInv, CollectSockets, Turned, Open
<1>9. ASSUME NEW j \in Conns, NEW state \in SocketState, FitsSockets(j, state)
      PROVE  FitsSockets(j, state)'
  <2>1. ~Ahead(j) /\ cached'[j] = sockets[j]
    BY DEF Ahead, CollectSockets
  <2>2. Ahead(j)' <=> j \in Open(sockets) \ Open(cached) \/ j \in Open(cached) \ Open(sockets) \/ j \in Turned
    BY DEF Ahead, Changes, CollectSockets
  <2>3. (j \in netDiff.turned)' <=> j \in Turned
    BY DEF CollectSockets
  <2>4. state = cached[j] \/ state = sockets[j] \/ (state # Closed /\ cached[j] # Closed /\ sockets[j] = Closed)
    BY <1>9, <2>1 DEF FitsSockets
  <2>5. ~Ahead(j)' => state = sockets[j]
    BY <2>2, <2>4 DEF Open, Turned
  <2>6. Ahead(j)' /\ (j \in netDiff.turned)' => state # Closed
    BY <2>3, <2>4 DEF Open, Turned
  <2> QED
    BY <2>1, <2>5, <2>6 DEF FitsSockets
<1> QED
  BY <1>7, <1>8, <1>9, SocketSteps DEF CollectSockets

LEMMA ChangesLostStep ==
    ASSUME NetInv, ChangesLost PROVE NetInv'
<1> USE ConnectionAssumption
<1>1. netDiff' \in NetCycle /\ netDiff'.pc = "idle"
  BY DEF ChangesLost, IdleNet, NetCycle
<1>2. NetTypes' /\ DiffInv' /\ strayed \subseteq strayed'
  BY <1>1 DEF NetInv, NetTypes, DiffInv, NetCycle, ChangesLost, CallFault, Changes
<1>3. ASSUME NEW j \in Conns, NEW state \in SocketState, j \notin strayed', FitsSockets(j, state)
      PROVE  FitsSockets(j, state)'
  <2>1. ~Ahead(j) /\ ~Ahead(j)' /\ cached'[j] = cached[j] /\ sockets'[j] = sockets[j]
    BY <1>1, <1>3 DEF Ahead, ChangesLost
  <2> QED
    BY <1>3, <2>1 DEF FitsSockets
<1> QED
  BY <1>2, <1>3, SocketSteps DEF ChangesLost

LEMMA WaitEndsStep ==
    ASSUME NetInv, WaitEnds PROVE NetInv'
<1> USE ConnectionAssumption
<1>1. netDiff' \in NetCycle /\ netDiff'.pc = "idle"
  BY DEF WaitEnds, IdleNet, NetCycle
<1>2. NetTypes' /\ DiffInv' /\ strayed \subseteq strayed'
  BY <1>1 DEF NetInv, NetTypes, DiffInv, WaitEnds, CallFault
<1>3. ASSUME NEW j \in Conns, NEW state \in SocketState, j \notin strayed', FitsSockets(j, state)
      PROVE  FitsSockets(j, state)'
  <2>1. ~Ahead(j) /\ ~Ahead(j)' /\ cached'[j] = cached[j] /\ sockets'[j] = sockets[j]
    BY <1>1 DEF Ahead, WaitEnds
  <2> QED
    BY <1>3, <2>1 DEF FitsSockets
<1> QED
  BY <1>2, <1>3, SocketSteps DEF WaitEnds

LEMMA SentRows ==
    ASSUME NEW r \in Calls, NEW ks \in SUBSET Conns, NEW with \in SUBSET (Conns \X States)
    PROVE  /\ Sent(r, ks, with) \subseteq ConnRow
           /\ \A row \in Sent(r, ks, with) : row.conn \in ks /\ <<row.conn, row.state>> \in with
           /\ \A w \in with : w[1] \in ks => \E row \in Sent(r, ks, with) : row.conn = w[1] /\ row.state = w[2]
<1>1. \A w \in with : w[1] \in Conns /\ w[2] \in States /\ w = <<w[1], w[2]>>
  OBVIOUS
<1>2. Sent(r, ks, with) \subseteq ConnRow
  <2> SUFFICES ASSUME NEW row \in Sent(r, ks, with) PROVE row \in ConnRow
    OBVIOUS
  <2>1. PICK w \in with : row = [by |-> r, conn |-> w[1], state |-> w[2], linked |-> FALSE]
    BY DEF Sent
  <2>2. w[1] \in Conns /\ w[2] \in States
    BY <1>1
  <2> QED
    BY <2>1, <2>2 DEF ConnRow
<1>3. ASSUME NEW row \in Sent(r, ks, with) PROVE row.conn \in ks /\ <<row.conn, row.state>> \in with
  <2>1. PICK w \in with : w[1] \in ks /\ row = [by |-> r, conn |-> w[1], state |-> w[2], linked |-> FALSE]
    BY DEF Sent
  <2>2. row.conn = w[1] /\ row.state = w[2]
    BY <2>1
  <2> QED
    BY <2>1, <2>2, <1>1
<1>4. ASSUME NEW w \in with, w[1] \in ks PROVE \E row \in Sent(r, ks, with) : row.conn = w[1] /\ row.state = w[2]
  <2>1. [by |-> r, conn |-> w[1], state |-> w[2], linked |-> FALSE] \in Sent(r, ks, with)
    BY <1>4 DEF Sent
  <2> QED
    BY <2>1
<1> QED
  BY <1>2, <1>3, <1>4

LEMMA NewCallIs ==
    /\ NewCall \in ConnCall
    /\ NewCall.op = "none" /\ NewCall.pc = "new" /\ NewCall.closed = {} /\ NewCall.turned = {} /\ NewCall.mentions = {}
    /\ NewCall.findings = {} /\ NewCall.pending = {} /\ NewCall.cleared = {} /\ NewCall.links = {}
    /\ DOMAIN NewCall.restated = {}
<1>1. << >> \in Restating /\ DOMAIN << >> = {}
  BY RestatingIs
<1>2. NewCall \in ConnCall
  BY <1>1 DEF NewCall, ConnCall
<1> QED
  BY <1>1, <1>2 DEF NewCall

LEMMA PostChangesStep ==
    ASSUME NetInv, NEW r \in Calls, PostChanges(r) PROVE NetInv'
<1> USE ConnectionAssumption
<1>1. PICK b : b = NewCall
  OBVIOUS
<1>2. PICK d : d = netDiff
  OBVIOUS
<1>3. PICK turned : turned = {w \in d.with : w[1] \in d.turned}
  OBVIOUS
<1>4. PICK pending : pending = Sent(r, d.connected, d.with)
  OBVIOUS
<1>5. PICK findings : findings = d.connected \cap Suspicious
  OBVIOUS
<1>6. PICK mentions : mentions = d.connected \cup d.closed \cup d.turned
  OBVIOUS
<1>7. PICK request : request = [b EXCEPT !.op = "live", !.closed = d.closed, !.mentions = mentions,
                                   !.turned = turned, !.findings = findings, !.pending = pending]
  OBVIOUS
<1>8. PICK pc : pc = IF findings = {} THEN "apply" ELSE "alert"
  OBVIOUS
<1>9. PICK q : q = [request EXCEPT !.pc = pc]
  OBVIOUS
<1>10. d \in NetCycle /\ d.pc = "post" /\ netDiff'.pc = "wait" /\ netDiff' \in NetCycle
  BY <1>2 DEF NetInv, NetTypes, PostChanges, IdleNet, NetCycle
<1>11. /\ d.connected \subseteq Conns /\ d.closed \subseteq Conns /\ d.turned \subseteq Conns
       /\ d.with \in SUBSET (Conns \X States)
  BY <1>10 DEF NetCycle
<1>12. /\ turned \in SUBSET (Conns \X States) /\ mentions \in SUBSET Conns /\ findings \in SUBSET Conns
       /\ pending \in SUBSET ConnRow
  BY <1>3, <1>4, <1>5, <1>6, <1>11, SentRows
<1>13. b \in ConnCall
  BY <1>1, NewCallIs
<1>14. /\ request \in ConnCall /\ request.op = "live" /\ request.closed = d.closed /\ request.mentions = mentions
       /\ request.turned = turned /\ request.findings = findings /\ request.pending = pending
       /\ request.cleared = b.cleared /\ request.links = b.links /\ request.restated = b.restated
  BY <1>7, <1>11, <1>12, <1>13 DEF ConnCall
<1>15. /\ q \in ConnCall /\ q.op = "live" /\ q.pc = pc /\ q.closed = d.closed /\ q.mentions = mentions
       /\ q.turned = turned /\ q.findings = findings /\ q.pending = pending
       /\ q.cleared = {} /\ q.links = {} /\ DOMAIN q.restated = {}
  BY <1>1, <1>8, <1>9, <1>14, NewCallIs DEF ConnCall
<1>16. /\ call[r].pc = "new" /\ call' = [call EXCEPT ![r] = q]
       /\ strayed' = strayed \cup (q.mentions \cap HandledBy(Calls))
  <2>1. request = [NewCall EXCEPT !.op = "live", !.closed = netDiff.closed, !.mentions = Changes,
                     !.turned = {w \in netDiff.with : w[1] \in netDiff.turned},
                     !.findings = netDiff.connected \cap Suspicious,
                     !.pending = Sent(r, netDiff.connected, netDiff.with)]
    BY <1>1, <1>2, <1>3, <1>4, <1>5, <1>6, <1>7 DEF Changes
  <2>2. Starts(r, request)
    BY <2>1 DEF PostChanges
  <2>3. request.op = "live" /\ request.findings = findings
    BY <1>14
  <2>4. pc = IF request.op = "snapshot" THEN "clear" ELSE IF request.findings = {} THEN "apply" ELSE "alert"
    BY <2>3, <1>8
  <2> QED
    BY <2>2, <2>4, <1>9, <1>14, <1>15 DEF Starts
<1>17. call' \in [Calls -> ConnCall] /\ call'[r] = q
  BY <1>15, <1>16, CallWritten DEF NetInv, NetTypes
<1>18. UNCHANGED <<sockets, cached, connections, moves, callFaults>>
  BY DEF PostChanges
<1>19. NetTypes' /\ DiffInv'
  BY <1>10, <1>12, <1>15, <1>16, <1>17, <1>18 DEF NetInv, NetTypes, DiffInv
<1>20. /\ \A k \in d.connected : cached[k] # Closed /\ k \notin d.closed \cup d.turned
       /\ \A k \in d.closed : cached[k] = Closed
       /\ \A k \in d.turned : cached[k] # Closed
       /\ d.with = {<<k, cached[k]>> : k \in Open(cached)}
  BY <1>2, <1>10 DEF NetInv, DiffInv
<1>21. \A w \in d.with : w[2] = cached[w[1]] /\ w[1] \in Conns /\ w = <<w[1], cached[w[1]]>>
  BY <1>20 DEF Open
<1>22. \A k \in Conns : cached[k] # Closed => <<k, cached[k]>> \in d.with
  BY <1>20 DEF Open
<1>23. Busy(r)' /\ pc \in {"apply", "alert"}
  BY <1>8, <1>15, <1>17 DEF Busy
<1>24. TurnedConns(r)' = d.turned
  <2>1. \A k \in d.turned : <<k, cached[k]>> \in turned
    BY <1>3, <1>11, <1>20, <1>22
  <2>2. \A w \in turned : w[1] \in d.turned
    BY <1>3
  <2>3. ASSUME NEW k \in d.turned PROVE k \in {w[1] : w \in turned}
    <3>1. PICK w : w = <<k, cached[k]>>
      OBVIOUS
    <3>2. w[1] = k /\ w \in turned
      BY <3>1, <2>1
    <3> QED
      BY <3>2
  <2>4. {w[1] : w \in turned} \subseteq d.turned
    BY <2>2
  <2> QED
    BY <2>3, <2>4, <1>15, <1>17 DEF TurnedConns
<1>25. CallFits(r)'
  <2>1. \A w, x \in turned : w[1] = x[1] => w = x
    BY <1>3, <1>21
  <2>2. \A row \in pending : row.conn \in d.connected
    BY <1>4, <1>11, SentRows
  <2>3. \A row \in pending : row.conn \in mentions \ (d.closed \cup d.turned)
    BY <2>2, <1>6, <1>20
  <2>4. d.closed \subseteq mentions /\ d.turned \subseteq mentions /\ d.closed \cap d.turned = {}
    BY <1>6, <1>20
  <2> QED
    BY <2>1, <2>3, <2>4, <1>15, <1>17, <1>23, <1>24 DEF CallFits
<1>26. ASSUME NEW k \in Conns, NEW state \in SocketState, k \notin q.mentions, FitsSockets(k, state)
       PROVE  FitsSockets(k, state)'
  BY <1>2, <1>6, <1>10, <1>15, <1>18, <1>26 DEF FitsSockets, Ahead, Changes
<1>27. ASSUME NEW k \in Conns, NEW state \in SocketState, k \in q.mentions, FitsSockets(k, state), Show(RowsOfConn(k), state)
       PROVE  \E next \in SocketState : FitsSockets(k, next)' /\ Will(r, k, next)'
  <2>1. FitsSockets(k, cached[k])' /\ cached[k] \in SocketState
    BY <1>10, <1>18 DEF FitsSockets, Ahead, NetInv, NetTypes
  <2>2. call'[r].op = "live" /\ call'[r].pc # "commit" /\ call'[r].closed = d.closed /\ call'[r].turned = turned
    BY <1>15, <1>17, <1>23
  <2>3. RowsOfConn(k)' = RowsOfConn(k)
    BY <1>18 DEF RowsOfConn
  <2>4. CASE k \in d.connected
    <3>1. k \notin d.closed \cup d.turned /\ cached[k] # Closed /\ <<k, cached[k]>> \in d.with
      BY <2>4, <1>20, <1>22
    <3>2. \E row \in pending : row.conn = k /\ row.state = cached[k]
      BY <3>1, <2>4, <1>4, <1>11, SentRows
    <3>3. Show(RestOf(r, k), cached[k])'
      BY <3>1, <3>2, <1>15, <1>17, <1>18 DEF Show, RestOf, PendingOf
    <3>4. Will(r, k, cached[k])'
      BY <3>1, <3>3, <2>2, <1>18, <1>24 DEF Will
    <3> QED
      BY <3>4, <2>1, <1>18
  <2>5. CASE k \in d.closed
    <3>1. k \notin d.turned /\ cached[k] = Closed
      BY <2>5, <1>20
    <3>2. Will(r, k, cached[k])'
      BY <3>1, <2>2, <2>5, <1>18, <1>24 DEF Will
    <3> QED
      BY <3>2, <2>1, <1>18
  <2>6. CASE k \in d.turned /\ RowsOfConn(k) = {}
    <3>1. state = Closed
      BY <2>6, <1>27 DEF Show
    <3>2. sockets[k] = Closed
      BY <3>1, <2>6, <1>2, <1>10, <1>27 DEF FitsSockets, Ahead, Changes
    <3>3. FitsSockets(k, Closed)' /\ Closed \in SocketState
      BY <3>2, <1>10, <1>18 DEF FitsSockets, Ahead, SocketState
    <3>4. k \notin d.closed
      BY <2>6, <1>20
    <3>5. Will(r, k, Closed)'
      BY <3>4, <2>2, <2>3, <2>6, <1>24 DEF Will
    <3> QED
      BY <3>3, <3>5
  <2>7. CASE k \in d.turned /\ RowsOfConn(k) # {}
    <3>1. k \notin d.closed /\ <<k, cached[k]>> \in turned
      BY <2>7, <1>3, <1>20, <1>22
    <3>2. Will(r, k, cached[k])'
      BY <3>1, <2>2, <2>3, <2>7, <1>18, <1>24 DEF Will
    <3> QED
      BY <3>2, <2>1, <1>18
  <2> QED
    BY <2>4, <2>5, <2>6, <2>7, <1>6, <1>15, <1>27
<1> QED
  BY <1>15, <1>16, <1>18, <1>19, <1>23, <1>25, <1>26, <1>27, StartSteps

LEMMA SendSocketsStep ==
    ASSUME NetInv, NEW r \in Calls, SendSockets(r) PROVE NetInv'
<1> USE ConnectionAssumption
<1>1. PICK b : b = NewCall
  OBVIOUS
<1>2. PICK with : with = {<<k, sockets[k]>> : k \in Open(sockets)}
  OBVIOUS
<1>3. PICK pending : pending = Sent(r, Open(sockets), with)
  OBVIOUS
<1>4. PICK findings : findings = Open(sockets) \cap Suspicious
  OBVIOUS
<1>5. PICK request : request = [b EXCEPT !.op = "snapshot", !.mentions = Conns, !.findings = findings, !.pending = pending]
  OBVIOUS
<1>6. PICK q : q = [request EXCEPT !.pc = "clear"]
  OBVIOUS
<1>7. sockets \in [Conns -> SocketState] /\ Open(sockets) \in SUBSET Conns
  BY DEF NetInv, NetTypes, Open
<1>8. with \in SUBSET (Conns \X States)
  BY <1>2, <1>7 DEF Open, SocketState
<1>9. findings \in SUBSET Conns /\ pending \in SUBSET ConnRow
  BY <1>3, <1>4, <1>7, <1>8, SentRows
<1>10. b \in ConnCall
  BY <1>1, NewCallIs
<1>11. /\ request \in ConnCall /\ request.op = "snapshot" /\ request.mentions = Conns
       /\ request.findings = findings /\ request.pending = pending /\ request.closed = b.closed
       /\ request.turned = b.turned /\ request.cleared = b.cleared /\ request.links = b.links /\ request.restated = b.restated
  BY <1>5, <1>9, <1>10 DEF ConnCall
<1>12. /\ q \in ConnCall /\ q.op = "snapshot" /\ q.pc = "clear" /\ q.closed = {} /\ q.mentions = Conns
       /\ q.turned = {} /\ q.pending = pending /\ q.cleared = {} /\ q.links = {} /\ DOMAIN q.restated = {}
  BY <1>1, <1>6, <1>11, NewCallIs DEF ConnCall
<1>13. /\ call[r].pc = "new" /\ call' = [call EXCEPT ![r] = q]
       /\ strayed' = strayed \cup (q.mentions \cap HandledBy(Calls))
  <2>1. request = [NewCall EXCEPT !.op = "snapshot", !.mentions = Conns, !.findings = Open(sockets) \cap Suspicious,
                     !.pending = Sent(r, Open(sockets), {<<k, sockets[k]>> : k \in Open(sockets)})]
    BY <1>1, <1>2, <1>3, <1>4, <1>5
  <2>2. Starts(r, request)
    BY <2>1 DEF SendSockets
  <2> QED
    BY <2>2, <1>6, <1>11, <1>12 DEF Starts
<1>14. call' \in [Calls -> ConnCall] /\ call'[r] = q
  BY <1>12, <1>13, CallWritten DEF NetInv, NetTypes
<1>15. UNCHANGED <<sockets, cached, netDiff, connections, moves, callFaults>>
  BY DEF SendSockets
<1>16. NetTypes' /\ DiffInv'
  BY <1>12, <1>13, <1>14, <1>15 DEF NetInv, NetTypes, DiffInv, Open
<1>17. Busy(r)' /\ TurnedConns(r)' = {}
  BY <1>12, <1>14 DEF Busy, TurnedConns
<1>18. CallFits(r)'
  <2>1. \A row \in pending : row.conn \in Conns
    BY <1>9 DEF ConnRow
  <2> QED
    BY <2>1, <1>12, <1>14, <1>17 DEF CallFits
<1>19. ASSUME NEW k \in Conns PROVE FitsSockets(k, sockets[k])' /\ Will(r, k, sockets[k])' /\ sockets[k] \in SocketState
  <2>1. FitsSockets(k, sockets[k])' /\ sockets[k] \in SocketState
    BY <1>7, <1>15 DEF FitsSockets
  <2>2. \A row \in pending : row.conn \in Open(sockets)
    BY <1>3, <1>7, <1>8, SentRows
  <2>3. (<<k, sockets[k]>> \in with /\ k \in Open(sockets)) \/ sockets[k] = Closed
    BY <1>2 DEF Open
  <2>4. sockets[k] # Closed => \E row \in pending : row.conn = k /\ row.state = sockets[k]
    BY <2>3, <1>3, <1>7, <1>8, SentRows
  <2>5. PendingOf(r, k)' = {row \in pending : row.conn = k}
    BY <1>12, <1>14 DEF PendingOf
  <2>6. Show(PendingOf(r, k), sockets[k])'
    BY <2>2, <2>4, <2>5, <1>15 DEF Show, Open
  <2>7. call'[r].op = "snapshot" /\ call'[r].pc = "clear"
    BY <1>12, <1>14
  <2> QED
    BY <2>1, <2>6, <2>7 DEF Will
<1>20. \A k \in Conns : sockets'[k] = sockets[k]
  BY <1>15
<1> QED
  BY <1>12, <1>13, <1>15, <1>16, <1>17, <1>18, <1>19, <1>20, StartSteps

\* What a request makes of the rows
NextState(r, row) ==
    IF <<row.by, row.conn>> \in DOMAIN call[r].restated THEN call[r].restated[<<row.by, row.conn>>] ELSE row.state

LEMMA RewrittenIs ==
    ASSUME NEW r \in Calls, call[r] \in ConnCall, NEW row \in ConnRow
    PROVE  /\ Rewritten(r, row) \in ConnRow /\ Rewritten(r, row).by = row.by /\ Rewritten(r, row).conn = row.conn
           /\ Rewritten(r, row).state = NextState(r, row)
<1>1. PICK linked \in BOOLEAN : linked = (row.linked \/ (row.by = r /\ row.conn \in call[r].links))
  OBVIOUS
<1>2. PICK state : state = NextState(r, row)
  OBVIOUS
<1>3. call[r].restated \in Restating
  BY DEF ConnCall
<1>4. state \in States
  BY <1>2, <1>3, RestatingIs DEF NextState, ConnRow
<1>5. PICK q : q = [row EXCEPT !.linked = linked, !.state = state]
  OBVIOUS
<1>6. Rewritten(r, row) = q
  BY <1>1, <1>2, <1>5 DEF Rewritten, NextState
<1>7. q \in ConnRow /\ q.by = row.by /\ q.conn = row.conn /\ q.state = state
  BY <1>4, <1>5 DEF ConnRow
<1> QED
  BY <1>2, <1>6, <1>7

LEMMA CommitRows ==
    ASSUME NetTypes, NEW r \in Calls, NEW request, CommitCall(r, request)
    PROVE  /\ connections' \subseteq ConnRow
           /\ \A row \in connections' :
                 \/ row \in call[r].pending
                 \/ \E q \in Kept(r) : q.by = row.by /\ q.conn = row.conn /\ row.state = NextState(r, q)
           /\ \A q \in Kept(r) : \E row \in connections' : row.by = q.by /\ row.conn = q.conn /\ row.state = NextState(r, q)
           /\ call[r].pending \subseteq connections'
           /\ \A q \in Kept(r) : q.conn \notin call[r].links /\ <<q.by, q.conn>> \notin DOMAIN call[r].restated => q \in connections'
           /\ \A row \in connections' :
                 row.conn \notin call[r].links /\ <<row.by, row.conn>> \notin DOMAIN call[r].restated =>
                     row \in Kept(r) \cup call[r].pending
<1>1. call[r] \in ConnCall /\ Kept(r) \subseteq ConnRow /\ call[r].pending \subseteq ConnRow
  BY DEF NetTypes, ConnCall, Kept
<1>2. connections' = (Kept(r) \ Dirty(r)) \cup {Rewritten(r, row) : row \in Dirty(r)} \cup call[r].pending
  BY DEF CommitCall
<1>3. Dirty(r) \subseteq Kept(r)
  BY DEF Dirty
<1>4. \A row \in Kept(r) : /\ Rewritten(r, row) \in ConnRow /\ Rewritten(r, row).by = row.by
                           /\ Rewritten(r, row).conn = row.conn /\ Rewritten(r, row).state = NextState(r, row)
  BY <1>1, RewrittenIs
<1>5. \A q \in Kept(r) : q \notin Dirty(r) => q \in connections' /\ NextState(r, q) = q.state
  BY <1>2 DEF Dirty, NextState
<1>6. \A q \in Dirty(r) : Rewritten(r, q) \in connections'
  BY <1>2
<1>7. \A q \in Dirty(r) : q.conn \in call[r].links \/ <<q.by, q.conn>> \in DOMAIN call[r].restated
  BY DEF Dirty
<1>8. \A row \in connections' : row \in call[r].pending \/ row \in Kept(r) \ Dirty(r) \/ \E q \in Dirty(r) : row = Rewritten(r, q)
  BY <1>2
<1>9. connections' \subseteq ConnRow
  BY <1>1, <1>3, <1>4, <1>8
<1>10. ASSUME NEW row \in connections', row \notin call[r].pending
       PROVE  \E q \in Kept(r) : q.by = row.by /\ q.conn = row.conn /\ row.state = NextState(r, q)
  BY <1>3, <1>4, <1>5, <1>8, <1>10
<1>11. ASSUME NEW q \in Kept(r)
       PROVE  \E row \in connections' : row.by = q.by /\ row.conn = q.conn /\ row.state = NextState(r, q)
  BY <1>4, <1>5, <1>6
<1>12. ASSUME NEW row \in connections', row.conn \notin call[r].links, <<row.by, row.conn>> \notin DOMAIN call[r].restated
       PROVE  row \in Kept(r) \cup call[r].pending
  BY <1>3, <1>4, <1>7, <1>8, <1>12
<1> QED
  BY <1>2, <1>5, <1>7, <1>9, <1>10, <1>11, <1>12

\* Connections that a request neither closes nor restates
LEMMA CommitShows ==
    ASSUME NetTypes, NEW r \in Calls, NEW request, CommitCall(r, request), NEW k \in Conns,
           \A id \in DOMAIN call[r].restated : id[2] # k
    PROVE  /\ \A state : Show(RowsOfConn(k)', state) <=> Show(RestOf(r, k), state)
           /\ RowsOfConn(k)' = {} <=> RestOf(r, k) = {}
<1>1. \A q \in Kept(r) : q.conn = k => NextState(r, q) = q.state
  <2> SUFFICES ASSUME NEW q \in Kept(r), q.conn = k PROVE NextState(r, q) = q.state
    OBVIOUS
  <2>1. <<q.by, q.conn>> \notin DOMAIN call[r].restated
    <3>1. PICK id : id = <<q.by, q.conn>>
      OBVIOUS
    <3>2. id[2] = q.conn
      BY <3>1
    <3> QED
      BY <3>1, <3>2
  <2> QED
    BY <2>1 DEF NextState
<1>2. \A row \in RowsOfConn(k)' : \E q \in RestOf(r, k) : q.state = row.state
  <2> SUFFICES ASSUME NEW row \in connections', row.conn = k PROVE \E q \in RestOf(r, k) : q.state = row.state
    BY DEF RowsOfConn
  <2>1. \/ row \in call[r].pending
        \/ \E q \in Kept(r) : q.by = row.by /\ q.conn = row.conn /\ row.state = NextState(r, q)
    BY CommitRows
  <2> QED
    BY <2>1, <1>1 DEF RestOf, PendingOf
<1>3. \A q \in RestOf(r, k) : \E row \in RowsOfConn(k)' : q.state = row.state
  <2> SUFFICES ASSUME NEW q \in RestOf(r, k) PROVE \E row \in connections' : row.conn = k /\ q.state = row.state
    BY DEF RowsOfConn
  <2>1. CASE q \in call[r].pending
    BY <2>1, CommitRows DEF RestOf, PendingOf
  <2>2. CASE q \notin call[r].pending
    <3>1. q \in Kept(r) /\ q.conn = k
      BY <2>2 DEF RestOf, PendingOf
    <3>2. \E row \in connections' : row.by = q.by /\ row.conn = q.conn /\ row.state = NextState(r, q)
      BY <3>1, CommitRows
    <3> QED
      BY <3>1, <3>2, <1>1
  <2> QED
    BY <2>1, <2>2 DEF RestOf, PendingOf
<1> QED
  BY <1>2, <1>3 DEF Show

LEMMA CommitSpares ==
    ASSUME NetInv, NEW r \in Calls, Busy(r), NEW request, CommitCall(r, request), NEW k \in Conns,
           k \notin call[r].mentions, k \notin strayed
    PROVE  RowsOfConn(k)' = RowsOfConn(k)
<1>1. CallFits(r) /\ NetTypes
  BY DEF NetInv
<1>2. call[r].op = "live"
  BY <1>1 DEF CallFits, NetTypes, ConnCall
<1>3. \A row \in connections : row.conn = k => row \in Kept(r)
  BY <1>1, <1>2 DEF CallFits, Kept
<1>4. k \notin call[r].links /\ \A row \in call[r].pending : row.conn # k
  BY <1>1 DEF CallFits
<1>5. \A by : <<by, k>> \notin DOMAIN call[r].restated
  BY <1>1 DEF CallFits
<1>6. Kept(r) \subseteq connections
  BY DEF Kept
<1>7. \A row : row \in connections' /\ row.conn = k => row \in connections
  BY <1>1, <1>4, <1>5, <1>6, CommitRows
<1>8. \A row : row \in connections /\ row.conn = k => row \in connections'
  BY <1>1, <1>3, <1>4, <1>5, CommitRows
<1> QED
  BY <1>7, <1>8 DEF RowsOfConn

LEMMA Spares ==
    ASSUME NetInv, NEW r \in Calls, Busy(r), NEW k \in Conns, k \notin strayed, k \notin TurnedConns(r) \/ call[r].pc # "commit"
    PROVE  \A id \in DOMAIN call[r].restated : id[2] # k
BY DEF NetInv, CallFits

LEMMA ClearConnsStep ==
    ASSUME NetInv, NEW r \in Calls, ClearConns(r) PROVE NetInv'
<1>1. PICK c : c = call[r]
  OBVIOUS
<1>2. PICK pc : pc = IF c.findings = {} THEN "commit" ELSE "alert"
  OBVIOUS
<1>3. PICK rows : rows = connections
  OBVIOUS
<1>4. PICK q : q = [c EXCEPT !.cleared = rows, !.pc = pc]
  OBVIOUS
<1>5. c \in ConnCall /\ rows \subseteq ConnRow /\ c.pc = "clear" /\ Busy(r) /\ CallFits(r)
  BY <1>1, <1>3 DEF NetInv, NetTypes, ClearConns, Busy
<1>6. /\ q \in ConnCall /\ q.op = c.op /\ q.pc = pc /\ q.closed = c.closed /\ q.turned = c.turned
      /\ q.mentions = c.mentions /\ q.pending = c.pending /\ q.cleared = rows /\ q.links = c.links
      /\ q.restated = c.restated /\ q.findings = c.findings
  BY <1>2, <1>4, <1>5 DEF ConnCall
<1>7. call' = [call EXCEPT ![r] = q] /\ UNCHANGED <<sockets, cached, netDiff, moves, connections, callFaults, strayed>>
  BY <1>1, <1>2, <1>3, <1>4 DEF ClearConns, InCall
<1>8. OtherCalls(r) /\ call'[r] = q /\ call' \in [Calls -> ConnCall]
  BY <1>6, <1>7, CallWritten DEF NetInv, NetTypes
<1>9. NetTypes'
  BY <1>7, <1>8 DEF NetInv, NetTypes
<1>10. c.op = "snapshot"
  BY <1>1, <1>5 DEF CallFits
<1>11. TurnedConns(r)' = TurnedConns(r)
  BY <1>1, <1>6, <1>8 DEF TurnedConns
<1>12. CallFits(r)'
  BY <1>1, <1>2, <1>5, <1>6, <1>7, <1>8, <1>10, <1>11 DEF CallFits
<1>13. ASSUME NEW k \in Conns, NEW state \in SocketState, Will(r, k, state) PROVE Will(r, k, state)'
  <2>1. Show(PendingOf(r, k), state)
    BY <1>1, <1>5, <1>10, <1>13 DEF Will
  <2>2. RestOf(r, k)' = PendingOf(r, k)
    BY <1>1, <1>3, <1>6, <1>7, <1>8 DEF RestOf, PendingOf, Kept
  <2>3. Show(RestOf(r, k), state)'
    BY <2>1, <2>2 DEF Show
  <2>4. call'[r].op = "snapshot" /\ call'[r].pc # "clear"
    BY <1>2, <1>6, <1>8, <1>10
  <2> QED
    BY <2>3, <2>4 DEF Will
<1>14. Busy(r)'
  BY <1>2, <1>6, <1>8 DEF Busy
<1>15. \A k \in Conns : RowsOfConn(k)' = RowsOfConn(k)
  BY <1>7 DEF RowsOfConn
<1> QED
  BY <1>1, <1>5, <1>6, <1>7, <1>8, <1>9, <1>12, <1>13, <1>14, <1>15, CallSteps

LEMMA FinishCallStep ==
    ASSUME NetInv, NEW r \in Calls, FinishCall(r) PROVE NetInv'
<1>1. PICK c : c = call[r]
  OBVIOUS
<1>2. PICK b : b = NewCall
  OBVIOUS
<1>3. PICK d : d = [b EXCEPT !.op = c.op, !.pc = "done"]
  OBVIOUS
<1>4. PICK q : q = [d EXCEPT !.pending = {}, !.cleared = {}, !.restated = << >>]
  OBVIOUS
<1>5. c \in ConnCall /\ c.pc = "commit" /\ Busy(r) /\ CallFits(r) /\ b \in ConnCall
  BY <1>1, <1>2, NewCallIs DEF NetInv, NetTypes, FinishCall, Busy
<1>6. d \in ConnCall /\ d.pc = "done"
  BY <1>3, <1>5 DEF ConnCall
<1>7. q \in ConnCall /\ q.pc = "done"
  BY <1>4, <1>6, RestatingIs DEF ConnCall
<1>8. CommitCall(r, d) /\ UNCHANGED <<callFaults, strayed>>
  BY <1>1, <1>2, <1>3 DEF FinishCall
<1>9. call' = [call EXCEPT ![r] = q] /\ UNCHANGED <<sockets, cached, netDiff, moves>>
  BY <1>4, <1>8 DEF CommitCall, InCall
<1>10. OtherCalls(r) /\ call'[r] = q /\ call' \in [Calls -> ConnCall]
  BY <1>7, <1>9, CallWritten DEF NetInv, NetTypes
<1>11. NetTypes'
  BY <1>8, <1>9, <1>10, CommitRows DEF NetInv, NetTypes
<1>12. ~Busy(r)'
  BY <1>7, <1>10 DEF Busy
<1>13. \A k \in Conns : k \notin strayed' /\ k \notin call[r].mentions => RowsOfConn(k)' = RowsOfConn(k)
  BY <1>5, <1>8, CommitSpares
<1>14. ASSUME NEW k \in Conns, NEW state \in SocketState, k \notin strayed, Will(r, k, state)
       PROVE  Show(RowsOfConn(k)', state)
  <2>0. NetTypes /\ (call[r].op = "live" \/ call[r].op = "snapshot") /\ call[r].pc = "commit"
    BY <1>1, <1>5 DEF NetInv, NetTypes, ConnCall, CallFits
  <2>1. CASE k \notin TurnedConns(r)
    <3>1. \A id \in DOMAIN call[r].restated : id[2] # k
      BY <1>5, <1>14, <2>1, Spares
    <3>2. Show(RestOf(r, k), state)
      BY <1>14, <2>0, <2>1 DEF Will, Show
    <3> QED
      BY <1>8, <2>0, <3>1, <3>2, CommitShows
  <2>2. CASE k \in TurnedConns(r)
    <3>1. call[r].op = "live"
      BY <2>0, <2>2, <1>5 DEF CallFits, TurnedConns
    <3>2. IF RestOf(r, k) = {} THEN state = Closed ELSE Restates(r, k, state)
      BY <1>14, <2>0, <2>2, <3>1 DEF Will
    <3>3. CASE RestOf(r, k) = {}
      <4>1. \A row \in connections' : row.conn # k
        <5> SUFFICES ASSUME NEW row \in connections', row.conn = k PROVE FALSE
          OBVIOUS
        <5>1. \/ row \in call[r].pending
              \/ \E x \in Kept(r) : x.by = row.by /\ x.conn = row.conn /\ row.state = NextState(r, x)
          BY <1>8, <2>0, CommitRows
        <5> QED
          BY <5>1, <3>3 DEF RestOf, PendingOf
      <4> QED
        BY <3>2, <3>3, <4>1 DEF RowsOfConn, Show
    <3>4. CASE RestOf(r, k) # {}
      <4>1. PICK x \in Kept(r) : /\ x.conn = k /\ <<x.by, k>> \in DOMAIN call[r].restated
                                 /\ call[r].restated[<<x.by, k>>] = state
        BY <3>2, <3>4 DEF Restates
      <4>2. NextState(r, x) = state
        BY <4>1 DEF NextState
      <4>3. \E row \in connections' : row.by = x.by /\ row.conn = x.conn /\ row.state = NextState(r, x)
        BY <1>8, <2>0, CommitRows
      <4>4. state # Closed
        BY <4>1, <1>1, <1>5, RestatingIs, ConnectionAssumption DEF ConnCall
      <4> QED
        BY <4>1, <4>2, <4>3, <4>4 DEF RowsOfConn, Show
    <3> QED
      BY <3>3, <3>4
  <2> QED
    BY <2>1, <2>2
<1>15. ASSUME NEW k \in Conns, NEW state \in SocketState, k \notin strayed', Will(r, k, state)
       PROVE  Show(RowsOfConn(k), state)'
  <2>1. Show(RowsOfConn(k)', state)
    BY <1>8, <1>14, <1>15
  <2> QED
    BY <2>1 DEF Show
<1> QED
  BY <1>5, <1>8, <1>9, <1>10, <1>11, <1>12, <1>13, <1>15, CallSteps

LEMMA CallFailsStep ==
    ASSUME NetInv, NEW r \in Calls, CallFails(r) PROVE NetInv'
<1>1. PICK b : b = NewCall
  OBVIOUS
<1>2. PICK q : q = [b EXCEPT !.pc = "failed"]
  OBVIOUS
<1>3. b \in ConnCall
  BY <1>1, NewCallIs
<1>4. q \in ConnCall /\ q.pc = "failed"
  BY <1>2, <1>3 DEF ConnCall
<1>5. call' = [call EXCEPT ![r] = q] /\ UNCHANGED <<sockets, cached, netDiff, connections, moves>> /\ Busy(r)
  BY <1>1, <1>2 DEF CallFails
<1>6. OtherCalls(r) /\ call'[r] = q /\ call' \in [Calls -> ConnCall] /\ ~Busy(r)'
  BY <1>4, <1>5, CallWritten DEF NetInv, NetTypes, Busy
<1>7. call[r].mentions \subseteq Conns /\ strayed' = strayed \cup call[r].mentions
  BY DEF NetInv, NetTypes, ConnCall, CallFails
<1>8. callFaults' \in Nat
  BY DEF NetInv, NetTypes, CallFails, CallFault
<1>9. NetTypes'
  BY <1>5, <1>6, <1>7, <1>8 DEF NetInv, NetTypes
<1>10. \A k \in Conns : RowsOfConn(k)' = RowsOfConn(k)
  BY <1>5 DEF RowsOfConn
<1> QED
  BY <1>5, <1>6, <1>7, <1>9, <1>10, CallSteps

LEMMA AlertOnStep ==
    ASSUME NetInv, NEW r \in Calls, NEW f, AlertOn(r, f) PROVE NetInv'
<1>1. PICK c : c = call[r]
  OBVIOUS
<1>2. PICK links : links = {j \in c.mentions : SameTarget(j, f) /\ \E row \in Kept(r) \cup c.pending : row.by = r /\ row.conn = j}
  OBVIOUS
<1>3. PICK pc : pc = IF c.findings # {f} THEN "alert" ELSE IF c.op = "live" THEN "apply" ELSE "commit"
  OBVIOUS
<1>4. PICK findings : findings = c.findings \ {f}
  OBVIOUS
<1>5. PICK d : d = [c EXCEPT !.findings = findings, !.links = links, !.pc = pc]
  OBVIOUS
<1>6. PICK q : q = [d EXCEPT !.pending = {}, !.cleared = {}, !.restated = << >>]
  OBVIOUS
<1>7. c \in ConnCall /\ c.pc = "alert" /\ Busy(r) /\ CallFits(r)
  BY <1>1 DEF NetInv, NetTypes, AlertOn, Busy
<1>8. findings \in SUBSET Conns /\ links \in SUBSET Conns /\ links \subseteq c.mentions
  BY <1>2, <1>4, <1>7 DEF ConnCall
<1>9. /\ d \in ConnCall /\ d.op = c.op /\ d.pc = pc /\ d.closed = c.closed /\ d.turned = c.turned
      /\ d.mentions = c.mentions /\ d.links = links
  BY <1>3, <1>5, <1>7, <1>8 DEF ConnCall
<1>10. /\ q \in ConnCall /\ q.op = c.op /\ q.pc = pc /\ q.closed = c.closed /\ q.turned = c.turned
       /\ q.mentions = c.mentions /\ q.links = links /\ q.pending = {} /\ q.cleared = {} /\ q.restated = << >>
  BY <1>6, <1>9, RestatingIs DEF ConnCall
<1>11. DOMAIN q.restated = {}
  BY <1>10, RestatingIs
<1>12. CommitCall(r, d) /\ UNCHANGED <<callFaults, strayed>>
  BY <1>1, <1>2, <1>3, <1>4, <1>5 DEF AlertOn
<1>13. call' = [call EXCEPT ![r] = q] /\ UNCHANGED <<sockets, cached, netDiff, moves>>
  BY <1>6, <1>12 DEF CommitCall, InCall
<1>14. OtherCalls(r) /\ call'[r] = q /\ call' \in [Calls -> ConnCall]
  BY <1>10, <1>13, CallWritten DEF NetInv, NetTypes
<1>15. NetTypes'
  BY <1>12, <1>13, <1>14, CommitRows DEF NetInv, NetTypes
<1>16. Busy(r)' /\ (c.op = "live" \/ c.op = "snapshot") /\ (pc = "commit" => c.op = "snapshot") /\ (pc = "apply" => c.op = "live") /\ pc \in {"alert", "apply", "commit"}
  BY <1>1, <1>3, <1>7, <1>10, <1>14 DEF Busy, CallFits, ConnCall
<1>17. TurnedConns(r)' = TurnedConns(r)
  BY <1>1, <1>10, <1>14 DEF TurnedConns
<1>18. CallFits(r)'
  BY <1>1, <1>7, <1>8, <1>10, <1>11, <1>12, <1>14, <1>16, <1>17 DEF CallFits
<1>19. \A k \in Conns : k \notin strayed' /\ k \notin call[r].mentions => RowsOfConn(k)' = RowsOfConn(k)
  BY <1>7, <1>12, CommitSpares
<1>20. ASSUME NEW k \in Conns, NEW state \in SocketState, k \notin strayed', Will(r, k, state)
       PROVE  Will(r, k, state)'
  <2>1. \A id \in DOMAIN call[r].restated : id[2] # k
    BY <1>1, <1>7, <1>12, <1>20, Spares
  <2>2. /\ \A s : Show(RowsOfConn(k)', s) <=> Show(RestOf(r, k), s)
        /\ RowsOfConn(k)' = {} <=> RestOf(r, k) = {}
    BY <1>12, <2>1, CommitShows DEF NetInv
  <2>3. RestOf(r, k)' = RowsOfConn(k)'
    BY <1>10, <1>14 DEF RestOf, PendingOf, Kept, RowsOfConn
  <2>4. Show(RestOf(r, k), state) => Show(RestOf(r, k), state)'
    <3>1. Show(RestOf(r, k), state) => Show(RestOf(r, k)', state)
      BY <2>2, <2>3
    <3> QED
      BY <3>1 DEF Show
  <2>5. CASE c.op = "snapshot"
    <3>1. Show(RestOf(r, k), state)
      BY <1>1, <1>7, <1>20, <2>5 DEF Will
    <3>2. call'[r].op = "snapshot" /\ call'[r].pc # "clear"
      BY <1>10, <1>14, <1>16, <2>5
    <3> QED
      BY <2>4, <3>1, <3>2 DEF Will
  <2>6. CASE c.op = "live"
    <3>1. call'[r].op = "live" /\ call'[r].pc # "commit" /\ call'[r].closed = call[r].closed /\ call'[r].turned = call[r].turned
      BY <1>1, <1>10, <1>14, <1>16, <2>6
    <3>2. call[r].op = "live" /\ call[r].pc # "commit" /\ call[r].cleared = {}
      BY <1>1, <1>7, <2>6 DEF CallFits
    <3>3. k \in TurnedConns(r) => RestOf(r, k) = RowsOfConn(k)
      BY <1>7, <3>2 DEF CallFits, RestOf, PendingOf, Kept, RowsOfConn
    <3>4. k \in TurnedConns(r) => IF RowsOfConn(k)' = {} THEN state = Closed ELSE <<k, state>> \in call'[r].turned
      BY <1>20, <2>2, <3>1, <3>2, <3>3 DEF Will
    <3>5. k \in call[r].closed => state = Closed
      BY <1>20, <3>2 DEF Will
    <3>6. k \notin call[r].closed \cup TurnedConns(r) => state # Closed /\ Show(RestOf(r, k), state)'
      BY <1>20, <2>4, <3>2 DEF Will
    <3> QED
      BY <1>17, <3>1, <3>4, <3>5, <3>6 DEF Will
  <2> QED
    BY <1>16, <2>5, <2>6
<1> QED
  BY <1>1, <1>7, <1>10, <1>12, <1>13, <1>14, <1>15, <1>16, <1>18, <1>19, <1>20, CallSteps

LEMMA ApplyChangesStep ==
    ASSUME NetInv, NEW r \in Calls, ApplyChanges(r) PROVE NetInv'
<1> DEFINE Deleted == {row \in connections : \E k \in call[r].closed : Matches(row, k)}
           Left == connections \ Deleted
           Chosen == {w \in call[r].turned : MayRestate(Left, w[1]) # {}}
<1>0. PICK pick \in [Chosen -> UNION {MayRestate(Left, w[1]) : w \in Chosen}] :
         /\ \A w \in Chosen : pick[w] \in MayRestate(Left, w[1])
         /\ InCall(r, [call[r] EXCEPT !.pc = "commit", !.cleared = Deleted,
                !.restated = [id \in Range(pick) |-> (CHOOSE w \in Chosen : pick[w] = id)[2]]])
         /\ strayed' = strayed \cup ({row.conn : row \in Deleted} \ call[r].closed)
                               \cup UNION {{w[1], pick[w][2]} : w \in {v \in Chosen : pick[v][2] # v[1]}}
  BY DEF ApplyChanges
<1>1. PICK c : c = call[r]
  OBVIOUS
<1>2. PICK deleted : deleted = Deleted
  OBVIOUS
<1>3. PICK rows : rows = Left
  OBVIOUS
<1>4. PICK turned : turned = Chosen
  OBVIOUS
<1>51. deleted = {row \in connections : \E k \in c.closed : Matches(row, k)} /\ rows = connections \ deleted
  BY <1>1, <1>2, <1>3
<1>52. turned = {w \in c.turned : MayRestate(rows, w[1]) # {}}
  BY <1>1, <1>3, <1>4
<1> HIDE DEF Deleted, Left, Chosen
<1>5. /\ pick \in [turned -> UNION {MayRestate(rows, w[1]) : w \in turned}]
      /\ \A w \in turned : pick[w] \in MayRestate(rows, w[1])
      /\ InCall(r, [c EXCEPT !.pc = "commit", !.cleared = deleted,
             !.restated = [id \in Range(pick) |-> (CHOOSE w \in turned : pick[w] = id)[2]]])
      /\ strayed' = strayed \cup ({row.conn : row \in deleted} \ c.closed)
                            \cup UNION {{w[1], pick[w][2]} : w \in {v \in turned : pick[v][2] # v[1]}}
  BY <1>0, <1>1, <1>2, <1>3, <1>4
<1>6. PICK restated : restated = [id \in Range(pick) |-> (CHOOSE w \in turned : pick[w] = id)[2]]
  OBVIOUS
<1>7. PICK q : q = [c EXCEPT !.pc = "commit", !.cleared = deleted, !.restated = restated]
  OBVIOUS
<1>8. /\ c \in ConnCall /\ c.pc = "apply" /\ Busy(r) /\ CallFits(r) /\ c.op = "live" /\ c.cleared = {}
      /\ connections \subseteq ConnRow /\ strayed \subseteq Conns
  BY <1>1 DEF NetInv, NetTypes, ApplyChanges, Busy, CallFits
<1>9. deleted \subseteq connections /\ rows \subseteq connections /\ turned \subseteq c.turned /\ c.turned \subseteq Conns \X States
  BY <1>51, <1>52, <1>8 DEF ConnCall
<1>10. Range(pick) \subseteq Calls \X Conns /\ \A w \in turned : \E row \in rows : pick[w] = <<row.by, row.conn>>
  <2>1. \A w \in turned : \E row \in rows : pick[w] = <<row.by, row.conn>>
    BY <1>5 DEF MayRestate
  <2>2. \A row \in rows : row.by \in Calls /\ row.conn \in Conns
    BY <1>8, <1>9 DEF ConnRow
  <2>3. ASSUME NEW w \in turned PROVE pick[w] \in Calls \X Conns
    <3>1. PICK row \in rows : pick[w] = <<row.by, row.conn>>
      BY <2>1
    <3> QED
      BY <3>1, <2>2
  <2>4. \A id \in Range(pick) : \E w \in turned : pick[w] = id
    BY <1>5 DEF Range
  <2> QED
    BY <2>1, <2>3, <2>4
<1>11. \A id \in Range(pick) : \E w \in turned : pick[w] = id
  BY <1>5 DEF Range
<1>12. DOMAIN restated = Range(pick) /\ \A id \in Range(pick) : \E w \in turned : pick[w] = id /\ restated[id] = w[2]
  BY <1>6, <1>11
<1>13. restated \in Restating
  <2>1. \A id \in Range(pick) : restated[id] \in States
    BY <1>9, <1>12
  <2>2. restated \in [Range(pick) -> States]
    BY <1>6, <2>1
  <2> QED
    BY <1>10, <2>2, RestatingIs
<1>14. /\ q \in ConnCall /\ q.op = "live" /\ q.pc = "commit" /\ q.closed = c.closed /\ q.turned = c.turned
       /\ q.mentions = c.mentions /\ q.links = c.links /\ q.pending = c.pending /\ q.cleared = deleted /\ q.restated = restated
  BY <1>7, <1>8, <1>9, <1>13 DEF ConnCall
<1>15. call' = [call EXCEPT ![r] = q] /\ UNCHANGED <<sockets, cached, netDiff, moves>>
  BY <1>5, <1>6, <1>7 DEF InCall
<1>16. UNCHANGED <<connections, callFaults>>
  BY DEF ApplyChanges
<1>17. OtherCalls(r) /\ call'[r] = q /\ call' \in [Calls -> ConnCall] /\ Busy(r)'
  BY <1>14, <1>15, CallWritten DEF NetInv, NetTypes, Busy
<1>18. \A w \in turned : pick[w][2] = w[1] \/ (w[1] \in strayed' /\ pick[w][2] \in strayed')
  <2> SUFFICES ASSUME NEW w \in turned, pick[w][2] # w[1] PROVE {w[1], pick[w][2]} \subseteq strayed'
    OBVIOUS
  <2>1. {w[1], pick[w][2]} \in {{v[1], pick[v][2]} : v \in {x \in turned : pick[x][2] # x[1]}}
    OBVIOUS
  <2> QED
    BY <2>1, <1>5
<1>19. \A row \in deleted : row.conn \in c.closed \cup strayed'
  BY <1>5
<1>20. strayed \subseteq strayed' /\ strayed' \subseteq Conns
  <2>1. \A w \in turned : w[1] \in Conns /\ pick[w][2] \in Conns
    BY <1>8, <1>9, <1>10 DEF ConnRow
  <2>2. \A row \in deleted : row.conn \in Conns
    BY <1>8, <1>9 DEF ConnRow
  <2> QED
    BY <1>5, <1>8, <2>1, <2>2
<1>21. NetTypes'
  BY <1>15, <1>16, <1>17, <1>20 DEF NetInv, NetTypes
<1>22. TurnedConns(r)' = TurnedConns(r) /\ TurnedConns(r) = {w[1] : w \in c.turned}
  BY <1>1, <1>14, <1>17 DEF TurnedConns
<1>23. \A id \in DOMAIN restated : id[2] \in TurnedConns(r) \cup strayed'
  BY <1>9, <1>12, <1>18, <1>22
<1>24. CallFits(r)'
  BY <1>1, <1>8, <1>14, <1>17, <1>19, <1>22, <1>23 DEF CallFits
<1>25. \A k \in Conns : RowsOfConn(k)' = RowsOfConn(k)
  BY <1>16 DEF RowsOfConn
<1>26. ASSUME NEW k \in Conns, NEW state \in SocketState, k \notin strayed', k \in c.mentions, Will(r, k, state)
       PROVE  Will(r, k, state)'
  <2>1. /\ call[r].op = "live" /\ call[r].pc # "commit" /\ call'[r].op = "live" /\ call'[r].pc = "commit"
        /\ call'[r].closed = call[r].closed /\ call'[r].turned = call[r].turned
    BY <1>1, <1>8, <1>14, <1>17
  <2>2. RestOf(r, k)' = {row \in rows : row.conn = k} \cup {row \in c.pending : row.conn = k}
    BY <1>51, <1>14, <1>16, <1>17 DEF RestOf, PendingOf, Kept
  <2>3. RestOf(r, k) = {row \in connections : row.conn = k} \cup {row \in c.pending : row.conn = k}
    BY <1>1, <1>8 DEF RestOf, PendingOf, Kept
  <2>4. k \in c.closed \cup TurnedConns(r) => \A row \in c.pending : row.conn # k
    BY <1>1, <1>8 DEF CallFits
  <2>5. k \notin c.closed => \A row \in connections : row.conn = k => row \in rows
    BY <1>51, <1>19, <1>26
  <2>6. CASE k \in c.closed
    <3>1. \A row \in rows : row.conn # k
      BY <1>51, <2>6 DEF Matches
    <3>2. RestOf(r, k)' = {} /\ k \notin TurnedConns(r)
      BY <3>1, <2>2, <2>4, <2>6, <1>1, <1>8 DEF CallFits
    <3>3. state = Closed
      BY <1>1, <1>26, <2>1, <2>6 DEF Will
    <3> QED
      BY <1>1, <1>22, <2>1, <2>6, <3>2, <3>3 DEF Will
  <2>7. CASE k \in TurnedConns(r)
    <3>1. k \notin c.closed
      BY <1>1, <1>8, <2>7 DEF CallFits
    <3>2. RestOf(r, k)' = {row \in connections : row.conn = k}
      BY <2>2, <2>4, <2>5, <2>7, <3>1, <1>9
    <3>3. IF RowsOfConn(k) = {} THEN state = Closed ELSE <<k, state>> \in c.turned
      BY <1>1, <1>26, <2>1, <2>7 DEF Will
    <3>4. RestOf(r, k)' = RowsOfConn(k)
      BY <3>2 DEF RowsOfConn
    <3>5. CASE RowsOfConn(k) = {}
      BY <1>1, <1>22, <2>1, <2>7, <3>1, <3>3, <3>4, <3>5 DEF Will
    <3>6. CASE RowsOfConn(k) # {}
      <4>1. PICK w : w = <<k, state>>
        OBVIOUS
      <4>2. w \in c.turned /\ w[1] = k /\ w[2] = state
        BY <4>1, <3>3, <3>6
      <4>3. \E row \in rows : row.conn = k
        BY <2>5, <3>1, <3>6 DEF RowsOfConn
      <4>4. MayRestate(rows, k) # {}
        BY <4>3 DEF MayRestate
      <4>5. w \in turned
        BY <1>52, <4>2, <4>4
      <4>6. PICK row \in rows : pick[w] = <<row.by, row.conn>>
        BY <4>5, <1>10
      <4>7. row.conn = k
        BY <4>2, <4>5, <4>6, <1>18, <1>26
      <4>8. pick[w] \in Range(pick)
        BY <4>5, <1>5 DEF Range
      <4>9. PICK v \in turned : pick[v] = pick[w] /\ restated[pick[w]] = v[2]
        BY <4>8, <1>12
      <4>10. v[1] = k
        BY <4>6, <4>7, <4>9, <1>18, <1>26
      <4>11. v = w
        BY <4>2, <4>9, <4>10, <1>1, <1>8, <1>9 DEF CallFits
      <4>12. <<row.by, k>> \in DOMAIN restated /\ restated[<<row.by, k>>] = state
        BY <4>2, <4>6, <4>7, <4>8, <4>9, <4>11, <1>12
      <4>13. Kept(r)' = rows
        BY <1>51, <1>14, <1>16, <1>17 DEF Kept
      <4>14. Restates(r, k, state)'
        BY <4>7, <4>12, <4>13, <1>14, <1>17 DEF Restates
      <4> QED
        BY <1>1, <1>22, <2>1, <2>7, <3>1, <3>4, <3>6, <4>14 DEF Will
    <3> QED
      BY <3>5, <3>6
  <2>8. CASE k \notin c.closed \cup TurnedConns(r)
    <3>1. RestOf(r, k)' = RestOf(r, k)
      BY <2>2, <2>3, <2>5, <2>8, <1>9
    <3>2. state # Closed /\ Show(RestOf(r, k), state)
      BY <1>1, <1>26, <2>1, <2>8 DEF Will
    <3>3. Show(RestOf(r, k), state)'
      BY <3>1, <3>2 DEF Show
    <3> QED
      BY <1>1, <1>22, <2>1, <2>8, <3>2, <3>3 DEF Will
  <2> QED
    BY <2>6, <2>7, <2>8
<1> QED
  BY <1>1, <1>8, <1>14, <1>15, <1>17, <1>20, <1>21, <1>24, <1>25, <1>26, CallSteps

-----------------------------------------------------------------------------

LEMMA NetInitInv == ASSUME NetInit PROVE NetInv
<1> USE ConnectionAssumption
<1>1. \A r \in Calls : call[r] = NewCall /\ call[r].pc = "new"
  BY NewCallIs DEF NetInit
<1>2. \A r \in Calls : ~Busy(r)
  BY <1>1 DEF Busy
<1>3. netDiff = IdleNet /\ netDiff \in NetCycle /\ netDiff.pc = "idle"
  BY DEF NetInit, IdleNet, NetCycle
<1>4. call \in [Calls -> ConnCall]
  BY NewCallIs DEF NetInit
<1>5. NetTypes
  BY <1>3, <1>4 DEF NetInit, NetTypes, SocketState
<1>6. DiffInv
  BY <1>3 DEF DiffInv
<1>7. ASSUME NEW k \in Conns PROVE ConnInv(k)
  <2>1. FitsSockets(k, Closed) /\ Closed \in SocketState
    BY <1>3 DEF FitsSockets, Ahead, NetInit, SocketState
  <2>2. Show(RowsOfConn(k), Closed)
    BY DEF Show, RowsOfConn, NetInit
  <2> QED
    BY <1>2, <2>1, <2>2 DEF ConnInv
<1> QED
  BY <1>2, <1>5, <1>6, <1>7 DEF NetInv, MentionsInv

LEMMA NetIdles == ASSUME NetInv, UNCHANGED netVars PROVE NetInv'
<1>1. NetTypes' /\ DiffInv' /\ UNCHANGED <<call, connections>> /\ strayed \subseteq strayed'
  BY DEF NetInv, NetTypes, DiffInv, Open, netVars
<1>2. \A k \in Conns, state \in SocketState : FitsSockets(k, state) => FitsSockets(k, state)'
  BY DEF FitsSockets, Ahead, Changes, netVars
<1> QED
  BY <1>1, <1>2, SocketSteps

LEMMA NetSteps == NetInv /\ [NetNext]_netVars => NetInv'
<1> SUFFICES ASSUME NetInv, [NetNext]_netVars PROVE NetInv'
  OBVIOUS
<1>1. CASE \E k \in Conns : Disconnect(k) \/ \E s \in States : Connect(k, s) \/ Turn(k, s)
  BY <1>1, DisconnectStep, ConnectStep, TurnStep
<1>2. CASE CollectSockets \/ ChangesLost \/ WaitEnds
  BY <1>2, CollectSocketsStep, ChangesLostStep, WaitEndsStep
<1>3. ASSUME NEW r \in Calls,
             \/ PostChanges(r) \/ SendSockets(r) \/ ClearConns(r) \/ ApplyChanges(r) \/ FinishCall(r) \/ CallFails(r)
             \/ \E k \in call[r].findings : AlertOn(r, k)
      PROVE  NetInv'
  BY <1>3, PostChangesStep, SendSocketsStep, ClearConnsStep, ApplyChangesStep, FinishCallStep, CallFailsStep, AlertOnStep
<1>4. CASE UNCHANGED netVars
  BY <1>4, NetIdles
<1> QED
  BY <1>1, <1>2, <1>3, <1>4 DEF NetNext

LEMMA NetHolds == NetSpec => []NetInv
BY NetInitInv, NetSteps, PTL DEF NetSpec

\* Type correctness of the connection inventory: its variables keep their types
\* for any connections, requests and bounds.
THEOREM NetTypeCorrect == NetSpec => []NetTypeOK
<1>1. NetInv => NetTypeOK
  BY DEF NetInv, NetTypes, NetTypeOK, SocketState, ConnRow, NetCycle, ConnCall
<1> QED
  BY <1>1, NetHolds, PTL

\* When the monitor has seen what is the case and no request is at work, an open
\* connection has a row in its state and a closed one none (network_service.py,
\* process_live_network_events and ingest_network_connections), but for those
\* that have strayed: for any connections, requests and bounds.
THEOREM ConnectionsHold == NetSpec => []ConnectionsAgree
<1>1. ASSUME NetInv PROVE ConnectionsAgree
  <2> SUFFICES ASSUME netDiff.pc = "idle", cached = sockets, \A r \in Calls : ~Busy(r), NEW k \in Conns \ strayed
               PROVE  IF sockets[k] = Closed THEN RowsOfConn(k) = {}
                      ELSE \E row \in RowsOfConn(k) : row.state = sockets[k]
    BY DEF ConnectionsAgree
  <2>1. PICK state \in SocketState :
           /\ FitsSockets(k, state)
           /\ (\A r \in Calls : ~(Busy(r) /\ k \in call[r].mentions)) => Show(RowsOfConn(k), state)
    BY <1>1 DEF NetInv, ConnInv
  <2>2. state = sockets[k]
    BY <2>1 DEF FitsSockets, Ahead
  <2> QED
    BY <2>1, <2>2 DEF Show
<1> QED
  BY <1>1, NetHolds, PTL

-----------------------------------------------------------------------------
(* The monitored files.                                                      *)

AnyPath == FilePaths \cup {NoPath}
VerifyType ==
    [op : {"none", "event", "baseline", "recalculate", "record"},
     pc : {"new", "compare", "query", "store", "act", "recalculate", "audit", "rules", "done", "failed"},
     type : {"none", "CREATED", "MODIFIED", "DELETED", "RENAMED"}, path : AnyPath, old : AnyPath,
     data : AnyHash, row : RowIds \cup {NoRow}, was : AnyHash, left : SUBSET FilePaths]

\* Each request, by its own fields
RequestFits(r) ==
    /\ verify[r].type = "RENAMED" <=> verify[r].old # NoPath
    /\ verify[r].type = "RENAMED" => verify[r].op = "event"
    /\ verify[r].op = "event" =>
         /\ verify[r].path \in FilePaths /\ verify[r].path # verify[r].old /\ verify[r].type # "none"
         /\ verify[r].left \subseteq {verify[r].path}
    /\ AtStep(r, "new") => verify[r].old = NoPath
    /\ AtStep(r, "compare") => verify[r].op = "event" /\ verify[r].left = {}
    /\ AtStep(r, "query") \/ AtStep(r, "store") => verify[r].op \in {"event", "baseline"}
    /\ AtStep(r, "store") => verify[r].path \in verify[r].left
    /\ AtStep(r, "act") \/ AtStep(r, "recalculate") => verify[r].path \in FilePaths
    /\ AtStep(r, "recalculate") => Tracked(r)

RecordTypes ==
    /\ DOMAIN records \subseteq RowIds /\ (\A id \in DOMAIN records : records[id] \in [path : FilePaths, data : AnyHash])
    /\ verify \in [Verifiers -> VerifyType] /\ (\A r \in Verifiers : RequestFits(r))
    /\ mirror \in [FilePaths -> AnyHash \cup {Untracked}] /\ clashed \subseteq FilePaths
    /\ recordFaults \in 0 .. MaxRecordFaults

\* The paths that a request still deals with
Deals(r) == IF Active(r) THEN Touched(r) \ {NoPath} ELSE {}

\* Two that deal with one path are in doubt about all of theirs.
MeetInv(r, o) == Deals(r) \cap Deals(o) # {} => Deals(r) \cup Deals(o) \subseteq clashed

\* The two paths of a rename are in doubt together.
RenameInv(r) == Active(r) /\ verify[r].type = "RENAMED" => (verify[r].old \in clashed <=> verify[r].path \in clashed)

\* The ids that a request may still give to a new row
Unused(id) ==
    /\ id[1] # Earlier
    /\ AtStep(id[1], "new") \/ AtStep(id[1], "compare") \/ id[2] \in verify[id[1]].left
IdInv == \A id \in DOMAIN records : ~Unused(id)

\* The row that a request found is of the path it looked for, unless in doubt.
Sought(r) == IF AtStep(r, "compare") THEN LookupPath(verify[r].type, verify[r].path, verify[r].old) ELSE verify[r].path
Keeps(r) == Tracked(r) /\ (AtStep(r, "compare") \/ AtStep(r, "store") \/ AtStep(r, "act") \/ AtStep(r, "recalculate"))
HeldInv(r) ==
    Keeps(r) =>
        /\ ~Unused(verify[r].row)
        /\ Gone(verify[r].row) \/ records[verify[r].row].path = Sought(r)
           \/ {records[verify[r].row].path, Sought(r), verify[r].path} \subseteq clashed

\* What is recorded of a path
RowsAt(p) == {id \in DOMAIN records : records[id].path = p}
Finds(r, p) == RowsAt(p) = IF Tracked(r) THEN {verify[r].row} ELSE {}
AtMostOne(p) == \A i, j \in RowsAt(p) : i = j
Settled(p) == IF mirror[p] = Untracked THEN RowsAt(p) = {}
              ELSE \E id \in RowsAt(p) : RowsAt(p) = {id} /\ records[id].data = mirror[p]

\* What the event makes of the content that it found
Becomes(r) == IF verify[r].data = NoHash THEN verify[r].was ELSE verify[r].data
Known(r) == records[verify[r].row].data = verify[r].was

Pending(r, p) ==
    /\ AtStep(r, "compare") =>
         LET to == verify[r].path IN
         /\ Deletion(r) => Finds(r, p) /\ mirror[p] = Untracked
         /\ ~Deletion(r) /\ ~Tracked(r) /\ p = to => AtMostOne(p) /\ mirror[p] = verify[r].data
         /\ ~Deletion(r) /\ ~Tracked(r) /\ p # to => Settled(p)
         /\ ~Deletion(r) /\ Tracked(r) /\ p = Sought(r) => Finds(r, p) /\ Known(r)
         /\ ~Deletion(r) /\ Tracked(r) /\ p # Sought(r) => RowsAt(p) = {}
         /\ ~Deletion(r) /\ Tracked(r) /\ p = to => mirror[p] = Becomes(r)
         /\ ~Deletion(r) /\ Tracked(r) /\ p # to => mirror[p] = Untracked
    /\ AtStep(r, "query") \/ AtStep(r, "store") =>
         IF p \in verify[r].left THEN AtMostOne(p) /\ mirror[p] = verify[r].data ELSE Settled(p)
    /\ AtStep(r, "store") /\ p = verify[r].path => Finds(r, p)
    /\ AtStep(r, "act") /\ verify[r].op = "recalculate" /\ Tracked(r) => Finds(r, p) /\ mirror[p] = verify[r].data
    /\ AtStep(r, "act") /\ ~(verify[r].op = "recalculate" /\ Tracked(r)) => Settled(p)
    /\ AtStep(r, "recalculate") => Finds(r, p) /\ mirror[p] = verify[r].data
    /\ AtStep(r, "audit") \/ AtStep(r, "rules") => Settled(p)

PathInv(p) ==
    p \notin clashed =>
        /\ \A r \in Verifiers : p \in Deals(r) => Pending(r, p)
        /\ (\A r \in Verifiers : p \notin Deals(r)) => Settled(p)

RecordInv ==
    /\ RecordTypes /\ IdInv
    /\ (\A r, o \in Verifiers : r # o => MeetInv(r, o))
    /\ (\A r \in Verifiers : RenameInv(r)) /\ (\A r \in Verifiers : HeldInv(r))
    /\ \A p \in FilePaths : PathInv(p)

-----------------------------------------------------------------------------

LEMMA RowIdFacts ==
    /\ NoRow \notin RowIds /\ NoHash \in AnyHash /\ Untracked \notin AnyHash /\ Earlier \notin Verifiers
    /\ \A id \in RowIds : id = <<id[1], id[2]>> /\ id[1] \in Verifiers \cup {Earlier} /\ id[2] \in FilePaths
    /\ \A r \in Verifiers, p \in FilePaths : <<r, p>> \in RowIds
BY RecordAssumption DEF NoRow, RowIds, AnyHash, Untracked, Earlier

LEMMA FreshType ==
    ASSUME NEW op \in {"none", "event", "baseline", "recalculate", "record"},
           NEW pc \in {"new", "compare", "query", "act"}
    PROVE  /\ Verifier(op, pc) \in VerifyType
           /\ Verifier(op, pc) = [op |-> op, pc |-> pc, type |-> "none", path |-> NoPath, old |-> NoPath,
                                  data |-> NoHash, row |-> NoRow, was |-> NoHash, left |-> {}]
BY RowIdFacts DEF Verifier, VerifyType, AnyPath

\* A step of one request
Others(r) == \A o \in Verifiers \ {r} : verify'[o] = verify[o]

LEMMA OthersKeep ==
    ASSUME NEW r \in Verifiers, Others(r), NEW o \in Verifiers, o # r
    PROVE  /\ Deals(o)' = Deals(o) /\ Active(o)' = Active(o)
           /\ RequestFits(o) => RequestFits(o)'
           /\ Sought(o)' = Sought(o) /\ Keeps(o)' = Keeps(o)
<1> verify'[o] = verify[o]
  BY DEF Others
<1> QED
  BY DEF Deals, Active, Touched, RequestFits, AtStep, Tracked, Sought, LookupPath, Keeps

LEMMA Writes ==
    ASSUME NEW r \in Verifiers, verify \in [Verifiers -> VerifyType], NEW q, ToStep(r, q), q \in VerifyType
    PROVE  Others(r) /\ verify'[r] = q /\ verify' \in [Verifiers -> VerifyType]
BY DEF Others, ToStep

LEMMA DealsOf ==
    ASSUME NEW r \in Verifiers, verify \in [Verifiers -> VerifyType]
    PROVE  Deals(r) \subseteq FilePaths
BY DEF Deals, Touched, VerifyType, AnyPath

\* What doubts a step raises.
LEMMA MeetKeeps ==
    ASSUME RecordInv, NEW r \in Verifiers, Others(r), Deals(r)' \subseteq Deals(r), clashed \subseteq clashed'
    PROVE  \A s, o \in Verifiers : s # o => MeetInv(s, o)'
<1> SUFFICES ASSUME NEW s \in Verifiers, NEW o \in Verifiers, s # o, Deals(s)' \cap Deals(o)' # {}
             PROVE  Deals(s)' \cup Deals(o)' \subseteq clashed'
  BY DEF MeetInv
<1>1. Deals(s)' \subseteq Deals(s) /\ Deals(o)' \subseteq Deals(o)
  BY OthersKeep
<1>2. MeetInv(s, o)
  BY DEF RecordInv
<1> QED
  BY <1>1, <1>2 DEF MeetInv

LEMMA MeetBegins ==
    ASSUME RecordInv, NEW r \in Verifiers, Others(r), ~Active(r), NEW paths, Deals(r)' \subseteq paths,
           NoPath \notin paths, Meets(paths) \subseteq clashed'
    PROVE  /\ \A s, o \in Verifiers : s # o => MeetInv(s, o)'
           /\ clashed \subseteq clashed'
           /\ \A o \in Verifiers \ {r} : Deals(o) \cap paths # {} => paths \cup Deals(o) \subseteq clashed'
<1>1. clashed \subseteq clashed'
  BY DEF Meets
<1>2. ASSUME NEW o \in Verifiers \ {r}, Deals(o) \cap paths # {} PROVE paths \cup Deals(o) \subseteq clashed'
  <2>1. Active(o) /\ Deals(o) = Touched(o) \ {NoPath} /\ Touched(o) \cap paths # {}
    BY <1>2 DEF Deals
  <2>2. (paths \cup Touched(o)) \ {NoPath} \subseteq Meets(paths)
    BY <2>1 DEF Meets
  <2> QED
    BY <2>1, <2>2
<1>3. ASSUME NEW s \in Verifiers, NEW o \in Verifiers, s # o PROVE MeetInv(s, o)'
  <2>1. CASE s # r /\ o # r
    <3>1. Deals(s)' = Deals(s) /\ Deals(o)' = Deals(o) /\ MeetInv(s, o)
      BY <1>3, <2>1, OthersKeep DEF RecordInv
    <3> QED
      BY <3>1, <1>1 DEF MeetInv
  <2>2. CASE s = r
    <3>1. Deals(o)' = Deals(o) /\ o \in Verifiers \ {r}
      BY <1>3, <2>2, OthersKeep
    <3> QED
      BY <3>1, <1>2, <2>2 DEF MeetInv
  <2>3. CASE o = r
    <3>1. Deals(s)' = Deals(s) /\ s \in Verifiers \ {r}
      BY <1>3, <2>3, OthersKeep
    <3> QED
      BY <3>1, <1>2, <2>3 DEF MeetInv
  <2> QED
    BY <2>1, <2>2, <2>3
<1> QED
  BY <1>1, <1>2, <1>3

\* A doubt about one path of a rename at work is one about both.
Whole == \A o \in Verifiers : Deals(o) \cap (clashed' \ clashed) # {} => Deals(o) \subseteq clashed'

LEMMA RenameKeeps ==
    ASSUME RecordInv, NEW r \in Verifiers, Others(r), clashed \subseteq clashed', clashed' \subseteq FilePaths, Whole,
           RenameInv(r)'
    PROVE  \A o \in Verifiers : RenameInv(o)'
<1> SUFFICES ASSUME NEW o \in Verifiers, o # r, Active(o), verify[o].type = "RENAMED"
             PROVE  verify[o].old \in clashed' <=> verify[o].path \in clashed'
  <2>1. ASSUME NEW o \in Verifiers, o # r PROVE verify'[o] = verify[o] /\ Active(o)' = Active(o)
    BY <2>1, OthersKeep DEF Others
  <2> QED
    BY <2>1 DEF RenameInv
<1>1. RenameInv(o) /\ verify[o].old # NoPath /\ verify[o].path # NoPath
  <2>1. RequestFits(o) /\ RenameInv(o)
    BY DEF RecordInv, RecordTypes
  <2> QED
    BY <2>1, RecordAssumption DEF RequestFits
<1>2. Deals(o) = ({verify[o].path, verify[o].old} \cup verify[o].left) \ {NoPath}
  BY DEF Deals, Touched
<1>3. verify[o].old \in Deals(o) /\ verify[o].path \in Deals(o)
  BY <1>1, <1>2
<1> QED
  BY <1>1, <1>2, <1>3 DEF RenameInv, Whole

\* A step changes one row, of a path that the request deals with or in doubt.
RowsChange(r, id) ==
    /\ \A i : i # id => (i \in DOMAIN records' <=> i \in DOMAIN records)
    /\ \A i \in DOMAIN records : i # id => records'[i] = records[i]
    /\ id \in DOMAIN records => records[id].path \in Deals(r) \cup clashed
    /\ id \in DOMAIN records' => records'[id].path \in Deals(r) \cup clashed
    /\ id \in DOMAIN records /\ id \in DOMAIN records' =>
         \/ records'[id].path = records[id].path
         \/ {records'[id].path, records[id].path} \subseteq Deals(r)
            /\ (records[id].path \in clashed => records'[id].path \in clashed)
         \/ {records'[id].path, records[id].path} \subseteq clashed
    /\ id \in DOMAIN records' /\ id \notin DOMAIN records => Unused(id)

LEMMA NoRowChanges ==
    ASSUME RecordInv, NEW r \in Verifiers, UNCHANGED records
    PROVE  RowsChange(r, NoRow)
BY RowIdFacts DEF RowsChange, RecordInv, RecordTypes

LEMMA SoughtIs ==
    ASSUME RecordInv, NEW r \in Verifiers, Active(r), Sought(r) # NoPath
    PROVE  /\ Sought(r) \in Deals(r)
           /\ verify[r].path # NoPath => (Sought(r) \in clashed => verify[r].path \in clashed)
<1>1. RequestFits(r) /\ RenameInv(r)
  BY DEF RecordInv, RecordTypes
<1>2. Sought(r) = verify[r].path \/ (Sought(r) = verify[r].old /\ verify[r].type = "RENAMED")
  BY DEF Sought, LookupPath
<1> QED
  BY <1>1, <1>2 DEF Deals, Touched, RenameInv

LEMMA HoldsIs ==
    ASSUME RecordInv, NEW o \in Verifiers, Keeps(o)
    PROVE  /\ Active(o) /\ verify[o].path \in FilePaths /\ Sought(o) \in FilePaths
           /\ verify[o].row \in RowIds
<1>1. RequestFits(o) /\ verify[o] \in VerifyType
  BY DEF RecordInv, RecordTypes
<1>2. Active(o)
  BY DEF Keeps, Active, AtStep
<1>3. verify[o].path \in FilePaths
  BY <1>1 DEF RequestFits, Keeps, VerifyType
<1>4. verify[o].row \in RowIds
  BY <1>1 DEF Keeps, Tracked, VerifyType
<1>5. verify[o].old \in FilePaths \/ verify[o].old = NoPath
  BY <1>1 DEF VerifyType, AnyPath
<1> QED
  BY <1>1, <1>2, <1>3, <1>4, <1>5 DEF Sought, LookupPath

LEMMA HeldKeeps ==
    ASSUME RecordInv, NEW r \in Verifiers, Others(r), NEW id, RowsChange(r, id), clashed \subseteq clashed',
           \A i \in RowIds : Unused(i)' => Unused(i), HeldInv(r)'
    PROVE  \A o \in Verifiers : HeldInv(o)'
<1> SUFFICES ASSUME NEW o \in Verifiers, o # r, Keeps(o)
             PROVE  HeldInv(o)'
  BY OthersKeep DEF HeldInv
<1> DEFINE row == verify[o].row
<1>1. verify'[o].row = row /\ verify'[o].path = verify[o].path /\ Sought(o)' = Sought(o) /\ Keeps(o)' = Keeps(o)
  BY OthersKeep DEF Others
<1>2. Active(o) /\ verify[o].path \in FilePaths /\ Sought(o) \in FilePaths /\ row \in RowIds
  BY HoldsIs
<1>3. Sought(o) \in Deals(o) /\ (Sought(o) \in clashed => verify[o].path \in clashed)
  BY <1>2, SoughtIs, RecordAssumption
<1>4. ~Unused(row) /\ (row \in DOMAIN records => records[row].path = Sought(o)
                          \/ {records[row].path, Sought(o), verify[o].path} \subseteq clashed)
  BY DEF RecordInv, HeldInv, Gone
<1>5. MeetInv(r, o)
  BY DEF RecordInv
<1>6. verify[o].path \in Deals(o)
  BY <1>2, RecordAssumption DEF Deals, Touched
<1> HIDE DEF row
<1>7. ASSUME row \in DOMAIN records'
      PROVE  records'[row].path = Sought(o) \/ {records'[row].path, Sought(o), verify[o].path} \subseteq clashed
  <2>1. row \in DOMAIN records
    BY <1>4, <1>7 DEF RowsChange
  <2>2. CASE row # id
    BY <1>4, <2>1, <2>2 DEF RowsChange
  <2>3. CASE row = id
    <3> DEFINE q == records[id].path
               n == records'[id].path
    <3>1. \/ n = q
          \/ {n, q} \subseteq Deals(r) /\ (q \in clashed => n \in clashed)
          \/ {n, q} \subseteq clashed
      BY <2>1, <1>7, <2>3 DEF RowsChange
    <3>2. q = Sought(o) \/ {q, Sought(o), verify[o].path} \subseteq clashed
      BY <1>4, <2>1, <2>3
    <3> HIDE DEF q, n
    <3>3. q = Sought(o) /\ {n, q} \subseteq Deals(r) => Deals(r) \cup Deals(o) \subseteq clashed
      BY <1>3, <1>5 DEF MeetInv
    <3>4. n = Sought(o) \/ {n, Sought(o), verify[o].path} \subseteq clashed
      BY <3>1, <3>2, <3>3, <1>3, <1>6
    <3> QED
      BY <3>4, <2>3 DEF n
  <2> QED
    BY <2>2, <2>3
<1> QED
  BY <1>1, <1>2, <1>4, <1>7 DEF HeldInv, Gone, row

\* What a step leaves of a path
Same(p) ==
    /\ RowsAt(p)' = RowsAt(p) /\ mirror'[p] = mirror[p]
    /\ \A id \in RowsAt(p) : records'[id] = records[id]

LEMMA SameSettled ==
    ASSUME NEW p \in FilePaths, Same(p)
    PROVE  (Settled(p) => Settled(p)') /\ (AtMostOne(p) => AtMostOne(p)')
BY DEF Same, Settled, AtMostOne

LEMMA SamePending ==
    ASSUME RecordTypes, NEW p \in FilePaths, Same(p), NEW o \in Verifiers, verify'[o] = verify[o], Pending(o, p)
    PROVE  Pending(o, p)'
<1> DEFINE v == verify[o]
<1>1. AtStep(o, "compare")' = AtStep(o, "compare") /\ AtStep(o, "query")' = AtStep(o, "query")
      /\ AtStep(o, "store")' = AtStep(o, "store") /\ AtStep(o, "act")' = AtStep(o, "act")
      /\ AtStep(o, "recalculate")' = AtStep(o, "recalculate") /\ AtStep(o, "audit")' = AtStep(o, "audit")
      /\ AtStep(o, "rules")' = AtStep(o, "rules")
  BY DEF AtStep
<1>2. Tracked(o)' = Tracked(o) /\ Deletion(o)' = Deletion(o) /\ Becomes(o)' = Becomes(o) /\ Sought(o)' = Sought(o)
  BY DEF Tracked, Deletion, Becomes, Sought, AtStep
<1>3. Finds(o, p) => Finds(o, p)'
  BY <1>2 DEF Finds, Same
<1>4. Finds(o, p) /\ Tracked(o) /\ Known(o) => Known(o)'
  BY DEF Finds, Known, Same
<1>5. RowsAt(p) = {} => RowsAt(p)' = {}
  BY DEF Same
<1>6. mirror'[p] = mirror[p]
  BY DEF Same
<1>7. (Settled(p) => Settled(p)') /\ (AtMostOne(p) => AtMostOne(p)')
  BY SameSettled
<1> QED
  BY <1>1, <1>2, <1>3, <1>4, <1>5, <1>6, <1>7 DEF Pending

LEMMA PathsKeep ==
    ASSUME RecordInv, NEW r \in Verifiers, Others(r), NEW id, RowsChange(r, id), clashed \subseteq clashed',
           \A s, o \in Verifiers : s # o => MeetInv(s, o)',
           \A p \in FilePaths : p \notin Deals(r) /\ p \notin Deals(r)' /\ p \notin clashed' => mirror'[p] = mirror[p],
           \A p \in FilePaths : p \in Deals(r)' /\ p \notin clashed' => Pending(r, p)',
           \A p \in FilePaths : p \in Deals(r) /\ p \notin Deals(r)' /\ p \notin clashed' => Settled(p)'
    PROVE  \A p \in FilePaths : PathInv(p)'
<1> SUFFICES ASSUME NEW p \in FilePaths, p \notin clashed'
             PROVE  /\ \A o \in Verifiers : p \in Deals(o)' => Pending(o, p)'
                    /\ (\A o \in Verifiers : p \notin Deals(o)') => Settled(p)'
  BY DEF PathInv
<1>1. p \notin clashed /\ PathInv(p)
  BY DEF RecordInv
<1>2. \A o \in Verifiers : o # r => Deals(o)' = Deals(o)
  BY OthersKeep
<1>3. \A o \in Verifiers : o # r /\ p \in Deals(o) => p \notin Deals(r) /\ p \notin Deals(r)'
  <2> TAKE o \in Verifiers
  <2> HAVE o # r /\ p \in Deals(o)
  <2>1. MeetInv(r, o) /\ MeetInv(r, o)' /\ Deals(o)' = Deals(o)
    BY <1>2 DEF RecordInv
  <2> QED
    BY <2>1, <1>1 DEF MeetInv
<1>4. CASE p \in Deals(r) \/ p \in Deals(r)'
  BY <1>2, <1>3, <1>4
<1>5. CASE p \notin Deals(r) /\ p \notin Deals(r)'
  <2>1. \A i : i \in RowsAt(p) => i # id
    BY <1>1, <1>5 DEF RowsChange, RowsAt
  <2>2. \A i : i \in RowsAt(p)' => i # id
    BY <1>1, <1>5 DEF RowsChange, RowsAt
  <2>3. \A i : i \in RowsAt(p)' <=> i \in RowsAt(p)
    BY <2>1, <2>2 DEF RowsChange, RowsAt
  <2>4. \A i \in RowsAt(p) : records'[i] = records[i]
    BY <2>1 DEF RowsChange, RowsAt
  <2>5. Same(p)
    BY <2>3, <2>4, <1>5 DEF Same
  <2>6. (Settled(p) => Settled(p)')
    BY <2>5, SameSettled
  <2>7. ASSUME NEW o \in Verifiers, p \in Deals(o)' PROVE Pending(o, p)'
    <3>1. o # r /\ verify'[o] = verify[o] /\ p \in Deals(o)
      BY <2>7, <1>5, <1>2 DEF Others
    <3>2. Pending(o, p)
      BY <3>1, <1>1 DEF PathInv
    <3> QED
      BY <3>1, <3>2, <2>5, SamePending DEF RecordInv
  <2> QED
    BY <2>6, <2>7, <1>1, <1>2, <1>5 DEF PathInv
<1> QED
  BY <1>4, <1>5

\* Together: what is left to show of a step
LEMMA StepKeeps ==
    ASSUME RecordInv, NEW r \in Verifiers, Others(r), NEW id, RowsChange(r, id),
           RecordTypes', clashed \subseteq clashed', \A i \in RowIds : Unused(i)' => Unused(i),
           id \in DOMAIN records' => ~Unused(id)',
           \A s, o \in Verifiers : s # o => MeetInv(s, o)', Whole, RenameInv(r)', HeldInv(r)',
           \A p \in FilePaths : p \notin Deals(r) /\ p \notin Deals(r)' /\ p \notin clashed' => mirror'[p] = mirror[p],
           \A p \in FilePaths : p \in Deals(r)' /\ p \notin clashed' => Pending(r, p)',
           \A p \in FilePaths : p \in Deals(r) /\ p \notin Deals(r)' /\ p \notin clashed' => Settled(p)'
    PROVE  RecordInv'
<1>1. \A o \in Verifiers : RenameInv(o)'
  BY RenameKeeps DEF RecordTypes
<1>2. \A o \in Verifiers : HeldInv(o)'
  BY HeldKeeps
<1>3. \A p \in FilePaths : PathInv(p)'
  BY PathsKeep
<1>4. IdInv'
  BY DEF IdInv, RecordInv, RecordTypes, RowsChange
<1> QED
  BY <1>1, <1>2, <1>3, <1>4 DEF RecordInv

\* A request begins
LEMMA BeginKeeps ==
    ASSUME RecordInv, NEW r \in Verifiers, AtStep(r, "new"), NEW q \in VerifyType, ToStep(r, q),
           UNCHANGED <<records, recordFaults>>, NEW paths \in SUBSET FilePaths, Deals(r)' = paths,
           NEW doubts \in SUBSET paths, clashed' = Meets(paths) \cup doubts,
           RequestFits(r)', RenameInv(r)',
           Keeps(r)' => verify'[r].row \in DOMAIN records /\ records[verify'[r].row].path = Sought(r)',
           mirror' \in [FilePaths -> AnyHash \cup {Untracked}],
           \A p \in FilePaths \ paths : mirror'[p] = mirror[p],
           \A p \in paths : p \notin clashed' /\ (\A x \in paths : x \notin clashed' => Settled(x)) => Pending(r, p)'
    PROVE  RecordInv'
<1>1. Others(r) /\ verify'[r] = q /\ verify' \in [Verifiers -> VerifyType]
  BY Writes DEF RecordInv, RecordTypes
<1>2. ~Active(r) /\ Deals(r) = {}
  BY DEF Active, AtStep, Deals
<1>3. /\ \A s, o \in Verifiers : s # o => MeetInv(s, o)'
      /\ clashed \subseteq clashed'
      /\ \A o \in Verifiers \ {r} : Deals(o) \cap paths # {} => paths \cup Deals(o) \subseteq clashed'
  <2>1. NoPath \notin paths /\ Deals(r)' \subseteq paths /\ Meets(paths) \subseteq clashed'
    BY RecordAssumption
  <2> QED
    BY <1>1, <1>2, <2>1, MeetBegins
<1>4. \A o \in Verifiers : Deals(o) \subseteq FilePaths
  BY DealsOf DEF RecordInv, RecordTypes
<1>5. clashed' \subseteq FilePaths
  <2>1. ASSUME NEW x \in Meets(paths) PROVE x \in FilePaths
    <3>1. x \in clashed \/ x \in paths \/ \E o \in Verifiers : Active(o) /\ x \in Touched(o) \ {NoPath}
      BY <2>1 DEF Meets
    <3> QED
      BY <3>1, <1>4 DEF Deals, RecordInv, RecordTypes
  <2> QED
    BY <2>1
<1>6. Whole
  <2> SUFFICES ASSUME NEW o \in Verifiers, NEW x \in Deals(o), x \in clashed', x \notin clashed
               PROVE  Deals(o) \subseteq clashed'
    BY DEF Whole
  <2>1. o # r
    BY <1>2
  <2>2. CASE x \in paths
    BY <2>1, <2>2, <1>3
  <2>3. CASE x \notin paths
    <3>1. PICK m \in Verifiers : Active(m) /\ Touched(m) \cap paths # {} /\ x \in Touched(m) \ {NoPath}
      BY <2>3 DEF Meets
    <3>2. x \in Deals(m) /\ Deals(m) \cap paths # {}
      BY <3>1, RecordAssumption DEF Deals
    <3>3. CASE m = o
      BY <3>2, <3>3, <2>1, <1>3
    <3>4. CASE m # o
      BY <3>2, <3>4, <1>3 DEF RecordInv, MeetInv
    <3> QED
      BY <3>3, <3>4
  <2> QED
    BY <2>2, <2>3
<1>7. RowsChange(r, NoRow) /\ NoRow \notin DOMAIN records'
  BY NoRowChanges, RowIdFacts DEF RecordInv, RecordTypes
<1>8. \A i \in RowIds : Unused(i)' => Unused(i)
  <2> TAKE i \in RowIds
  <2> HAVE Unused(i)'
  <2>1. i[1] \in Verifiers
    BY RowIdFacts DEF Unused
  <2> QED
    BY <2>1, <1>1 DEF Unused, AtStep, Others
<1>9. RecordTypes'
  <2>1. \A o \in Verifiers : RequestFits(o)'
    BY <1>1, OthersKeep DEF RecordInv, RecordTypes
  <2> QED
    BY <2>1, <1>1, <1>5 DEF RecordInv, RecordTypes
<1>10. \A p \in FilePaths : p \in Deals(r)' /\ p \notin clashed' => Pending(r, p)'
  <2> TAKE p \in FilePaths
  <2> HAVE p \in Deals(r)' /\ p \notin clashed'
  <2>1. ASSUME NEW x \in paths, x \notin clashed' PROVE Settled(x)
    <3>1. \A o \in Verifiers : x \notin Deals(o)
      BY <1>2, <1>3, <2>1
    <3> QED
      BY <3>1, <1>3, <2>1 DEF RecordInv, PathInv
  <2> QED
    BY <2>1
<1>11. \A p \in FilePaths : p \notin Deals(r) /\ p \notin Deals(r)' /\ p \notin clashed' => mirror'[p] = mirror[p]
  OBVIOUS
<1>12. \A p \in FilePaths : p \in Deals(r) /\ p \notin Deals(r)' /\ p \notin clashed' => Settled(p)'
  BY <1>2
<1>13. HeldInv(r)'
  <2> SUFFICES ASSUME Keeps(r)' PROVE HeldInv(r)'
    BY DEF HeldInv
  <2>0. PICK row : row = verify'[r].row
    OBVIOUS
  <2>1. row \in DOMAIN records /\ records[row].path = Sought(r)'
    BY <2>0
  <2>2. row \in RowIds /\ ~Unused(row)
    BY <2>1 DEF RecordInv, RecordTypes, IdInv
  <2>3. ~Unused(row)'
    BY <2>2, <1>8
  <2>4. ~Unused(verify[r].row)'
    BY <2>0, <2>3 DEF Unused, AtStep
  <2> QED
    BY <2>0, <2>1, <2>4 DEF HeldInv
<1> QED
  BY <1>1, <1>3, <1>6, <1>7, <1>8, <1>9, <1>10, <1>11, <1>12, <1>13, StepKeeps

\* What is settled, in terms of the rows that a look-up may find
LEMMA Search ==
    ASSUME RecordTypes, NEW p \in FilePaths, NEW row \in RowsFor(p)
    PROVE  /\ row \in RowIds \cup {NoRow}
           /\ row # NoRow => row \in RowsAt(p) /\ row \in DOMAIN records /\ records[row].path = p
           /\ row = NoRow => RowsAt(p) = {}
           /\ Settled(p) => RowsAt(p) = IF row # NoRow THEN {row} ELSE {}
           /\ Settled(p) => (mirror[p] = Untracked <=> row = NoRow)
           /\ Settled(p) /\ row # NoRow => records[row].data = mirror[p]
           /\ AtMostOne(p) => RowsAt(p) = IF row # NoRow THEN {row} ELSE {}
<1>1. row \in RowsAt(p) \/ (row = NoRow /\ RowsAt(p) = {})
  BY DEF RowsFor, RowsAt
<1>2. RowsAt(p) \subseteq DOMAIN records /\ RowsAt(p) \subseteq RowIds /\ NoRow \notin RowsAt(p)
  BY RowIdFacts DEF RowsAt, RecordTypes
<1>3. row # NoRow => row \in RowsAt(p) /\ row \in DOMAIN records /\ records[row].path = p
  BY <1>1 DEF RowsAt
<1>4. Settled(p) => /\ RowsAt(p) = IF row # NoRow THEN {row} ELSE {}
                    /\ mirror[p] = Untracked <=> row = NoRow
                    /\ row # NoRow => records[row].data = mirror[p]
  BY <1>1, <1>2 DEF Settled
<1>5. AtMostOne(p) => RowsAt(p) = IF row # NoRow THEN {row} ELSE {}
  BY <1>1, <1>2 DEF AtMostOne
<1> QED
  BY <1>1, <1>2, <1>3, <1>4, <1>5

LEMMA SettledIsOne ==
    ASSUME NEW p, Settled(p)
    PROVE  AtMostOne(p)
BY DEF Settled, AtMostOne

LEMMA BaselineKeeps ==
    ASSUME RecordInv, NEW r \in Verifiers, NEW paths \in SUBSET FilePaths, NEW data \in Hashes,
           Baseline(r, paths, data)
    PROVE  RecordInv'
<1>0. PICK b : b = Verifier("baseline", "query")
  OBVIOUS
<1>1. PICK q : q = [b EXCEPT !.data = data, !.left = paths]
  OBVIOUS
<1>2. /\ q \in VerifyType /\ q.op = "baseline" /\ q.pc = "query" /\ q.type = "none" /\ q.path = NoPath
      /\ q.old = NoPath /\ q.data = data /\ q.row = NoRow /\ q.left = paths
  <2>1. b \in VerifyType /\ b = [op |-> "baseline", pc |-> "query", type |-> "none", path |-> NoPath, old |-> NoPath,
                                 data |-> NoHash, row |-> NoRow, was |-> NoHash, left |-> {}]
    BY <1>0, FreshType
  <2>2. q.op = "baseline" /\ q.pc = "query" /\ q.type = "none" /\ q.path = NoPath
        /\ q.old = NoPath /\ q.data = data /\ q.row = NoRow /\ q.left = paths
    BY <1>1, <2>1
  <2>3. q \in VerifyType
    BY <1>1, <2>1 DEF VerifyType, AnyHash
  <2> QED
    BY <2>2, <2>3
<1>3. AtStep(r, "new") /\ ToStep(r, q) /\ clashed' = Meets(paths) /\ UNCHANGED <<records, recordFaults>>
      /\ mirror' = [p \in FilePaths |-> IF p \in paths THEN data ELSE mirror[p]]
  BY <1>0, <1>1 DEF Baseline, Arrives
<1>4. verify'[r] = q
  BY <1>3, Writes, <1>2 DEF RecordInv, RecordTypes
<1>5. Deals(r)' = paths
  BY <1>2, <1>4, RecordAssumption DEF Deals, Active, Touched
<1>6. RequestFits(r)' /\ RenameInv(r)' /\ ~Keeps(r)'
  BY <1>2, <1>4 DEF RequestFits, RenameInv, Keeps, AtStep
<1>7. mirror' \in [FilePaths -> AnyHash \cup {Untracked}] /\ \A p \in FilePaths \ paths : mirror'[p] = mirror[p]
  BY <1>3 DEF AnyHash, RecordInv, RecordTypes
<1>8. ASSUME NEW p \in paths, \A x \in paths : x \notin clashed' => Settled(x), p \notin clashed'
      PROVE  Pending(r, p)'
  <2>1. AtMostOne(p)'
    BY <1>3, <1>8, SettledIsOne DEF AtMostOne, RowsAt
  <2>2. mirror'[p] = data
    BY <1>3
  <2> QED
    BY <2>1, <2>2, <1>2, <1>4 DEF Pending, AtStep
<1> DEFINE doubts == {}
<1>9. doubts \in SUBSET paths /\ clashed' = Meets(paths) \cup doubts
  BY <1>3
<1> HIDE DEF doubts
<1> QED
  BY <1>2, <1>3, <1>5, <1>6, <1>7, <1>8, <1>9, BeginKeeps

LEMMA FimActionKeeps ==
    ASSUME RecordInv, NEW r \in Verifiers, NEW op \in {"recalculate", "record"}, NEW path \in FilePaths,
           NEW data \in AnyHash, FimAction(r, op, path, data)
    PROVE  RecordInv'
<1>1. PICK row \in RowsFor(path) :
          /\ ToStep(r, [Verifier(op, "act") EXCEPT !.path = path, !.data = data, !.row = row])
          /\ mirror' = IF op = "recalculate" /\ mirror[path] # Untracked
                       THEN [mirror EXCEPT ![path] = data] ELSE mirror
  BY DEF FimAction
<1>0. PICK b : b = Verifier(op, "act")
  OBVIOUS
<1>2. PICK q : q = [b EXCEPT !.path = path, !.data = data, !.row = row]
  OBVIOUS
<1>3. /\ row \in RowIds \cup {NoRow}
      /\ row # NoRow => row \in DOMAIN records /\ records[row].path = path
      /\ Settled(path) => RowsAt(path) = IF row # NoRow THEN {row} ELSE {}
      /\ Settled(path) => (mirror[path] = Untracked <=> row = NoRow)
  BY Search DEF RecordInv
<1>4. /\ q \in VerifyType /\ q.op = op /\ q.pc = "act" /\ q.type = "none" /\ q.path = path
      /\ q.old = NoPath /\ q.data = data /\ q.row = row /\ q.left = {}
  <2>1. b \in VerifyType /\ b = [op |-> op, pc |-> "act", type |-> "none", path |-> NoPath, old |-> NoPath,
                                 data |-> NoHash, row |-> NoRow, was |-> NoHash, left |-> {}]
    BY <1>0, FreshType
  <2>2. q.op = op /\ q.pc = "act" /\ q.type = "none" /\ q.path = path
        /\ q.old = NoPath /\ q.data = data /\ q.row = row /\ q.left = {}
    BY <1>2, <2>1
  <2>3. q \in VerifyType
    BY <1>2, <1>3, <2>1 DEF VerifyType, AnyPath
  <2> QED
    BY <2>2, <2>3
<1>5. AtStep(r, "new") /\ ToStep(r, q) /\ clashed' = Meets({path}) /\ UNCHANGED <<records, recordFaults>>
  BY <1>0, <1>1, <1>2 DEF FimAction, Arrives
<1>6. verify'[r] = q
  BY <1>5, Writes, <1>4 DEF RecordInv, RecordTypes
<1> DEFINE paths == {path}
           doubts == {}
<1>7. Deals(r)' = paths
  BY <1>4, <1>6, RecordAssumption DEF Deals, Active, Touched
<1>8. RequestFits(r)' /\ RenameInv(r)'
  BY <1>4, <1>6 DEF RequestFits, RenameInv, AtStep
<1>9. Keeps(r)' => verify'[r].row \in DOMAIN records /\ records[verify'[r].row].path = Sought(r)'
  BY <1>3, <1>4, <1>6 DEF Keeps, Tracked, Sought, AtStep
<1>10. mirror' \in [FilePaths -> AnyHash \cup {Untracked}] /\ \A p \in FilePaths \ paths : mirror'[p] = mirror[p]
  BY <1>1 DEF RecordInv, RecordTypes
<1>11. ASSUME NEW p \in paths, \A x \in paths : x \notin clashed' => Settled(x), p \notin clashed'
      PROVE  Pending(r, p)'
  <2>1. p = path /\ Settled(path) /\ RowsAt(path)' = RowsAt(path)
    BY <1>5, <1>11 DEF RowsAt
  <2>2. CASE op = "recalculate" /\ row # NoRow
    <3>1. Finds(r, path)' /\ mirror'[path] = data
      BY <2>1, <2>2, <1>1, <1>3, <1>4, <1>6 DEF Finds, Tracked, RecordInv, RecordTypes
    <3>2. Tracked(r)'
      BY <2>2, <1>4, <1>6 DEF Tracked
    <3> QED
      BY <3>1, <3>2, <2>1, <2>2, <1>4, <1>6 DEF Pending, AtStep
  <2>3. CASE ~(op = "recalculate" /\ row # NoRow)
    <3>1. mirror' = mirror
      BY <1>1, <1>3, <2>1, <2>3
    <3>2. Settled(path)'
      BY <2>1, <3>1, <1>5 DEF Settled
    <3>3. ~(verify'[r].op = "recalculate" /\ Tracked(r)')
      BY <2>3, <1>4, <1>6 DEF Tracked
    <3> QED
      BY <3>2, <3>3, <2>1, <1>4, <1>6 DEF Pending, AtStep
  <2> QED
    BY <2>2, <2>3
<1>12. paths \in SUBSET FilePaths /\ doubts \in SUBSET paths /\ clashed' = Meets(paths) \cup doubts
  BY <1>5
<1> HIDE DEF doubts, paths
<1> QED
  BY <1>4, <1>5, <1>7, <1>8, <1>9, <1>10, <1>11, <1>12, BeginKeeps

LEMMA EventKeeps ==
    ASSUME RecordInv, NEW r \in Verifiers, NEW type \in {"CREATED", "MODIFIED", "DELETED", "RENAMED"},
           NEW path \in FilePaths, NEW old \in FilePaths \cup {NoPath}, NEW data \in AnyHash,
           Event(r, type, path, old, data)
    PROVE  RecordInv'
<1> DEFINE from == LookupPath(type, path, old)
           paths == {path, old} \ {NoPath}
           doubts == IF Unclear(type, path, old) THEN {path, old} ELSE {}
<1>1. PICK row \in RowsFor(from) :
          ToStep(r, [Verifier("event", "compare") EXCEPT !.type = type, !.path = path, !.old = old,
                        !.data = data, !.row = row,
                        !.was = IF row = NoRow THEN NoHash ELSE records[row].data])
  BY DEF Event
<1>2. PICK b : b = Verifier("event", "compare")
  OBVIOUS
<1>3. PICK was : was = IF row = NoRow THEN NoHash ELSE records[row].data
  OBVIOUS
<1>4. PICK q : q = [b EXCEPT !.type = type, !.path = path, !.old = old, !.data = data, !.row = row, !.was = was]
  OBVIOUS
<1>5. /\ old # NoPath <=> type = "RENAMED"
      /\ path # old /\ path # NoPath
  BY RecordAssumption DEF Event
<1>6. from \in FilePaths /\ from = IF type = "RENAMED" THEN old ELSE path
  BY <1>5 DEF LookupPath
<1>7. /\ row \in RowIds \cup {NoRow}
      /\ row # NoRow => row \in DOMAIN records /\ records[row].path = from
      /\ row = NoRow => RowsAt(from) = {}
      /\ Settled(from) => RowsAt(from) = IF row # NoRow THEN {row} ELSE {}
      /\ Settled(from) => (mirror[from] = Untracked <=> row = NoRow)
      /\ Settled(from) /\ row # NoRow => records[row].data = mirror[from]
  BY <1>6, Search DEF RecordInv
<1>8. was \in AnyHash
  BY <1>3, <1>7 DEF RecordInv, RecordTypes, AnyHash
<1>9. /\ q \in VerifyType /\ q.op = "event" /\ q.pc = "compare" /\ q.type = type /\ q.path = path
      /\ q.old = old /\ q.data = data /\ q.row = row /\ q.was = was /\ q.left = {}
  <2>1. b \in VerifyType /\ b = [op |-> "event", pc |-> "compare", type |-> "none", path |-> NoPath, old |-> NoPath,
                                 data |-> NoHash, row |-> NoRow, was |-> NoHash, left |-> {}]
    BY <1>2, FreshType
  <2>2. q.op = "event" /\ q.pc = "compare" /\ q.type = type /\ q.path = path
        /\ q.old = old /\ q.data = data /\ q.row = row /\ q.was = was /\ q.left = {}
    BY <1>4, <2>1
  <2>3. q \in VerifyType
    BY <1>4, <1>7, <1>8, <2>1 DEF VerifyType, AnyPath
  <2> QED
    BY <2>2, <2>3
<1>10. /\ AtStep(r, "new") /\ ToStep(r, q) /\ UNCHANGED <<records, recordFaults>>
       /\ clashed' = Meets(paths) \cup doubts
       /\ mirror' = After(type, path, old, data, mirror)
  BY <1>1, <1>2, <1>3, <1>4 DEF Event, Arrives
<1>11. verify'[r] = q
  BY <1>10, Writes, <1>9 DEF RecordInv, RecordTypes
<1>12. paths \in SUBSET FilePaths /\ doubts \in SUBSET paths
  BY <1>5 DEF Unclear
<1>13. Deals(r)' = paths
  BY <1>9, <1>11 DEF Deals, Active, Touched
<1>14. RequestFits(r)'
  BY <1>5, <1>9, <1>11 DEF RequestFits, AtStep
<1>15. type = "RENAMED" => (old \in clashed' <=> path \in clashed')
  <2> SUFFICES ASSUME type = "RENAMED", old \in clashed' \/ path \in clashed'
               PROVE  old \in clashed' /\ path \in clashed'
    OBVIOUS
  <2>1. CASE Unclear(type, path, old)
    BY <1>10, <2>1
  <2>2. CASE ~Unclear(type, path, old)
    <3>1. clashed \cap {path, old} = {}
      BY <2>2 DEF Unclear
    <3>2. PICK x \in {path, old} : x \in Meets(paths) /\ x \notin clashed
      BY <1>10, <2>2, <3>1
    <3>3. PICK m \in Verifiers : Active(m) /\ Touched(m) \cap paths # {}
      BY <3>2 DEF Meets
    <3>4. (paths \cup Touched(m)) \ {NoPath} \subseteq Meets(paths)
      BY <3>3 DEF Meets
    <3> QED
      BY <3>4, <1>5, <1>10
  <2> QED
    BY <2>1, <2>2
<1>16. RenameInv(r)'
  BY <1>15, <1>9, <1>11 DEF RenameInv
<1>17. Keeps(r)' => verify'[r].row \in DOMAIN records /\ records[verify'[r].row].path = Sought(r)'
  BY <1>7, <1>9, <1>11 DEF Keeps, Tracked, Sought, AtStep
<1> DEFINE noted == mirror[from] # Untracked
           kept == IF data = NoHash /\ noted THEN mirror[from] ELSE data
<1>18. /\ type = "DELETED" => mirror' = [mirror EXCEPT ![path] = Untracked]
       /\ type # "DELETED" /\ noted => mirror' = [mirror EXCEPT ![from] = Untracked, ![path] = kept]
       /\ type # "DELETED" /\ ~noted => mirror' = [mirror EXCEPT ![path] = data]
  <2>1. mirror' = CASE type = "DELETED" -> [mirror EXCEPT ![path] = Untracked]
                    [] type # "DELETED" /\ noted -> [mirror EXCEPT ![from] = Untracked, ![path] = kept]
                    [] OTHER -> [mirror EXCEPT ![path] = data]
    BY <1>10, Zenon DEF After, LookupPath
  <2> HIDE DEF from, kept, noted
  <2>2. CASE type = "DELETED"
    BY <2>1, <2>2
  <2>3. CASE type # "DELETED" /\ noted
    BY <2>1, <2>3
  <2>4. CASE type # "DELETED" /\ ~noted
    BY <2>1, <2>4
  <2> QED
    BY <2>2, <2>3, <2>4, Zenon
<1>19. mirror \in [FilePaths -> AnyHash \cup {Untracked}] /\ kept \in AnyHash \cup {Untracked}
  BY <1>6 DEF RecordInv, RecordTypes
<1> HIDE DEF from, doubts, kept, noted
<1>20. mirror' \in [FilePaths -> AnyHash \cup {Untracked}] /\ \A p \in FilePaths \ paths : mirror'[p] = mirror[p]
  <2>1. \A p \in FilePaths \ paths : p # path /\ p # from
    BY <1>5, <1>6
  <2> QED
    BY <1>18, <1>19, <1>6, <2>1
<1>21. ASSUME NEW p \in paths, \A x \in paths : x \notin clashed' => Settled(x), p \notin clashed'
       PROVE  Pending(r, p)'
  <2>1. path \notin clashed' /\ from \notin clashed' /\ from \in paths /\ path \in paths
    BY <1>5, <1>6, <1>15, <1>21
  <2>2. Settled(path) /\ Settled(from)
    BY <2>1, <1>21
  <2>3. RowsAt(path)' = RowsAt(path) /\ RowsAt(from)' = RowsAt(from) /\ records' = records
    BY <1>10 DEF RowsAt
  <2>4. RowsAt(from) = (IF row # NoRow THEN {row} ELSE {}) /\ (mirror[from] = Untracked <=> row = NoRow)
        /\ (row # NoRow => records[row].data = mirror[from] /\ was = mirror[from])
    BY <2>2, <1>7, <1>3
  <2>5. Sought(r)' = from /\ (Tracked(r)' <=> row # NoRow) /\ (Deletion(r)' <=> type = "DELETED")
    BY <1>9, <1>11 DEF Sought, AtStep, Tracked, Deletion, from
  <2>6. Finds(r, from)'
    BY <2>3, <2>4, <2>5, <1>9, <1>11 DEF Finds
  <2>7. row # NoRow => Known(r)'
    BY <2>3, <2>4, <1>9, <1>11 DEF Known
  <2>8. p = path \/ (p = old /\ p = from /\ p # path /\ type = "RENAMED")
    BY <1>5, <1>6
  <2>9. AtStep(r, "compare")' /\ ~AtStep(r, "query")' /\ ~AtStep(r, "store")' /\ ~AtStep(r, "act")'
        /\ ~AtStep(r, "recalculate")' /\ ~AtStep(r, "audit")' /\ ~AtStep(r, "rules")'
    BY <1>9, <1>11 DEF AtStep
  <2>10. CASE type = "DELETED"
    <3>1. p = from /\ p = path /\ mirror'[p] = Untracked
      BY <2>8, <2>10, <1>6, <1>18, <1>19
    <3> QED
      BY <3>1, <2>5, <2>6, <2>9, <2>10 DEF Pending
  <2>11. CASE type # "DELETED" /\ row = NoRow
    <3>1. mirror' = [mirror EXCEPT ![path] = data]
      BY <1>18, <2>4, <2>11 DEF noted
    <3>2. mirror'[path] = data /\ (p # path => mirror'[p] = mirror[p])
      BY <3>1, <1>19
    <3>3. AtMostOne(path)'
      BY <2>2, <2>3, SettledIsOne DEF AtMostOne
    <3>4. p # path => Settled(p)'
      BY <2>2, <2>3, <2>8, <3>2 DEF Settled
    <3> QED
      BY <3>2, <3>3, <3>4, <2>5, <2>9, <2>11, <1>9, <1>11 DEF Pending
  <2>12. CASE type # "DELETED" /\ row # NoRow
    <3>1. mirror' = [mirror EXCEPT ![from] = Untracked, ![path] = kept] /\ kept = IF data = NoHash THEN was ELSE data
      BY <1>18, <2>4, <2>12 DEF noted, kept
    <3>2. mirror'[path] = kept /\ (p # path => mirror'[p] = Untracked)
      BY <3>1, <1>19, <1>6, <2>8
    <3>3. Becomes(r)' = kept
      BY <3>1, <1>9, <1>11 DEF Becomes
    <3>4. p # from => RowsAt(p)' = {}
      <4> SUFFICES ASSUME p # from PROVE RowsAt(p) = {}
        BY <1>10 DEF RowsAt
      <4>1. p = path /\ type = "RENAMED" /\ from = old
        BY <2>8, <1>6
      <4>2. ~Unclear(type, path, old)
        BY <1>10, <2>1 DEF doubts
      <4>3. mirror[path] = Untracked
        BY <4>1, <4>2, <2>4, <2>12 DEF Unclear
      <4> QED
        BY <4>1, <4>3, <2>2 DEF Settled
    <3> QED
      BY <3>2, <3>3, <3>4, <2>5, <2>6, <2>7, <2>9, <2>12, <1>9, <1>11 DEF Pending
  <2> QED
    BY <2>10, <2>11, <2>12
<1> HIDE DEF paths
<1> QED
  BY <1>9, <1>10, <1>12, <1>13, <1>14, <1>16, <1>17, <1>20, <1>21, BeginKeeps

\* A request goes on
LEMMA ProceedKeeps ==
    ASSUME RecordInv, NEW r \in Verifiers, Active(r), NEW q \in VerifyType, ToStep(r, q),
           UNCHANGED <<recordFaults, mirror, clashed>>, NEW id, RowsChange(r, id),
           DOMAIN records' \subseteq RowIds, id \in DOMAIN records' => records'[id] \in [path : FilePaths, data : AnyHash],
           q.pc \notin {"new", "compare"}, q.left \subseteq verify[r].left \/ AtStep(r, "compare"),
           id \in DOMAIN records' => id \in DOMAIN records \/ ~Unused(id)',
           q.old = verify[r].old, q.type = verify[r].type, q.op = verify[r].op,
           q.path = verify[r].path \/ (q.op # "event" /\ q.path \in verify[r].left),
           q.left \subseteq verify[r].left \cup {verify[r].path}, RequestFits(r)',
           Keeps(r)' => /\ UNCHANGED records
                        /\ \/ q.row \in DOMAIN records /\ records[q.row].path = Sought(r)'
                           \/ Keeps(r) /\ q.row = verify[r].row /\ Sought(r)' = Sought(r) /\ q.path = verify[r].path,
           \A p \in FilePaths : p \in Deals(r)' /\ p \notin clashed => Pending(r, p)',
           \A p \in FilePaths : p \in Deals(r) /\ p \notin Deals(r)' /\ p \notin clashed => Settled(p)'
    PROVE  RecordInv'
<1>1. Others(r) /\ verify'[r] = q /\ verify' \in [Verifiers -> VerifyType]
  BY Writes DEF RecordInv, RecordTypes
<1>2. RequestFits(r) /\ RenameInv(r)
  BY DEF RecordInv, RecordTypes
<1>3. Deals(r)' \subseteq Deals(r)
  BY <1>1 DEF Deals, Touched
<1>4. \A s, o \in Verifiers : s # o => MeetInv(s, o)'
  BY <1>1, <1>3, MeetKeeps
<1>5. Whole
  BY DEF Whole
<1>6. RenameInv(r)'
  BY <1>1, <1>2 DEF RenameInv, RequestFits
<1>7. \A i \in RowIds : Unused(i)' => Unused(i)
  <2> TAKE i \in RowIds
  <2> HAVE Unused(i)'
  <2>1. i[1] \in Verifiers
    BY RowIdFacts DEF Unused
  <2> QED
    BY <2>1, <1>1 DEF Unused, AtStep, Others
<1>8. RecordTypes'
  <2>1. \A o \in Verifiers : RequestFits(o)'
    BY <1>1, OthersKeep DEF RecordInv, RecordTypes
  <2>2. \A i \in DOMAIN records' : records'[i] \in [path : FilePaths, data : AnyHash]
    <3> TAKE i \in DOMAIN records'
    <3>1. CASE i = id
      BY <3>1
    <3>2. CASE i # id
      BY <3>2 DEF RowsChange, RecordInv, RecordTypes
    <3> QED
      BY <3>1, <3>2
  <2> QED
    BY <2>1, <2>2, <1>1 DEF RecordInv, RecordTypes
<1>9. id \in DOMAIN records' => ~Unused(id)'
  BY <1>7 DEF RecordInv, RecordTypes, IdInv
<1>10. HeldInv(r)'
  <2> SUFFICES ASSUME Keeps(r)' PROVE HeldInv(r)'
    BY DEF HeldInv
  <2>1. CASE q.row \in DOMAIN records /\ records[q.row].path = Sought(r)'
    <3>1. q.row \in RowIds /\ ~Unused(q.row)
      BY <2>1 DEF RecordInv, RecordTypes, IdInv
    <3>2. ~Unused(q.row)'
      BY <3>1, <1>7
    <3>3. ~Unused(verify[r].row)'
      BY <1>1, <3>2 DEF Unused, AtStep
    <3> QED
      BY <2>1, <3>3, <1>1 DEF HeldInv
  <2>2. CASE Keeps(r) /\ q.row = verify[r].row /\ Sought(r)' = Sought(r) /\ q.path = verify[r].path
    <3>1. q.row \in RowIds /\ ~Unused(q.row) /\ HeldInv(r)
      BY <2>2, HoldsIs DEF RecordInv, HeldInv
    <3>2. ~Unused(q.row)'
      BY <3>1, <1>7
    <3>3. ~Unused(verify[r].row)'
      BY <1>1, <3>2 DEF Unused, AtStep
    <3> QED
      BY <2>2, <3>1, <3>3, <1>1 DEF HeldInv, Gone
  <2> QED
    BY <2>1, <2>2
<1> QED
  BY <1>1, <1>4, <1>5, <1>6, <1>7, <1>8, <1>9, <1>10, StepKeeps

\* What is noted of a request at work
LEMMA OwnFacts ==
    ASSUME RecordInv, NEW r \in Verifiers
    PROVE  /\ verify[r] \in VerifyType /\ RequestFits(r) /\ RenameInv(r) /\ HeldInv(r)
           /\ \A p \in Deals(r) : p \notin clashed => p \in FilePaths /\ Pending(r, p)
           /\ \A p \in Deals(r) : p \in {verify[r].path, verify[r].old} \cup verify[r].left
<1>1. Deals(r) \subseteq FilePaths
  BY DealsOf DEF RecordInv, RecordTypes
<1>2. verify[r] \in VerifyType /\ RequestFits(r) /\ RenameInv(r) /\ HeldInv(r)
  BY DEF RecordInv, RecordTypes
<1>3. ASSUME NEW p \in Deals(r), p \notin clashed PROVE p \in FilePaths /\ Pending(r, p)
  BY <1>1, <1>3 DEF RecordInv, PathInv
<1>4. ASSUME NEW p \in Deals(r) PROVE p \in {verify[r].path, verify[r].old} \cup verify[r].left
  BY DEF Deals, Touched
<1> QED
  BY <1>2, <1>3, <1>4

\* A step that changes where the request is, and nothing else but what is left
LEMMA StayKeeps ==
    ASSUME RecordInv, NEW r \in Verifiers, Active(r), NEW pc \in {"query", "rules", "recalculate", "audit", "done"},
           NEW left \in SUBSET FilePaths, left \subseteq verify[r].left \cup {verify[r].path}, left = verify[r].left \/ AtStep(r, "compare"),
           ToStep(r, [verify[r] EXCEPT !.pc = pc, !.left = left]),
           UNCHANGED <<records, recordFaults, mirror, clashed>>, RequestFits(r)',
           pc = "recalculate" => AtStep(r, "act") /\ Tracked(r),
           \A p \in FilePaths : p \in Deals(r) /\ p \notin clashed =>
               /\ pc \in {"rules", "audit", "done"} => Settled(p)
               /\ pc = "query" => IF p \in left THEN AtMostOne(p) /\ mirror[p] = verify[r].data ELSE Settled(p)
               /\ pc = "recalculate" => Finds(r, p) /\ mirror[p] = verify[r].data
    PROVE  RecordInv'
<1>1. PICK q : q = [verify[r] EXCEPT !.pc = pc, !.left = left]
  OBVIOUS
<1>2. verify[r] \in VerifyType /\ RequestFits(r)
  BY OwnFacts
<1>3. /\ q \in VerifyType /\ q.pc = pc /\ q.op = verify[r].op /\ q.type = verify[r].type
      /\ q.path = verify[r].path /\ q.old = verify[r].old /\ q.row = verify[r].row /\ q.left = left
      /\ q.data = verify[r].data
  BY <1>1, <1>2 DEF VerifyType
<1>4. ToStep(r, q) /\ verify'[r] = q
  BY <1>1, <1>3, Writes DEF RecordInv, RecordTypes
<1>5. RowsChange(r, NoRow) /\ NoRow \notin DOMAIN records
  BY NoRowChanges, RowIdFacts DEF RecordInv, RecordTypes
<1>6. Keeps(r)' => Keeps(r) /\ Sought(r)' = Sought(r)
  BY <1>3, <1>4 DEF Keeps, Sought, AtStep, Tracked
<1>7. Deals(r)' \subseteq Deals(r)
  BY <1>3, <1>4, RecordAssumption DEF Deals, Touched
<1>8. ASSUME NEW p \in FilePaths, p \in Deals(r)', p \notin clashed PROVE Pending(r, p)'
  <2>1. p \in Deals(r) /\ pc # "done"
    BY <1>7, <1>8, <1>3, <1>4 DEF Deals, Active
  <2>2. Same(p)
    BY DEF Same, RowsAt
  <2>3. (Settled(p) => Settled(p)') /\ (AtMostOne(p) => AtMostOne(p)')
    BY <2>2, SameSettled
  <2>4. Finds(r, p) => Finds(r, p)'
    <3>1. Tracked(r)' <=> Tracked(r)
      BY <1>3, <1>4 DEF Tracked
    <3>2. RowsAt(p)' = RowsAt(p) /\ verify'[r].row = verify[r].row
      BY <1>3, <1>4, <2>2 DEF Same
    <3> QED
      BY <3>1, <3>2 DEF Finds
  <2>5. ~AtStep(r, "compare")' /\ ~AtStep(r, "store")' /\ ~AtStep(r, "act")'
        /\ (AtStep(r, "query")' <=> pc = "query") /\ (AtStep(r, "recalculate")' <=> pc = "recalculate")
        /\ (AtStep(r, "rules")' \/ AtStep(r, "audit")' => pc \in {"rules", "audit"})
    BY <1>3, <1>4 DEF AtStep
  <2>6. CASE pc = "query"
    <3>1. IF p \in left THEN AtMostOne(p)' /\ mirror'[p] = verify[r].data ELSE Settled(p)'
      BY <2>1, <2>3, <2>6, <1>8
    <3>2. IF p \in verify'[r].left THEN AtMostOne(p)' /\ mirror'[p] = verify'[r].data ELSE Settled(p)'
      BY <3>1, <1>3, <1>4
    <3> QED
      BY <3>2, <2>5, <2>6 DEF Pending
  <2>7. CASE pc = "recalculate"
    <3>1. Finds(r, p)' /\ mirror'[p] = verify'[r].data
      BY <2>1, <2>4, <2>7, <1>3, <1>4, <1>8
    <3> QED
      BY <3>1, <2>5, <2>7 DEF Pending
  <2>8. CASE pc \in {"rules", "audit"}
    BY <2>1, <2>3, <2>5, <2>8, <1>8 DEF Pending
  <2>9. pc = "query" \/ pc = "recalculate" \/ pc \in {"rules", "audit"}
    BY <2>1
  <2> QED
    BY <2>9, <2>6, <2>7, <2>8, Zenon
<1>9. ASSUME NEW p \in FilePaths, p \in Deals(r), p \notin Deals(r)', p \notin clashed PROVE Settled(p)'
  <2>0. verify[r].left \subseteq left
    BY <1>2 DEF RequestFits
  <2>1. pc = "done"
    BY <1>9, <1>3, <1>4, <2>0 DEF Deals, Touched, Active
  <2>2. Settled(p)
    BY <1>9, <2>1
  <2>3. Same(p)
    BY DEF Same, RowsAt
  <2> QED
    BY <2>2, <2>3, SameSettled
<1>10. q.left \subseteq verify[r].left \cup {verify[r].path}
  BY <1>3
<1>11. /\ DOMAIN records' \subseteq RowIds
       /\ NoRow \in DOMAIN records' => records'[NoRow] \in [path : FilePaths, data : AnyHash]
       /\ NoRow \in DOMAIN records' => NoRow \in DOMAIN records \/ ~Unused(NoRow)'
  BY <1>5 DEF RecordInv, RecordTypes
<1>12. q.pc \notin {"new", "compare"} /\ (q.left \subseteq verify[r].left \/ AtStep(r, "compare"))
  BY <1>3
<1> QED
  BY <1>3, <1>4, <1>5, <1>6, <1>8, <1>9, <1>10, <1>11, <1>12, ProceedKeeps

LEMMA UnknownKeeps ==
    ASSUME RecordInv, NEW r \in Verifiers, Unknown(r)
    PROVE  RecordInv'
<1> DEFINE pc == IF Deletion(r) THEN "rules" ELSE "query"
           left == IF Deletion(r) THEN verify[r].left ELSE {verify[r].path}
<1>1. verify[r] \in VerifyType /\ RequestFits(r) /\ AtStep(r, "compare") /\ ~Tracked(r)
  BY OwnFacts DEF Unknown
<1>2. verify[r].op = "event" /\ verify[r].path \in FilePaths /\ verify[r].left = {} /\ Active(r)
  BY <1>1 DEF RequestFits, Active, AtStep
<1>3. ToStep(r, [verify[r] EXCEPT !.pc = pc, !.left = left])
  <2>1. [verify[r] EXCEPT !.pc = pc] = [verify[r] EXCEPT !.pc = pc, !.left = verify[r].left]
    BY <1>1 DEF VerifyType
  <2> QED
    BY <2>1 DEF Unknown
<1>4. pc \in {"query", "rules", "recalculate", "audit", "done"} /\ left \in SUBSET FilePaths
      /\ left \subseteq verify[r].left \cup {verify[r].path} /\ pc # "recalculate"
  BY <1>2
<1>5. UNCHANGED <<records, recordFaults, mirror, clashed>>
  BY DEF Unknown
<1>6. ASSUME NEW p \in FilePaths, p \in Deals(r), p \notin clashed
      PROVE  /\ pc \in {"rules", "audit", "done"} => Settled(p)
             /\ pc = "query" => IF p \in left THEN AtMostOne(p) /\ mirror[p] = verify[r].data ELSE Settled(p)
             /\ pc = "recalculate" => Finds(r, p) /\ mirror[p] = verify[r].data
  <2>1. Pending(r, p)
    BY <1>6, OwnFacts
  <2>2. CASE Deletion(r)
    BY <2>1, <2>2, <1>1 DEF Pending, Finds, Settled
  <2>3. CASE ~Deletion(r)
    BY <2>1, <2>3, <1>1 DEF Pending
  <2> QED
    BY <2>2, <2>3
<1> HIDE DEF pc, left
<1>7. PICK q : q = [verify[r] EXCEPT !.pc = pc, !.left = left]
  OBVIOUS
<1>8. q \in VerifyType /\ verify'[r] = q
  <2>1. q \in VerifyType
    BY <1>1, <1>4, <1>7 DEF VerifyType
  <2> QED
    BY <2>1, <1>3, <1>7, Writes DEF RecordInv, RecordTypes
<1>9. RequestFits(r)'
  BY <1>1, <1>2, <1>4, <1>7, <1>8 DEF RequestFits, AtStep, VerifyType, pc
<1> QED
  BY <1>1, <1>2, <1>3, <1>4, <1>5, <1>6, <1>9, StayKeeps

\* The other steps that leave the rows alone
LEMMA PassKeeps ==
    ASSUME RecordInv, NEW r \in Verifiers, Active(r), NEW pc \in {"rules", "recalculate", "audit", "done"},
           ToStep(r, [verify[r] EXCEPT !.pc = pc]), UNCHANGED <<records, recordFaults, mirror, clashed>>,
           pc = "recalculate" => AtStep(r, "act") /\ Tracked(r),
           \A p \in FilePaths : p \in Deals(r) /\ p \notin clashed =>
               /\ pc \in {"rules", "audit", "done"} => Settled(p)
               /\ pc = "recalculate" => Finds(r, p) /\ mirror[p] = verify[r].data
    PROVE  RecordInv'
<1> DEFINE left == verify[r].left
<1>1. verify[r] \in VerifyType /\ RequestFits(r)
  BY OwnFacts
<1>2. ToStep(r, [verify[r] EXCEPT !.pc = pc, !.left = left])
  <2>1. [verify[r] EXCEPT !.pc = pc] = [verify[r] EXCEPT !.pc = pc, !.left = left]
    BY <1>1 DEF VerifyType
  <2> QED
    BY <2>1
<1>3. left \in SUBSET FilePaths /\ left \subseteq verify[r].left \cup {verify[r].path} /\ left = verify[r].left
  BY <1>1 DEF VerifyType
<1>4. PICK q : q = [verify[r] EXCEPT !.pc = pc]
  OBVIOUS
<1>5. q \in VerifyType /\ verify'[r] = q
  <2>1. q \in VerifyType
    BY <1>1, <1>4 DEF VerifyType
  <2> QED
    BY <2>1, <1>4, Writes DEF RecordInv, RecordTypes
<1>6. RequestFits(r)'
  BY <1>1, <1>4, <1>5 DEF RequestFits, AtStep, VerifyType, Tracked
<1> HIDE DEF left
<1> QED
  BY <1>2, <1>3, <1>6, StayKeeps

LEMMA UnchangedKeeps ==
    ASSUME RecordInv, NEW r \in Verifiers, Unchanged(r)
    PROVE  RecordInv'
<1>1. verify[r] \in VerifyType /\ RequestFits(r) /\ AtStep(r, "compare") /\ Tracked(r) /\ ~Deletion(r) /\ ~Differs(r)
  BY OwnFacts DEF Unchanged
<1>2. Active(r) /\ verify[r].left = {} /\ verify[r].type # "RENAMED" /\ verify[r].old = NoPath
  BY <1>1 DEF RequestFits, Active, AtStep, Differs
<1>3. ASSUME NEW p \in FilePaths, p \in Deals(r), p \notin clashed PROVE Settled(p)
  <2>1. p = verify[r].path
    BY <1>2, <1>3 DEF Deals, Touched
  <2>2. p = Sought(r)
    BY <1>1, <1>2, <2>1 DEF Sought, LookupPath
  <2>3. Pending(r, p)
    BY <1>3, OwnFacts
  <2>4. Finds(r, p) /\ Known(r) /\ mirror[p] = Becomes(r)
    BY <1>1, <2>1, <2>2, <2>3 DEF Pending
  <2>5. Becomes(r) = verify[r].was /\ verify[r].was # Untracked
    BY <1>1, RowIdFacts DEF Becomes, Differs, NewHash, VerifyType
  <2> QED
    BY <2>4, <2>5, <1>1 DEF Settled, Finds, Known
<1>4. ToStep(r, [verify[r] EXCEPT !.pc = "rules"]) /\ UNCHANGED <<records, recordFaults, mirror, clashed>>
  BY DEF Unchanged
<1> QED
  BY <1>2, <1>3, <1>4, PassKeeps

LEMMA RulesKeeps ==
    ASSUME RecordInv, NEW r \in Verifiers, Rules(r) \/ Audit(r)
    PROVE  RecordInv'
<1>1. (AtStep(r, "rules") \/ AtStep(r, "audit")) /\ ToStep(r, [verify[r] EXCEPT !.pc = "done"])
      /\ UNCHANGED <<records, recordFaults, mirror, clashed>>
  BY DEF Rules, Audit
<1>2. Active(r)
  BY <1>1 DEF Active, AtStep
<1>3. ASSUME NEW p \in FilePaths, p \in Deals(r), p \notin clashed PROVE Settled(p)
  BY <1>1, <1>3, OwnFacts DEF Pending
<1> QED
  BY <1>1, <1>2, <1>3, PassKeeps

LEMMA ActKeeps ==
    ASSUME RecordInv, NEW r \in Verifiers, Act(r)
    PROVE  RecordInv'
<1>1. PICK pc : pc = IF verify[r].op = "recalculate" /\ verify[r].row # NoRow THEN "recalculate" ELSE "audit"
  OBVIOUS
<1>2. AtStep(r, "act") /\ ToStep(r, [verify[r] EXCEPT !.pc = pc])
      /\ UNCHANGED <<records, recordFaults, mirror, clashed>>
  BY <1>1 DEF Act
<1>3. Active(r)
  BY <1>2 DEF Active, AtStep
<1>4. pc = "recalculate" <=> verify[r].op = "recalculate" /\ Tracked(r)
  BY <1>1 DEF Tracked
<1>5. pc \in {"recalculate", "audit"}
  BY <1>1
<1>6. ASSUME NEW p \in FilePaths, p \in Deals(r), p \notin clashed
      PROVE  /\ pc \in {"rules", "audit", "done"} => Settled(p)
             /\ pc = "recalculate" => Finds(r, p) /\ mirror[p] = verify[r].data
  <2>1. Pending(r, p)
    BY <1>6, OwnFacts
  <2> QED
    BY <2>1, <1>2, <1>4 DEF Pending
<1> QED
  BY <1>2, <1>3, <1>4, <1>5, <1>6, PassKeeps

\* Where the row is that a request holds
LEMMA HeldRow ==
    ASSUME RecordInv, NEW r \in Verifiers, Keeps(r), ~Gone(verify[r].row)
    PROVE  LET q == records[verify[r].row].path IN
           /\ q = Sought(r) \/ {q, Sought(r), verify[r].path} \subseteq clashed
           /\ q \in Deals(r) \cup clashed /\ Sought(r) \in Deals(r) /\ verify[r].path \in Deals(r)
           /\ verify[r].row \in RowIds /\ records[verify[r].row] \in [path : FilePaths, data : AnyHash]
<1>1. HeldInv(r)
  BY OwnFacts
<1>2. Active(r) /\ verify[r].path \in FilePaths /\ Sought(r) \in FilePaths /\ verify[r].row \in RowIds
  BY HoldsIs
<1>3. Sought(r) \in Deals(r)
  BY <1>2, SoughtIs, RecordAssumption
<1>4. verify[r].path \in Deals(r)
  BY <1>2, RecordAssumption DEF Deals, Touched
<1> QED
  BY <1>1, <1>2, <1>3, <1>4 DEF HeldInv, Gone, RecordInv, RecordTypes

\* A step that ends a comparison, or a recalculation, by changing the row
LEMMA ChangeKeeps ==
    ASSUME RecordInv, NEW r \in Verifiers, Active(r), NEW pc \in {"rules", "audit"},
           AtStep(r, "compare") \/ AtStep(r, "recalculate"),
           ToStep(r, [verify[r] EXCEPT !.pc = pc]), UNCHANGED <<recordFaults, mirror, clashed>>,
           NEW id, RowsChange(r, id), DOMAIN records' \subseteq DOMAIN records,
           id \in DOMAIN records' => records'[id] \in [path : FilePaths, data : AnyHash],
           \A p \in FilePaths : p \in Deals(r) /\ p \notin clashed => Settled(p)'
    PROVE  RecordInv'
<1>1. PICK q : q = [verify[r] EXCEPT !.pc = pc]
  OBVIOUS
<1>2. verify[r] \in VerifyType /\ RequestFits(r)
  BY OwnFacts
<1>3. /\ q \in VerifyType /\ q.pc = pc /\ q.op = verify[r].op /\ q.type = verify[r].type
      /\ q.path = verify[r].path /\ q.old = verify[r].old /\ q.row = verify[r].row /\ q.left = verify[r].left
  BY <1>1, <1>2 DEF VerifyType
<1>4. ToStep(r, q) /\ verify'[r] = q
  BY <1>1, <1>3, Writes DEF RecordInv, RecordTypes
<1>5. ~Keeps(r)' /\ RequestFits(r)'
  BY <1>2, <1>3, <1>4 DEF Keeps, RequestFits, AtStep
<1>6. Deals(r)' = Deals(r)
  BY <1>3, <1>4 DEF Deals, Touched, Active
<1>7. ASSUME NEW p \in FilePaths, p \in Deals(r)', p \notin clashed PROVE Pending(r, p)'
  <2>1. Settled(p)'
    BY <1>6, <1>7
  <2> QED
    BY <2>1, <1>3, <1>4 DEF Pending, AtStep
<1>8. DOMAIN records' \subseteq RowIds
  BY DEF RecordInv, RecordTypes
<1>9. q.left \subseteq verify[r].left /\ q.pc \notin {"new", "compare"} /\ q.left \subseteq verify[r].left \cup {verify[r].path}
  BY <1>3
<1>10. id \in DOMAIN records' => id \in DOMAIN records \/ ~Unused(id)'
  OBVIOUS
<1> QED
  BY <1>3, <1>4, <1>5, <1>6, <1>7, <1>8, <1>9, <1>10, ProceedKeeps

LEMMA DeleteKeeps ==
    ASSUME RecordInv, NEW r \in Verifiers, Delete(r)
    PROVE  RecordInv'
<1> DEFINE row == verify[r].row
<1>1. verify[r] \in VerifyType /\ RequestFits(r) /\ AtStep(r, "compare") /\ Tracked(r) /\ Deletion(r)
  BY OwnFacts DEF Delete
<1>2. Active(r) /\ Keeps(r)
  BY <1>1 DEF Active, AtStep, Keeps
<1>3. records' = [id \in DOMAIN records \ {row} |-> records[id]]
  BY DEF Delete
<1>4. row \in DOMAIN records => records[row].path \in Deals(r) \cup clashed
  BY <1>2, HeldRow DEF Gone
<1>5. RowsChange(r, row) /\ DOMAIN records' \subseteq DOMAIN records /\ row \notin DOMAIN records'
  BY <1>3, <1>4 DEF RowsChange
<1>6. ASSUME NEW p \in FilePaths, p \in Deals(r), p \notin clashed PROVE Settled(p)'
  <2>1. Pending(r, p)
    BY <1>6, OwnFacts
  <2>2. Finds(r, p) /\ mirror[p] = Untracked
    BY <2>1, <1>1 DEF Pending
  <2>3. RowsAt(p) = {row}
    BY <2>2, <1>1 DEF Finds
  <2>4. RowsAt(p)' = {}
    BY <2>3, <1>3 DEF RowsAt
  <2> QED
    BY <2>2, <2>4 DEF Settled, Delete
<1>7. ToStep(r, [verify[r] EXCEPT !.pc = "rules"]) /\ UNCHANGED <<recordFaults, mirror, clashed>>
  BY DEF Delete
<1> HIDE DEF row
<1> QED
  BY <1>1, <1>2, <1>5, <1>6, <1>7, ChangeKeeps

LEMMA RecalculateKeeps ==
    ASSUME RecordInv, NEW r \in Verifiers, Recalculate(r)
    PROVE  RecordInv'
<1> DEFINE row == verify[r].row
<1>1. verify[r] \in VerifyType /\ RequestFits(r) /\ AtStep(r, "recalculate") /\ Tracked(r) /\ row \in DOMAIN records
  BY OwnFacts DEF Recalculate, RequestFits, Gone
<1>2. Active(r) /\ Keeps(r)
  BY <1>1 DEF Active, AtStep, Keeps
<1>3. records' = [records EXCEPT ![row].data = verify[r].data]
  BY DEF Recalculate
<1>4. records[row].path \in Deals(r) \cup clashed /\ records[row] \in [path : FilePaths, data : AnyHash]
  BY <1>1, <1>2, HeldRow DEF Gone
<1>5. DOMAIN records' = DOMAIN records /\ records'[row] = [records[row] EXCEPT !.data = verify[r].data]
      /\ \A id \in DOMAIN records : id # row => records'[id] = records[id]
  BY <1>1, <1>3
<1>6. records'[row].path = records[row].path /\ records'[row].data = verify[r].data
      /\ records'[row] \in [path : FilePaths, data : AnyHash]
  BY <1>1, <1>4, <1>5 DEF VerifyType
<1>7. RowsChange(r, row)
  BY <1>4, <1>5, <1>6 DEF RowsChange
<1>8. ASSUME NEW p \in FilePaths, p \in Deals(r), p \notin clashed PROVE Settled(p)'
  <2>1. Pending(r, p)
    BY <1>8, OwnFacts
  <2>2. RowsAt(p) = {row} /\ mirror[p] = verify[r].data
    BY <2>1, <1>1 DEF Pending, Finds
  <2>3. RowsAt(p)' = {row}
    <3>1. \A id \in DOMAIN records : records'[id].path = records[id].path
      BY <1>5, <1>6
    <3> QED
      BY <3>1, <2>2, <1>5 DEF RowsAt
  <2>4. mirror'[p] = records'[row].data
    BY <2>2, <1>6 DEF Recalculate
  <2>5. mirror'[p] # Untracked
    BY <2>4, <1>6, <1>1, RowIdFacts DEF VerifyType
  <2> QED
    BY <2>3, <2>4, <2>5 DEF Settled
<1>9. ToStep(r, [verify[r] EXCEPT !.pc = "audit"]) /\ UNCHANGED <<recordFaults, mirror, clashed>>
  BY DEF Recalculate
<1> HIDE DEF row
<1> QED
  BY <1>1, <1>2, <1>5, <1>6, <1>7, <1>8, <1>9, ChangeKeeps

LEMMA ChangeRecordKeeps ==
    ASSUME RecordInv, NEW r \in Verifiers, ChangeRecord(r)
    PROVE  RecordInv'
<1> DEFINE row == verify[r].row
           to == verify[r].path
           renamed == verify[r].type = "RENAMED"
<1>1. /\ verify[r] \in VerifyType /\ RequestFits(r) /\ RenameInv(r) /\ AtStep(r, "compare")
      /\ Tracked(r) /\ ~Deletion(r) /\ row \in DOMAIN records
  BY OwnFacts DEF ChangeRecord, Gone
<1>2. Active(r) /\ Keeps(r)
  BY <1>1 DEF Active, AtStep, Keeps
<1>3. to \in FilePaths /\ verify[r].left = {} /\ to # verify[r].old
      /\ Sought(r) = IF renamed THEN verify[r].old ELSE to
  BY <1>1 DEF RequestFits, Sought, LookupPath
<1>4. PICK new : new = [path |-> IF renamed THEN to ELSE records[row].path,
                        data |-> IF NewHash(r) THEN verify[r].data ELSE records[row].data]
  OBVIOUS
<1>5. DOMAIN records' = DOMAIN records /\ records'[row] = new
      /\ \A id \in DOMAIN records : id # row => records'[id] = records[id]
  BY <1>1, <1>4 DEF ChangeRecord
<1>6. /\ records[row].path = Sought(r) \/ {records[row].path, Sought(r), to} \subseteq clashed
      /\ records[row].path \in Deals(r) \cup clashed /\ Sought(r) \in Deals(r) /\ to \in Deals(r)
      /\ records[row] \in [path : FilePaths, data : AnyHash]
  BY <1>1, <1>2, HeldRow DEF Gone
<1>7. new \in [path : FilePaths, data : AnyHash] /\ new.path = (IF renamed THEN to ELSE records[row].path)
      /\ new.data = (IF NewHash(r) THEN verify[r].data ELSE records[row].data)
  BY <1>1, <1>3, <1>4, <1>6 DEF VerifyType
<1>8. renamed => (Sought(r) \in clashed <=> to \in clashed)
  BY <1>1, <1>2, <1>3 DEF RenameInv
<1>9. RowsChange(r, row)
  <2> HIDE DEF row, to, renamed
  <2> QED
    BY <1>5, <1>6, <1>7, <1>8 DEF RowsChange
<1>10. ASSUME NEW p \in FilePaths, p \in Deals(r), p \notin clashed PROVE Settled(p)'
  <2>1. p = to \/ (p = verify[r].old /\ renamed)
    BY <1>1, <1>3, <1>10, RecordAssumption DEF Deals, Touched, RequestFits
  <2>2. to \notin clashed /\ Sought(r) \notin clashed /\ Sought(r) \in FilePaths
    BY <1>3, <1>8, <1>10, <2>1, <1>6, OwnFacts
  <2>3. records[row].path = Sought(r)
    BY <1>6, <2>2
  <2>4. Pending(r, Sought(r)) /\ Pending(r, p) /\ Pending(r, to)
    BY <1>6, <1>10, <2>2, OwnFacts
  <2>5. RowsAt(Sought(r)) = {row} /\ records[row].data = verify[r].was /\ mirror[to] = Becomes(r)
    BY <2>4, <1>1 DEF Pending, Finds, Known
  <2>6. new.data = Becomes(r)
    BY <1>7, <2>5 DEF NewHash, Becomes
  <2>7. Becomes(r) \in AnyHash
    BY <1>1 DEF Becomes, VerifyType
  <2>8. CASE p = to
    <3>1. RowsAt(p) \subseteq {row}
      BY <2>4, <2>5, <2>8, <1>1 DEF Pending
    <3>2. new.path = to
      BY <1>3, <1>7, <2>3
    <3>3. RowsAt(p)' = {row}
      BY <3>1, <3>2, <2>8, <1>1, <1>5 DEF RowsAt
    <3>4. mirror'[p] = records'[row].data /\ mirror'[p] # Untracked
      BY <2>5, <2>6, <2>7, <2>8, <1>5, RowIdFacts DEF ChangeRecord
    <3> QED
      BY <3>3, <3>4 DEF Settled
  <2>9. CASE p # to
    <3>1. p = Sought(r) /\ renamed
      BY <2>1, <2>9, <1>3
    <3>2. new.path # p
      BY <1>7, <2>9, <3>1
    <3>3. RowsAt(p)' = {}
      BY <3>1, <3>2, <2>5, <1>5 DEF RowsAt
    <3>4. mirror'[p] = Untracked
      BY <2>4, <2>9, <1>1 DEF Pending, ChangeRecord
    <3> QED
      BY <3>3, <3>4 DEF Settled
  <2> QED
    BY <2>8, <2>9
<1>11. ToStep(r, [verify[r] EXCEPT !.pc = "rules"]) /\ UNCHANGED <<recordFaults, mirror, clashed>>
  BY DEF ChangeRecord
<1> HIDE DEF row
<1> QED
  BY <1>1, <1>2, <1>5, <1>7, <1>9, <1>10, <1>11, ChangeKeeps

LEMMA QueryKeeps ==
    ASSUME RecordInv, NEW r \in Verifiers, NEW path \in FilePaths, Query(r, path)
    PROVE  RecordInv'
<1>1. PICK row \in RowsFor(path) : ToStep(r, [verify[r] EXCEPT !.pc = "store", !.path = path, !.row = row])
  BY DEF Query
<1>2. verify[r] \in VerifyType /\ RequestFits(r) /\ AtStep(r, "query") /\ path \in verify[r].left
      /\ UNCHANGED <<records, recordFaults, mirror, clashed>>
  BY OwnFacts DEF Query
<1>3. Active(r)
  BY <1>2 DEF Active, AtStep
<1>4. /\ row \in RowIds \cup {NoRow} /\ (row # NoRow => row \in DOMAIN records /\ records[row].path = path)
      /\ AtMostOne(path) => RowsAt(path) = IF row # NoRow THEN {row} ELSE {}
  BY Search DEF RecordInv
<1>5. PICK q : q = [verify[r] EXCEPT !.pc = "store", !.path = path, !.row = row]
  OBVIOUS
<1>6. /\ q \in VerifyType /\ q.pc = "store" /\ q.op = verify[r].op /\ q.type = verify[r].type
      /\ q.path = path /\ q.old = verify[r].old /\ q.row = row /\ q.left = verify[r].left
      /\ q.data = verify[r].data
  BY <1>2, <1>4, <1>5 DEF VerifyType, AnyPath
<1>7. ToStep(r, q) /\ verify'[r] = q
  BY <1>1, <1>5, <1>6, Writes DEF RecordInv, RecordTypes
<1>8. q.path = verify[r].path \/ (q.op # "event" /\ q.path \in verify[r].left)
  BY <1>2, <1>6 DEF RequestFits
<1>9. RequestFits(r)'
  BY <1>2, <1>6, <1>7, <1>8 DEF RequestFits, AtStep
<1>10. Keeps(r)' => q.row \in DOMAIN records /\ records[q.row].path = Sought(r)'
  BY <1>4, <1>6, <1>7 DEF Keeps, Tracked, Sought, AtStep
<1>11. Deals(r)' \subseteq Deals(r)
  BY <1>2, <1>3, <1>6, <1>7 DEF Deals, Touched
<1>12. ASSUME NEW p \in FilePaths, p \in Deals(r), p \notin clashed
       PROVE  IF p \in verify[r].left THEN AtMostOne(p)' /\ mirror'[p] = verify[r].data ELSE Settled(p)'
  <2>1. Pending(r, p)
    BY <1>12, OwnFacts
  <2>2. Same(p)
    BY <1>2 DEF Same, RowsAt
  <2>3. IF p \in verify[r].left THEN AtMostOne(p) /\ mirror[p] = verify[r].data ELSE Settled(p)
    BY <2>1, <1>2 DEF Pending
  <2> QED
    BY <2>2, <2>3, <1>2, SameSettled
<1>13. ASSUME NEW p \in FilePaths, p \in Deals(r)', p \notin clashed PROVE Pending(r, p)'
  <2>1. IF p \in verify[r].left THEN AtMostOne(p)' /\ mirror'[p] = verify[r].data ELSE Settled(p)'
    BY <1>11, <1>12, <1>13
  <2>2. IF p \in verify'[r].left THEN AtMostOne(p)' /\ mirror'[p] = verify'[r].data ELSE Settled(p)'
    BY <2>1, <1>6, <1>7
  <2>3. p = path => Finds(r, p)'
    <3> SUFFICES ASSUME p = path PROVE Finds(r, p)'
      OBVIOUS
    <3>1. Pending(r, path)
      BY <1>11, <1>13, OwnFacts
    <3>2. AtMostOne(path)
      BY <3>1, <1>2 DEF Pending
    <3>3. RowsAt(path)' = IF row # NoRow THEN {row} ELSE {}
      BY <3>2, <1>4, <1>2 DEF RowsAt
    <3>4. verify'[r].row = row /\ (Tracked(r)' <=> row # NoRow)
      BY <1>6, <1>7 DEF Tracked
    <3> QED
      BY <3>3, <3>4 DEF Finds
  <2>4. AtStep(r, "store")' /\ ~AtStep(r, "compare")' /\ ~AtStep(r, "query")' /\ ~AtStep(r, "act")'
        /\ ~AtStep(r, "recalculate")' /\ ~AtStep(r, "audit")' /\ ~AtStep(r, "rules")' /\ verify'[r].path = path
    BY <1>6, <1>7 DEF AtStep
  <2> QED
    BY <2>2, <2>3, <2>4 DEF Pending
<1>14. ASSUME NEW p \in FilePaths, p \in Deals(r), p \notin Deals(r)', p \notin clashed PROVE Settled(p)'
  <2>1. p \notin verify[r].left
    BY <1>6, <1>7, <1>14, RecordAssumption DEF Deals, Touched, Active
  <2> QED
    BY <2>1, <1>12, <1>14
<1>15. RowsChange(r, NoRow) /\ NoRow \notin DOMAIN records /\ DOMAIN records' \subseteq RowIds
  BY <1>2, NoRowChanges, RowIdFacts DEF RecordInv, RecordTypes
<1>16. /\ NoRow \in DOMAIN records' => records'[NoRow] \in [path : FilePaths, data : AnyHash]
       /\ NoRow \in DOMAIN records' => NoRow \in DOMAIN records \/ ~Unused(NoRow)'
       /\ q.left \subseteq verify[r].left /\ q.pc \notin {"new", "compare"}
       /\ q.left \subseteq verify[r].left \cup {verify[r].path}
  BY <1>2, <1>6, <1>15
<1> QED
  BY <1>2, <1>3, <1>6, <1>7, <1>8, <1>9, <1>10, <1>13, <1>14, <1>15, <1>16, ProceedKeeps

LEMMA StoreRecordKeeps ==
    ASSUME RecordInv, NEW r \in Verifiers, StoreRecord(r)
    PROVE  RecordInv'
<1> DEFINE path == verify[r].path
           left == verify[r].left \ {path}
<1>1. PICK pc : pc = IF left # {} THEN "query" ELSE IF verify[r].op = "event" THEN "rules" ELSE "done"
  OBVIOUS
<1>2. PICK id : id = RowOf(r)
  OBVIOUS
<1>3. /\ verify[r] \in VerifyType /\ RequestFits(r) /\ AtStep(r, "store") /\ (Tracked(r) => ~Gone(verify[r].row))
      /\ records' = [i \in DOMAIN records \cup {id} |->
                        IF i = id THEN [path |-> path, data |-> verify[r].data] ELSE records[i]]
      /\ UNCHANGED <<recordFaults, mirror, clashed>>
  BY <1>2, OwnFacts DEF StoreRecord, Tracked
<1>4. Active(r) /\ path \in verify[r].left /\ path \in FilePaths /\ path \in Deals(r) /\ Sought(r) = path
      /\ pc \in {"query", "rules", "done"} /\ (pc # "query" => left = {})
      /\ verify[r].op \in {"event", "baseline"}
  <2>1. path \in verify[r].left /\ verify[r].op \in {"event", "baseline"}
    BY <1>3 DEF RequestFits
  <2>2. path \in FilePaths
    BY <2>1, <1>3 DEF VerifyType
  <2>3. Active(r) /\ Sought(r) = path
    BY <1>3 DEF Active, AtStep, Sought
  <2> QED
    BY <2>1, <2>2, <2>3, <1>1, RecordAssumption DEF Deals, Touched
<1>5. PICK q : q = [verify[r] EXCEPT !.left = left, !.pc = pc]
  OBVIOUS
<1>6. /\ q \in VerifyType /\ q.pc = pc /\ q.op = verify[r].op /\ q.type = verify[r].type
      /\ q.path = path /\ q.old = verify[r].old /\ q.row = verify[r].row /\ q.left = left
      /\ q.data = verify[r].data
  BY <1>3, <1>4, <1>5 DEF VerifyType
<1>7. ToStep(r, q) /\ verify'[r] = q
  <2>1. ToStep(r, q)
    BY <1>1, <1>5 DEF StoreRecord
  <2> QED
    BY <2>1, <1>6, Writes DEF RecordInv, RecordTypes
<1> HIDE DEF left
<1>8. RequestFits(r)'
  BY <1>3, <1>4, <1>6, <1>7 DEF RequestFits, AtStep, left
<1>9. ~Keeps(r)'
  BY <1>4, <1>6, <1>7 DEF Keeps, AtStep
\* The row
<1>10. Tracked(r) => /\ id = verify[r].row /\ id \in DOMAIN records
                     /\ records[id].path = path \/ {records[id].path, path} \subseteq clashed
  <2> SUFFICES ASSUME Tracked(r)
               PROVE  /\ id = verify[r].row /\ id \in DOMAIN records
                      /\ records[id].path = path \/ {records[id].path, path} \subseteq clashed
    OBVIOUS
  <2>1. Keeps(r) /\ ~Gone(verify[r].row) /\ id = verify[r].row
    BY <1>2, <1>3 DEF Keeps, RowOf, Tracked
  <2> QED
    BY <2>1, <1>4, HeldRow DEF Gone
<1>11. ~Tracked(r) => id = <<r, path>> /\ Unused(id) /\ id \notin DOMAIN records
  <2> SUFFICES ASSUME ~Tracked(r) PROVE id = <<r, path>> /\ Unused(id) /\ id \notin DOMAIN records
    OBVIOUS
  <2>1. id = <<r, path>>
    BY <1>2 DEF RowOf, Tracked
  <2>2. Unused(id)
    BY <2>1, <1>4, RowIdFacts DEF Unused
  <2> QED
    BY <2>1, <2>2 DEF RecordInv, IdInv
<1>12. id \in RowIds /\ DOMAIN records' \subseteq RowIds
  BY <1>3, <1>4, <1>10, <1>11, RowIdFacts DEF RecordInv, RecordTypes
<1>13. /\ id \in DOMAIN records' /\ records'[id].path = path /\ records'[id].data = verify[r].data
       /\ records'[id] \in [path : FilePaths, data : AnyHash]
       /\ \A i : i # id => (i \in DOMAIN records' <=> i \in DOMAIN records)
       /\ \A i \in DOMAIN records : i # id => records'[i] = records[i]
  BY <1>3, <1>4 DEF VerifyType
<1>14. id \in DOMAIN records => records[id].path = path \/ {records[id].path, path} \subseteq clashed
  BY <1>10, <1>11
<1>15. RowsChange(r, id)
  BY <1>4, <1>11, <1>10, <1>13, <1>14 DEF RowsChange
<1>16. id \in DOMAIN records' => id \in DOMAIN records \/ ~Unused(id)'
  <2> SUFFICES ASSUME ~Tracked(r) PROVE ~Unused(id)'
    BY <1>10
  <2>1. id[1] = r /\ id[2] = path
    BY <1>11
  <2> QED
    BY <2>1, <1>4, <1>6, <1>7 DEF Unused, AtStep, left
\* The paths
<1>17. ASSUME NEW p \in FilePaths, p \in Deals(r), p \notin clashed
       PROVE  IF p \in left THEN AtMostOne(p)' /\ mirror'[p] = verify[r].data ELSE Settled(p)'
  <2>1. Pending(r, p)
    BY <1>17, OwnFacts
  <2>2. IF p \in verify[r].left THEN AtMostOne(p) /\ mirror[p] = verify[r].data ELSE Settled(p)
    BY <2>1, <1>3 DEF Pending
  <2>3. CASE p = path
    <3>1. Finds(r, p) /\ mirror[p] = verify[r].data
      BY <2>1, <2>2, <2>3, <1>3, <1>4 DEF Pending
    <3>2. RowsAt(p) \subseteq {id}
      BY <3>1, <1>10 DEF Finds
    <3>3. RowsAt(p)' = {id}
      BY <3>2, <2>3, <1>13 DEF RowsAt
    <3>4. mirror'[p] = records'[id].data /\ mirror'[p] # Untracked
      BY <3>1, <1>3, <1>13, RowIdFacts DEF VerifyType
    <3>5. p \notin left
      BY <2>3 DEF left
    <3> QED
      BY <3>3, <3>4, <3>5 DEF Settled
  <2>4. CASE p # path
    <3>1. \A i \in RowsAt(p) : i # id
      BY <1>14, <1>17, <2>4 DEF RowsAt
    <3>2. \A i \in RowsAt(p)' : i # id
      BY <1>13, <2>4 DEF RowsAt
    <3>3. \A i : i \in RowsAt(p)' <=> i \in RowsAt(p)
      BY <3>1, <3>2, <1>13 DEF RowsAt
    <3>4. \A i \in RowsAt(p) : records'[i] = records[i]
      BY <3>1, <1>13 DEF RowsAt
    <3>5. Same(p)
      BY <3>3, <3>4, <1>3 DEF Same
    <3> QED
      BY <3>5, <2>2, <2>4, <1>3, SameSettled DEF left
  <2> QED
    BY <2>3, <2>4
<1>18. ASSUME NEW p \in FilePaths, p \in Deals(r)', p \notin clashed PROVE Pending(r, p)'
  <2>1. p \in Deals(r) /\ pc # "done"
    BY <1>18, <1>4, <1>6, <1>7 DEF Deals, Touched, Active, left
  <2>2. IF p \in verify'[r].left THEN AtMostOne(p)' /\ mirror'[p] = verify'[r].data ELSE Settled(p)'
    BY <2>1, <1>6, <1>7, <1>17, <1>18
  <2>3. pc # "query" => Settled(p)'
    BY <2>1, <1>4, <1>17, <1>18
  <2>4. ~AtStep(r, "store")' /\ ~AtStep(r, "compare")' /\ ~AtStep(r, "act")' /\ ~AtStep(r, "recalculate")'
        /\ ~AtStep(r, "audit")' /\ (AtStep(r, "query")' <=> pc = "query") /\ (AtStep(r, "rules")' => pc # "query")
    BY <1>4, <1>6, <1>7 DEF AtStep
  <2> QED
    BY <2>2, <2>3, <2>4 DEF Pending
<1>19. ASSUME NEW p \in FilePaths, p \in Deals(r), p \notin Deals(r)', p \notin clashed PROVE Settled(p)'
  <2>1. p \notin left
    <3>1. CASE pc = "done"
      BY <3>1, <1>4
    <3>2. CASE pc # "done"
      BY <3>2, <1>6, <1>7, <1>4, <1>19, RecordAssumption DEF Deals, Touched, Active, left
    <3> QED
      BY <3>1, <3>2
  <2> QED
    BY <2>1, <1>17, <1>19
<1>20. q.pc \notin {"new", "compare"} /\ q.left \subseteq verify[r].left
       /\ q.left \subseteq verify[r].left \cup {verify[r].path}
  BY <1>4, <1>6 DEF left
<1> HIDE DEF path
<1>21. q.path = verify[r].path
  BY <1>6 DEF path
<1> QED
  BY <1>3, <1>4, <1>6, <1>7, <1>8, <1>9, <1>12, <1>13, <1>15, <1>16, <1>18, <1>19, <1>20, <1>21, ProceedKeeps

LEMMA FailKeeps ==
    ASSUME RecordInv, NEW r \in Verifiers, Fail(r)
    PROVE  RecordInv'
<1>1. verify[r] \in VerifyType /\ RequestFits(r) /\ Active(r)
      /\ clashed' = clashed \cup (Touched(r) \ {NoPath}) /\ UNCHANGED <<records, mirror>>
      /\ ToStep(r, [verify[r] EXCEPT !.pc = "failed"]) /\ recordFaults' \in 0 .. MaxRecordFaults
  <2>1. recordFaults' \in 0 .. MaxRecordFaults
    BY RecordAssumption DEF Fail, RecordInv, RecordTypes
  <2> QED
    BY <2>1, OwnFacts DEF Fail
<1>2. PICK q : q = [verify[r] EXCEPT !.pc = "failed"]
  OBVIOUS
<1>3. q \in VerifyType /\ q.pc = "failed" /\ q.op = verify[r].op /\ q.type = verify[r].type
      /\ q.path = verify[r].path /\ q.old = verify[r].old /\ q.row = verify[r].row /\ q.left = verify[r].left
  BY <1>1, <1>2 DEF VerifyType
<1>4. ToStep(r, q) /\ verify'[r] = q /\ Others(r) /\ verify' \in [Verifiers -> VerifyType]
  BY <1>1, <1>2, <1>3, Writes DEF RecordInv, RecordTypes
<1>5. Deals(r)' = {} /\ clashed' = clashed \cup Deals(r) /\ ~Active(r)' /\ ~Keeps(r)'
  BY <1>1, <1>3, <1>4 DEF Deals, Active, Keeps, AtStep
<1>6. RequestFits(r)' /\ RenameInv(r)' /\ HeldInv(r)'
  BY <1>1, <1>3, <1>4, <1>5 DEF RequestFits, RenameInv, HeldInv, AtStep
<1>7. \A s, o \in Verifiers : s # o => MeetInv(s, o)'
  BY <1>4, <1>5, MeetKeeps
<1>8. Whole
  <2> SUFFICES ASSUME NEW o \in Verifiers, NEW x \in Deals(o), x \in clashed', x \notin clashed
               PROVE  Deals(o) \subseteq clashed'
    BY DEF Whole
  <2>1. x \in Deals(r)
    BY <1>5
  <2>2. CASE o = r
    BY <2>2, <1>5
  <2>3. CASE o # r
    BY <2>1, <2>3 DEF RecordInv, MeetInv
  <2> QED
    BY <2>2, <2>3
<1>9. \A i \in RowIds : Unused(i)' => Unused(i)
  <2> TAKE i \in RowIds
  <2> HAVE Unused(i)'
  <2>1. i[1] \in Verifiers
    BY RowIdFacts DEF Unused
  <2> QED
    BY <2>1, <1>3, <1>4 DEF Unused, AtStep, Others
<1>10. RecordTypes'
  <2>1. \A o \in Verifiers : RequestFits(o)'
    BY <1>4, <1>6, OthersKeep DEF RecordInv, RecordTypes
  <2>2. Deals(r) \subseteq FilePaths
    BY DealsOf DEF RecordInv, RecordTypes
  <2> QED
    BY <2>1, <2>2, <1>1, <1>4, <1>5 DEF RecordInv, RecordTypes
<1>11. RowsChange(r, NoRow) /\ NoRow \notin DOMAIN records'
  BY <1>1, NoRowChanges, RowIdFacts DEF RecordInv, RecordTypes
<1> QED
  BY <1>1, <1>4, <1>5, <1>6, <1>7, <1>8, <1>9, <1>10, <1>11, StepKeeps

LEMMA RecordStarts == RecordInit => RecordInv
<1> SUFFICES ASSUME RecordInit PROVE RecordInv
  OBVIOUS
<1>1. PICK first \in [FilePaths -> Hashes \cup {Untracked}] :
         /\ records = [id \in {Earlier} \X {p \in FilePaths : first[p] # Untracked} |->
                         [path |-> id[2], data |-> first[id[2]]]]
         /\ mirror = first
  BY DEF RecordInit
<1>2. /\ verify = [r \in Verifiers |-> Verifier("none", "new")]
      /\ recordFaults = 0 /\ clashed = {}
  BY DEF RecordInit
<1>3. \A r \in Verifiers : /\ verify[r] \in VerifyType /\ verify[r].op = "none" /\ verify[r].pc = "new"
                           /\ verify[r].type = "none" /\ verify[r].old = NoPath
  BY <1>2, FreshType
<1>4. \A r \in Verifiers : Deals(r) = {} /\ ~Active(r) /\ ~Keeps(r) /\ RequestFits(r)
  BY <1>3 DEF Deals, Active, Keeps, RequestFits, AtStep
<1>5. \A id \in DOMAIN records : /\ id \in RowIds /\ id = <<Earlier, id[2]>> /\ id[2] \in FilePaths
                                 /\ first[id[2]] \in Hashes
                                 /\ records[id] = [path |-> id[2], data |-> first[id[2]]]
  BY <1>1 DEF RowIds, Earlier
<1>6. DOMAIN records \subseteq RowIds /\ \A id \in DOMAIN records : records[id] \in [path : FilePaths, data : AnyHash]
  BY <1>5 DEF AnyHash
<1>7. RecordTypes
  <2>1. recordFaults \in 0 .. MaxRecordFaults
    BY <1>2, RecordAssumption
  <2>2. mirror \in [FilePaths -> AnyHash \cup {Untracked}]
    BY <1>1 DEF AnyHash
  <2>3. verify \in [Verifiers -> VerifyType]
    BY <1>2, <1>3
  <2> QED
    BY <2>1, <2>2, <2>3, <1>2, <1>4, <1>6 DEF RecordTypes
<1>8. IdInv
  BY <1>5 DEF IdInv, Unused
<1>9. ASSUME NEW p \in FilePaths PROVE Settled(p)
  <2>1. CASE first[p] = Untracked
    <3>1. RowsAt(p) = {}
      <4> SUFFICES ASSUME NEW id \in DOMAIN records, records[id].path = p PROVE FALSE
        BY DEF RowsAt
      <4>1. id[2] = p /\ first[p] \in Hashes
        BY <1>5
      <4> QED
        BY <4>1, <2>1, RowIdFacts DEF AnyHash
    <3> QED
      BY <3>1, <2>1, <1>1 DEF Settled
  <2>2. CASE first[p] # Untracked
    <3>1. <<Earlier, p>> \in DOMAIN records
      BY <1>1, <2>2
    <3>2. \A id \in RowsAt(p) : id = <<Earlier, p>>
      BY <1>5 DEF RowsAt
    <3>3. records[<<Earlier, p>>].path = p /\ records[<<Earlier, p>>].data = mirror[p]
      BY <1>1, <1>5, <3>1
    <3>4. RowsAt(p) = {<<Earlier, p>>}
      BY <3>1, <3>2, <3>3 DEF RowsAt
    <3> QED
      BY <3>3, <3>4, <2>2, <1>1 DEF Settled
  <2> QED
    BY <2>1, <2>2
<1> QED
  BY <1>4, <1>7, <1>8, <1>9 DEF RecordInv, MeetInv, RenameInv, HeldInv, PathInv

LEMMA RecordSteps == RecordInv /\ [RecordNext]_recordVars => RecordInv'
<1> SUFFICES ASSUME RecordInv, [RecordNext]_recordVars PROVE RecordInv'
  OBVIOUS
<1>1. ASSUME NEW r \in Verifiers, BeginVerify(r) PROVE RecordInv'
  <2>1. ASSUME NEW p \in FilePaths, NEW data \in Hashes, Baseline(r, {p}, data) PROVE RecordInv'
    BY <2>1, BaselineKeeps
  <2>2. ASSUME NEW p \in FilePaths, NEW data \in Hashes, FimAction(r, "recalculate", p, data) PROVE RecordInv'
    BY <2>2, FimActionKeeps DEF AnyHash
  <2>3. ASSUME NEW data \in Hashes, Baseline(r, FilePaths, data) PROVE RecordInv'
    BY <2>3, BaselineKeeps
  <2>4. ASSUME NEW p \in FilePaths, FimAction(r, "record", p, NoHash) PROVE RecordInv'
    BY <2>4, FimActionKeeps DEF AnyHash
  <2>5. ASSUME NEW type \in {"CREATED", "MODIFIED", "DELETED", "RENAMED"}, NEW p \in FilePaths,
               NEW old \in FilePaths \cup {NoPath}, NEW data \in AnyHash, Event(r, type, p, old, data)
        PROVE  RecordInv'
    BY <2>5, EventKeeps
  <2> QED
    BY <1>1, <2>1, <2>2, <2>3, <2>4, <2>5 DEF BeginVerify
<1>2. ASSUME NEW r \in Verifiers, Proceed(r) PROVE RecordInv'
  <2>1. CASE Unknown(r)
    BY <2>1, UnknownKeeps
  <2>2. CASE Unchanged(r)
    BY <2>2, UnchangedKeeps
  <2>3. CASE Delete(r)
    BY <2>3, DeleteKeeps
  <2>4. CASE ChangeRecord(r)
    BY <2>4, ChangeRecordKeeps
  <2>5. CASE Rules(r) \/ Audit(r)
    BY <2>5, RulesKeeps
  <2>6. CASE StoreRecord(r)
    BY <2>6, StoreRecordKeeps
  <2>7. CASE Act(r)
    BY <2>7, ActKeeps
  <2>8. CASE Recalculate(r)
    BY <2>8, RecalculateKeeps
  <2>9. CASE Fail(r)
    BY <2>9, FailKeeps
  <2>10. ASSUME NEW p \in FilePaths, Query(r, p) PROVE RecordInv'
    BY <2>10, QueryKeeps
  <2> QED
    BY <1>2, <2>1, <2>2, <2>3, <2>4, <2>5, <2>6, <2>7, <2>8, <2>9, <2>10 DEF Proceed
<1>3. CASE UNCHANGED recordVars
  <2>1. records' = records /\ verify' = verify /\ mirror' = mirror /\ clashed' = clashed /\ recordFaults' = recordFaults
    BY <1>3 DEF recordVars
  <2>2. RecordTypes' /\ IdInv'
    BY <2>1 DEF RecordInv, RecordTypes, RequestFits, IdInv, Unused, AtStep, Tracked
  <2>3. \A r \in Verifiers : Deals(r)' = Deals(r) /\ Active(r)' = Active(r) /\ Sought(r)' = Sought(r) /\ Keeps(r)' = Keeps(r)
    BY <2>1 DEF Deals, Active, Touched, Sought, Keeps, AtStep, Tracked
  <2>4. \A r \in Verifiers : RenameInv(r)' /\ HeldInv(r)' /\ \A o \in Verifiers : r # o => MeetInv(r, o)'
    BY <2>1, <2>3 DEF RecordInv, RenameInv, HeldInv, MeetInv, Gone, Unused, AtStep
  <2>5. ASSUME NEW p \in FilePaths PROVE PathInv(p)'
    <3>1. Same(p)
      BY <2>1 DEF Same, RowsAt
    <3>2. ASSUME NEW r \in Verifiers, Pending(r, p) PROVE Pending(r, p)'
      BY <3>1, <3>2, <2>1, SamePending DEF RecordInv
    <3>3. Settled(p) => Settled(p)'
      BY <3>1, SameSettled
    <3>4. PathInv(p)
      BY DEF RecordInv
    <3> QED
      BY <3>2, <3>3, <3>4, <2>1, <2>3 DEF PathInv
  <2> QED
    BY <2>2, <2>4, <2>5 DEF RecordInv
<1> QED
  BY <1>1, <1>2, <1>3 DEF RecordNext

\* The rows, the requests and the history are well-typed.
THEOREM RecordTypeCorrect == RecordSpec => []RecordTypeOK
<1>1. RecordInv => RecordTypeOK
  BY DEF RecordInv, RecordTypes, RecordTypeOK, VerifyType
<1> QED
  BY <1>1, RecordStarts, RecordSteps, PTL DEF RecordSpec

\* When no request runs, a path has one record with what the last event told, or
\* none, unless requests on it overlapped or failed.
THEOREM RecordsAreFollowed == RecordSpec => []RecordsFollow
<1>1. RecordInv => RecordsFollow
  <2> SUFFICES ASSUME RecordInv, \A r \in Verifiers : ~Active(r), NEW p \in FilePaths \ clashed
               PROVE  LET rows == {id \in DOMAIN records : records[id].path = p}
                      IN  IF mirror[p] = Untracked THEN rows = {}
                          ELSE Cardinality(rows) = 1 /\ \A id \in rows : records[id].data = mirror[p]
    BY DEF RecordsFollow
  <2>1. \A r \in Verifiers : p \notin Deals(r)
    BY DEF Deals
  <2>2. Settled(p)
    BY <2>1 DEF RecordInv, PathInv
  <2>3. ASSUME NEW id, RowsAt(p) = {id} PROVE Cardinality(RowsAt(p)) = 1
    BY <2>3, FS_Singleton
  <2> QED
    BY <2>2, <2>3 DEF Settled, RowsAt
<1> QED
  BY <1>1, RecordStarts, RecordSteps, PTL DEF RecordSpec

-----------------------------------------------------------------------------
(* The run's properties of the composed specification, whose behaviours are
   behaviours of each part.                                                  *)

LEMMA PartSteps ==
    /\ Spec => ProcessSpec
    /\ Spec => NetSpec
    /\ Spec => RecordSpec
    /\ Spec => EventSpec
    /\ Spec => BehaviorSpec
    /\ Spec => IncidentSpec
<1>1. Init => ProcessInit /\ NetInit /\ RecordInit /\ EventInit /\ BehaviorInit /\ IncidentInit
  BY DEF Init
<1>2. [Next]_vars => [ProcessNext]_processVars
  BY DEF Next, vars, processVars
<1>3. [Next]_vars => [NetNext]_netVars
  BY DEF Next, vars, netVars
<1>4. [Next]_vars => [RecordNext]_recordVars
  BY DEF Next, vars, recordVars
<1>5. [Next]_vars => [EventNext]_eventVars
  BY DEF Next, vars, eventVars
<1>6. [Next]_vars => [BehaviorNext]_behaviorVars /\ [IncidentNext]_incidentVars
  BY DEF Next, vars, behaviorVars, incidentVars
<1> QED
  BY <1>1, <1>2, <1>3, <1>4, <1>5, <1>6, PTL
     DEF Spec, ProcessSpec, NetSpec, RecordSpec, EventSpec, BehaviorSpec, IncidentSpec

\* The type invariant of the run.
THEOREM InventoriesTypeCorrect == Spec => []TypeOK
BY PartSteps, ProcessTypeCorrect, NetTypeCorrect, RecordTypeCorrect, EventTypeCorrect, BehaviorTypeCorrect,
   IncidentTypeCorrect, PTL DEF TypeOK

\* What the backend has recorded of a device's processes, connections and files
\* is what they are, once everything sent has arrived (process_service.py,
\* network_service.py, file_integrity_service.py), but for those that a lost or
\* failed call or two requests at a time have put in doubt.
THEOREM InventoriesAlwaysAgree == Spec => []InventoriesAgree
BY PartSteps, InventoryHolds, ConnectionsHold, RecordsAreFollowed, PTL DEF InventoriesAgree

\* A process has one session, a device one incident at a time and an event a
\* place in an incident of its own, but for requests that overlap.
THEOREM NothingIsSplit == Spec => []NothingSplit
BY PartSteps, SessionsAreOne, IncidentsAreOne, EventsAreJoined, PTL DEF NothingSplit

=============================================================================
