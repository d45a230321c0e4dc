---------------------------- MODULE EndpointProofs ----------------------------
(* Proofs about what happens to the files of an endpoint, for any number of
   drives, files, requests and threads: the USB pipeline with the backend's
   threats and alerts, the integrity monitor, and the quarantine.  They share
   no state.                                                                 *)
EXTENDS MCEndpoint, FiniteSetTheorems, TLAPS

-----------------------------------------------------------------------------
(* Threats and alerts                                                        *)

FileRows   == Requests \X Files
Looking    == {"new", "analyse", "insert", "reinsert"}
Positions  == Looking \cup {"alert", "respond", "write", "done", "failed"}
DeskOps    == {"READ", "ACKNOWLEDGED"}
Analyses   == {"upload", "reanalyse"}
ThreatSet  == {Threat(r, f) : r \in Requests, f \in Findings}
RequestSet == [op : {"none", "alert", "pipeline"} \cup Analyses \cup DeskOps, pc : Positions, rows : SUBSET FileRows,
               todo : SUBSET (Findings \cup ThreatSet), seen : SUBSET ThreatSet]
AlertSet   == [status : {"UNREAD"} \cup DeskOps, read : BOOLEAN, acked : BOOLEAN]

AlertTypeInv ==
    /\ stored \subseteq FileRows /\ threats \subseteq ThreatSet
    /\ DOMAIN desk \subseteq threats /\ \A t \in DOMAIN desk : desk[t] \in AlertSet
    /\ request \in [Requests -> RequestSet] /\ breaks \in 0 .. MaxBreaks

\* A request analyses rows, writes alerts, or goes on to a response or a second
\* insert, if that is what it is for.
OpFits(r) ==
    /\ At(r, "analyse") => request[r].op \in Analyses
    /\ At(r, "write") => request[r].op \in DeskOps
    /\ At(r, "respond") \/ At(r, "reinsert") => request[r].op = "pipeline"
    /\ request[r].pc \in {"insert", "reinsert", "alert"} => request[r].todo \subseteq Findings

\* A request that is about to insert a finding on an event inserts its own, and
\* the pipeline inserts no other.
InsertsOwn(r) ==
    request[r].pc \in {"insert", "reinsert"} => \A f \in request[r].todo :
        /\ f.row[2] \in Events => f.row[1] = r
        /\ request[r].op = "pipeline" => f.row[2] \in Events

\* A threat of what a request is about to insert was inserted since it looked.
Looked(r) ==
    At(r, "insert") => \A t \in threats : t.of \in request[r].todo => [by |-> r, of |-> t.of] \in unseen

\* The findings of an analysis are known, or it is about to insert them.
FindingsKnown(r) ==
    request[r].op \in Analyses =>
        /\ At(r, "insert") => On(request[r].rows) \subseteq Known \cup request[r].todo
        /\ At(r, "alert") \/ At(r, "done") => On(request[r].rows) \subseteq Known

\* A request raises alerts for threats that it inserted.
RaisesOwn(r) == At(r, "alert") => \A f \in request[r].todo : Threat(r, f) \in threats

RequestFits(r) == OpFits(r) /\ InsertsOwn(r) /\ Looked(r) /\ FindingsKnown(r) /\ RaisesOwn(r)

\* The request of a threat has inserted; it has its alert, is about to get it,
\* or the request failed.  A threat on an event is the event's request's.
ThreatFits(t) ==
    /\ request[t.by].pc \notin Looking
    /\ t.of.row[2] \in Events => t.by = t.of.row[1]
    /\ \/ t \in DOMAIN desk \/ At(t.by, "failed")
       \/ At(t.by, "alert") /\ t.of \in request[t.by].todo

AlertInv ==
    /\ AlertTypeInv /\ DuplicatesOverlapped
    /\ \A r \in Requests : RequestFits(r)
    /\ \A t \in threats : ThreatFits(t)
-----------------------------------------------------------------------------
(* The USB pipeline                                                          *)

AnyDrive  == Drives \cup {NoDrive}
Task      == [event : Nat, letter : Letters \cup {NoDrive}]
WorkerSet == [pc : {"idle", "scan", "send", "wait"}, task : Task, files : SUBSET Files, batch : SUBSET Files,
              call : Requests \cup {NoDrive}]

UsbTypeInv ==
    /\ mounted \in [Letters -> AnyDrive] /\ previous \in [Letters -> AnyDrive]
    /\ detector \in [pc : {"idle", "emit"}, snapshot : [Letters -> AnyDrive],
                     inserts : SUBSET Letters, removes : SUBSET Letters]
    /\ lastEvent \in [Letters -> {"none", "INSERT", "REMOVE"}]
    /\ usbEvents \in Seq([type : {"INSERT", "REMOVE"}, drive : AnyDrive])
    /\ scanQueue \in Seq([event : Nat, letter : Letters])
    /\ worker \in WorkerSet /\ vaulted \subseteq Files

\* An idle worker has no batch, and the batch that one waits for is stored.
BatchFits ==
    /\ worker.pc = "idle" => worker.batch = {}
    /\ worker.pc \in {"scan", "send", "wait"} => worker.task.letter \in Letters
    /\ worker.pc = "wait" => \A f \in worker.batch : <<worker.call, f>> \in stored

UsbInv == UsbTypeInv /\ BatchFits /\ VaultedReported

LEMMA OnFacts ==
    ASSUME NEW work \in SUBSET Rows
    PROVE  /\ On(work) \subseteq Findings
           /\ \A f \in On(work) : f.row \in work
  <1> SUFFICES ASSUME NEW f \in On(work) PROVE f \in Findings /\ f.row \in work
    OBVIOUS
  <1>1. PICK row \in work : f \in {[row |-> row, rule |-> rule] : rule \in Hits[row[2]]}
    BY DEF On
  <1>2. PICK rule \in Hits[row[2]] : f = [row |-> row, rule |-> rule]
    BY <1>1
  <1>3. row \in Rows /\ row[2] \in DOMAIN Hits
    BY ThreatAssumption DEF ThreatAssumption, Rows
  <1>4. rule \in UNION {Hits[s] : s \in DOMAIN Hits}
    BY <1>2, <1>3
  <1> QED BY <1>2, <1>3, <1>4 DEF Findings

LEMMA FindingFacts ==
    ASSUME NEW f \in Findings
    PROVE  f.row \in Rows /\ f.row[1] \in Requests /\ f.row[2] \in Files \cup Events /\ f = [row |-> f.row, rule |-> f.rule]
  BY DEF Findings, Rows

LEMMA ThreatFacts ==
    /\ \A t \in ThreatSet : t.by \in Requests /\ t.of \in Findings /\ t = [by |-> t.by, of |-> t.of]
    /\ \A r \in Requests, f \in Findings : Threat(r, f) \in ThreatSet /\ Threat(r, f).by = r /\ Threat(r, f).of = f
  BY DEF ThreatSet, Threat

LEMMA KnownFacts == \A f : f \in Known <=> \E t \in threats : t.of = f
  BY DEF Known

\* A request whose records stay fits, whatever else is inserted that it can see
\* or is said not to see.
LEMMA OthersFit ==
    ASSUME AlertInv, NEW r \in Requests, \A o \in Requests \ {r} : request'[o] = request[o],
           threats \subseteq threats', unseen \subseteq unseen',
           \A t \in threats' \ threats : \A o \in Requests \ {r} :
                At(o, "insert") /\ t.of \in request[o].todo => [by |-> o, of |-> t.of] \in unseen'
    PROVE  \A o \in Requests \ {r} : RequestFits(o)'
  <1> SUFFICES ASSUME NEW o \in Requests \ {r} PROVE RequestFits(o)'
    OBVIOUS
  <1>1. request'[o] = request[o] /\ RequestFits(o)
    BY DEF AlertInv
  <1>2. Known \subseteq Known'
    BY DEF Known
  <1>3. OpFits(o)' /\ InsertsOwn(o)' /\ RaisesOwn(o)'
    BY <1>1 DEF RequestFits, OpFits, InsertsOwn, RaisesOwn, At
  <1>4. Looked(o)'
    BY <1>1 DEF RequestFits, Looked, At
  <1>5. FindingsKnown(o)'
    BY <1>1, <1>2 DEF RequestFits, FindingsKnown, At
  <1> QED BY <1>3, <1>4, <1>5 DEF RequestFits

LEMMA OldThreatsFit ==
    ASSUME AlertInv, NEW r \in Requests, \A o \in Requests \ {r} : request'[o] = request[o],
           DOMAIN desk \subseteq DOMAIN desk'
    PROVE  \A t \in threats : t.by # r => ThreatFits(t)'
  <1> SUFFICES ASSUME NEW t \in threats, t.by # r PROVE ThreatFits(t)'
    OBVIOUS
  <1>1. ThreatFits(t) /\ t.by \in Requests
    BY ThreatFacts DEF AlertInv, AlertTypeInv
  <1>2. request'[t.by] = request[t.by]
    BY <1>1
  <1> QED BY <1>1, <1>2 DEF ThreatFits, At

\* A step of one request that inserts no threat.
LEMMA StepFits ==
    ASSUME AlertInv, NEW r \in Requests, NEW v \in RequestSet, To(r, v), UNCHANGED <<threats, unseen>>,
           stored' \subseteq FileRows, DOMAIN desk \subseteq DOMAIN desk', DOMAIN desk' \subseteq threats,
           \A t \in DOMAIN desk' : desk'[t] \in AlertSet, breaks' \in 0 .. MaxBreaks,
           RequestFits(r)', \A t \in threats : t.by = r => ThreatFits(t)'
    PROVE  AlertInv'
  <1>1. request' = [request EXCEPT ![r] = v]
    BY DEF To
  <1>2. request' \in [Requests -> RequestSet] /\ \A o \in Requests \ {r} : request'[o] = request[o]
    BY <1>1 DEF AlertInv, AlertTypeInv
  <1>3. AlertTypeInv'
    BY <1>2 DEF AlertInv, AlertTypeInv
  <1>4. \A o \in Requests \ {r} : RequestFits(o)'
    BY <1>2, OthersFit
  <1>5. \A t \in threats : t.by # r => ThreatFits(t)'
    BY <1>2, OldThreatsFit
  <1>6. DuplicatesOverlapped'
    BY DEF AlertInv, DuplicatesOverlapped
  <1> QED BY <1>3, <1>4, <1>5, <1>6 DEF AlertInv

\* A request that did not yet insert has no threats.
LEMMA NoThreatsYet ==
    ASSUME AlertInv, NEW r \in Requests, request[r].pc \in Looking
    PROVE  \A t \in threats : t.by # r
  BY DEF AlertInv, ThreatFits

LEMMA RequestType ==
    ASSUME AlertInv, NEW r \in Requests
    PROVE  /\ request[r] \in RequestSet /\ RequestFits(r) /\ request[r].pc \in Positions /\ request[r].rows \subseteq FileRows
           /\ stored \subseteq FileRows /\ threats \subseteq ThreatSet /\ DOMAIN desk \subseteq threats
           /\ \A t \in DOMAIN desk : desk[t] \in AlertSet
           /\ breaks \in 0 .. MaxBreaks
           /\ \A v : To(r, v) => request'[r] = v
  BY DEF AlertInv, AlertTypeInv, RequestSet, To

\* A request that begins to look, with no threats of its own.
LEMMA LooksFit ==
    ASSUME AlertInv, NEW r \in Requests, request[r].pc \in Looking, NEW v \in RequestSet, v.pc = "analyse", v.op \in Analyses, To(r, v),
           UNCHANGED <<threats, unseen, desk, breaks>>, stored' \subseteq FileRows
    PROVE  AlertInv'
  <1>1. request'[r] = v
    BY RequestType
  <1>2. RequestFits(r)'
    BY <1>1 DEF RequestFits, OpFits, InsertsOwn, Looked, FindingsKnown, RaisesOwn, At
  <1>3. \A t \in threats : t.by # r
    BY NoThreatsYet
  <1> QED BY <1>2, <1>3, RequestType, StepFits

LEMMA UploadFits ==
    ASSUME AlertInv, NEW r \in Requests, NEW files \in SUBSET Files, Upload(r, files)
    PROVE  AlertInv'
  <1> DEFINE added == {<<r, f>> : f \in files}
             v == [request[r] EXCEPT !.op = "upload", !.pc = "analyse", !.rows = added]
  <1>1. request[r].pc = "new" /\ stored' = stored \cup added /\ To(r, v) /\ UNCHANGED <<threats, desk, breaks, unseen>>
    BY DEF Upload, At
  <1>2. added \in SUBSET FileRows
    BY DEF FileRows
  <1> HIDE DEF added
  <1>3. v \in RequestSet /\ v.pc = "analyse" /\ v.op \in Analyses
    BY <1>2, RequestType DEF RequestSet, Positions, Looking, Analyses
  <1>4. stored' \subseteq FileRows
    BY <1>1, <1>2, RequestType
  <1> HIDE DEF v
  <1> QED BY <1>1, <1>3, <1>4, LooksFit DEF Looking

LEMMA ReanalyseFits ==
    ASSUME AlertInv, NEW r \in Requests, Reanalyse(r)
    PROVE  AlertInv'
  <1> DEFINE v == [request[r] EXCEPT !.op = "reanalyse", !.pc = "analyse", !.rows = stored]
  <1>1. request[r].pc = "new" /\ To(r, v) /\ UNCHANGED <<stored, threats, desk, breaks, unseen>>
    BY DEF Reanalyse, At
  <1>2. v \in RequestSet /\ v.pc = "analyse" /\ v.op \in Analyses
    BY RequestType DEF RequestSet, Positions, Looking, Analyses
  <1>3. stored' \subseteq FileRows
    BY <1>1, RequestType
  <1> HIDE DEF v
  <1> QED BY <1>1, <1>2, <1>3, LooksFit DEF Looking

LEMMA FileRowFacts ==
    FileRows \subseteq Rows /\ \A row \in FileRows : row[2] \notin Events
  BY ThreatAssumption DEF ThreatAssumption, FileRows, Rows

LEMMA AnalyseFits ==
    ASSUME AlertInv, NEW r \in Requests, Analyse(r)
    PROVE  AlertInv'
  <1> DEFINE fresh == Fresh(r)
             v == [request[r] EXCEPT !.todo = fresh, !.pc = IF fresh = {} THEN "done" ELSE "insert"]
  <1>1. request[r].pc = "analyse" /\ To(r, v) /\ UNCHANGED <<stored, threats, desk, breaks, unseen>>
    BY DEF Analyse, At
  <1>2. fresh = On(request[r].rows) \ Known
    BY DEF Fresh
  <1>3. fresh \subseteq Findings /\ \A f \in fresh : f.row[2] \notin Events
    BY <1>2, RequestType, OnFacts, FileRowFacts
  <1> HIDE DEF fresh
  <1>4. /\ v \in RequestSet /\ v.todo = fresh /\ v.op = request[r].op /\ v.rows = request[r].rows
        /\ v.pc = IF fresh = {} THEN "done" ELSE "insert"
    BY <1>3, RequestType DEF RequestSet, Positions, Looking
  <1> HIDE DEF v
  <1>5. request'[r] = v
    BY <1>1, RequestType
  <1>6. OpFits(r)'
    BY <1>3, <1>4, <1>5 DEF OpFits, At
  <1>7. \A f \in fresh : ~ \E t \in threats : t.of = f
    BY <1>2, KnownFacts
  <1>8. Looked(r)'
    BY <1>1, <1>4, <1>5, <1>7 DEF Looked, At
  <1>9. FindingsKnown(r)'
    BY <1>1, <1>2, <1>4, <1>5 DEF FindingsKnown, At, Known
  <1>10. \A t \in threats : t.by # r
    BY <1>1, NoThreatsYet DEF Looking
  <1>11. request[r].op # "pipeline"
    BY <1>1, RequestType DEF RequestFits, OpFits, At, Analyses
  <1>12. RequestFits(r)'
    BY <1>3, <1>4, <1>5, <1>6, <1>8, <1>9, <1>11 DEF RequestFits, InsertsOwn, RaisesOwn, At
  <1> QED BY <1>1, <1>4, <1>10, <1>12, RequestType, StepFits

LEMMA DetectFits ==
    ASSUME AlertInv, NEW r \in Requests, NEW op \in {"alert", "pipeline"}, NEW e \in Events, Detect(r, op, e)
    PROVE  AlertInv'
  <1> DEFINE found == On({<<r, e>>})
             v == [request[r] EXCEPT !.op = op, !.pc = "insert", !.todo = found]
  <1>1. request[r].pc = "new" /\ To(r, v) /\ UNCHANGED <<stored, threats, desk, breaks, unseen>>
    BY DEF Detect, At
  <1>2. {<<r, e>>} \in SUBSET Rows
    BY DEF Rows
  <1>3. found \subseteq Findings /\ \A f \in found : f.row = <<r, e>>
    BY <1>2, OnFacts
  <1> HIDE DEF found
  <1>4. v \in RequestSet /\ v.todo = found /\ v.op = op /\ v.pc = "insert"
    BY <1>3, RequestType DEF RequestSet, Positions, Looking
  <1> HIDE DEF v
  <1>5. request'[r] = v
    BY <1>1, RequestType
  <1>6. OpFits(r)' /\ InsertsOwn(r)'
    BY <1>3, <1>4, <1>5 DEF OpFits, InsertsOwn, At
  <1>7. \A t \in threats : t.by # r
    BY <1>1, NoThreatsYet DEF Looking
  <1>8. \A t \in threats : t.of \notin found
    <2> SUFFICES ASSUME NEW t \in threats, t.of \in found PROVE FALSE
      OBVIOUS
    <2>1. t.of.row = <<r, e>> /\ ThreatFits(t)
      BY <1>3 DEF AlertInv
    <2>2. t.by = r
      BY <2>1 DEF ThreatFits
    <2> QED BY <1>7, <2>2
  <1>9. Looked(r)'
    BY <1>1, <1>4, <1>5, <1>8 DEF Looked, At
  <1>10. FindingsKnown(r)' /\ RaisesOwn(r)'
    BY <1>4, <1>5 DEF FindingsKnown, Analyses, RaisesOwn, At
  <1> QED BY <1>1, <1>4, <1>6, <1>7, <1>9, <1>10, RequestType, StepFits DEF RequestFits

\* The inserts of a request that others cannot see any more.
Missed(r) == {[by |-> o, of |-> f] : f \in request[r].todo, o \in {q \in Requests \ {r} : At(q, "insert")}}

LEMMA MissedFacts ==
    ASSUME NEW r, NEW o \in Requests \ {r}, At(o, "insert"), NEW f \in request[r].todo
    PROVE  [by |-> o, of |-> f] \in Missed(r)
  BY DEF Missed

LEMMA InsertFits ==
    ASSUME AlertInv, NEW r \in Requests, Insert(r)
    PROVE  AlertInv'
  <1> DEFINE todo == request[r].todo
             new == {Threat(r, f) : f \in todo}
             v == [request[r] EXCEPT !.pc = "alert"]
  <1>1. /\ request[r].pc \in {"insert", "reinsert"} /\ threats' = threats \cup new /\ To(r, v)
        /\ unseen' = unseen \cup Missed(r) /\ UNCHANGED <<stored, desk, breaks>>
    BY DEF Insert, Missed
  <1>2. todo \subseteq Findings
    BY <1>1, RequestType DEF RequestFits, OpFits
  <1>3. /\ \A t \in new : t.by = r /\ t.of \in todo /\ t = [by |-> r, of |-> t.of]
        /\ \A f \in todo : Threat(r, f) \in new /\ Threat(r, f).of = f
        /\ new \subseteq ThreatSet
    BY <1>2, ThreatFacts
  <1>4. v \in RequestSet /\ v.pc = "alert" /\ v.todo = todo /\ v.op = request[r].op /\ v.rows = request[r].rows
    BY RequestType DEF RequestSet, Positions, Looking
  <1> HIDE DEF new, v
  <1>5. request'[r] = v /\ request' = [request EXCEPT ![r] = v]
    BY <1>1, RequestType DEF To
  <1>6. request' \in [Requests -> RequestSet] /\ \A o \in Requests \ {r} : request'[o] = request[o]
    BY <1>4, <1>5 DEF AlertInv, AlertTypeInv
  <1>7. AlertTypeInv'
    BY <1>1, <1>3, <1>6 DEF AlertInv, AlertTypeInv
  <1>8. \A o \in Requests \ {r} : RequestFits(o)'
    <2>1. \A t \in threats' \ threats : \A o \in Requests \ {r} :
             At(o, "insert") /\ t.of \in request[o].todo => [by |-> o, of |-> t.of] \in unseen'
      BY <1>1, <1>3, MissedFacts
    <2>2. threats \subseteq threats' /\ unseen \subseteq unseen'
      BY <1>1
    <2> QED BY <1>6, <2>1, <2>2, OthersFit
  <1>9. RequestFits(r)'
    <2>1. RequestFits(r)
      BY RequestType
    <2>2. OpFits(r)' /\ InsertsOwn(r)' /\ Looked(r)' /\ RaisesOwn(r)'
      BY <1>1, <1>2, <1>3, <1>4, <1>5 DEF OpFits, InsertsOwn, Looked, RaisesOwn, At
    <2>3. Known \cup todo \subseteq Known'
      BY <1>1, <1>3, KnownFacts DEF Known
    <2>4. FindingsKnown(r)'
      <3>1. CASE request[r].pc = "insert"
        BY <1>4, <1>5, <2>1, <2>3, <3>1 DEF RequestFits, FindingsKnown, At
      <3>2. CASE request[r].pc = "reinsert"
        <4>1. request[r].op = "pipeline"
          BY <2>1, <3>2 DEF RequestFits, OpFits, At
        <4> QED BY <1>4, <1>5, <4>1 DEF FindingsKnown, Analyses
      <3> QED BY <1>1, <3>1, <3>2
    <2> QED BY <2>2, <2>4 DEF RequestFits
  <1>10. \A t \in threats' : ThreatFits(t)'
    <2>1. \A t \in threats : t.by # r
      BY <1>1, NoThreatsYet DEF Looking
    <2>2. ASSUME NEW t \in new PROVE ThreatFits(t)'
      <3>1. t.by = r /\ t.of \in todo
        BY <1>3
      <3>2. t.of.row[2] \in Events => t.of.row[1] = r
        BY <1>1, <3>1, RequestType DEF RequestFits, InsertsOwn
      <3> QED BY <1>4, <1>5, <3>1, <3>2 DEF ThreatFits, At, Looking
    <2>3. \A t \in threats : ThreatFits(t)'
      BY <1>1, <1>6, <2>1, OldThreatsFit
    <2> QED BY <1>1, <2>2, <2>3
  <1>11. DuplicatesOverlapped'
    <2>1. ASSUME NEW s \in threats, NEW t \in new, s.of = t.of
          PROVE  [by |-> t.by, of |-> s.of] \in unseen
      <3>1. t.by = r /\ s.of \in todo /\ t.of \in todo
        BY <1>3, <2>1
      <3>2. CASE request[r].pc = "insert"
        BY <3>1, <3>2, RequestType DEF RequestFits, Looked, At
      <3>3. CASE request[r].pc = "reinsert"
        <4>1. request[r].op = "pipeline"
          BY <3>3, RequestType DEF RequestFits, OpFits, At
        <4>2. s.of.row[2] \in Events /\ s.of.row[1] = r
          BY <1>1, <3>1, <4>1, RequestType DEF RequestFits, InsertsOwn
        <4>3. s.by = r
          BY <4>2 DEF AlertInv, ThreatFits
        <4> QED BY <1>1, <4>3, NoThreatsYet DEF Looking
      <3> QED BY <1>1, <3>2, <3>3
    <2>2. \A s, t \in new : s.of = t.of => s = t
      BY <1>3
    <2>3. \A s, t \in threats : s.of = t.of /\ s # t =>
            [by |-> s.by, of |-> t.of] \in unseen \/ [by |-> t.by, of |-> s.of] \in unseen
      BY DEF AlertInv, DuplicatesOverlapped
    <2>4. ASSUME NEW s \in threats', NEW t \in threats', s.of = t.of, s # t
          PROVE  [by |-> s.by, of |-> t.of] \in unseen' \/ [by |-> t.by, of |-> s.of] \in unseen'
      <3>1. CASE s \in threats /\ t \in threats
        BY <1>1, <2>3, <2>4, <3>1
      <3>2. CASE s \in threats /\ t \in new
        BY <1>1, <2>1, <2>4, <3>2
      <3>3. CASE s \in new /\ t \in threats
        BY <1>1, <2>1, <2>4, <3>3
      <3>4. CASE s \in new /\ t \in new
        BY <2>2, <2>4, <3>4
      <3> QED BY <1>1, <3>1, <3>2, <3>3, <3>4
    <2> QED BY <2>4 DEF DuplicatesOverlapped
  <1> QED BY <1>7, <1>8, <1>9, <1>10, <1>11 DEF AlertInv

\* A request that goes on with its alerts, or no further.
LEMMA GoesOnFits ==
    ASSUME AlertInv, NEW r \in Requests, NEW v \in RequestSet, To(r, v), UNCHANGED <<threats, unseen, stored>>,
           v.pc \in {"alert", "respond", "done", "failed"}, v.op = request[r].op, v.rows = request[r].rows,
           v.todo \subseteq request[r].todo, request[r].pc \in {"alert", "respond", "write", "insert", "reinsert"},
           v.pc = "respond" => v.op = "pipeline",
           v.pc \in {"alert", "done"} => request[r].pc \notin {"insert", "reinsert"},
           v.pc = "alert" => request[r].pc = "alert",
           request[r].pc = "write" => v.op \in DeskOps,
           DOMAIN desk \subseteq DOMAIN desk', DOMAIN desk' \subseteq threats, \A t \in DOMAIN desk' : desk'[t] \in AlertSet,
           breaks' \in 0 .. MaxBreaks,
           \A t \in threats : t.by = r => \/ t \in DOMAIN desk' \/ v.pc = "failed"
                                          \/ v.pc = "alert" /\ t.of \in v.todo
    PROVE  AlertInv'
  <1>1. request'[r] = v
    BY RequestType
  <1>2. RequestFits(r)
    BY RequestType
  <1>3. OpFits(r)' /\ InsertsOwn(r)' /\ Looked(r)' /\ RaisesOwn(r)'
    BY <1>1, <1>2 DEF RequestFits, OpFits, InsertsOwn, Looked, RaisesOwn, At
  <1>4. FindingsKnown(r)'
    <2> SUFFICES ASSUME v.op \in Analyses, v.pc \in {"alert", "done"} PROVE On(v.rows) \subseteq Known
      BY <1>1 DEF FindingsKnown, At, Known
    <2>1. request[r].pc = "alert"
      BY <1>2 DEF RequestFits, OpFits, At, Analyses, DeskOps
    <2> QED BY <1>2, <2>1 DEF RequestFits, FindingsKnown, At
  <1>5. \A t \in threats : t.by = r => ThreatFits(t)'
    BY <1>1 DEF AlertInv, ThreatFits, At, Looking
  <1> QED BY <1>3, <1>4, <1>5, RequestType, StepFits DEF RequestFits

LEMMA RaiseFits ==
    ASSUME AlertInv, NEW r \in Requests, NEW f \in request[r].todo, Raise(r, f)
    PROVE  AlertInv'
  <1> DEFINE t == Threat(r, f)
             next == AfterAlert(r, f)
             v == [request[r] EXCEPT !.todo = @ \ {f}, !.pc = next]
  <1>1. /\ request[r].pc = "alert" /\ To(r, v) /\ UNCHANGED <<stored, threats, breaks, unseen>>
        /\ desk' = [o \in DOMAIN desk \cup {t} |-> IF o \in DOMAIN desk THEN desk[o] ELSE Alert("UNREAD")]
    BY DEF Raise, At
  <1>2. f \in Findings /\ t \in threats /\ t.by = r /\ t.of = f
    BY <1>1, RequestType, ThreatFacts DEF RequestFits, OpFits, RaisesOwn, At
  <1> HIDE DEF t
  <1>3. /\ next \in {"alert", "respond", "done"} /\ (next = "respond" => request[r].op = "pipeline")
        /\ next # "alert" => request[r].todo = {f}
    BY DEF AfterAlert
  <1> HIDE DEF next
  <1>4. /\ v \in RequestSet /\ v.pc = next /\ v.op = request[r].op /\ v.rows = request[r].rows
        /\ v.todo = request[r].todo \ {f}
    BY <1>3, RequestType DEF RequestSet, Positions, Looking
  <1> HIDE DEF v
  <1>5. Alert("UNREAD") \in AlertSet
    BY DEF Alert, AlertSet
  <1>6. /\ DOMAIN desk' = DOMAIN desk \cup {t} /\ DOMAIN desk' \subseteq threats
        /\ \A o \in DOMAIN desk' : desk'[o] \in AlertSet
    BY <1>1, <1>2, <1>5, RequestType
  <1>7. ASSUME NEW o \in threats, o.by = r
        PROVE  \/ o \in DOMAIN desk'
               \/ v.pc = "alert" /\ o.of \in v.todo
    <2>1. o \in DOMAIN desk \/ o.of \in request[r].todo
      BY <1>1, <1>7 DEF AlertInv, ThreatFits, At
    <2>2. o.of = f => o = t
      BY <1>2, <1>7, RequestType, ThreatFacts
    <2> QED BY <1>3, <1>4, <1>6, <2>1, <2>2
  <1> QED BY <1>1, <1>3, <1>4, <1>6, <1>7, RequestType, GoesOnFits

LEMMA RespondFits ==
    ASSUME AlertInv, NEW r \in Requests, Respond(r)
    PROVE  AlertInv'
  <1> DEFINE v == [request[r] EXCEPT !.pc = "done"]
  <1>1. request[r].pc = "respond" /\ To(r, v) /\ UNCHANGED <<stored, threats, desk, breaks, unseen>>
    BY DEF Respond, At
  <1>2. /\ v \in RequestSet /\ v.pc = "done" /\ v.op = request[r].op /\ v.rows = request[r].rows
        /\ v.todo = request[r].todo
    BY RequestType DEF RequestSet, Positions, Looking
  <1> HIDE DEF v
  <1>3. \A t \in threats : t.by = r => t \in DOMAIN desk'
    BY <1>1 DEF AlertInv, ThreatFits, At
  <1> QED BY <1>1, <1>2, <1>3, RequestType, GoesOnFits

LEMMA BreakFits ==
    ASSUME AlertInv, NEW r \in Requests, Break(r)
    PROVE  AlertInv'
  <1> DEFINE again == request[r].op = "pipeline" /\ request[r].pc = "insert"
             v == [request[r] EXCEPT !.pc = IF again THEN "reinsert" ELSE "failed"]
  <1>1. /\ request[r].pc \in {"insert", "reinsert", "alert"} /\ To(r, v) /\ breaks < MaxBreaks /\ breaks' = breaks + 1
        /\ UNCHANGED <<stored, threats, desk, unseen>>
    BY DEF Break, Broken
  <1>2. /\ v \in RequestSet /\ v.pc = (IF again THEN "reinsert" ELSE "failed") /\ v.op = request[r].op
        /\ v.rows = request[r].rows /\ v.todo = request[r].todo
    BY RequestType DEF RequestSet, Positions, Looking
  <1>3. breaks' \in 0 .. MaxBreaks
    BY <1>1, RequestType, ThreatAssumption DEF ThreatAssumption
  <1> HIDE DEF v
  <1>4. CASE ~again
    BY <1>1, <1>2, <1>3, <1>4, RequestType, GoesOnFits
  <1>5. CASE again
    <2>1. request'[r] = v /\ v.pc = "reinsert" /\ v.op = "pipeline" /\ request[r].pc = "insert"
      BY <1>1, <1>2, <1>5, RequestType
    <2>2. RequestFits(r)
      BY RequestType
    <2>3. RequestFits(r)'
      BY <1>2, <2>1, <2>2 DEF RequestFits, OpFits, InsertsOwn, Looked, FindingsKnown, RaisesOwn, At, Analyses
    <2>4. \A t \in threats : t.by # r
      BY <2>1, NoThreatsYet DEF Looking
    <2> QED BY <1>1, <1>2, <1>3, <2>3, <2>4, RequestType, StepFits
  <1> QED BY <1>4, <1>5

\* A request that loads alerts has no threats.
LEMMA LoadAlertsFits ==
    ASSUME AlertInv, NEW r \in Requests, NEW op \in DeskOps, NEW ts, LoadAlerts(r, op, ts)
    PROVE  AlertInv'
  <1> DEFINE same == {t \in ts : desk[t].status = op}
             v == [request[r] EXCEPT !.op = op, !.pc = "write", !.todo = ts, !.seen = same]
  <1>1. /\ request[r].pc = "new" /\ ts \subseteq DOMAIN desk /\ To(r, v)
        /\ UNCHANGED <<stored, threats, desk, breaks, unseen>>
    BY DEF LoadAlerts, At
  <1>2. ts \subseteq ThreatSet /\ same \subseteq ThreatSet
    BY <1>1, RequestType
  <1> HIDE DEF same
  <1>3. v \in RequestSet /\ v.pc = "write" /\ v.op = op
    BY <1>2, RequestType DEF RequestSet, Positions, Looking
  <1> HIDE DEF v
  <1>4. request'[r] = v
    BY <1>1, RequestType
  <1>5. RequestFits(r)'
    BY <1>3, <1>4 DEF RequestFits, OpFits, InsertsOwn, Looked, FindingsKnown, RaisesOwn, At, Analyses, DeskOps
  <1>6. \A t \in threats : t.by # r
    BY <1>1, NoThreatsYet DEF Looking
  <1> QED BY <1>1, <1>3, <1>5, <1>6, RequestType, StepFits

LEMMA WriteAlertsFits ==
    ASSUME AlertInv, NEW r \in Requests, WriteAlerts(r)
    PROVE  AlertInv'
  <1> DEFINE op == request[r].op
             written(t) == [Stamped(desk[t], op) EXCEPT !.status = IF t \in request[r].seen THEN @ ELSE op]
             v == [request[r] EXCEPT !.pc = "done"]
  <1>1. /\ request[r].pc = "write" /\ To(r, v) /\ UNCHANGED <<stored, threats, breaks, unseen>>
        /\ desk' = [t \in DOMAIN desk |-> IF t \in request[r].todo THEN written(t) ELSE desk[t]]
    BY DEF WriteAlerts, At
  <1>2. op \in DeskOps
    BY <1>1, RequestType DEF RequestFits, OpFits, At
  <1>3. ASSUME NEW t \in DOMAIN desk PROVE written(t) \in AlertSet
    <2>1. desk[t] \in AlertSet
      BY RequestType
    <2> DEFINE stamped == Stamped(desk[t], op)
    <2>2. stamped \in AlertSet
      BY <2>1 DEF Stamped, AlertSet
    <2>3. written(t) = [stamped EXCEPT !.status = IF t \in request[r].seen THEN stamped.status ELSE op]
      OBVIOUS
    <2> HIDE DEF stamped, written
    <2> QED BY <1>2, <2>2, <2>3 DEF AlertSet
  <1> HIDE DEF written
  <1>4. DOMAIN desk' = DOMAIN desk /\ \A t \in DOMAIN desk' : desk'[t] \in AlertSet
    BY <1>1, <1>3, RequestType
  <1>5. v \in RequestSet /\ v.pc = "done" /\ v.op = op /\ v.rows = request[r].rows /\ v.todo = request[r].todo
    BY RequestType DEF RequestSet, Positions, Looking
  <1> HIDE DEF v
  <1>6. \A t \in threats : t.by = r => t \in DOMAIN desk'
    BY <1>1, <1>4 DEF AlertInv, ThreatFits, At
  <1> QED BY <1>1, <1>2, <1>4, <1>5, <1>6, RequestType, GoesOnFits

LEMMA AlertInitially ==
    ASSUME AlertInit
    PROVE  AlertInv
  <1>1. /\ stored = {} /\ threats = {} /\ desk = << >> /\ breaks = 0 /\ unseen = {}
        /\ request = [r \in Requests |-> NewRequest]
    BY DEF AlertInit
  <1>2. NewRequest \in RequestSet /\ NewRequest.pc = "new" /\ NewRequest.op = "none"
    BY DEF NewRequest, RequestSet, Positions, Looking
  <1>3. AlertTypeInv
    BY <1>1, <1>2, ThreatAssumption DEF ThreatAssumption, AlertTypeInv
  <1>4. \A r \in Requests : RequestFits(r)
    BY <1>1, <1>2 DEF RequestFits, OpFits, InsertsOwn, Looked, FindingsKnown, RaisesOwn, At, Analyses
  <1> QED BY <1>1, <1>3, <1>4 DEF AlertInv, DuplicatesOverlapped

LEMMA BackendStepFits ==
    ASSUME AlertInv, BackendStep
    PROVE  AlertInv' /\ stored' = stored
  <1>1. PICK r \in Requests : \/ Proceed(r) \/ Reanalyse(r) \/ DeskWork(r)
                              \/ \E op \in {"alert", "pipeline"}, e \in Events : Detect(r, op, e)
    BY DEF BackendStep
  <1>2. CASE Proceed(r)
    <2>1. stored' = stored
      <3>1. Analyse(r) \/ Insert(r) \/ Respond(r) \/ WriteAlerts(r) \/ Break(r) => UNCHANGED stored
        BY DEF Analyse, Insert, Respond, WriteAlerts, Break
      <3>2. \A f : Raise(r, f) => UNCHANGED stored
        BY DEF Raise
      <3> QED BY <1>2, <3>1, <3>2 DEF Proceed
    <2>2. AlertInv'
      BY <1>2, AnalyseFits, InsertFits, RespondFits, WriteAlertsFits, BreakFits, RaiseFits DEF Proceed
    <2> QED BY <2>1, <2>2
  <1>3. CASE Reanalyse(r)
    BY <1>3, ReanalyseFits DEF Reanalyse
  <1>4. CASE DeskWork(r)
    <2>1. \E op \in DeskOps : \E ts : LoadAlerts(r, op, ts)
      BY <1>4 DEF DeskWork, LoadUnread, DeskOps
    <2> QED BY <2>1, LoadAlertsFits DEF LoadAlerts
  <1>5. CASE \E op \in {"alert", "pipeline"}, e \in Events : Detect(r, op, e)
    BY <1>5, DetectFits DEF Detect
  <1> QED BY <1>1, <1>2, <1>3, <1>4, <1>5

-----------------------------------------------------------------------------

\* A step that leaves what is said of the worker.
LEMMA WorkerStays ==
    ASSUME UsbInv, UNCHANGED <<worker, vaulted, unreported>>, stored \subseteq stored'
    PROVE  BatchFits' /\ VaultedReported'
  BY DEF UsbInv, BatchFits, VaultedReported

LEMMA WorkerType ==
    ASSUME UsbInv
    PROVE  /\ worker \in WorkerSet /\ worker.task \in Task /\ worker.files \subseteq Files /\ worker.batch \subseteq Files
           /\ vaulted \subseteq Files
  BY DEF UsbInv, UsbTypeInv, WorkerSet

LEMMA IdleWorkerType == IdleWorker \in WorkerSet /\ IdleWorker.pc = "idle" /\ IdleWorker.batch = {}
  BY DEF IdleWorker, WorkerSet, Task, NoTask

LEMMA DriveSteps ==
    ASSUME UsbInv, NEW l \in Letters, PullOut(l) \/ \E d \in Drives : PlugIn(l, d)
    PROVE  UsbInv' /\ UNCHANGED alertVars
  <1>1. /\ \E d \in AnyDrive : mounted' = [mounted EXCEPT ![l] = d]
        /\ UNCHANGED <<alertVars, detector, previous, lastEvent, usbEvents, scanQueue, scanning, worker,
                       vaulted, losses, unreported>>
    BY DEF PullOut, PlugIn, AnyDrive
  <1>2. UsbTypeInv'
    BY <1>1 DEF UsbInv, UsbTypeInv
  <1>3. stored \subseteq stored'
    BY <1>1 DEF alertVars
  <1> QED BY <1>1, <1>2, <1>3, WorkerStays DEF UsbInv

LEMMA PollSteps ==
    ASSUME UsbInv, Poll
    PROVE  UsbInv' /\ UNCHANGED alertVars
  <1>1. PICK missed \in SUBSET Present(mounted) :
          LET drives == [l \in Letters |-> IF l \in missed THEN NoDrive ELSE mounted[l]]
          IN  detector' = [pc |-> "emit", snapshot |-> drives,
                           inserts |-> Inserted(drives), removes |-> Removed(drives)]
    BY DEF Poll
  <1> DEFINE drives == [l \in Letters |-> IF l \in missed THEN NoDrive ELSE mounted[l]]
  <1>2. UNCHANGED <<alertVars, mounted, previous, lastEvent, usbEvents, scanQueue, scanning, worker, vaulted, swaps, unreported>>
    BY DEF Poll
  <1>3. drives \in [Letters -> AnyDrive]
    BY DEF UsbInv, UsbTypeInv, AnyDrive
  <1> HIDE DEF drives
  <1>4. Inserted(drives) \subseteq Letters /\ Removed(drives) \subseteq Letters
    BY DEF Inserted, Removed, Present
  <1>5. detector' = [pc |-> "emit", snapshot |-> drives, inserts |-> Inserted(drives), removes |-> Removed(drives)]
    BY <1>1 DEF drives
  <1>6. detector' \in [pc : {"idle", "emit"}, snapshot : [Letters -> AnyDrive], inserts : SUBSET Letters, removes : SUBSET Letters]
    BY <1>3, <1>4, <1>5
  <1>7. UsbTypeInv'
    BY <1>2, <1>6 DEF UsbInv, UsbTypeInv
  <1>8. stored \subseteq stored'
    BY <1>2 DEF alertVars
  <1> QED BY <1>2, <1>7, <1>8, WorkerStays DEF UsbInv

LEMMA EmitSteps ==
    ASSUME UsbInv, NEW l \in Letters, NEW type \in {"INSERT", "REMOVE"}, Emit(l, type) \/ EmitFails(l, type) \/ EmitRepeats(l, type)
    PROVE  UsbInv' /\ UNCHANGED alertVars
  <1> DEFINE Polled == [pc : {"idle", "emit"}, snapshot : [Letters -> AnyDrive], inserts : SUBSET Letters, removes : SUBSET Letters]
             Report == [type : {"INSERT", "REMOVE"}, drive : AnyDrive]
  <1>1. UNCHANGED <<alertVars, mounted, previous, scanning, worker, vaulted, swaps, unreported>>
    BY DEF Emit, EmitFails, EmitRepeats
  <1>2. /\ detector \in Polled /\ lastEvent \in [Letters -> {"none", "INSERT", "REMOVE"}] /\ usbEvents \in Seq(Report)
        /\ scanQueue \in Seq([event : Nat, letter : Letters])
        /\ mounted \in [Letters -> AnyDrive] /\ previous \in [Letters -> AnyDrive] /\ worker \in WorkerSet /\ vaulted \subseteq Files
    BY DEF UsbInv, UsbTypeInv
  <1>3. Emitted(l, type) => detector' \in Polled /\ lastEvent' \in [Letters -> {"none", "INSERT", "REMOVE"}]
    <2> SUFFICES ASSUME Emitted(l, type) PROVE detector' \in Polled /\ lastEvent' \in [Letters -> {"none", "INSERT", "REMOVE"}]
      OBVIOUS
    <2>1. detector' \in Polled
      BY <1>2 DEF Emitted
    <2>2. lastEvent' \in [Letters -> {"none", "INSERT", "REMOVE"}]
      BY <1>2 DEF Emitted
    <2> QED BY <2>1, <2>2
  <1>4. Reported(l, type) => usbEvents' \in Seq(Report)
    <2> SUFFICES ASSUME Reported(l, type) PROVE usbEvents' \in Seq(Report)
      OBVIOUS
    <2> DEFINE drive == IF type = "INSERT" THEN detector.snapshot[l] ELSE previous[l]
    <2>1. drive \in AnyDrive
      BY <1>2
    <2> HIDE DEF drive
    <2>2. usbEvents' = Append(usbEvents, [type |-> type, drive |-> drive])
      BY DEF Reported, drive
    <2>3. [type |-> type, drive |-> drive] \in Report
      BY <2>1
    <2> HIDE DEF Report
    <2> QED BY <1>2, <2>2, <2>3
  <1> HIDE DEF Polled, Report
  <1>5. detector' \in Polled /\ lastEvent' \in [Letters -> {"none", "INSERT", "REMOVE"}] /\ usbEvents' \in Seq(Report)
    <2>1. Emit(l, type) => Emitted(l, type) /\ Reported(l, type)
      BY DEF Emit
    <2>2. EmitFails(l, type) => Emitted(l, type) /\ UNCHANGED usbEvents
      BY DEF EmitFails
    <2>3. EmitRepeats(l, type) => Reported(l, type) /\ UNCHANGED <<detector, lastEvent>>
      BY DEF EmitRepeats
    <2> QED BY <1>2, <1>3, <1>4, <2>1, <2>2, <2>3
  <1>6. scanQueue' \in Seq([event : Nat, letter : Letters])
    <2>1. EmitFails(l, type) \/ EmitRepeats(l, type) => UNCHANGED scanQueue
      BY DEF EmitFails, EmitRepeats
    <2>2. Emit(l, type) => UNCHANGED scanQueue \/ scanQueue' = Append(scanQueue, [event |-> Len(usbEvents'), letter |-> l])
      BY DEF Emit
    <2>3. Len(usbEvents') \in Nat
      BY <1>5
    <2>4. Append(scanQueue, [event |-> Len(usbEvents'), letter |-> l]) \in Seq([event : Nat, letter : Letters])
      <3> DEFINE n == Len(usbEvents')
      <3> HIDE DEF n
      <3>1. n \in Nat => Append(scanQueue, [event |-> n, letter |-> l]) \in Seq([event : Nat, letter : Letters])
        BY <1>2
      <3> QED BY <2>3, <3>1 DEF n
    <2> QED BY <1>2, <2>1, <2>2, <2>4
  <1>7. UsbTypeInv'
    BY <1>1, <1>2, <1>5, <1>6 DEF UsbTypeInv, Polled, Report
  <1>8. stored \subseteq stored'
    BY <1>1 DEF alertVars
  <1> QED BY <1>1, <1>7, <1>8, WorkerStays DEF UsbInv

LEMMA PollEndSteps ==
    ASSUME UsbInv, PollEnds \/ UpdatePolicy
    PROVE  UsbInv' /\ UNCHANGED alertVars
  <1>1. UNCHANGED <<alertVars, mounted, lastEvent, usbEvents, scanQueue, worker, vaulted, swaps, losses, unreported>>
    BY DEF PollEnds, UpdatePolicy
  <1>2. CASE PollEnds
    <2>1. previous' = detector.snapshot /\ detector' = [detector EXCEPT !.pc = "idle"]
      BY <1>2 DEF PollEnds
    <2> QED BY <1>1, <2>1, WorkerStays DEF UsbInv, UsbTypeInv, alertVars
  <1>3. CASE UpdatePolicy
    <2>1. UNCHANGED <<previous, detector>>
      BY <1>3 DEF UpdatePolicy
    <2> QED BY <1>1, <2>1, WorkerStays DEF UsbInv, UsbTypeInv, alertVars
  <1> QED BY <1>2, <1>3

\* What the worker leaves.
LEMMA StepTypes ==
    ASSUME UsbInv, NEW next, Step(next), next \in WorkerSet, scanQueue' \in Seq([event : Nat, letter : Letters]),
           vaulted' \subseteq Files
    PROVE  UsbTypeInv' /\ worker' = next
  BY DEF Step, UsbInv, UsbTypeInv

LEMMA EnumerateSteps ==
    ASSUME UsbInv, Enumerate
    PROVE  UsbInv' /\ UNCHANGED alertVars
  <1> DEFINE task  == Head(scanQueue)
             found == IF mounted[task.letter] = NoDrive \/ ~scanning THEN {} ELSE Holds[mounted[task.letter]] \ vaulted
             busy  == [IdleWorker EXCEPT !.pc = "scan", !.task = task, !.files = found]
             next  == IF found = {} THEN IdleWorker ELSE busy
  <1>1. /\ worker.pc = "idle" /\ scanQueue # << >> /\ scanQueue' = Tail(scanQueue) /\ Step(next)
        /\ UNCHANGED <<alertVars, vaulted, losses, unreported>>
    BY DEF Enumerate, Working
  <1>2. scanQueue \in Seq([event : Nat, letter : Letters])
    BY DEF UsbInv, UsbTypeInv
  <1>3. task \in [event : Nat, letter : Letters] /\ scanQueue' \in Seq([event : Nat, letter : Letters])
    <2> DEFINE Tasks == [event : Nat, letter : Letters]
    <2> HIDE DEF Tasks
    <2>1. \A q \in Seq(Tasks) : q # << >> => Head(q) \in Tasks /\ Tail(q) \in Seq(Tasks)
      OBVIOUS
    <2> QED BY <1>1, <1>2, <2>1 DEF Tasks
  <1> HIDE DEF task
  <1>4. found \subseteq Files
    <2>1. mounted[task.letter] \in AnyDrive
      BY <1>3 DEF UsbInv, UsbTypeInv
    <2> QED BY <2>1, UsbAssumption DEF UsbAssumption, AnyDrive
  <1> HIDE DEF found
  <1>5. busy \in WorkerSet /\ busy.pc = "scan" /\ busy.batch = {} /\ busy.task.letter \in Letters
    BY <1>3, <1>4, IdleWorkerType DEF WorkerSet, Task
  <1> HIDE DEF busy
  <1>6. /\ next \in WorkerSet /\ next.batch = {} /\ next.pc \in {"idle", "scan"}
        /\ next.pc = "scan" => next.task.letter \in Letters
    BY <1>5, IdleWorkerType
  <1> HIDE DEF next
  <1>7. vaulted' \subseteq Files
    BY <1>1, WorkerType
  <1>8. UsbTypeInv' /\ worker' = next
    BY <1>1, <1>3, <1>6, <1>7, StepTypes
  <1>9. stored' = stored
    BY <1>1 DEF alertVars
  <1>10. BatchFits'
    BY <1>6, <1>8 DEF BatchFits
  <1>11. VaultedReported'
    BY <1>1, <1>8, <1>9 DEF UsbInv, BatchFits, VaultedReported
  <1> QED BY <1>1, <1>8, <1>10, <1>11 DEF UsbInv

LEMMA ScanFileSteps ==
    ASSUME UsbInv, NEW f \in worker.files, ScanFile(f)
    PROVE  UsbInv' /\ UNCHANGED alertVars
  <1> DEFINE taken == f \notin Ignored /\ Readable(f)
             batch == IF taken THEN BatchWith(f) ELSE worker.batch
             rest  == worker.files \ {f}
             pc    == IF Full(batch) \/ (rest = {} /\ batch # {}) THEN "send" ELSE IF rest = {} THEN "idle" ELSE "scan"
             next  == [worker EXCEPT !.files = rest, !.batch = batch, !.pc = pc]
  <1>1. /\ worker.pc = "scan" /\ Step(next) /\ UNCHANGED <<alertVars, scanQueue, losses, unreported>>
        /\ vaulted' = IF taken /\ AutoQuarantine /\ f \in Dangerous THEN vaulted \cup {f} ELSE vaulted
    BY DEF ScanFile, Working
  <1>2. f \in Files /\ batch \subseteq Files /\ worker.batch \subseteq batch /\ (taken => f \in batch) /\ rest \subseteq Files
    BY WorkerType DEF BatchWith
  <1> HIDE DEF batch, rest, taken
  <1>3. pc \in {"send", "idle", "scan"} /\ (pc = "idle" => batch = {})
    OBVIOUS
  <1> HIDE DEF pc
  <1>4. next \in WorkerSet /\ next.pc = pc /\ next.batch = batch /\ next.task = worker.task
    BY <1>2, <1>3, WorkerType DEF WorkerSet
  <1> HIDE DEF next
  <1>5. vaulted' \subseteq Files /\ scanQueue' \in Seq([event : Nat, letter : Letters])
    BY <1>1, <1>2, WorkerType DEF UsbInv, UsbTypeInv
  <1>6. UsbTypeInv' /\ worker' = next
    BY <1>1, <1>4, <1>5, StepTypes
  <1>7. stored' = stored
    BY <1>1 DEF alertVars
  <1>8. BatchFits'
    BY <1>1, <1>3, <1>4, <1>6 DEF UsbInv, BatchFits
  <1>9. VaultedReported'
    BY <1>1, <1>2, <1>4, <1>6, <1>7 DEF UsbInv, VaultedReported
  <1> QED BY <1>1, <1>6, <1>8, <1>9 DEF UsbInv

LEMMA SendSteps ==
    ASSUME UsbInv, AlertInv, NEW r \in Requests, Send(r)
    PROVE  UsbInv' /\ AlertInv'
  <1> DEFINE next == [worker EXCEPT !.pc = "wait", !.call = r]
  <1>1. worker.pc = "send" /\ Upload(r, worker.batch) /\ Step(next) /\ UNCHANGED <<scanQueue, vaulted, losses, unreported>>
    BY DEF Send, Working
  <1>2. /\ next \in WorkerSet /\ next.pc = "wait" /\ next.batch = worker.batch /\ next.call = r /\ next.task = worker.task
    BY WorkerType DEF WorkerSet
  <1> HIDE DEF next
  <1>3. vaulted' \subseteq Files /\ scanQueue' \in Seq([event : Nat, letter : Letters])
    BY <1>1, WorkerType DEF UsbInv, UsbTypeInv
  <1>4. UsbTypeInv' /\ worker' = next
    BY <1>1, <1>2, <1>3, StepTypes
  <1>5. stored' = stored \cup {<<r, f>> : f \in worker.batch}
    BY <1>1 DEF Upload
  <1>6. BatchFits'
    BY <1>1, <1>2, <1>4, <1>5 DEF UsbInv, BatchFits
  <1>7. VaultedReported'
    BY <1>1, <1>2, <1>4, <1>5 DEF UsbInv, VaultedReported
  <1>8. AlertInv'
    BY <1>1, WorkerType, UploadFits
  <1> QED BY <1>4, <1>6, <1>7, <1>8 DEF UsbInv

\* The batch that ends is stored or unreported.
LEMMA BatchEnds ==
    ASSUME UsbInv, Step(AfterBatch), UNCHANGED <<alertVars, scanQueue, vaulted>>, worker.pc \in {"send", "wait"},
           unreported \subseteq unreported',
           \A f \in worker.batch : f \in unreported' \/ \E r \in Requests : <<r, f>> \in stored
    PROVE  UsbInv' /\ UNCHANGED alertVars
  <1> DEFINE on == [worker EXCEPT !.pc = "scan", !.batch = {}]
  <1>1. on \in WorkerSet /\ on.pc = "scan" /\ on.batch = {} /\ on.task = worker.task
    BY WorkerType DEF WorkerSet
  <1>2. AfterBatch = IF worker.files = {} THEN IdleWorker ELSE on
    BY DEF AfterBatch
  <1> HIDE DEF on
  <1>3. AfterBatch \in WorkerSet /\ AfterBatch.batch = {} /\ AfterBatch.pc \in {"idle", "scan"}
    BY <1>1, <1>2, IdleWorkerType
  <1>4. AfterBatch.pc = "scan" => AfterBatch.task.letter \in Letters
    BY <1>1, <1>2, IdleWorkerType DEF UsbInv, BatchFits
  <1>5. vaulted' \subseteq Files /\ scanQueue' \in Seq([event : Nat, letter : Letters])
    BY WorkerType DEF UsbInv, UsbTypeInv
  <1>6. UsbTypeInv' /\ worker' = AfterBatch
    BY <1>3, <1>5, StepTypes
  <1>7. stored' = stored
    BY DEF alertVars
  <1>8. BatchFits'
    BY <1>3, <1>4, <1>6 DEF BatchFits
  <1>9. VaultedReported'
    BY <1>6, <1>7 DEF UsbInv, VaultedReported
  <1> QED BY <1>6, <1>8, <1>9 DEF UsbInv

LEMMA AnswerSteps ==
    ASSUME UsbInv, AlertInv, Answered \/ Resend \/ SendFails
    PROVE  UsbInv' /\ UNCHANGED alertVars
  <1>1. CASE Answered
    <2>1. worker.pc = "wait" /\ Step(AfterBatch) /\ UNCHANGED <<alertVars, scanQueue, vaulted, losses, unreported>>
      BY <1>1 DEF Answered, Working
    <2>2. \A f \in worker.batch : \E r \in Requests : <<r, f>> \in stored
      <3> SUFFICES ASSUME NEW f \in worker.batch PROVE \E r \in Requests : <<r, f>> \in stored
        OBVIOUS
      <3>1. <<worker.call, f>> \in stored
        BY <2>1 DEF UsbInv, BatchFits
      <3>2. worker.call \in Requests
        BY <3>1 DEF AlertInv, AlertTypeInv, FileRows
      <3> QED BY <3>1, <3>2
    <2> QED BY <2>1, <2>2, BatchEnds
  <1>2. CASE SendFails
    <2>1. /\ worker.pc = "send" /\ Step(AfterBatch) /\ unreported' = unreported \cup worker.batch
          /\ UNCHANGED <<alertVars, scanQueue, vaulted>>
      BY <1>2 DEF SendFails, Working
    <2> QED BY <2>1, BatchEnds
  <1>3. CASE Resend
    <2> DEFINE next == [worker EXCEPT !.pc = "send"]
    <2>1. worker.pc = "wait" /\ Step(next) /\ UNCHANGED <<alertVars, scanQueue, vaulted, unreported>>
      BY <1>3 DEF Resend, Working
    <2>2. next \in WorkerSet /\ next.pc = "send" /\ next.batch = worker.batch /\ next.task = worker.task
      BY WorkerType DEF WorkerSet
    <2> HIDE DEF next
    <2>3. vaulted' \subseteq Files /\ scanQueue' \in Seq([event : Nat, letter : Letters])
      BY <2>1, WorkerType DEF UsbInv, UsbTypeInv
    <2>4. UsbTypeInv' /\ worker' = next
      BY <2>1, <2>2, <2>3, StepTypes
    <2>5. stored' = stored
      BY <2>1 DEF alertVars
    <2>6. BatchFits' /\ VaultedReported'
      BY <2>1, <2>2, <2>4, <2>5 DEF UsbInv, BatchFits, VaultedReported
    <2> QED BY <2>1, <2>4, <2>6 DEF UsbInv
  <1> QED BY <1>1, <1>2, <1>3

LEMMA UsbInitially ==
    ASSUME UsbInit
    PROVE  AlertInv /\ UsbInv
  <1>1. AlertInit /\ mounted \in [Letters -> AnyDrive]
    BY DEF UsbInit, AnyDrive
  <1>2. /\ detector = [pc |-> "idle", snapshot |-> mounted, inserts |-> {}, removes |-> {}] /\ previous = mounted
        /\ lastEvent = [l \in Letters |-> "none"] /\ usbEvents = << >> /\ scanQueue = << >>
        /\ worker = IdleWorker /\ vaulted = {}
    BY DEF UsbInit
  <1>3. UsbTypeInv
    BY <1>1, <1>2, IdleWorkerType DEF UsbTypeInv, AnyDrive
  <1>4. BatchFits /\ VaultedReported
    BY <1>2, IdleWorkerType DEF BatchFits, VaultedReported
  <1> QED BY <1>1, <1>3, <1>4, AlertInitially DEF UsbInv

LEMMA AlertsStay ==
    ASSUME AlertInv, UNCHANGED alertVars
    PROVE  AlertInv'
  <1>1. UNCHANGED <<stored, threats, desk, request, breaks, unseen>>
    BY DEF alertVars
  <1>2. AlertTypeInv'
    BY <1>1 DEF AlertInv, AlertTypeInv
  <1>3. DuplicatesOverlapped'
    BY <1>1 DEF AlertInv, DuplicatesOverlapped
  <1>4. \A r \in Requests : RequestFits(r)'
    BY <1>1 DEF AlertInv, RequestFits, OpFits, InsertsOwn, Looked, FindingsKnown, RaisesOwn, At, Known
  <1>5. \A t \in threats' : ThreatFits(t)'
    BY <1>1 DEF AlertInv, ThreatFits, At
  <1> QED BY <1>2, <1>3, <1>4, <1>5 DEF AlertInv

LEMMA UsbStep ==
    ASSUME AlertInv, UsbInv, [UsbNext]_<<alertVars, usbVars>>
    PROVE  AlertInv' /\ UsbInv'
  <1>1. ASSUME NEW l \in Letters, PullOut(l) \/ \E d \in Drives : PlugIn(l, d) PROVE AlertInv' /\ UsbInv'
    BY <1>1, DriveSteps, AlertsStay
  <1>2. ASSUME NEW l \in Letters, NEW type \in {"INSERT", "REMOVE"}, Emit(l, type) \/ EmitFails(l, type) \/ EmitRepeats(l, type)
        PROVE  AlertInv' /\ UsbInv'
    BY <1>2, EmitSteps, AlertsStay
  <1>3. ASSUME Poll \/ PollEnds \/ UpdatePolicy \/ Enumerate PROVE AlertInv' /\ UsbInv'
    BY <1>3, PollSteps, PollEndSteps, EnumerateSteps, AlertsStay
  <1>4. ASSUME NEW f \in worker.files, ScanFile(f) PROVE AlertInv' /\ UsbInv'
    BY <1>4, ScanFileSteps, AlertsStay
  <1>5. ASSUME NEW r \in Requests, Send(r) PROVE AlertInv' /\ UsbInv'
    BY <1>5, SendSteps
  <1>6. ASSUME Answered \/ Resend \/ SendFails PROVE AlertInv' /\ UsbInv'
    BY <1>6, AnswerSteps, AlertsStay
  <1>7. ASSUME BackendStep PROVE AlertInv' /\ UsbInv'
    <2>1. AlertInv' /\ stored' = stored
      BY <1>7, BackendStepFits
    <2>2. UNCHANGED usbVars
      BY <1>7 DEF BackendStep
    <2>3. UsbTypeInv'
      BY <2>2 DEF usbVars, UsbInv, UsbTypeInv
    <2> QED BY <2>1, <2>2, <2>3, WorkerStays DEF usbVars, UsbInv
  <1>8. CASE UNCHANGED <<alertVars, usbVars>>
    <2>1. UsbTypeInv' /\ stored' = stored
      BY <1>8 DEF usbVars, alertVars, UsbInv, UsbTypeInv
    <2> QED BY <1>8, <2>1, WorkerStays, AlertsStay DEF usbVars, UsbInv
  <1> QED BY <1>1, <1>2, <1>3, <1>4, <1>5, <1>6, <1>7, <1>8 DEF UsbNext, AgentStep

LEMMA UsbAlways == UsbSpec => [](AlertInv /\ UsbInv)
  <1>1. UsbInit => AlertInv /\ UsbInv
    BY UsbInitially
  <1>2. AlertInv /\ UsbInv /\ [UsbNext]_<<alertVars, usbVars>> => (AlertInv /\ UsbInv)'
    BY UsbStep
  <1> QED BY <1>1, <1>2, PTL DEF UsbSpec

\* The rows of the backend, the threads and the agent's queues keep their types
\* (usb_detector.py, background_scanner.py, usb_scan_service.py).
THEOREM UsbTypeCorrect == UsbSpec => []UsbTypeOK
  <1>1. AlertInv /\ UsbInv => UsbTypeOK
    <2> SUFFICES ASSUME AlertInv, UsbInv PROVE UsbTypeOK
      OBVIOUS
    <2>1. AlertTypeOK
      <3>1. \A t \in DOMAIN desk : desk[t].status \in {"UNREAD", "READ", "ACKNOWLEDGED"}
        BY DEF AlertInv, AlertTypeInv, AlertSet, DeskOps
      <3>2. \A r \in Requests : request[r].rows \subseteq Rows
        BY RequestType, FileRowFacts
      <3> QED BY <3>1, <3>2, FileRowFacts DEF AlertInv, AlertTypeInv, AlertTypeOK, ThreatSet
    <2> QED BY <2>1 DEF UsbInv, UsbTypeInv, UsbTypeOK, AnyDrive, WorkerSet
  <1> QED BY <1>1, UsbAlways, PTL

\* However many uploads, analyses and detections run at once, of two threats of
\* one finding each request had looked before the other inserted
\* (threat_service.py).
THEOREM DuplicatesHaveOverlapped == UsbSpec => []DuplicatesOverlapped
  <1>1. AlertInv /\ UsbInv => DuplicatesOverlapped
    BY DEF AlertInv
  <1> QED BY <1>1, UsbAlways, PTL

\* No analysis that answered success leaves a finding without a threat, nor a
\* threat without its alert, unless the request of the threat failed or goes on.
THEOREM FindingsAreAccounted == UsbSpec => []FindingsAccounted
  <1>1. AlertInv /\ UsbInv => FindingsAccounted
    <2> SUFFICES ASSUME AlertInv, NEW r \in Requests, At(r, "done"), request[r].op \in Analyses, NEW f \in On(request[r].rows)
                 PROVE  \E t \in threats : t.of = f /\ (t \in DOMAIN desk \/ Running(t.by) \/ At(t.by, "failed"))
      BY DEF FindingsAccounted, Analyses
    <2>1. f \in Known
      BY RequestType DEF RequestFits, FindingsKnown
    <2>2. PICK t \in threats : t.of = f
      BY <2>1, KnownFacts
    <2>3. ThreatFits(t)
      BY DEF AlertInv
    <2> QED BY <2>2, <2>3 DEF ThreatFits, Running, At
  <1> QED BY <1>1, UsbAlways, PTL

\* A file that the worker moved to the vault is reported, is in the batch in
\* hand or in one that was dropped, however the calls fail and repeat.
THEOREM VaultedIsReported == UsbSpec => []VaultedReported
  <1>1. AlertInv /\ UsbInv => VaultedReported
    BY DEF UsbInv
  <1> QED BY <1>1, UsbAlways, PTL

-----------------------------------------------------------------------------
(* The integrity monitor                                                     *)

Recorded == {disk[p] : p \in Paths} \cup {snapshot[p] : p \in Paths} \cup {poller.current[p] : p \in Paths}
Content  == Data \cup {NoFile}
Versions == {v \in [data : Content, at : Nat] : v.data = NoFile <=> v.at = 0}
Places   == Paths \cup {NoFile}
EventSet  == [pc : {"idle", "event", "update"}, type : {"none", "CREATED", "MODIFIED", "DELETED", "RENAMED"},
              path : Places, old : Places, data : Content, size : Nat, was : Content]
NoticeSet == [type : {"CREATED", "MODIFIED", "DELETED", "RENAMED"}, path : Paths, old : Places]

WatchTypes ==
    /\ disk \in [Paths -> Versions] /\ snapshot \in [Paths -> Versions]
    /\ poller \in [pc : {"sleep", "emit"}, current : [Paths -> Versions], files : SUBSET Paths, gone : SUBSET Paths]
    /\ baseline \in [Paths -> Content] /\ thread \in [Threads -> EventSet]
    /\ notices \in Seq(NoticeSet) /\ writes \in Nat
    /\ watchdog \in BOOLEAN /\ ignored \subseteq Paths /\ dropped \subseteq Paths
    /\ IsFiniteSet(seen) /\ Cardinality(seen) <= SeenLimit

\* A time of modification stands for one content.
Stamps ==
    /\ \A u \in Recorded : u.at <= Cardinality(Paths) + writes
    /\ \A u, v \in Recorded : u.at = v.at => u = v

\* The poller emits while it goes through a scan, about what that scan found.
PollerFits ==
    /\ poller.pc = "sleep" => poller.files = {} /\ poller.gone = {} /\ thread["poller"].pc = "idle"
    /\ \A p \in poller.files : poller.current[p].data # NoFile
    /\ \A p \in poller.gone : poller.current[p].data = NoFile
    /\ thread["poller"].pc # "idle" =>
         /\ thread["poller"].old = NoFile /\ thread["poller"].path \in Paths
         /\ thread["poller"].type = "DELETED" <=> poller.current[thread["poller"].path].data = NoFile

ObserverFits ==
    /\ ~watchdog => notices = << >> /\ thread["observer"].pc = "idle"
    /\ \A i \in 1..Len(notices) : notices[i].old # notices[i].path /\ (notices[i].type = "DELETED" => notices[i].old = NoFile)
    /\ thread["observer"].pc # "idle" => thread["observer"].path \in Paths /\ thread["observer"].old # thread["observer"].path

\* What a callback carries.  An event whose content could not be read has
\* dropped its paths.  A rename that found no record of the old path finds none
\* when it writes.
ThreadFits(e) ==
    /\ e.pc = "idle" => e.path = NoFile /\ e.old = NoFile
    /\ e.type = "DELETED" => e.old = NoFile /\ e.data = NoFile
    /\ e.pc # "idle" /\ e.type # "DELETED" /\ e.data = NoFile => Mentioned(e) \subseteq dropped
    /\ e.pc = "update" /\ e.old \in Paths \ dropped /\ e.was = NoFile => baseline[e.old] = NoFile

NoRace == \A p \in Paths \ dropped : ~(p \in Mentioned(thread["observer"]) /\ p \in Mentioned(thread["poller"]))

Pending(p)   == \E i \in 1..Len(notices) : p \in Mentioned(notices[i])
RenamedTo(p) == \E i \in 1..Len(notices) : notices[i].path = p /\ notices[i].old # NoFile

\* The last notice about a path says whether there is a file.
Leaves(n, p) == n.path = p /\ n.type # "DELETED"
LastNotice ==
    \A p \in Paths : \A i \in 1..Len(notices) :
        p \in Mentioned(notices[i]) /\ (\A j \in i + 1..Len(notices) : p \notin Mentioned(notices[j]))
            => (Exists(disk, p) <=> Leaves(notices[i], p))

\* What the baseline has for a path once the callbacks under way end
Outcome(e, p) == IF e.old = p \/ e.type = "DELETED" THEN NoFile ELSE e.data
After(p) == IF p \in Mentioned(thread["observer"]) THEN Outcome(thread["observer"], p)
            ELSE IF p \in Mentioned(thread["poller"]) THEN Outcome(thread["poller"], p)
            ELSE baseline[p]

\* A path that is followed: more notices of it come, or the baseline gets what
\* is on disk, or the poller sees that it has not.
ObserverFollows(p) == p \in Mentioned(thread["observer"]) => Pending(p) \/ Outcome(thread["observer"], p) = disk[p].data
PollerFollows(p) ==
    p \in Mentioned(thread["poller"]) =>
        RenamedTo(p) \/ Outcome(thread["poller"], p) = disk[p].data \/ Recalled(p) # disk[p]
Followed(p) == Pending(p) \/ After(p) = disk[p].data \/ Recalled(p) # disk[p] \/ p \in poller.files \cup poller.gone

\* Without watchdog, of a path at which the poller recalls no file there is none
\* on record.
AbsentFollows(p) == ~watchdog /\ Recalled(p).data = NoFile /\ p \notin poller.gone => After(p) = NoFile
Follows(p) == ObserverFollows(p) /\ PollerFollows(p) /\ Followed(p) /\ AbsentFollows(p)

Watched == Paths \ (dropped \cup ignored)

WatchShape == WatchTypes /\ Stamps /\ PollerFits /\ ObserverFits /\ (\A t \in Threads : ThreadFits(thread[t])) /\ NoRace /\ LastNotice
WatchInv == WatchShape /\ \A p \in Watched : Follows(p)

-----------------------------------------------------------------------------

LEMMA MentionedIs == \A e, p : p \in Mentioned(e) <=> p # NoFile /\ (p = e.path \/ p = e.old)
  BY DEF Mentioned

LEMMA AppendNotice ==
    ASSUME WatchTypes, NEW n \in NoticeSet, notices' = Append(notices, n)
    PROVE  /\ notices' \in Seq(NoticeSet)
           /\ \A p : Pending(p)' <=> Pending(p) \/ p \in Mentioned(n)
           /\ \A p : RenamedTo(p)' <=> RenamedTo(p) \/ (n.path = p /\ n.old # NoFile)
           /\ \A i \in 1..Len(notices') : notices'[i] = IF i = Len(notices) + 1 THEN n ELSE notices[i]
           /\ Len(notices') = Len(notices) + 1 /\ Len(notices) \in Nat
  <1>1. notices' \in Seq(NoticeSet) /\ Len(notices') = Len(notices) + 1 /\ Len(notices) \in Nat
    BY DEF WatchTypes
  <1>2. \A i \in 1..Len(notices') : notices'[i] = IF i = Len(notices) + 1 THEN n ELSE notices[i]
    BY DEF WatchTypes
  <1>3. ASSUME NEW p PROVE Pending(p)' <=> Pending(p) \/ p \in Mentioned(n)
    <2>1. Pending(p)' <=> \E i \in 1..Len(notices') : p \in Mentioned(notices'[i])
      BY DEF Pending, Mentioned
    <2>2. Len(notices) + 1 \in 1..Len(notices')
      BY <1>1
    <2> QED BY <1>1, <1>2, <2>1, <2>2 DEF Pending
  <1>4. ASSUME NEW p PROVE RenamedTo(p)' <=> RenamedTo(p) \/ (n.path = p /\ n.old # NoFile)
    <2>2. Len(notices) + 1 \in 1..Len(notices')
      BY <1>1
    <2> QED BY <1>1, <1>2, <2>2 DEF RenamedTo
  <1> QED BY <1>1, <1>2, <1>3, <1>4

LEMMA TailNotices ==
    ASSUME WatchTypes, notices # << >>, notices' = Tail(notices)
    PROVE  /\ notices' \in Seq(NoticeSet) /\ Head(notices) \in NoticeSet /\ Head(notices) = notices[1]
           /\ \A p : Pending(p) <=> Pending(p)' \/ p \in Mentioned(Head(notices))
           /\ \A p : RenamedTo(p) <=> RenamedTo(p)' \/ (Head(notices).path = p /\ Head(notices).old # NoFile)
           /\ \A i \in 1..Len(notices') : notices'[i] = notices[i + 1]
           /\ Len(notices') + 1 = Len(notices) /\ Len(notices') \in Nat
  <1>1. /\ notices' \in Seq(NoticeSet) /\ Len(notices') + 1 = Len(notices) /\ Len(notices') \in Nat
        /\ Head(notices) \in NoticeSet /\ Head(notices) = notices[1]
    BY DEF WatchTypes
  <1>2. \A i \in 1..Len(notices') : notices'[i] = notices[i + 1]
    BY DEF WatchTypes
  <1>0. \A i \in 1..Len(notices) : i = 1 \/ (i - 1 \in 1..Len(notices') /\ notices[i] = notices'[i - 1])
    BY <1>1, <1>2
  <1>3. ASSUME NEW p PROVE Pending(p) <=> Pending(p)' \/ p \in Mentioned(Head(notices))
    <2>1. Pending(p)' <=> \E i \in 1..Len(notices') : p \in Mentioned(notices'[i])
      BY DEF Pending, Mentioned
    <2>2. 1 \in 1..Len(notices) /\ \A i \in 1..Len(notices') : i + 1 \in 1..Len(notices)
      BY <1>1
    <2> QED BY <1>0, <1>1, <1>2, <2>1, <2>2 DEF Pending
  <1>4. ASSUME NEW p PROVE RenamedTo(p) <=> RenamedTo(p)' \/ (Head(notices).path = p /\ Head(notices).old # NoFile)
    <2>2. 1 \in 1..Len(notices) /\ \A i \in 1..Len(notices') : i + 1 \in 1..Len(notices)
      BY <1>1
    <2> QED BY <1>0, <1>1, <1>2, <2>2 DEF RenamedTo
  <1> QED BY <1>1, <1>2, <1>3, <1>4

LEMMA EventTyped ==
    ASSUME NEW type \in {"CREATED", "MODIFIED", "DELETED", "RENAMED"}, NEW path \in Paths, NEW old \in Places,
           NEW data \in Content, NEW size \in Nat
    PROVE  Event(type, path, old, data, size) \in EventSet
  BY DEF Event, EventSet, Places, Content

LEMMA WatchIdle == IdleThread \in EventSet /\ IdleThread.pc = "idle" /\ Mentioned(IdleThread) = {}
  BY DEF IdleThread, EventSet, Places, Content, Mentioned

LEMMA AbsentVersion == Absent \in Versions /\ Absent.at = 0 /\ Absent.data = NoFile /\ \A v \in Versions : v.data = NoFile => v = Absent
  BY WatchAssumption DEF Absent, Versions, Content

LEMMA RecalledTyped == WatchTypes => \A p \in Paths : Recalled(p) \in Versions /\ Recalled(p) \in Recorded /\ disk[p] \in Recorded
  BY DEF WatchTypes, Recalled, Recorded

LEMMA PathsCounted == Cardinality(Paths) \in Nat
  BY FS_CardinalityType, WatchAssumption

\* A callback that carries a path off the dropped ones has its content.
LEMMA NothingMentioned ==
    ASSUME WatchShape, NEW t \in Threads, thread[t].pc = "idle"
    PROVE  Mentioned(thread[t]) = {}
  BY DEF WatchShape, ThreadFits, Mentioned

LEMMA StampsKept ==
    ASSUME WatchTypes, Stamps, NEW v \in Versions, Recorded' \subseteq Recorded \cup {v}, writes' \in Nat, writes' >= writes,
           v.at = 0 \/ (v.at = Cardinality(Paths) + writes + 1 /\ writes' = writes + 1)
    PROVE  Stamps'
  <1>1. \A u \in Recorded : u \in Versions /\ u.at \in Nat
    BY DEF Recorded, WatchTypes, Versions
  <1>2. \A u \in Recorded : u.at = 0 /\ v.at = 0 => u = v
    BY <1>1, AbsentVersion DEF Versions
  <1>3. \A u \in Recorded : u.at = v.at => u = v
    BY <1>1, <1>2, PathsCounted DEF Stamps, WatchTypes
  <1>4. v.at <= Cardinality(Paths) + writes'
    BY PathsCounted DEF WatchTypes
  <1>5. \A u \in Recorded : u.at <= Cardinality(Paths) + writes'
    BY <1>1, PathsCounted DEF Stamps, WatchTypes
  <1> QED BY <1>3, <1>4, <1>5 DEF Stamps

-----------------------------------------------------------------------------
(* Files change                                                              *)

\* A change that brings back a version which the poller recalls is noticed by
\* watchdog, or the baseline has its content.
Noticed(n, p) ==
    \/ Recalled(p) # disk'[p] \/ disk'[p].data = NoFile
    \/ watchdog /\ n.path = p /\ n.old # NoFile
    \/ ~watchdog /\ baseline[p] = disk'[p].data /\ \A t \in Threads : p \notin Mentioned(thread[t])

LEMMA ChangeKeeps ==
    ASSUME WatchInv, NEW n \in NoticeSet, n.old # n.path, n.type = "DELETED" => n.old = NoFile,
           notices' = IF watchdog THEN Append(notices, n) ELSE notices,
           disk' \in [Paths -> Versions], Stamps', writes' \in Nat,
           \A p \in Paths \ Mentioned(n) : disk'[p] = disk[p],
           \A p \in Paths \cap Mentioned(n) : Exists(disk', p) <=> Leaves(n, p),
           dropped \subseteq dropped', dropped' \subseteq Paths,
           \A p \in (Paths \cap Mentioned(n)) \ dropped' : Noticed(n, p),
           UNCHANGED <<watchdog, ignored, poller, snapshot, seen, thread, baseline>>
    PROVE  WatchInv'
  <1> USE DEF WatchInv, WatchShape
  <1>0. /\ notices' \in Seq(NoticeSet)
        /\ \A p : Pending(p)' <=> Pending(p) \/ (watchdog /\ p \in Mentioned(n))
        /\ \A p : RenamedTo(p)' <=> RenamedTo(p) \/ (watchdog /\ n.path = p /\ n.old # NoFile)
        /\ \A i \in 1..Len(notices') : notices'[i] = IF i = Len(notices) + 1 THEN n ELSE notices[i]
        /\ Len(notices') = (IF watchdog THEN Len(notices) + 1 ELSE Len(notices)) /\ Len(notices) \in Nat
    <2>1. CASE watchdog
      BY <2>1, AppendNotice
    <2>2. CASE ~watchdog
      <3>1. \A p : (Pending(p)' <=> Pending(p)) /\ (RenamedTo(p)' <=> RenamedTo(p))
        BY <2>2 DEF Pending, RenamedTo, Mentioned
      <3>2. Len(notices) \in Nat /\ \A i \in 1..Len(notices') : i # Len(notices) + 1
        BY <2>2 DEF WatchTypes
      <3> QED BY <2>2, <3>1, <3>2 DEF WatchTypes
    <2> QED BY <2>1, <2>2 DEF WatchTypes
  <1>1. WatchTypes'
    BY <1>0 DEF WatchTypes
  <1>2. PollerFits'
    BY DEF PollerFits
  <1>3. ObserverFits'
    BY <1>0 DEF ObserverFits, WatchTypes
  <1>4. (\A t \in Threads : ThreadFits(thread[t]))'
    BY DEF ThreadFits, Mentioned
  <1>5. NoRace'
    BY DEF NoRace, Mentioned
  <1>6. LastNotice'
    <2> SUFFICES ASSUME NEW p \in Paths, NEW i \in 1..Len(notices'), p \in Mentioned(notices'[i]),
                        \A j \in i + 1..Len(notices') : p \notin Mentioned(notices'[j])
                 PROVE  Exists(disk', p) <=> Leaves(notices'[i], p)
      BY DEF LastNotice, Mentioned, Leaves, Exists
    <2>1. CASE i = Len(notices) + 1
      BY <1>0, <2>1
    <2>2. CASE i # Len(notices) + 1 /\ watchdog
      <3>1. Len(notices) + 1 \in i + 1..Len(notices') /\ notices'[Len(notices) + 1] = n
        BY <1>0, <2>2
      <3>2. p \notin Mentioned(n)
        BY <3>1
      <3>3. i \in 1..Len(notices) /\ notices'[i] = notices[i] /\ \A j \in i + 1..Len(notices) : p \notin Mentioned(notices[j])
        BY <1>0, <2>2
      <3> QED BY <3>2, <3>3 DEF LastNotice, Exists
    <2>3. CASE ~watchdog
      <3> QED BY <1>0, <2>3 DEF ObserverFits
    <2> QED BY <2>1, <2>2, <2>3
  <1>7. ASSUME NEW p \in Watched' PROVE Follows(p)'
    <2>1. p \in Watched /\ Follows(p) /\ p \in Paths /\ p \notin dropped' /\ p \notin dropped
      BY DEF Watched
    <2>2. /\ Recalled(p)' = Recalled(p) /\ After(p)' = After(p)
          /\ \A t \in Threads : Outcome(thread[t], p)' = Outcome(thread[t], p) /\ Mentioned(thread[t])' = Mentioned(thread[t])
      BY DEF Recalled, After, Outcome, Mentioned
    <2>3. AbsentFollows(p)'
      BY <2>1, <2>2 DEF Follows, AbsentFollows
    <2>4. CASE p \notin Mentioned(n)
      <3>1. disk'[p] = disk[p] /\ (Pending(p)' <=> Pending(p)) /\ (RenamedTo(p)' <=> RenamedTo(p))
        <4>1. p # NoFile /\ n.path # p
          BY <2>1, <2>4, MentionedIs, WatchAssumption
        <4> QED BY <1>0, <2>1, <2>4, <4>1
      <3> QED BY <2>1, <2>2, <2>3, <3>1 DEF Follows, ObserverFollows, PollerFollows, Followed, Threads
    <2>5. CASE p \in Mentioned(n) /\ watchdog
      <3>1. Pending(p)'
        BY <1>0, <2>5
      <3>2. PollerFollows(p)'
        <4> SUFFICES ASSUME p \in Mentioned(thread["poller"]), Recalled(p) = disk'[p], ~RenamedTo(p)'
                     PROVE  Outcome(thread["poller"], p) = disk'[p].data
          BY <2>2 DEF PollerFollows, Threads
        <4>1. disk'[p].data = NoFile
          BY <1>0, <2>1, <2>5 DEF Noticed
        <4>2. thread["poller"].pc # "idle" /\ poller.pc = "emit" /\ thread["poller"].path = p /\ thread["poller"].type = "DELETED"
          BY <4>1, MentionedIs DEF PollerFits, ThreadFits, Threads, Recalled, WatchTypes
        <4> QED BY <4>1, <4>2 DEF Outcome
      <3> QED BY <2>1, <2>2, <2>3, <3>1, <3>2 DEF Follows, ObserverFollows, Followed, Threads
    <2>6. CASE p \in Mentioned(n) /\ ~watchdog
      <3>1. p \notin Mentioned(thread["observer"])
        BY <2>6, MentionedIs DEF ObserverFits, ThreadFits, Threads
      <3>2. CASE Recalled(p) # disk'[p]
        BY <2>1, <2>2, <2>3, <3>1, <3>2 DEF Follows, ObserverFollows, PollerFollows, Followed, Threads
      <3>3. CASE Recalled(p) = disk'[p] /\ disk'[p].data = NoFile
        <4>1. PollerFollows(p)'
          <5> SUFFICES ASSUME p \in Mentioned(thread["poller"]) PROVE Outcome(thread["poller"], p) = disk'[p].data
            BY <2>2 DEF PollerFollows, Threads
          <5>2. thread["poller"].pc # "idle" /\ poller.pc = "emit" /\ thread["poller"].path = p /\ thread["poller"].type = "DELETED"
            BY <3>3, MentionedIs DEF PollerFits, ThreadFits, Threads, Recalled, WatchTypes
          <5> QED BY <3>3, <5>2 DEF Outcome
        <4>2. Followed(p)'
          BY <2>1, <2>2, <2>6, <3>3 DEF Followed, Follows, AbsentFollows
        <4> QED BY <2>2, <2>3, <3>1, <4>1, <4>2 DEF Follows, ObserverFollows, Threads
      <3>4. CASE baseline[p] = disk'[p].data /\ \A t \in Threads : p \notin Mentioned(thread[t])
        <4>1. After(p) = disk'[p].data
          BY <3>4 DEF After, Threads
        <4> QED BY <2>2, <2>3, <3>4, <4>1 DEF Follows, ObserverFollows, PollerFollows, Followed, Threads
      <3> QED BY <2>1, <2>6, <3>2, <3>3, <3>4 DEF Noticed
    <2> QED BY <2>4, <2>5, <2>6
  <1> QED BY <1>1, <1>2, <1>3, <1>4, <1>5, <1>6, <1>7 DEF Watched

LEMMA WriteFileKeeps == \A p \in Paths, d \in Data : WatchInv /\ WriteFile(p, d) => WatchInv'
  <1> SUFFICES ASSUME NEW p \in Paths, NEW d \in Data, WatchInv, WriteFile(p, d) PROVE WatchInv'
    OBVIOUS
  <1> USE DEF WatchInv, WatchShape
  <1> DEFINE n == Notice(IF Exists(disk, p) THEN "MODIFIED" ELSE "CREATED", p, NoFile)
             v == [data |-> d, at |-> Cardinality(Paths) + writes + 1]
  <1>1. n \in NoticeSet /\ n.path = p /\ n.old = NoFile /\ n.type # "DELETED" /\ p # NoFile /\ Mentioned(n) = {p}
    BY WatchAssumption DEF Notice, NoticeSet, Places, Mentioned
  <1>2. v \in Versions /\ v.at = Cardinality(Paths) + writes + 1 /\ v.data = d /\ d # NoFile
    BY WatchAssumption, PathsCounted DEF WatchTypes, Versions, Content
  <1>3. disk' \in [Paths -> Versions] /\ writes' \in Nat /\ writes' = writes + 1 /\ disk'[p] = v /\ \A q \in Paths \ {p} : disk'[q] = disk[q]
    BY <1>2 DEF WatchTypes, WriteFile, Writing
  <1>4. Stamps'
    <2>1. Recorded' \subseteq Recorded \cup {v}
      BY <1>3 DEF Recorded, WriteFile, Writing
    <2> QED BY <1>2, <1>3, <2>1, StampsKept DEF WatchTypes
  <1>5. Recalled(p) # disk'[p]
    BY <1>2, <1>3, RecalledTyped, PathsCounted DEF WatchTypes, Stamps, Versions
  <1>6. /\ notices' = IF watchdog THEN Append(notices, n) ELSE notices
        /\ UNCHANGED <<watchdog, ignored, poller, snapshot, seen, thread, baseline>> /\ dropped' = dropped
    BY DEF WriteFile, Writing
  <1>7. Exists(disk', p) /\ Leaves(n, p)
    BY <1>1, <1>2, <1>3 DEF Exists, Leaves
  <1> HIDE DEF n, v, WatchInv
  <1> QED BY <1>1, <1>3, <1>4, <1>5, <1>6, <1>7, ChangeKeeps DEF Noticed, WatchTypes, WatchInv

LEMMA DeleteFileKeeps == \A p \in Paths : WatchInv /\ DeleteFile(p) => WatchInv'
  <1> SUFFICES ASSUME NEW p \in Paths, WatchInv, DeleteFile(p) PROVE WatchInv'
    OBVIOUS
  <1> USE DEF WatchInv, WatchShape
  <1> DEFINE n == Notice("DELETED", p, NoFile)
  <1>1. n \in NoticeSet /\ n.path = p /\ n.old = NoFile /\ n.type = "DELETED" /\ p # NoFile /\ Mentioned(n) = {p}
    BY WatchAssumption DEF Notice, NoticeSet, Places, Mentioned
  <1>3. disk' \in [Paths -> Versions] /\ writes' \in Nat /\ writes' = writes + 1 /\ disk'[p] = Absent /\ \A q \in Paths \ {p} : disk'[q] = disk[q]
    BY AbsentVersion DEF WatchTypes, DeleteFile, Writing
  <1>4. Stamps'
    <2>1. Recorded' \subseteq Recorded \cup {Absent}
      BY <1>3 DEF Recorded, DeleteFile, Writing
    <2> QED BY <1>3, <2>1, StampsKept, AbsentVersion DEF WatchTypes
  <1>6. /\ notices' = IF watchdog THEN Append(notices, n) ELSE notices
        /\ UNCHANGED <<watchdog, ignored, poller, snapshot, seen, thread, baseline>> /\ dropped' = dropped
    BY DEF DeleteFile, Writing
  <1>7. ~Exists(disk', p) /\ ~Leaves(n, p) /\ disk'[p].data = NoFile
    BY <1>1, <1>3, AbsentVersion DEF Exists, Leaves
  <1> HIDE DEF n, WatchInv
  <1> QED BY <1>1, <1>3, <1>4, <1>6, <1>7, ChangeKeeps DEF Noticed, WatchTypes, WatchInv

LEMMA RenameFileKeeps == \A p, q \in Paths : WatchInv /\ RenameFile(p, q) => WatchInv'
  <1> SUFFICES ASSUME NEW p \in Paths, NEW q \in Paths, WatchInv, RenameFile(p, q) PROVE WatchInv'
    OBVIOUS
  <1> USE DEF WatchInv, WatchShape
  <1> DEFINE n == Notice("RENAMED", q, p)
  <1>1. n \in NoticeSet /\ n.path = q /\ n.old = p /\ n.type # "DELETED" /\ p # NoFile /\ q # NoFile /\ Mentioned(n) = {p, q} /\ p # q
    BY WatchAssumption DEF Notice, NoticeSet, Places, Mentioned, RenameFile, Exists
  <1>3. /\ disk' \in [Paths -> Versions] /\ writes' \in Nat /\ writes' = writes + 1 /\ disk'[p] = Absent /\ disk'[q] = disk[p]
        /\ \A r \in Paths \ {p, q} : disk'[r] = disk[r]
    BY <1>1, AbsentVersion DEF WatchTypes, RenameFile, Writing
  <1>4. Stamps'
    <2>1. Recorded' \subseteq Recorded \cup {Absent}
      BY <1>3 DEF Recorded, RenameFile, Writing
    <2> QED BY <1>3, <2>1, StampsKept, AbsentVersion DEF WatchTypes
  <1>6. /\ notices' = IF watchdog THEN Append(notices, n) ELSE notices
        /\ UNCHANGED <<watchdog, ignored, poller, snapshot, seen, thread, baseline>>
        /\ dropped' = IF TakenForOld(p, q) THEN dropped \cup {q} ELSE dropped
    BY DEF RenameFile, Writing
  <1>7. ~Exists(disk', p) /\ ~Leaves(n, p) /\ disk'[p].data = NoFile
    BY <1>1, <1>3, AbsentVersion DEF Exists, Leaves
  <1>8. Exists(disk', q) /\ Leaves(n, q)
    BY <1>1, <1>3 DEF Exists, Leaves, RenameFile
  <1>9. q \notin dropped' => Noticed(n, q)
    <2> SUFFICES ASSUME ~TakenForOld(p, q), ~watchdog, Recalled(q) = disk'[q]
                 PROVE  baseline[q] = disk'[q].data /\ \A t \in Threads : q \notin Mentioned(thread[t])
      BY <1>1, <1>6 DEF Noticed
    <2> QED BY <1>3 DEF TakenForOld
  <1>10. Noticed(n, p)
    BY <1>7 DEF Noticed
  <1>11. dropped \subseteq dropped' /\ dropped' \subseteq Paths
    BY <1>6 DEF WatchTypes
  <1> HIDE DEF n, WatchInv
  <1> QED BY <1>1, <1>3, <1>4, <1>6, <1>7, <1>8, <1>9, <1>10, <1>11, ChangeKeeps DEF WatchInv

-----------------------------------------------------------------------------
(* The poller's scans                                                        *)

LEMMA ScanKeeps == WatchInv /\ Scan => WatchInv'
  <1> SUFFICES ASSUME WatchInv, Scan PROVE WatchInv'
    OBVIOUS
  <1> USE DEF WatchInv, WatchShape
  <1>1. /\ poller.pc = "sleep" /\ poller.files = {} /\ poller.gone = {} /\ thread["poller"].pc = "idle" /\ poller'.pc = "emit"
        /\ poller'.current = disk
        /\ poller'.files = {p \in Paths : disk[p].data # NoFile /\ (snapshot[p].data = NoFile \/ disk[p].at # snapshot[p].at)}
        /\ poller'.gone = {p \in Paths : snapshot[p].data # NoFile /\ disk[p].data = NoFile}
    BY DEF Scan, PollerFits, Exists, Modified
  <1>2. UNCHANGED <<disk, watchdog, ignored, notices, snapshot, seen, thread, baseline, writes, dropped>>
    BY DEF Scan
  <1>3. WatchTypes'
    <2>1. poller' \in [pc : {"sleep", "emit"}, current : [Paths -> Versions], files : SUBSET Paths, gone : SUBSET Paths]
      BY DEF Scan, WatchTypes
    <2> QED BY <1>2, <2>1 DEF WatchTypes
  <1>4. Stamps'
    <2>1. Recorded' \subseteq Recorded \cup {Absent}
      BY <1>1, <1>2 DEF Recorded
    <2> QED BY <1>2, <2>1, StampsKept, AbsentVersion DEF WatchTypes
  <1>5. PollerFits'
    BY <1>1, <1>2 DEF PollerFits
  <1>6. ObserverFits' /\ (\A t \in Threads : ThreadFits(thread[t]))' /\ NoRace' /\ LastNotice'
    BY <1>2 DEF ObserverFits, ThreadFits, Mentioned, NoRace, LastNotice, Leaves, Exists
  <1>7. ASSUME NEW p \in Watched' PROVE Follows(p)'
    <2>1. p \in Watched /\ Follows(p) /\ p \in Paths
      BY <1>2 DEF Watched
    <2>2. /\ Recalled(p)' = disk[p] /\ Recalled(p) = snapshot[p] /\ disk'[p] = disk[p] /\ After(p)' = After(p)
          /\ (Pending(p)' <=> Pending(p)) /\ Mentioned(thread["poller"]) = {}
      BY <1>1, <1>2, NothingMentioned DEF Recalled, After, Outcome, Mentioned, Pending, Threads
    <2>3. ObserverFollows(p)' /\ PollerFollows(p)'
      BY <1>2, <2>1, <2>2 DEF Follows, ObserverFollows, PollerFollows, Outcome, Mentioned
    <2>4. p \notin poller'.files \cup poller'.gone => snapshot[p] = disk[p]
      <3>1. snapshot[p] \in Recorded /\ disk[p] \in Recorded /\ snapshot[p] \in Versions /\ disk[p] \in Versions
        BY <2>1 DEF Recorded, WatchTypes
      <3> QED BY <1>1, <2>1, <3>1, AbsentVersion DEF Stamps
    <2>5. Followed(p)' /\ AbsentFollows(p)'
      BY <1>1, <1>2, <2>1, <2>2, <2>4 DEF Follows, Followed, AbsentFollows
    <2> QED BY <2>3, <2>5 DEF Follows
  <1> QED BY <1>3, <1>4, <1>5, <1>6, <1>7

LEMMA ScanEndsKeeps == WatchInv /\ ScanEnds => WatchInv'
  <1> SUFFICES ASSUME WatchInv, ScanEnds PROVE WatchInv'
    OBVIOUS
  <1> USE DEF WatchInv, WatchShape
  <1>1. /\ poller.pc = "emit" /\ poller.files = {} /\ poller.gone = {} /\ thread["poller"].pc = "idle"
        /\ poller'.pc = "sleep" /\ poller'.files = {} /\ poller'.gone = {} /\ poller'.current = [p \in Paths |-> Absent]
        /\ snapshot' = poller.current /\ poller' = IdlePoller
    BY DEF ScanEnds, IdlePoller
  <1>2. UNCHANGED <<disk, watchdog, ignored, notices, seen, thread, baseline, writes, dropped>>
    BY DEF ScanEnds
  <1>3. WatchTypes'
    <2>1. poller' \in [pc : {"sleep", "emit"}, current : [Paths -> Versions], files : SUBSET Paths, gone : SUBSET Paths]
      BY <1>1, AbsentVersion DEF IdlePoller
    <2> QED BY <1>1, <1>2, <2>1 DEF WatchTypes
  <1>4. Stamps'
    <2>1. Recorded' \subseteq Recorded \cup {Absent}
      BY <1>1, <1>2 DEF Recorded
    <2> QED BY <1>2, <2>1, StampsKept, AbsentVersion DEF WatchTypes
  <1>5. PollerFits'
    BY <1>1, <1>2 DEF PollerFits
  <1>6. ObserverFits' /\ (\A t \in Threads : ThreadFits(thread[t]))' /\ NoRace' /\ LastNotice'
    BY <1>2 DEF ObserverFits, ThreadFits, Mentioned, NoRace, LastNotice, Leaves, Exists
  <1>7. ASSUME NEW p \in Watched' PROVE Follows(p)'
    <2>1. p \in Watched /\ Follows(p) /\ p \in Paths
      BY <1>2 DEF Watched
    <2>2. /\ Recalled(p)' = Recalled(p) /\ After(p)' = After(p) /\ (Pending(p)' <=> Pending(p)) /\ (RenamedTo(p)' <=> RenamedTo(p))
          /\ Mentioned(thread["poller"]) = {}
      BY <1>1, <1>2, NothingMentioned DEF Recalled, After, Outcome, Mentioned, Pending, RenamedTo, Threads
    <2>3. ObserverFollows(p)' /\ PollerFollows(p)'
      BY <1>2, <2>1, <2>2 DEF Follows, ObserverFollows, PollerFollows, Outcome, Mentioned
    <2>5. Followed(p)' /\ AbsentFollows(p)'
      BY <1>1, <1>2, <2>1, <2>2 DEF Follows, Followed, AbsentFollows
    <2> QED BY <2>3, <2>5 DEF Follows
  <1> QED BY <1>3, <1>4, <1>5, <1>6, <1>7

-----------------------------------------------------------------------------
(* Events are delivered                                                      *)

\* What becomes of an event that is delivered on thread t: its callback starts,
\* and no other callback has its paths, or it is skipped, and the baseline has
\* its content; else its paths are dropped.
Taken(t, event) == thread' = [thread EXCEPT ![t] = event]
Alone(t, p)     == \A u \in Threads \ {t} : p \notin Mentioned(thread[u])
Handled(t, event) ==
    /\ dropped \subseteq dropped' /\ dropped' \subseteq Paths
    /\ IsFiniteSet(seen') /\ Cardinality(seen') <= SeenLimit
    /\ \/ thread' = thread
       \/ Taken(t, event) /\ (event.type # "DELETED" /\ event.data = NoFile => Mentioned(event) \subseteq dropped')
    /\ \A p \in Mentioned(event) \ dropped' :
         \/ Taken(t, event) /\ Alone(t, p)
         \/ thread' = thread /\ p = event.path /\ baseline[p] = event.data /\ event.old = NoFile

LEMMA RememberedFits ==
    ASSUME IsFiniteSet(seen), Cardinality(seen) <= SeenLimit, NEW key
    PROVE  IsFiniteSet(Remembered(key)) /\ Cardinality(Remembered(key)) <= SeenLimit
  <1>1. IsFiniteSet(seen \cup {key}) /\ Cardinality(seen \cup {key}) \in Nat
    BY FS_AddElement, FS_CardinalityType
  <1>2. IsFiniteSet({}) /\ Cardinality({}) = 0
    BY FS_EmptySet
  <1> QED BY <1>1, <1>2, WatchAssumption DEF Remembered

LEMMA EventHandled ==
    ASSUME WatchShape, NEW t \in Threads, thread[t].pc = "idle", NEW event \in EventSet, event.pc = "event", event.path \in Paths,
           OnEvent(t, event)
    PROVE  Handled(t, event)
  <1> USE DEF WatchShape
  <1>1. Mentioned(event) \subseteq Paths /\ event.path \in Mentioned(event)
    BY WatchAssumption DEF EventSet, Places, Mentioned
  <1>2. CASE Key(event) \in seen
    <2>1. UNCHANGED <<seen, thread>> /\ dropped' = IF Matters(event) THEN dropped \cup Mentioned(event) ELSE dropped
      BY <1>2 DEF OnEvent
    <2>2. ASSUME NEW p \in Mentioned(event) \ dropped' PROVE p = event.path /\ baseline[p] = event.data /\ event.old = NoFile
      <3>1. ~Matters(event)
        BY <2>1, <2>2
      <3> QED BY <2>2, <3>1 DEF Matters, Mentioned
    <2> QED BY <1>1, <2>1, <2>2 DEF Handled, WatchTypes
  <1>3. CASE Key(event) \notin seen
    <2> DEFINE others == UNION {Mentioned(thread[o]) : o \in {u \in Threads \ {t} : thread[u].pc # "idle"}}
    <2>1. seen' = Remembered(Key(event)) /\ Taken(t, event) /\ dropped' = dropped \cup Unread(event) \cup (Mentioned(event) \cap others)
      BY <1>3 DEF OnEvent, Taken
    <2>2. IsFiniteSet(seen') /\ Cardinality(seen') <= SeenLimit
      BY <2>1, RememberedFits DEF WatchTypes
    <2>3. ASSUME NEW p \in Mentioned(event) \ dropped', NEW u \in Threads \ {t} PROVE p \notin Mentioned(thread[u])
      <3>1. CASE thread[u].pc = "idle"
        BY <3>1, NothingMentioned
      <3>2. CASE thread[u].pc # "idle"
        BY <2>1, <3>2
      <3> QED BY <3>1, <3>2
    <2>4. Unread(event) \subseteq Mentioned(event) /\ (event.type # "DELETED" /\ event.data = NoFile => Mentioned(event) \subseteq dropped')
      BY <2>1 DEF Unread
    <2>5. dropped' \subseteq Paths /\ dropped \subseteq dropped'
      BY <1>1, <2>1, <2>4 DEF WatchTypes
    <2> HIDE DEF others
    <2> QED BY <2>1, <2>2, <2>3, <2>4, <2>5 DEF Handled, Alone
  <1> QED BY <1>2, <1>3

LEMMA HandledShape ==
    ASSUME WatchShape, NEW t \in Threads, thread[t].pc = "idle", NEW event \in EventSet, event.pc = "event", event.path \in Paths,
           Handled(t, event), event.type = "DELETED" => event.old = NoFile /\ event.data = NoFile, UNCHANGED baseline
    PROVE  /\ (\A u \in Threads : ThreadFits(thread[u]))' /\ NoRace' /\ thread' \in [Threads -> EventSet]
  <1> USE DEF WatchShape
  <1>1. (thread' = thread \/ Taken(t, event)) /\ dropped \subseteq dropped'
    BY DEF Handled
  <1>2. thread' \in [Threads -> EventSet]
    BY <1>1 DEF Taken, WatchTypes
  <1>3. ASSUME NEW u \in Threads PROVE ThreadFits(thread[u])'
    <2>1. CASE thread'[u] = thread[u]
      BY <1>1, <2>1 DEF ThreadFits, Mentioned
    <2>2. CASE u = t /\ Taken(t, event) /\ thread' # thread
      <3>1. thread'[t] = event
        BY <2>2 DEF Taken, WatchTypes
      <3>2. event.type # "DELETED" /\ event.data = NoFile => Mentioned(event) \subseteq dropped'
        BY <2>2 DEF Handled
      <3> QED BY <2>2, <3>1, <3>2 DEF ThreadFits, Mentioned
    <2> QED BY <1>1, <2>1, <2>2 DEF Taken, WatchTypes
  <1>4. NoRace'
    <2> SUFFICES ASSUME NEW p \in Paths \ dropped', p \in Mentioned(thread'["observer"]), p \in Mentioned(thread'["poller"]) PROVE FALSE
      BY DEF NoRace, Mentioned
    <2>1. thread' # thread /\ Taken(t, event)
      BY <1>1 DEF NoRace
    <2>2. thread'[t] = event /\ \A u \in Threads \ {t} : thread'[u] = thread[u]
      BY <2>1 DEF Taken, WatchTypes
    <2>3. p \in Mentioned(event) => Alone(t, p)
      BY <2>1 DEF Handled
    <2> QED BY <2>2, <2>3 DEF Alone, Threads
  <1> QED BY <1>2, <1>3, <1>4

\* Thread u still mentions p, with the same outcome, or still does not.
Likewise(u, p) ==
    /\ p \in Mentioned(thread'[u]) <=> p \in Mentioned(thread[u])
    /\ p \in Mentioned(thread[u]) => Outcome(thread'[u], p) = Outcome(thread[u], p)

\* What a delivery means for a path that is not dropped.
LEMMA HandledPath ==
    ASSUME WatchShape, NEW t \in Threads, thread[t].pc = "idle", NEW event \in EventSet, event.pc = "event", event.path \in Paths,
           Handled(t, event), NEW p \in Paths \ dropped', UNCHANGED baseline
    PROVE  \/ /\ p \notin Mentioned(event) /\ After(p)' = After(p)
              /\ \A u \in Threads : Likewise(u, p)
           \/ /\ p \in Mentioned(event) /\ After(p)' = Outcome(event, p) /\ thread'[t] = event
              /\ \A u \in Threads \ {t} : p \notin Mentioned(thread'[u])
           \/ /\ p \in Mentioned(event) /\ thread' = thread /\ p = event.path /\ baseline[p] = event.data /\ event.old = NoFile
              /\ After(p)' = After(p)
  <1> USE DEF WatchShape
  <1>0. Mentioned(thread[t]) = {} /\ (thread' = thread \/ Taken(t, event))
    BY NothingMentioned DEF Handled
  <1>1. Taken(t, event) => thread'[t] = event /\ \A u \in Threads \ {t} : thread'[u] = thread[u]
    BY DEF Taken, WatchTypes
  <1>2. CASE p \notin Mentioned(event)
    <2>1. \A u \in Threads : Likewise(u, p)
      BY <1>0, <1>1, <1>2 DEF Likewise
    <2>2. After(p)' = After(p)
      BY <2>1 DEF Likewise, After, Threads, Outcome, Mentioned
    <2> QED BY <1>2, <2>1, <2>2
  <1>3. CASE p \in Mentioned(event) /\ Taken(t, event) /\ Alone(t, p)
    <2>1. \A u \in Threads \ {t} : p \notin Mentioned(thread'[u])
      BY <1>1, <1>3 DEF Alone
    <2>2. After(p)' = Outcome(event, p)
      BY <1>1, <1>3, <2>1 DEF After, Threads, Outcome, Mentioned
    <2> QED BY <1>1, <1>3, <2>1, <2>2
  <1>4. CASE p \in Mentioned(event) /\ thread' = thread /\ p = event.path /\ baseline[p] = event.data /\ event.old = NoFile
    <2>1. After(p)' = After(p)
      BY <1>4 DEF After, Outcome, Mentioned
    <2> QED BY <1>4, <2>1
  <1> QED BY <1>2, <1>3, <1>4 DEF Handled

LEMMA ObserveKeeps == WatchInv /\ Observe => WatchInv'
  <1> SUFFICES ASSUME WatchInv, Observe PROVE WatchInv'
    OBVIOUS
  <1> USE DEF WatchInv, WatchShape
  <1> DEFINE n     == Head(notices)
             event == IF n.type = "DELETED" THEN Event(n.type, n.path, NoFile, NoFile, 0)
                      ELSE Event(n.type, n.path, n.old, disk[n.path].data, SizeOf[disk[n.path].data])
             none  == n.type # "DELETED" /\ ~Exists(disk, n.path)
  <1>1. /\ notices # << >> /\ thread["observer"].pc = "idle" /\ notices' = Tail(notices)
        /\ UNCHANGED <<disk, watchdog, ignored, poller, snapshot, baseline, writes>>
    BY DEF Observe
  <1>2. /\ notices' \in Seq(NoticeSet) /\ n \in NoticeSet /\ n = notices[1]
        /\ \A p : Pending(p) <=> Pending(p)' \/ p \in Mentioned(n)
        /\ \A p : RenamedTo(p) <=> RenamedTo(p)' \/ (n.path = p /\ n.old # NoFile)
        /\ \A i \in 1..Len(notices') : notices'[i] = notices[i + 1]
        /\ Len(notices') + 1 = Len(notices) /\ Len(notices') \in Nat
    BY <1>1, TailNotices
  <1>3. watchdog /\ n.old # n.path /\ n.path \in Paths /\ n.old \in Places /\ (n.type = "DELETED" => n.old = NoFile)
    BY <1>1, <1>2 DEF ObserverFits, NoticeSet
  <1>4. /\ event \in EventSet /\ event.pc = "event" /\ event.path = n.path /\ event.type = n.type
        /\ event.type = "DELETED" => event.old = NoFile /\ event.data = NoFile
        /\ event.type # "DELETED" => event.old = n.old /\ event.data = disk[n.path].data
    <2>1. disk[n.path].data \in Content /\ SizeOf[disk[n.path].data] \in Nat
      BY <1>3, WatchAssumption DEF WatchTypes, Versions, Content
    <2>2. Event(n.type, n.path, NoFile, NoFile, 0) \in EventSet /\ Event(n.type, n.path, n.old, disk[n.path].data, SizeOf[disk[n.path].data]) \in EventSet
      BY <1>2, <1>3, <2>1, EventTyped DEF NoticeSet, Places, Content
    <2> QED BY <2>2 DEF Event
  <1>5. \/ /\ none /\ dropped' = dropped \cup ({n.old} \ {NoFile}) /\ UNCHANGED <<seen, thread>>
        \/ /\ ~none /\ Handled("observer", event)
    <2>1. CASE none /\ dropped' = dropped \cup ({n.old} \ {NoFile}) /\ UNCHANGED <<seen, thread>>
      BY <2>1
    <2>2. CASE ~none /\ OnEvent("observer", event)
      <3> HIDE DEF event
      <3> QED BY <1>1, <1>3, <1>4, <2>2, EventHandled DEF Threads
    <2>3. CASE ~none /\ dropped' = (IF Matters(event) THEN dropped \cup Mentioned(event) ELSE dropped) /\ UNCHANGED <<seen, thread>>
      <3> HIDE DEF event
      <3>1. Mentioned(event) \subseteq Paths
        BY <1>4, WatchAssumption DEF EventSet, Places, Mentioned
      <3>2. \A p \in Mentioned(event) \ dropped' : p = event.path /\ baseline[p] = event.data /\ event.old = NoFile
        BY <2>3 DEF Matters, Mentioned
      <3> QED BY <2>3, <3>1, <3>2 DEF Handled, WatchTypes
    <2> QED BY <2>1, <2>2, <2>3 DEF Observe
  <1>6. LastNotice'
    <2> SUFFICES ASSUME NEW p \in Paths, NEW i \in 1..Len(notices'), p \in Mentioned(notices'[i]),
                        \A j \in i + 1..Len(notices') : p \notin Mentioned(notices'[j])
                 PROVE  Exists(disk', p) <=> Leaves(notices'[i], p)
      BY DEF LastNotice, Mentioned, Leaves, Exists
    <2>1. i + 1 \in 1..Len(notices) /\ notices'[i] = notices[i + 1]
      BY <1>2
    <2>2. ASSUME NEW j \in (i + 1) + 1..Len(notices) PROVE p \notin Mentioned(notices[j])
      <3>1. j - 1 \in i + 1..Len(notices') /\ notices'[j - 1] = notices[j]
        BY <1>2
      <3> QED BY <3>1
    <2>3. Exists(disk, p) <=> Leaves(notices[i + 1], p)
      BY <2>1, <2>2 DEF LastNotice
    <2> QED BY <1>1, <2>1, <2>3 DEF Exists
  \* The last notice of a path says whether there is a file.
  <1>7. ASSUME NEW p \in Paths, p \in Mentioned(n), ~Pending(p)' PROVE Exists(disk, p) <=> Leaves(n, p)
    <2>1. 1 \in 1..Len(notices)
      BY <1>2
    <2>2. ASSUME NEW j \in 1 + 1..Len(notices) PROVE p \notin Mentioned(notices[j])
      <3>1. j - 1 \in 1..Len(notices') /\ notices'[j - 1] = notices[j]
        BY <1>2
      <3> QED BY <1>7, <3>1 DEF Pending, Mentioned
    <2> QED BY <1>2, <1>7, <2>1, <2>2 DEF LastNotice
  <1>8. ObserverFits' /\ PollerFits' /\ WatchTypes' /\ (\A t \in Threads : ThreadFits(thread[t]))' /\ NoRace'
    <2> HIDE DEF event, n
    <2>1. CASE none /\ dropped' = dropped \cup ({n.old} \ {NoFile}) /\ UNCHANGED <<seen, thread>>
      <3>1. WatchTypes'
        BY <1>1, <1>2, <1>3, <2>1 DEF WatchTypes, Places
      <3>2. (\A t \in Threads : ThreadFits(thread[t]))' /\ NoRace'
        BY <1>1, <2>1 DEF ThreadFits, NoRace, Mentioned
      <3>3. ObserverFits' /\ PollerFits'
        BY <1>1, <1>2, <1>3, <2>1 DEF ObserverFits, PollerFits
      <3> QED BY <3>1, <3>2, <3>3
    <2>2. CASE Handled("observer", event)
      <3>1. (\A t \in Threads : ThreadFits(thread[t]))' /\ NoRace' /\ thread' \in [Threads -> EventSet]
        BY <1>1, <1>3, <1>4, <2>2, HandledShape DEF Threads
      <3>2. WatchTypes'
        BY <1>1, <1>2, <2>2, <3>1 DEF WatchTypes, Handled
      <3>3. thread'["poller"] = thread["poller"] /\ (thread'["observer"] = thread["observer"] \/ thread'["observer"] = event)
        BY <2>2 DEF Handled, Taken, Threads, WatchTypes
      <3>4. ObserverFits'
        BY <1>1, <1>2, <1>3, <1>4, <3>3, WatchAssumption DEF ObserverFits
      <3>5. PollerFits'
        BY <1>1, <3>3 DEF PollerFits
      <3> QED BY <3>1, <3>2, <3>4, <3>5
    <2> QED BY <1>5, <2>1, <2>2
  <1>9. ASSUME NEW p \in Watched' PROVE Follows(p)'
    <2>1. p \in Paths /\ p \notin dropped' /\ p \in Watched /\ Follows(p) /\ p # NoFile
      BY <1>1, <1>5, WatchAssumption DEF Watched, Handled
    <2>2. Recalled(p)' = Recalled(p) /\ disk'[p] = disk[p] /\ AbsentFollows(p)'
      BY <1>1, <1>3 DEF Recalled, AbsentFollows
    <2>3. Mentioned(thread["observer"]) = {}
      BY <1>1, NothingMentioned DEF Threads
    <2>4. CASE p \notin Mentioned(n) /\ After(p)' = After(p) /\ \A u \in Threads : Likewise(u, p)
      <3>1. (Pending(p)' <=> Pending(p)) /\ (RenamedTo(p)' <=> RenamedTo(p))
        BY <1>2, <2>1, <2>4, MentionedIs
      <3>2. ObserverFollows(p)' <=> (p \in Mentioned(thread'["observer"]) => Pending(p)' \/ Outcome(thread'["observer"], p) = disk'[p].data)
        BY DEF ObserverFollows, Outcome, Mentioned
      <3>3. PollerFollows(p)' <=> (p \in Mentioned(thread'["poller"]) => RenamedTo(p)' \/ Outcome(thread'["poller"], p) = disk'[p].data \/ Recalled(p)' # disk'[p])
        BY DEF PollerFollows, Outcome, Mentioned
      <3>4. ObserverFollows(p)'
        <4>1. p \in Mentioned(thread["observer"]) => Pending(p) \/ Outcome(thread["observer"], p) = disk[p].data
          BY <2>1 DEF Follows, ObserverFollows
        <4>2. /\ p \in Mentioned(thread'["observer"]) => p \in Mentioned(thread["observer"])
              /\ p \in Mentioned(thread["observer"]) => Outcome(thread'["observer"], p) = Outcome(thread["observer"], p)
          BY <2>4 DEF Threads, Likewise
        <4> QED BY <2>2, <3>1, <3>2, <4>1, <4>2
      <3>5. PollerFollows(p)'
        <4>1. p \in Mentioned(thread["poller"]) => RenamedTo(p) \/ Outcome(thread["poller"], p) = disk[p].data \/ Recalled(p) # disk[p]
          BY <2>1 DEF Follows, PollerFollows
        <4>2. /\ p \in Mentioned(thread'["poller"]) => p \in Mentioned(thread["poller"])
              /\ p \in Mentioned(thread["poller"]) => Outcome(thread'["poller"], p) = Outcome(thread["poller"], p)
          BY <2>4 DEF Threads, Likewise
        <4> QED BY <2>2, <3>1, <3>3, <4>1, <4>2
      <3>6. Followed(p)'
        BY <1>1, <2>1, <2>2, <2>4, <3>1 DEF Follows, Followed
      <3> QED BY <2>2, <3>4, <3>5, <3>6 DEF Follows
    <2>5. CASE none /\ thread' = thread /\ p \in Mentioned(n) /\ p # n.old
      <3>1. p = n.path /\ disk[p].data = NoFile
        BY <2>5, MentionedIs DEF Exists
      <3>2. Pending(p)'
        BY <1>7, <2>1, <2>5, <3>1 DEF Leaves, Exists
      <3>3. PollerFollows(p)'
        <4> SUFFICES ASSUME p \in Mentioned(thread["poller"]), Recalled(p) = disk[p] PROVE Outcome(thread["poller"], p) = disk[p].data
          BY <2>2, <2>5 DEF PollerFollows, Outcome, Mentioned
        <4>2. thread["poller"].pc # "idle" /\ poller.pc = "emit" /\ thread["poller"].path = p /\ thread["poller"].type = "DELETED"
          BY <3>1, MentionedIs DEF PollerFits, ThreadFits, Threads, Recalled, WatchTypes
        <4> QED BY <3>1, <4>2 DEF Outcome
      <3> QED BY <2>2, <2>3, <2>5, <3>2, <3>3 DEF Follows, Followed, ObserverFollows, Mentioned
    <2>6. CASE p \in Mentioned(event) /\ ~none /\ After(p)' = Outcome(event, p) /\ thread'["observer"] = event /\ p \notin Mentioned(thread'["poller"])
      <3>1. Pending(p)' \/ Outcome(event, p) = disk[p].data
        <4> SUFFICES ASSUME ~Pending(p)' PROVE Outcome(event, p) = disk[p].data
          OBVIOUS
        <4>1. p \in Mentioned(n)
          BY <1>4, <2>6, MentionedIs
        <4>2. Exists(disk, p) <=> Leaves(n, p)
          BY <1>7, <2>1, <4>1
        <4>3. CASE Leaves(n, p)
          BY <1>3, <1>4, <4>3 DEF Leaves, Outcome
        <4>4. CASE ~Leaves(n, p)
          <5>1. disk[p].data = NoFile /\ (n.type = "DELETED" \/ n.old = p)
            BY <4>1, <4>2, <4>4, MentionedIs DEF Exists, Leaves
          <5> QED BY <1>4, <5>1 DEF Outcome
        <4> QED BY <4>3, <4>4
      <3> HIDE DEF event
      <3>2. ObserverFollows(p)' /\ PollerFollows(p)' /\ Followed(p)'
        BY <1>1, <2>2, <2>6, <3>1 DEF ObserverFollows, PollerFollows, Followed, Outcome, Mentioned
      <3> QED BY <2>2, <3>2 DEF Follows
    <2>7. CASE p \in Mentioned(event) /\ ~none /\ thread' = thread /\ p = event.path /\ baseline[p] = event.data /\ event.old = NoFile /\ After(p)' = After(p)
      <3>1. Pending(p)' \/ baseline[p] = disk[p].data
        <4> SUFFICES ASSUME ~Pending(p)' PROVE baseline[p] = disk[p].data
          OBVIOUS
        <4>1. p \in Mentioned(n)
          BY <1>4, <2>1, <2>7, MentionedIs
        <4>2. Exists(disk, p) <=> Leaves(n, p)
          BY <1>7, <2>1, <4>1
        <4> QED BY <1>4, <2>7, <4>2 DEF Leaves, Exists
      <3>2. RenamedTo(p)' <=> RenamedTo(p)
        <4>1. n.old = NoFile
          BY <1>3, <1>4, <2>7
        <4> QED BY <1>2, <4>1
      <3>3. RenamedTo(p)' => Pending(p)'
        BY <2>1 DEF RenamedTo, Pending, Mentioned
      <3>4. ObserverFollows(p)' /\ PollerFollows(p)'
        BY <1>1, <2>1, <2>2, <2>3, <2>7, <3>2 DEF Follows, ObserverFollows, PollerFollows, Outcome, Mentioned
      <3>5. Followed(p)'
        <4>1. CASE p \in Mentioned(thread["poller"])
          <5>1. After(p) = Outcome(thread["poller"], p)
            BY <2>3, <4>1 DEF After
          <5> QED BY <1>1, <2>1, <2>2, <2>7, <3>2, <3>3, <4>1, <5>1 DEF Follows, PollerFollows, Followed
        <4>2. CASE p \notin Mentioned(thread["poller"])
          <5>1. After(p) = baseline[p]
            BY <2>3, <4>2 DEF After
          <5> QED BY <1>1, <2>2, <2>7, <3>1, <5>1 DEF Followed
        <4> QED BY <4>1, <4>2
      <3> QED BY <2>2, <3>4, <3>5 DEF Follows
    <2>8. CASE none
      <3>1. thread' = thread /\ p # n.old
        BY <1>5, <2>1, <2>8
      <3>2. After(p)' = After(p)
        BY <1>1, <3>1 DEF After, Outcome, Mentioned
      <3>3. \A u \in Threads : Likewise(u, p)
        BY <3>1 DEF Likewise
      <3> QED BY <2>4, <2>5, <2>8, <3>1, <3>2, <3>3
    <2>9. CASE ~none
      <3>1. Handled("observer", event)
        BY <1>5, <2>9
      <3>2. p \in Mentioned(event) <=> p \in Mentioned(n)
        BY <1>3, <1>4, MentionedIs
      <3> QED BY <1>1, <1>3, <1>4, <2>1, <2>4, <2>6, <2>7, <2>9, <3>1, <3>2, HandledPath DEF Threads
    <2> QED BY <2>8, <2>9
  <1>10. Stamps'
    BY <1>1 DEF Stamps, Recorded
  <1> QED BY <1>6, <1>8, <1>9, <1>10

\* The poller delivers an event on a path of its scan.
LEMMA EmissionKeeps ==
    ASSUME WatchInv, NEW p \in Paths, NEW event \in EventSet, event.pc = "event", event.path = p, event.old = NoFile,
           poller.pc = "emit", thread["poller"].pc = "idle", Handled("poller", event),
           event.type = "DELETED" <=> poller.current[p].data = NoFile,
           event.type = "DELETED" => event.data = NoFile, event.type # "DELETED" => event.data = disk[p].data,
           poller' \in [pc : {"sleep", "emit"}, current : [Paths -> Versions], files : SUBSET Paths, gone : SUBSET Paths],
           poller'.pc = "emit", poller'.current = poller.current, poller'.files \subseteq poller.files, poller'.gone \subseteq poller.gone,
           poller.files \cup poller.gone \subseteq poller'.files \cup poller'.gone \cup {p},
           \A q \in Paths \ {p} : q \in poller.gone => q \in poller'.gone,
           UNCHANGED <<disk, watchdog, ignored, notices, snapshot, baseline, writes>>
    PROVE  WatchInv'
  <1> USE DEF WatchInv, WatchShape
  <1>1. p # NoFile /\ \A q : q \in Mentioned(event) <=> q = p
    BY MentionedIs, WatchAssumption
  <1>2. (\A t \in Threads : ThreadFits(thread[t]))' /\ NoRace' /\ thread' \in [Threads -> EventSet]
    BY HandledShape DEF Threads
  <1>3. WatchTypes'
    BY <1>2 DEF WatchTypes, Handled
  <1>4. thread'["observer"] = thread["observer"] /\ (thread'["poller"] = thread["poller"] \/ thread'["poller"] = event)
    BY DEF Handled, Taken, Threads, WatchTypes
  <1>5. ObserverFits' /\ LastNotice' /\ Stamps'
    BY <1>4 DEF ObserverFits, LastNotice, Mentioned, Leaves, Exists, Stamps, Recorded
  <1>6. PollerFits'
    BY <1>4 DEF PollerFits
  <1>7. ASSUME NEW q \in Watched' PROVE Follows(q)'
    <2>1. q \in Paths /\ q \notin dropped' /\ q \in Watched /\ Follows(q)
      BY DEF Watched, Handled
    <2>2. Recalled(q)' = Recalled(q) /\ Recalled(q) = poller.current[q] /\ (Pending(q)' <=> Pending(q)) /\ (RenamedTo(q)' <=> RenamedTo(q))
      BY DEF Recalled, Pending, RenamedTo, Mentioned
    <2>3. /\ ObserverFollows(q)' <=> (q \in Mentioned(thread'["observer"]) => Pending(q)' \/ Outcome(thread'["observer"], q) = disk'[q].data)
          /\ PollerFollows(q)' <=> (q \in Mentioned(thread'["poller"]) => RenamedTo(q)' \/ Outcome(thread'["poller"], q) = disk'[q].data \/ Recalled(q)' # disk'[q])
      BY DEF ObserverFollows, PollerFollows, Outcome, Mentioned
    <2>4. ObserverFollows(q)'
      <3>1. q \in Mentioned(thread["observer"]) => Pending(q) \/ Outcome(thread["observer"], q) = disk[q].data
        BY <2>1 DEF Follows, ObserverFollows
      <3> QED BY <1>4, <2>2, <2>3, <3>1
    <2>5. Mentioned(thread["poller"]) = {}
      BY NothingMentioned DEF Threads
    <2>6. CASE q # p /\ After(q)' = After(q) /\ \A u \in Threads : Likewise(u, q)
      <3>1. q \notin Mentioned(thread'["poller"])
        BY <2>5, <2>6 DEF Likewise, Threads
      <3>2. Followed(q)' /\ AbsentFollows(q)'
        BY <2>1, <2>2, <2>6 DEF Follows, Followed, AbsentFollows
      <3> QED BY <2>3, <2>4, <3>1, <3>2 DEF Follows
    <2>7. event.data = disk[p].data \/ (event.data = NoFile /\ Recalled(p) # disk[p]) \/ (event.data = NoFile /\ disk[p].data = NoFile)
      BY DEF Recalled
    <2>8. CASE q = p /\ After(p)' = Outcome(event, p) /\ thread'["poller"] = event
      <3>1. Outcome(event, p) = event.data
        BY <1>1 DEF Outcome
      <3>2. Followed(p)' /\ PollerFollows(p)'
        BY <2>2, <2>3, <2>7, <2>8, <3>1 DEF Followed
      <3>3. AbsentFollows(p)'
        BY <2>2, <2>8, <3>1 DEF AbsentFollows
      <3> QED BY <2>4, <2>8, <3>2, <3>3 DEF Follows
    <2>9. CASE q = p /\ thread' = thread /\ baseline[p] = event.data /\ After(p)' = After(p)
      <3>1. PollerFollows(p)'
        BY <2>3, <2>5, <2>9
      <3>2. CASE q \in Mentioned(thread["observer"])
        <4>1. After(p) = Outcome(thread["observer"], p) /\ watchdog
          BY <2>9, <3>2, NothingMentioned DEF After, Threads, ObserverFits
        <4>2. Followed(p)'
          BY <2>1, <2>2, <2>9, <3>2, <4>1 DEF Follows, ObserverFollows, Followed
        <4>3. AbsentFollows(p)'
          BY <4>1 DEF AbsentFollows
        <4> QED BY <2>4, <2>9, <3>1, <4>2, <4>3 DEF Follows
      <3>3. CASE q \notin Mentioned(thread["observer"])
        <4>1. After(p) = event.data
          BY <2>5, <2>9, <3>3 DEF After
        <4>2. Followed(p)' /\ AbsentFollows(p)'
          BY <2>2, <2>7, <2>9, <4>1 DEF Followed, AbsentFollows
        <4> QED BY <2>4, <2>9, <3>1, <4>2 DEF Follows
      <3> QED BY <3>2, <3>3
    <2> HIDE DEF WatchInv, WatchShape
    <2> QED BY <1>1, <2>1, <2>6, <2>8, <2>9, HandledPath DEF WatchInv, Threads
  <1> QED BY <1>2, <1>3, <1>5, <1>6, <1>7

LEMMA EmitFileKeeps == \A p \in Paths : WatchInv /\ EmitFile(p) => WatchInv'
  <1> SUFFICES ASSUME NEW p \in Paths, WatchInv, EmitFile(p) PROVE WatchInv'
    OBVIOUS
  <1> USE DEF WatchInv, WatchShape
  <1> DEFINE type  == IF Exists(snapshot, p) THEN "MODIFIED" ELSE "CREATED"
             event == Event(type, p, NoFile, disk[p].data, SizeOf[poller.current[p].data])
  <1>1. /\ poller.pc = "emit" /\ thread["poller"].pc = "idle" /\ p \in poller.files /\ OnEvent("poller", event)
        /\ poller' = [poller EXCEPT !.files = poller.files \ {p}]
        /\ UNCHANGED <<disk, watchdog, ignored, notices, snapshot, baseline, writes>>
    BY DEF EmitFile
  <1>2. /\ event \in EventSet /\ event.pc = "event" /\ event.path = p /\ event.old = NoFile /\ event.type # "DELETED"
        /\ event.data = disk[p].data
    <2>1. disk[p].data \in Content /\ SizeOf[poller.current[p].data] \in Nat
      BY WatchAssumption DEF WatchTypes, Versions, Content
    <2>2. event \in EventSet
      BY <2>1, EventTyped DEF Places
    <2> QED BY <2>2 DEF Event
  <1>3. poller.current[p].data # NoFile
    BY <1>1 DEF PollerFits
  <1>4. /\ poller' \in [pc : {"sleep", "emit"}, current : [Paths -> Versions], files : SUBSET Paths, gone : SUBSET Paths]
        /\ poller'.pc = "emit" /\ poller'.current = poller.current /\ poller'.gone = poller.gone /\ poller'.files = poller.files \ {p}
    BY <1>1 DEF WatchTypes
  <1> HIDE DEF event
  <1>5. Handled("poller", event)
    BY <1>1, <1>2, EventHandled DEF Threads
  <1> HIDE DEF WatchInv, WatchShape
  <1> QED BY <1>1, <1>2, <1>3, <1>4, <1>5, EmissionKeeps

LEMMA EmitGoneKeeps == \A p \in Paths : WatchInv /\ EmitGone(p) => WatchInv'
  <1> SUFFICES ASSUME NEW p \in Paths, WatchInv, EmitGone(p) PROVE WatchInv'
    OBVIOUS
  <1> USE DEF WatchInv, WatchShape
  <1> DEFINE event == Event("DELETED", p, NoFile, NoFile, 0)
  <1>1. /\ poller.pc = "emit" /\ thread["poller"].pc = "idle" /\ p \in poller.gone /\ OnEvent("poller", event)
        /\ poller' = [poller EXCEPT !.gone = poller.gone \ {p}]
        /\ UNCHANGED <<disk, watchdog, ignored, notices, snapshot, baseline, writes>>
    BY DEF EmitGone
  <1>2. event \in EventSet /\ event.pc = "event" /\ event.path = p /\ event.old = NoFile /\ event.type = "DELETED" /\ event.data = NoFile
    <2>1. event \in EventSet
      BY EventTyped DEF Places, Content
    <2> QED BY <2>1 DEF Event
  <1>3. poller.current[p].data = NoFile
    BY <1>1 DEF PollerFits
  <1>4. /\ poller' \in [pc : {"sleep", "emit"}, current : [Paths -> Versions], files : SUBSET Paths, gone : SUBSET Paths]
        /\ poller'.pc = "emit" /\ poller'.current = poller.current /\ poller'.files = poller.files /\ poller'.gone = poller.gone \ {p}
    BY <1>1 DEF WatchTypes
  <1> HIDE DEF event
  <1>5. Handled("poller", event)
    BY <1>1, <1>2, EventHandled DEF Threads
  <1> HIDE DEF WatchInv, WatchShape
  <1> QED BY <1>1, <1>2, <1>3, <1>4, <1>5, EmissionKeeps

-----------------------------------------------------------------------------
(* The engine                                                                *)

\* A step of a callback changes neither what the paths look like nor which
\* events come; it leaves the paths that are not dropped with the same outcome.
LEMMA CallbackKeeps ==
    ASSUME WatchInv, NEW t \in Threads, thread[t].pc # "idle", NEW e \in EventSet, thread' = [thread EXCEPT ![t] = e],
           ThreadFits(e)', e.pc # "idle" => e.path = thread[t].path /\ e.old = thread[t].old /\ e.type = thread[t].type,
           e.pc # "idle" => \A p \in Mentioned(thread[t]) \ dropped' : Outcome(e, p) = Outcome(thread[t], p),
           e.pc = "idle" => Mentioned(e) = {},
           dropped \subseteq dropped', dropped' \subseteq Paths, baseline' \in [Paths -> Content],
           \A p \in Watched' : e.pc = "idle" /\ p \in Mentioned(thread[t]) => baseline'[p] = Outcome(thread[t], p),
           \A p \in Paths \ dropped : p \notin Mentioned(thread[t]) => baseline'[p] = baseline[p],
           UNCHANGED <<disk, watchdog, ignored, notices, poller, snapshot, seen, writes>>
    PROVE  WatchInv'
  <1> USE DEF WatchInv, WatchShape
  <1>1. thread'[t] = e /\ \A u \in Threads \ {t} : thread'[u] = thread[u]
    BY DEF WatchTypes
  <1>2. WatchTypes'
    BY DEF WatchTypes
  <1>3. Mentioned(e) \subseteq Mentioned(thread[t])
    BY DEF Mentioned
  <1>4. NoRace'
    <2> SUFFICES ASSUME NEW p \in Paths \ dropped', p \in Mentioned(thread'["observer"]), p \in Mentioned(thread'["poller"]) PROVE FALSE
      BY DEF NoRace, Mentioned
    <2>1. p \in Mentioned(thread["observer"]) /\ p \in Mentioned(thread["poller"])
      BY <1>1, <1>3 DEF Threads
    <2> QED BY <2>1 DEF NoRace
  <1>5. ASSUME NEW u \in Threads PROVE ThreadFits(thread[u])'
    <2>1. CASE u = t
      BY <1>1, <2>1 DEF ThreadFits, Mentioned
    <2>2. CASE u # t
      <3>1. thread'[u] = thread[u] /\ ThreadFits(thread[u])
        BY <1>1, <2>2
      <3>2. ASSUME thread[u].old \in Paths \ dropped' PROVE baseline'[thread[u].old] = baseline[thread[u].old]
        <4>1. thread[u].old \in Mentioned(thread[u])
          BY <3>2, WatchAssumption DEF Mentioned
        <4>2. thread[u].old \notin Mentioned(thread[t])
          BY <2>2, <3>2, <4>1 DEF NoRace, Threads
        <4> QED BY <3>2, <4>2
      <3> QED BY <3>1, <3>2 DEF ThreadFits, Mentioned
    <2> QED BY <2>1, <2>2
  <1>6. ObserverFits' /\ LastNotice' /\ Stamps'
    <2>1. CASE t = "observer"
      BY <1>1, <2>1 DEF ObserverFits, LastNotice, Mentioned, Leaves, Exists, Stamps, Recorded
    <2>2. CASE t = "poller"
      BY <1>1, <2>2 DEF ObserverFits, LastNotice, Mentioned, Leaves, Exists, Stamps, Recorded, Threads
    <2> QED BY <2>1, <2>2 DEF Threads
  <1>7. PollerFits'
    BY <1>1 DEF PollerFits, Threads
  <1>8. ASSUME NEW p \in Watched' PROVE Follows(p)'
    <2>1. p \in Paths /\ p \notin dropped' /\ p \notin dropped /\ p \in Watched /\ Follows(p)
      BY DEF Watched
    <2>2. Recalled(p)' = Recalled(p) /\ (Pending(p)' <=> Pending(p)) /\ (RenamedTo(p)' <=> RenamedTo(p))
      BY DEF Recalled, Pending, RenamedTo, Mentioned
    <2>3. \A u \in Threads : p \in Mentioned(thread'[u]) => p \in Mentioned(thread[u]) /\ Outcome(thread'[u], p) = Outcome(thread[u], p)
      BY <1>1, <1>3, <2>1
    <2>4. After(p)' = After(p)
      <3>1. CASE p \notin Mentioned(thread[t])
        <4>1. \A u \in Threads : (p \in Mentioned(thread'[u]) <=> p \in Mentioned(thread[u]))
          BY <1>1, <1>3, <3>1
        <4> QED BY <2>1, <2>3, <3>1, <4>1 DEF After, Threads, Outcome, Mentioned
      <3>2. CASE p \in Mentioned(thread[t]) /\ e.pc = "idle"
        <4>1. \A u \in Threads \ {t} : p \notin Mentioned(thread[u])
          BY <2>1, <3>2 DEF NoRace, Threads
        <4>2. \A u \in Threads : p \notin Mentioned(thread'[u])
          BY <1>1, <3>2, <4>1
        <4>3. After(p) = Outcome(thread[t], p)
          BY <3>2, <4>1 DEF After, Threads
        <4>4. After(p)' = baseline'[p]
          BY <4>2 DEF After, Threads, Mentioned
        <4> QED BY <3>2, <4>3, <4>4
      <3>3. CASE p \in Mentioned(thread[t]) /\ e.pc # "idle"
        <4>1. \A u \in Threads : (p \in Mentioned(thread'[u]) <=> p \in Mentioned(thread[u]))
          BY <1>1, <3>3 DEF Mentioned
        <4>2. \A u \in Threads \ {t} : p \notin Mentioned(thread[u])
          BY <2>1, <3>3 DEF NoRace, Threads
        <4>3. After(p) = Outcome(thread[t], p)
          BY <3>3, <4>2 DEF After, Threads
        <4>4. After(p)' = Outcome(thread'[t], p)
          BY <3>3, <4>1, <4>2 DEF After, Threads, Mentioned, Outcome
        <4> QED BY <2>3, <3>3, <4>1, <4>3, <4>4
      <3> QED BY <3>1, <3>2, <3>3
    <2>5. /\ ObserverFollows(p)' <=> (p \in Mentioned(thread'["observer"]) => Pending(p)' \/ Outcome(thread'["observer"], p) = disk'[p].data)
          /\ PollerFollows(p)' <=> (p \in Mentioned(thread'["poller"]) => RenamedTo(p)' \/ Outcome(thread'["poller"], p) = disk'[p].data \/ Recalled(p)' # disk'[p])
      BY DEF ObserverFollows, PollerFollows, Outcome, Mentioned
    <2>6. ObserverFollows(p)'
      <3>1. p \in Mentioned(thread["observer"]) => Pending(p) \/ Outcome(thread["observer"], p) = disk[p].data
        BY <2>1 DEF Follows, ObserverFollows
      <3> QED BY <2>2, <2>3, <2>5, <3>1 DEF Threads
    <2>7. PollerFollows(p)'
      <3>1. p \in Mentioned(thread["poller"]) => RenamedTo(p) \/ Outcome(thread["poller"], p) = disk[p].data \/ Recalled(p) # disk[p]
        BY <2>1 DEF Follows, PollerFollows
      <3> QED BY <2>2, <2>3, <2>5, <3>1 DEF Threads
    <2>8. Followed(p)' /\ AbsentFollows(p)'
      BY <2>1, <2>2, <2>4 DEF Follows, Followed, AbsentFollows
    <2> QED BY <2>6, <2>7, <2>8 DEF Follows
  <1> QED BY <1>2, <1>4, <1>5, <1>6, <1>7, <1>8

LEMMA CompareKeeps == \A t \in Threads : WatchInv /\ Compare(t) => WatchInv'
  <1> SUFFICES ASSUME NEW t \in Threads, WatchInv, Compare(t) PROVE WatchInv'
    OBVIOUS
  <1> USE DEF WatchInv, WatchShape
  <1> DEFINE event == thread[t]
             now   == IF event.data = NoFile /\ event.type # "DELETED" THEN disk[event.path].data ELSE event.data
             next  == [event EXCEPT !.pc = "update", !.was = baseline[Lookup(event)], !.data = now]
  <1>1. /\ event.pc = "event" /\ event \in EventSet /\ event.path \in Paths /\ ThreadFits(event)
        /\ UNCHANGED <<disk, watchdog, ignored, notices, poller, snapshot, seen, baseline, writes>>
    BY DEF Compare, WatchTypes, PollerFits, ObserverFits, Threads
  <1>2. CASE /\ event.path \in ignored /\ thread' = [thread EXCEPT ![t] = IdleThread]
             /\ dropped' = dropped \cup ({event.old} \ {NoFile})
    <2>1. dropped \subseteq dropped' /\ dropped' \subseteq Paths
      BY <1>1, <1>2 DEF WatchTypes, EventSet, Places
    <2>2. \A p \in Watched' : p \notin Mentioned(event)
      BY <1>1, <1>2 DEF Watched, Mentioned
    <2>3. ThreadFits(IdleThread)'
      BY DEF ThreadFits, IdleThread, Mentioned
    <2>4. baseline' \in [Paths -> Content]
      BY <1>1 DEF WatchTypes
    <2> HIDE DEF WatchInv, WatchShape
    <2> QED BY <1>1, <1>2, <2>1, <2>2, <2>3, <2>4, CallbackKeeps, WatchIdle
  <1>3. CASE event.path \notin ignored /\ thread' = [thread EXCEPT ![t] = next] /\ dropped' = dropped
    <2>1. now \in Content /\ Lookup(event) \in Paths
      BY <1>1 DEF EventSet, Content, WatchTypes, Versions, Lookup, Places
    <2>2. baseline[Lookup(event)] \in Content
      BY <2>1 DEF WatchTypes
    <2>3. /\ next \in EventSet /\ next.pc = "update" /\ next.path = event.path /\ next.old = event.old /\ next.type = event.type
          /\ next.data = now /\ next.was = baseline[Lookup(event)]
      BY <1>1, <2>1, <2>2 DEF EventSet
    <2>4. event.type # "DELETED" /\ event.data = NoFile => Mentioned(event) \subseteq dropped
      BY <1>1 DEF ThreadFits
    <2>5. PICK e \in EventSet : e = next
      BY <2>3
    <2>6. /\ e.pc = "update" /\ e.path = event.path /\ e.old = event.old /\ e.type = event.type
          /\ e.data = now /\ e.was = baseline[Lookup(event)] /\ thread' = [thread EXCEPT ![t] = e]
      BY <1>3, <2>3, <2>5
    <2> HIDE DEF next
    <2>7. \A p \in Mentioned(event) \ dropped' : Outcome(e, p) = Outcome(event, p)
      BY <1>3, <2>4, <2>6 DEF Outcome
    <2>8. ThreadFits(e)'
      <3>1. Mentioned(e) = Mentioned(event) /\ (event.type = "DELETED" => event.old = NoFile /\ event.data = NoFile)
        BY <1>1, <2>6 DEF Mentioned, ThreadFits
      <3>2. e.pc # "idle" /\ e.type # "DELETED" /\ e.data = NoFile => Mentioned(e) \subseteq dropped
        BY <2>4, <2>6, <3>1
      <3>3. e.old \in Paths /\ e.was = NoFile => baseline[e.old] = NoFile
        BY <2>6, WatchAssumption DEF Lookup
      <3>4. e.type = "DELETED" => e.old = NoFile /\ e.data = NoFile
        BY <2>6, <3>1
      <3>5. ThreadFits(e)' <=> /\ e.pc = "idle" => e.path = NoFile /\ e.old = NoFile
                               /\ e.type = "DELETED" => e.old = NoFile /\ e.data = NoFile
                               /\ e.pc # "idle" /\ e.type # "DELETED" /\ e.data = NoFile => Mentioned(e) \subseteq dropped'
                               /\ e.pc = "update" /\ e.old \in Paths \ dropped' /\ e.was = NoFile => baseline'[e.old] = NoFile
        BY DEF ThreadFits, Mentioned
      <3> QED BY <1>1, <1>3, <2>6, <3>2, <3>3, <3>4, <3>5
    <2>9. baseline' \in [Paths -> Content] /\ dropped' \subseteq Paths
      BY <1>1, <1>3 DEF WatchTypes
    <2>10. thread[t].pc # "idle"
      BY <1>1
    <2> HIDE DEF WatchInv, WatchShape
    <2> QED BY <1>1, <1>3, <2>6, <2>7, <2>8, <2>9, <2>10, CallbackKeeps
  <1> QED BY <1>1, <1>2, <1>3 DEF Compare

\* The write of the baseline leaves each path of the callback with its outcome.
LEMMA UpdatedIs ==
    ASSUME WatchInv, NEW t \in Threads, thread[t].pc = "update"
    PROVE  /\ Updated(thread[t]) \in [Paths -> Content]
           /\ \A p \in Paths \ dropped : Updated(thread[t])[p] = IF p \in Mentioned(thread[t]) THEN Outcome(thread[t], p) ELSE baseline[p]
  <1> USE DEF WatchInv, WatchShape
  <1> DEFINE e == thread[t]
  <1>1. /\ e \in EventSet /\ e.path \in Paths /\ e.path # NoFile /\ e.old # e.path /\ ThreadFits(e) /\ baseline \in [Paths -> Content]
        /\ e.data \in Content /\ e.was \in Content
    BY WatchAssumption DEF WatchTypes, PollerFits, ObserverFits, Threads, EventSet
  <1>2. ASSUME NEW p \in Paths PROVE p \in Mentioned(e) <=> p = e.path \/ p = e.old
    BY WatchAssumption DEF Mentioned
  <1>3. e.type # "DELETED" /\ e.data = NoFile => e.path \in dropped /\ (e.old = NoFile \/ e.old \in dropped)
    BY <1>1 DEF ThreadFits, Mentioned
  <1>4. e.old \in Paths \ dropped /\ e.was = NoFile => baseline[e.old] = NoFile
    BY <1>1 DEF ThreadFits
  <1>5. NoFile \in Content /\ (e.old = NoFile \/ e.old \in Paths)
    BY <1>1 DEF Content, EventSet, Places
  <1>6. CASE e.type = "DELETED"
    <2>1. Updated(e) = [baseline EXCEPT ![e.path] = NoFile] /\ e.old = NoFile
      BY <1>1, <1>6 DEF Updated, ThreadFits
    <2> QED BY <1>1, <1>2, <1>5, <1>6, <2>1, WatchAssumption DEF Outcome
  <1>7. CASE e.type # "DELETED" /\ e.was = NoFile
    <2>1. Updated(e) = [baseline EXCEPT ![e.path] = e.data]
      BY <1>7 DEF Updated
    <2> QED BY <1>1, <1>2, <1>3, <1>4, <1>5, <1>7, <2>1 DEF Outcome
  <1>8. CASE e.type # "DELETED" /\ e.was # NoFile
    <2> DEFINE d == IF e.data # NoFile THEN e.data ELSE e.was
    <2>1. Updated(e) = [Without(e, baseline) EXCEPT ![e.path] = d] /\ d \in Content
      BY <1>1, <1>8 DEF Updated
    <2>2. /\ Without(e, baseline) \in [Paths -> Content]
          /\ \A p \in Paths : Without(e, baseline)[p] = IF p = e.old THEN NoFile ELSE baseline[p]
      BY <1>1, <1>5, WatchAssumption DEF Without
    <2>3. e.path \notin dropped => d = e.data
      BY <1>3, <1>8
    <2> HIDE DEF d
    <2> QED BY <1>1, <1>2, <1>8, <2>1, <2>2, <2>3 DEF Outcome
  <1> QED BY <1>6, <1>7, <1>8

LEMMA UpdateKeeps == \A t \in Threads : WatchInv /\ Update(t) => WatchInv'
  <1> SUFFICES ASSUME NEW t \in Threads, WatchInv, Update(t) PROVE WatchInv'
    OBVIOUS
  <1>1. /\ thread[t].pc = "update" /\ baseline' = Updated(thread[t]) /\ thread' = [thread EXCEPT ![t] = IdleThread]
        /\ UNCHANGED <<disk, watchdog, ignored, notices, poller, snapshot, seen, writes, dropped>>
    BY DEF Update
  <1>2. /\ baseline' \in [Paths -> Content]
        /\ \A p \in Paths \ dropped : baseline'[p] = IF p \in Mentioned(thread[t]) THEN Outcome(thread[t], p) ELSE baseline[p]
    BY <1>1, UpdatedIs
  <1>3. \A p \in Watched' : p \in Paths \ dropped
    BY <1>1 DEF Watched
  <1>4. ThreadFits(IdleThread)'
    BY DEF ThreadFits, IdleThread, Mentioned
  <1>5. dropped' \subseteq Paths
    BY <1>1 DEF WatchInv, WatchShape, WatchTypes
  <1> QED BY <1>1, <1>2, <1>3, <1>4, <1>5, CallbackKeeps, WatchIdle

-----------------------------------------------------------------------------

LEMMA WatchInitially == WatchInit => WatchInv
  <1> SUFFICES ASSUME WatchInit PROVE WatchInv
    OBVIOUS
  <1>1. PICK files \in [Paths -> Data \cup {NoFile}], stamp \in [Paths -> 1..Cardinality(Paths)] :
          /\ \A p, q \in Paths : p # q => stamp[p] # stamp[q]
          /\ disk = [p \in Paths |-> IF files[p] = NoFile THEN Absent ELSE [data |-> files[p], at |-> stamp[p]]]
          /\ baseline = [p \in Paths |-> IF p \in ignored THEN NoFile ELSE files[p]]
    BY DEF WatchInit
  <1>2. /\ ignored \subseteq Paths /\ watchdog \in BOOLEAN /\ snapshot = disk /\ notices = << >> /\ poller = IdlePoller /\ seen = {}
        /\ thread = [t \in Threads |-> IdleThread] /\ writes = 0 /\ dropped = {}
    BY DEF WatchInit
  <1>3. \A p \in Paths : disk[p] \in Versions /\ disk[p].at <= Cardinality(Paths)
    BY <1>1, PathsCounted, AbsentVersion DEF Versions, Content
  <1>4. disk \in [Paths -> Versions] /\ \A p \in Paths : p \notin ignored => baseline[p] = disk[p].data
    BY <1>1, <1>3, AbsentVersion
  <1>5. poller.pc = "sleep" /\ poller.files = {} /\ poller.gone = {} /\ poller.current = [p \in Paths |-> Absent]
    BY <1>2 DEF IdlePoller
  <1>6. WatchTypes
    <2>1. poller \in [pc : {"sleep", "emit"}, current : [Paths -> Versions], files : SUBSET Paths, gone : SUBSET Paths]
      BY <1>2, AbsentVersion DEF IdlePoller
    <2>2. IsFiniteSet(seen) /\ Cardinality(seen) <= SeenLimit
      BY <1>2, FS_EmptySet, WatchAssumption
    <2>3. baseline \in [Paths -> Content]
      BY <1>1 DEF Content
    <2>4. thread \in [Threads -> EventSet]
      BY <1>2, WatchIdle
    <2> QED BY <1>2, <1>4, <2>1, <2>2, <2>3, <2>4 DEF WatchTypes
  <1>7. Stamps
    <2>1. Recorded \subseteq {disk[p] : p \in Paths} \cup {Absent}
      BY <1>2, <1>5 DEF Recorded
    <2>2. \A p, q \in Paths : disk[p].at = disk[q].at => disk[p] = disk[q]
      <3> SUFFICES ASSUME NEW p \in Paths, NEW q \in Paths, disk[p].at = disk[q].at PROVE disk[p] = disk[q]
        OBVIOUS
      <3>1. CASE files[p] = NoFile \/ files[q] = NoFile
        <4>1. disk[p].data = NoFile \/ disk[q].data = NoFile
          BY <1>1, <3>1, AbsentVersion
        <4>2. disk[p].data = NoFile /\ disk[q].data = NoFile
          BY <1>3, <4>1 DEF Versions
        <4> QED BY <1>3, <4>2, AbsentVersion
      <3>2. CASE files[p] # NoFile /\ files[q] # NoFile
        <4>1. disk[p].at = stamp[p] /\ disk[q].at = stamp[q]
          BY <1>1, <3>2
        <4> QED BY <1>1, <4>1
      <3> QED BY <3>1, <3>2
    <2>3. \A p \in Paths : disk[p].at = Absent.at => disk[p] = Absent
      BY <1>3, AbsentVersion DEF Versions
    <2> QED BY <1>2, <1>3, <2>1, <2>2, <2>3, PathsCounted, AbsentVersion DEF Stamps
  <1>8. \A t \in Threads : thread[t] = IdleThread
    BY <1>2
  <1>9. PollerFits /\ ObserverFits /\ LastNotice
    BY <1>2, <1>5, <1>8 DEF PollerFits, ObserverFits, LastNotice, IdleThread, Threads
  <1>10. (\A t \in Threads : ThreadFits(thread[t])) /\ NoRace
    BY <1>8, WatchIdle DEF ThreadFits, IdleThread, NoRace, Threads, Mentioned
  <1>11. ASSUME NEW p \in Watched PROVE Follows(p)
    <2>1. \A t \in Threads : p \notin Mentioned(thread[t])
      BY <1>8, WatchIdle
    <2>2. After(p) = disk[p].data /\ Recalled(p) = disk[p]
      BY <1>2, <1>4, <1>5, <2>1 DEF After, Recalled, Watched, Threads
    <2> QED BY <2>1, <2>2 DEF Follows, ObserverFollows, PollerFollows, Followed, AbsentFollows, Threads
  <1> QED BY <1>6, <1>7, <1>9, <1>10, <1>11 DEF WatchInv, WatchShape

LEMMA WatchStep == WatchInv /\ [WatchNext]_watchVars => WatchInv'
  <1> SUFFICES ASSUME WatchInv, [WatchNext]_watchVars PROVE WatchInv'
    OBVIOUS
  <1>1. CASE UNCHANGED watchVars
    BY <1>1 DEF watchVars, WatchInv, WatchShape, WatchTypes, Stamps, PollerFits, ObserverFits, ThreadFits, NoRace, LastNotice, Follows,
       ObserverFollows, PollerFollows, Followed, AbsentFollows, Watched, After, Outcome, Recalled, Mentioned, Pending, RenamedTo,
       Recorded, Leaves, Exists
  <1>2. ASSUME NEW p \in Paths, DeleteFile(p) \/ EmitFile(p) \/ EmitGone(p) \/ \E d \in Data : WriteFile(p, d) PROVE WatchInv'
    BY <1>2, DeleteFileKeeps, EmitFileKeeps, EmitGoneKeeps, WriteFileKeeps
  <1>3. ASSUME NEW p \in Paths, NEW q \in Paths, RenameFile(p, q) PROVE WatchInv'
    BY <1>3, RenameFileKeeps
  <1>4. CASE Observe
    BY <1>4, ObserveKeeps
  <1>5. CASE Scan \/ ScanEnds
    BY <1>5, ScanKeeps, ScanEndsKeeps
  <1>6. ASSUME NEW t \in Threads, Compare(t) \/ Update(t) PROVE WatchInv'
    BY <1>6, CompareKeeps, UpdateKeeps
  <1> QED BY <1>1, <1>2, <1>3, <1>4, <1>5, <1>6 DEF WatchNext

LEMMA WatchAlways == WatchSpec => []WatchInv
  BY WatchInitially, WatchStep, PTL DEF WatchSpec

(* The monitor's threads, scans and baseline are well-typed, and its set of    *)
(* seen events never exceeds its limit (file_watcher.py:206), for any number   *)
(* of paths, contents and changes.                                             *)
THEOREM WatchTypeCorrect == WatchSpec => []WatchTypeOK
  <1>1. WatchInv => WatchTypeOK
    BY DEF WatchInv, WatchShape, WatchTypes, WatchTypeOK, Versions, Content, EventSet
  <1> QED BY <1>1, WatchAlways, PTL

(* When all changes have been looked at, the engine's baseline is what is on   *)
(* disk, except for paths of which an event was lost for one of the reasons    *)
(* that file_watcher.py leaves: for any number of paths, contents and changes, *)
(* with watchdog and without.                                                  *)
THEOREM BaselineIsFollowed == WatchSpec => []BaselineFollows
  <1>1. WatchInv => BaselineFollows
    <2> SUFFICES ASSUME WatchInv, Quiet, NEW p \in Watched PROVE baseline[p] = disk[p].data
      BY DEF BaselineFollows, Watched
    <2> USE DEF WatchInv, WatchShape
    <2>1. ~Pending(p) /\ Recalled(p) = disk[p] /\ poller.files \cup poller.gone = {}
      BY DEF Quiet, Pending, Recalled, PollerFits
    <2>2. \A t \in Threads : p \notin Mentioned(thread[t])
      BY NothingMentioned DEF Quiet
    <2>3. After(p) = baseline[p]
      BY <2>2 DEF After, Threads
    <2> QED BY <2>1, <2>3 DEF Follows, Followed
  <1> QED BY <1>1, WatchAlways, PTL

-----------------------------------------------------------------------------
(* The quarantine                                                            *)

Seconds == 0 .. MaxSeconds
Entries == Threats \X Seconds
Placing == {"load", "open", "write"}
MoverRecords == [pc : {"idle", "move"} \cup Placing, file : Threats \cup {NoThreat},
                 second : Seconds, loaded : SUBSET Entries]
BusyOnFile == \A m \in Movers : mover[m].pc # "idle" => mover[m].file \in Threats

\* The types, with those of the threads.
MoversTypeOK ==
    /\ where \in [Threats -> {InPlace, Overwritten} \cup {Moved(t) : t \in Seconds}]
    /\ manifest \in [records : SUBSET Entries, whole : BOOLEAN]
    /\ mover \in [Movers -> MoverRecords]
    /\ BusyOnFile
    /\ second \in Seconds /\ stops \in 0 .. MaxStops /\ disturbed \in BOOLEAN

\* As long as nothing disturbs it, one thread at a time is between its load and
\* its write; what it loaded is what the manifest still says.
OneStores ==
    /\ \A m, o \in Movers : Storing(m) /\ Storing(o) => m = o
    /\ \A m \in Movers : Storing(m) => mover[m].loaded = manifest.records
    /\ (\A m \in Movers : mover[m].pc # "write") => manifest.whole

\* A file in the vault is in the manifest, or its thread is on the way to it.
OnTheWay ==
    \A f \in Threats : where[f].at = "vault" =>
        \/ <<f, where[f].second>> \in manifest.records
        \/ \E m \in Movers : mover[m].pc \in Placing /\ Record(mover[m]) = <<f, where[f].second>>

VaultInv == MoversTypeOK /\ (~disturbed => OneStores /\ OnTheWay)

LEMMA Idles == IdleMover \in MoverRecords /\ IdleMover.pc = "idle"
  BY VaultAssumption DEF IdleMover, MoverRecords, Seconds, Entries, Placing

LEMMA RecordType ==
    ASSUME MoversTypeOK, NEW m \in Movers, mover[m].pc # "idle"
    PROVE  Record(mover[m]) \in Entries
  BY DEF MoversTypeOK, BusyOnFile, MoverRecords, Record, Entries

LEMMA VaultInitially == VaultInit => VaultInv
<1> SUFFICES ASSUME VaultInit PROVE VaultInv
  OBVIOUS
<1>1. MoversTypeOK
  <2>1. where \in [Threats -> {InPlace, Overwritten} \cup {Moved(t) : t \in Seconds}]
    BY DEF VaultInit
  <2>2. manifest \in [records : SUBSET Entries, whole : BOOLEAN]
    BY DEF VaultInit
  <2>3. mover \in [Movers -> MoverRecords] /\ BusyOnFile
    BY Idles DEF VaultInit, BusyOnFile
  <2>4. second \in Seconds /\ stops \in 0 .. MaxStops
    BY VaultAssumption DEF VaultInit, Seconds
  <2>5. disturbed \in BOOLEAN
    BY DEF VaultInit
  <2> QED
    BY <2>1, <2>2, <2>3, <2>4, <2>5 DEF MoversTypeOK
<1>2. OneStores
  BY Idles DEF VaultInit, OneStores, Storing
<1>3. OnTheWay
  BY DEF VaultInit, OnTheWay, InPlace
<1> QED
  BY <1>1, <1>2, <1>3 DEF VaultInv

LEMMA VaultStep == VaultInv /\ [VaultNext]_vaultVars => VaultInv'
<1> SUFFICES ASSUME VaultInv, [VaultNext]_vaultVars PROVE VaultInv'
  OBVIOUS
<1>t. /\ where \in [Threats -> {InPlace, Overwritten} \cup {Moved(t) : t \in Seconds}]
      /\ manifest \in [records : SUBSET Entries, whole : BOOLEAN]
      /\ mover \in [Movers -> MoverRecords]
      /\ BusyOnFile
      /\ second \in Seconds /\ stops \in 0 .. MaxStops /\ disturbed \in BOOLEAN
  BY DEF VaultInv, MoversTypeOK
<1>1. ASSUME NEW m \in Movers, NEW f \in Threats, Begin(m, f) PROVE VaultInv'
  <2> DEFINE r == [pc |-> "move", file |-> f, second |-> second, loaded |-> {}]
  <2>1. r \in MoverRecords
    BY <1>t DEF MoverRecords
  <2>2. /\ mover' = [mover EXCEPT ![m] = r] /\ mover[m].pc = "idle"
        /\ UNCHANGED <<where, manifest, second, stops, disturbed>>
    BY <1>1 DEF Begin
  <2>3. MoversTypeOK'
    BY <2>1, <2>2, <1>t DEF MoversTypeOK, BusyOnFile
  <2>4. ASSUME ~disturbed' PROVE OneStores' /\ OnTheWay'
    <3>1. OneStores /\ OnTheWay
      BY <2>2, <2>4 DEF VaultInv
    <3>2. \A o \in Movers : o # m => mover'[o] = mover[o]
      BY <2>2, <1>t
    <3>3. mover'[m].pc = "move"
      BY <2>2, <1>t
    <3>4. OneStores'
      BY <2>2, <3>1, <3>2, <3>3 DEF OneStores, Storing
    <3>5. OnTheWay'
      BY <2>2, <3>1, <3>2 DEF OnTheWay, Placing
    <3> QED
      BY <3>4, <3>5
  <2> QED
    BY <2>3, <2>4 DEF VaultInv
<1>2. ASSUME NEW m \in Movers, Move(m) PROVE VaultInv'
  <2> DEFINE f == mover[m].file
  <2>1. f \in Threats /\ mover[m].pc = "move" /\ mover[m] \in MoverRecords /\ mover[m].second \in Seconds
    BY <1>2, <1>t DEF Move, BusyOnFile, MoverRecords
  <2>2. UNCHANGED <<manifest, second, stops, disturbed>>
    BY <1>2 DEF Move
  <2>3. CASE where[f] = InPlace
    <3>1. /\ where' = [g \in Threats |-> IF g = f THEN Moved(mover[m].second)
                                         ELSE IF g \in Occupants(f, mover[m].second) THEN Overwritten
                                         ELSE where[g]]
          /\ mover' = [mover EXCEPT ![m].pc = "load"]
      BY <1>2, <2>3 DEF Move
    <3>2. [mover[m] EXCEPT !.pc = "load"] \in MoverRecords
      BY <2>1 DEF MoverRecords, Placing
    <3>3. /\ mover' \in [Movers -> MoverRecords]
          /\ \A o \in Movers : o # m => mover'[o] = mover[o]
          /\ mover'[m].pc = "load" /\ Record(mover'[m]) = Record(mover[m]) /\ mover'[m].file = f
      BY <3>1, <3>2, <2>1, <1>t DEF Record, MoverRecords
    <3>4. where' \in [Threats -> {InPlace, Overwritten} \cup {Moved(t) : t \in Seconds}]
      BY <3>1, <2>1, <1>t
    <3>5. MoversTypeOK'
      BY <3>3, <3>4, <2>1, <2>2, <1>t DEF MoversTypeOK, BusyOnFile
    <3>6. ASSUME ~disturbed' PROVE OneStores' /\ OnTheWay'
      <4>1. OneStores /\ OnTheWay
        BY <2>2, <3>6 DEF VaultInv
      <4>2. OneStores'
        BY <2>1, <2>2, <3>3, <4>1 DEF OneStores, Storing
      <4>3. ASSUME NEW g \in Threats, where'[g].at = "vault"
            PROVE  \/ <<g, where'[g].second>> \in manifest'.records
                   \/ \E o \in Movers : mover'[o].pc \in Placing
                                        /\ Record(mover'[o]) = <<g, where'[g].second>>
        <5>1. CASE g = f
          <6>1. where'[g].second = mover[m].second
            BY <3>1, <5>1 DEF Moved
          <6>2. Record(mover'[m]) = <<g, where'[g].second>>
            BY <6>1, <3>3, <5>1 DEF Record
          <6> QED
            BY <6>2, <3>3 DEF Placing
        <5>2. CASE g # f
          <6>1. where'[g] = where[g]
            BY <4>3, <5>2, <3>1 DEF Overwritten
          <6> QED
            BY <6>1, <4>1, <4>3, <2>1, <2>2, <3>3 DEF OnTheWay, Placing
        <5> QED
          BY <5>1, <5>2
      <4> QED
        BY <4>2, <4>3 DEF OnTheWay
    <3> QED
      BY <3>5, <3>6 DEF VaultInv
  <2>4. CASE where[f] # InPlace
    <3>1. where' = where /\ mover' = [mover EXCEPT ![m] = IdleMover]
      BY <1>2, <2>4 DEF Move
    <3>2. /\ mover' \in [Movers -> MoverRecords]
          /\ \A o \in Movers : o # m => mover'[o] = mover[o]
          /\ mover'[m].pc = "idle"
      BY <3>1, <1>t, Idles
    <3>3. MoversTypeOK'
      BY <3>1, <3>2, <2>2, <1>t DEF MoversTypeOK, BusyOnFile
    <3>4. ASSUME ~disturbed' PROVE OneStores' /\ OnTheWay'
      <4>1. OneStores /\ OnTheWay
        BY <2>2, <3>4 DEF VaultInv
      <4>2. OneStores'
        BY <2>1, <2>2, <3>2, <4>1 DEF OneStores, Storing
      <4>3. OnTheWay'
        BY <2>1, <2>2, <3>1, <3>2, <4>1 DEF OnTheWay, Placing
      <4> QED
        BY <4>2, <4>3
    <3> QED
      BY <3>3, <3>4 DEF VaultInv
  <2> QED
    BY <2>3, <2>4
<1>3. ASSUME NEW m \in Movers, LoadManifest(m) PROVE VaultInv'
  <2> DEFINE r == [mover[m] EXCEPT !.pc = "open", !.loaded = ReadManifest]
  <2>1. /\ mover' = [mover EXCEPT ![m] = r] /\ mover[m].pc = "load"
        /\ disturbed' = (disturbed \/ \E o \in Movers : Storing(o))
        /\ UNCHANGED <<where, manifest, second, stops>>
    BY <1>3 DEF LoadManifest
  <2>2. ReadManifest \in SUBSET Entries
    BY <1>t DEF ReadManifest
  <2>3. /\ r \in MoverRecords /\ r.pc = "open" /\ r.loaded = ReadManifest
        /\ r.file = mover[m].file /\ Record(r) = Record(mover[m])
    BY <2>2, <1>t DEF MoverRecords, Placing, Record
  <2> HIDE DEF r
  <2>4. /\ mover' \in [Movers -> MoverRecords]
        /\ \A o \in Movers : o # m => mover'[o] = mover[o]
        /\ mover'[m] = r
    BY <2>1, <2>3, <1>t
  <2>5. disturbed' \in BOOLEAN
    BY <2>1
  <2>6. MoversTypeOK'
    BY <2>1, <2>3, <2>4, <2>5, <1>t DEF MoversTypeOK, BusyOnFile
  <2>7. ASSUME ~disturbed' PROVE OneStores' /\ OnTheWay'
    <3>1. ~disturbed /\ \A o \in Movers : ~Storing(o)
      BY <2>1, <2>7
    <3>2. OneStores /\ OnTheWay
      BY <3>1 DEF VaultInv
    <3>3. ReadManifest = manifest.records
      BY <3>1, <3>2 DEF OneStores, Storing, ReadManifest
    <3>4. OneStores'
      BY <2>1, <2>3, <2>4, <3>1, <3>2, <3>3 DEF OneStores, Storing
    <3>5. OnTheWay'
      BY <2>1, <2>3, <2>4, <3>2 DEF OnTheWay, Placing
    <3> QED
      BY <3>4, <3>5
  <2> QED
    BY <2>6, <2>7 DEF VaultInv
<1>4. ASSUME NEW m \in Movers, OpenManifest(m) PROVE VaultInv'
  <2> DEFINE r == [mover[m] EXCEPT !.pc = "write"]
  <2>1. /\ mover' = [mover EXCEPT ![m] = r] /\ mover[m].pc = "open"
        /\ manifest' = [manifest EXCEPT !.whole = FALSE]
        /\ UNCHANGED <<where, second, stops, disturbed>>
    BY <1>4 DEF OpenManifest
  <2>2. /\ r \in MoverRecords /\ r.pc = "write" /\ r.loaded = mover[m].loaded
        /\ r.file = mover[m].file /\ Record(r) = Record(mover[m])
    BY <1>t DEF MoverRecords, Placing, Record
  <2> HIDE DEF r
  <2>3. /\ mover' \in [Movers -> MoverRecords]
        /\ \A o \in Movers : o # m => mover'[o] = mover[o]
        /\ mover'[m] = r
    BY <2>1, <2>2, <1>t
  <2>4. /\ manifest'.records = manifest.records
        /\ manifest' \in [records : SUBSET Entries, whole : BOOLEAN]
    BY <2>1, <1>t
  <2>5. MoversTypeOK'
    BY <2>1, <2>2, <2>3, <2>4, <1>t DEF MoversTypeOK, BusyOnFile
  <2>6. ASSUME ~disturbed' PROVE OneStores' /\ OnTheWay'
    <3>1. OneStores /\ OnTheWay
      BY <2>1, <2>6 DEF VaultInv
    <3>2. OneStores'
      BY <2>1, <2>2, <2>3, <2>4, <3>1 DEF OneStores, Storing
    <3>3. OnTheWay'
      BY <2>1, <2>2, <2>3, <2>4, <3>1 DEF OnTheWay, Placing
    <3> QED
      BY <3>2, <3>3
  <2> QED
    BY <2>5, <2>6 DEF VaultInv
<1>5. ASSUME NEW m \in Movers, WriteManifest(m) PROVE VaultInv'
  <2>1. /\ mover' = [mover EXCEPT ![m] = IdleMover] /\ mover[m].pc = "write"
        /\ manifest' = [records |-> mover[m].loaded \cup {Record(mover[m])}, whole |-> TRUE]
        /\ UNCHANGED <<where, second, stops, disturbed>>
    BY <1>5 DEF WriteManifest, Contents
  <2>2. mover[m].loaded \in SUBSET Entries /\ Record(mover[m]) \in Entries
    BY <2>1, <1>t, RecordType DEF MoverRecords, VaultInv
  <2>3. /\ mover' \in [Movers -> MoverRecords]
        /\ \A o \in Movers : o # m => mover'[o] = mover[o]
        /\ mover'[m].pc = "idle"
    BY <2>1, <1>t, Idles
  <2>4. MoversTypeOK'
    BY <2>1, <2>2, <2>3, <1>t DEF MoversTypeOK, BusyOnFile
  <2>5. ASSUME ~disturbed' PROVE OneStores' /\ OnTheWay'
    <3>1. OneStores /\ OnTheWay
      BY <2>1, <2>5 DEF VaultInv
    <3>2. manifest'.records = manifest.records \cup {Record(mover[m])}
      BY <2>1, <3>1 DEF OneStores, Storing
    <3>3. OneStores'
      BY <2>1, <2>3, <3>1 DEF OneStores, Storing
    <3>4. OnTheWay'
      BY <2>1, <2>3, <3>1, <3>2 DEF OnTheWay, Placing
    <3> QED
      BY <3>3, <3>4
  <2> QED
    BY <2>4, <2>5 DEF VaultInv
<1>6. CASE Stop
  <2>1. /\ mover' = [m \in Movers |-> IdleMover] /\ stops' \in 0 .. MaxStops
        /\ disturbed' = (disturbed \/ \E m \in Movers : mover[m].pc # "idle")
        /\ UNCHANGED <<where, manifest, second>>
    BY <1>6, <1>t, VaultAssumption DEF Stop
  <2>2. MoversTypeOK'
    BY <2>1, <1>t, Idles DEF MoversTypeOK, BusyOnFile
  <2>3. ASSUME ~disturbed' PROVE OneStores' /\ OnTheWay'
    <3>1. ~disturbed /\ \A m \in Movers : mover[m].pc = "idle"
      BY <2>1, <2>3
    <3>2. OneStores /\ OnTheWay
      BY <3>1 DEF VaultInv
    <3>3. OneStores'
      BY <2>1, <3>1, <3>2, Idles DEF OneStores, Storing
    <3>4. OnTheWay'
      BY <2>1, <3>1, <3>2 DEF OnTheWay, Placing
    <3> QED
      BY <3>3, <3>4
  <2> QED
    BY <2>2, <2>3 DEF VaultInv
<1>7. CASE Second
  <2>1. second' \in Seconds /\ UNCHANGED <<where, manifest, mover, stops, disturbed>>
    BY <1>7, <1>t, VaultAssumption DEF Second, Seconds
  <2> QED
    BY <2>1 DEF VaultInv, MoversTypeOK, BusyOnFile, OneStores, Storing, OnTheWay
<1>8. CASE UNCHANGED vaultVars
  BY <1>8 DEF vaultVars, VaultInv, MoversTypeOK, BusyOnFile, OneStores, Storing, OnTheWay
<1> QED
  BY <1>1, <1>2, <1>3, <1>4, <1>5, <1>6, <1>7, <1>8 DEF VaultNext

LEMMA VaultInductive == VaultSpec => []VaultInv
  BY VaultInitially, VaultStep, PTL DEF VaultSpec

\* The vault's variables keep their types (quarantine_manager.py:34-143).
THEOREM VaultTypeCorrect == VaultSpec => []VaultTypeOK
<1>1. VaultInv => VaultTypeOK
  BY DEF VaultInv, MoversTypeOK, MoverRecords, VaultTypeOK, Seconds, Entries
<1> QED
  BY <1>1, VaultInductive, PTL

\* However many threads quarantine files and whichever files share a name, a
\* file in the vault has its record or its thread is still at it, unless two
\* threads wrote the manifest at a time or the agent stopped in between
\* (quarantine_manager.py:75-143).
THEOREM VaultIsRecorded == VaultSpec => []VaultRecorded
<1>1. VaultInv => VaultRecorded
  BY DEF VaultInv, OnTheWay, VaultRecorded, Placing
<1> QED
  BY <1>1, VaultInductive, PTL

-----------------------------------------------------------------------------
(* The run's composed specification, whose behaviours are behaviours of each
   part.                                                                     *)

LEMMA PartSteps ==
    /\ Spec => UsbSpec
    /\ Spec => WatchSpec
    /\ Spec => VaultSpec
<1>1. Init => UsbInit /\ WatchInit /\ VaultInit
  BY DEF Init
<1>2. [Next]_<<part, alertVars, usbVars, watchVars, vaultVars>> => [UsbNext]_<<alertVars, usbVars>>
  BY DEF Next, alertVars, usbVars
<1>3. [Next]_<<part, alertVars, usbVars, watchVars, vaultVars>> => [WatchNext]_watchVars
  BY DEF Next, watchVars
<1>4. [Next]_<<part, alertVars, usbVars, watchVars, vaultVars>> => [VaultNext]_vaultVars
  BY DEF Next, vaultVars
<1> QED
  BY <1>1, <1>2, <1>3, <1>4, PTL DEF Spec, UsbSpec, WatchSpec, VaultSpec

\* Type correctness of what happens to a file of an endpoint (usb_detector.py,
\* background_scanner.py, file_watcher.py, quarantine_manager.py): the variables
\* of the three parts keep their types in every behaviour of the composition.
THEOREM EndpointTypeCorrect == Spec => []TypeOK
BY PartSteps, UsbTypeCorrect, WatchTypeCorrect, VaultTypeCorrect, PTL DEF TypeOK

=============================================================================
