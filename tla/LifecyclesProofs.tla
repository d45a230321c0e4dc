--------------------------- MODULE LifecyclesProofs ---------------------------
(* Proofs about JobQueue, for any jobs, queues and workers and any number of
   faults, about TelemetryBuffer, for any number of flushes, any capacity
   and batch size, and any events, and about DeviceLifecycle, for any number of
   request threads, rows, starts and lost calls.  The three share nothing.   *)
EXTENDS JobQueue, TelemetryBuffer, DeviceLifecycle, FiniteSetTheorems, TLAPS

(* The job queue.  What happens to the lists of ids                          *)

Distinct(s) == \A i, k \in 1 .. Len(s) : s[i] = s[k] => i = k

\* What Append does to the members of a list without repetitions.
LEMMA AppendMembers ==
    ASSUME NEW s \in Seq(Jobs), NEW j \in Jobs
    PROVE  /\ Append(s, j) \in Seq(Jobs)
           /\ \A k \in Jobs : Contains(Append(s, j), k) <=> Contains(s, k) \/ k = j
           /\ Distinct(s) /\ ~Contains(s, j) => Distinct(Append(s, j))
<1> DEFINE t == Append(s, j)
<1>1. /\ t \in Seq(Jobs) /\ Len(t) = Len(s) + 1 /\ Len(s) \in Nat
      /\ t[Len(s) + 1] = j /\ \A i \in 1 .. Len(s) : t[i] = s[i]
  OBVIOUS
<1> HIDE DEF t
<1>2. \A k \in Jobs : Contains(t, k) <=> Contains(s, k) \/ k = j
  BY <1>1 DEF Contains
<1>3. Distinct(s) /\ ~Contains(s, j) => Distinct(t)
  BY <1>1 DEF Contains, Distinct
<1> QED
  BY <1>1, <1>2, <1>3 DEF t

\* What Tail does to them.
LEMMA TailMembers ==
    ASSUME NEW s \in Seq(Jobs), s # << >>, Distinct(s)
    PROVE  /\ Tail(s) \in Seq(Jobs) /\ Head(s) \in Jobs /\ Contains(s, Head(s))
           /\ \A k \in Jobs : Contains(Tail(s), k) <=> Contains(s, k) /\ k # Head(s)
           /\ Distinct(Tail(s))
<1> DEFINE t == Tail(s)
<1>1. /\ t \in Seq(Jobs) /\ Len(t) = Len(s) - 1 /\ Len(s) \in Nat \ {0}
      /\ Head(s) = s[1] /\ \A i \in 1 .. Len(t) : t[i] = s[i + 1]
  OBVIOUS
<1> HIDE DEF t
<1>2. Head(s) \in Jobs /\ Contains(s, Head(s))
  BY <1>1 DEF Contains
<1>3. ASSUME NEW k \in Jobs, Contains(t, k) PROVE Contains(s, k) /\ k # Head(s)
  <2>1. PICK i \in 1 .. Len(t) : t[i] = k
    BY <1>3 DEF Contains
  <2>2. i + 1 \in 1 .. Len(s) /\ s[i + 1] = k /\ i + 1 # 1
    BY <1>1, <2>1
  <2>3. 1 \in 1 .. Len(s)
    BY <1>1
  <2> QED
    BY <1>1, <2>2, <2>3 DEF Contains, Distinct
<1>4. ASSUME NEW k \in Jobs, Contains(s, k), k # Head(s) PROVE Contains(t, k)
  <2>1. PICK i \in 1 .. Len(s) : s[i] = k
    BY <1>4 DEF Contains
  <2>2. i - 1 \in 1 .. Len(t) /\ t[i - 1] = k
    BY <1>1, <1>4, <2>1
  <2> QED
    BY <2>2 DEF Contains
<1>5. Distinct(t)
  <2> SUFFICES ASSUME NEW i \in 1 .. Len(t), NEW k \in 1 .. Len(t), t[i] = t[k] PROVE i = k
    BY DEF Distinct
  <2>1. i + 1 \in 1 .. Len(s) /\ k + 1 \in 1 .. Len(s) /\ s[i + 1] = s[k + 1]
    BY <1>1
  <2>2. i + 1 = k + 1
    BY <2>1 DEF Distinct
  <2> QED
    BY <2>2, <1>1
<1> QED
  BY <1>1, <1>2, <1>3, <1>4, <1>5 DEF t

-----------------------------------------------------------------------------
(* A job's id is in one place: in the request that adds it, in one list, in one
   worker's hands, or nowhere.                                               *)

Before == {"fetch", "mark", "run"}      \* a worker that has not started the task

Tokens ==
    /\ \A q \in QueueNames : Distinct(queues[q])
    /\ \A j \in Jobs, q \in QueueNames : Contains(queues[q], j) => q = QueueOf[j]
    /\ \A j \in Jobs : adding[j] \in {"no", "push"} => ~Queued(j) /\ ~Held(j) /\ runs[j] = 0
    /\ \A j \in Jobs : Queued(j) => ~Held(j) /\ runs[j] = 0
    /\ \A w, v \in Workers : job[w] = job[v] /\ job[w] # NoJob => w = v
    /\ \A w \in Workers : place[w] \in Before => runs[job[w]] = 0
    /\ RunOnce

JobInv == JobTypeOK /\ Tokens /\ ActiveAccounted

LEMMA QueueNameType == \A j \in Jobs : QueueOf[j] \in QueueNames
  BY DEF QueueNames

\* A held job is a job.
LEMMA HeldIsJob ==
    ASSUME JobTypeOK, NEW w \in Workers, place[w] # "idle"
    PROVE  job[w] \in Jobs /\ Held(job[w]) /\ job[w] # NoJob
  BY DEF JobTypeOK, Held

LEMMA JobInitially == JobInit => JobInv
<1> SUFFICES ASSUME JobInit PROVE JobInv
  OBVIOUS
<1>1. JobTypeOK
  BY JobAssumption DEF JobInit, JobTypeOK, Unfinished, Final
<1>2. \A j \in Jobs : ~Queued(j) /\ ~Held(j)
  BY JobAssumption DEF JobInit, Queued, Held, Contains
<1>3. \A q \in QueueNames : Distinct(queues[q])
  BY DEF JobInit, Distinct
<1>4. Tokens
  BY <1>2, <1>3 DEF JobInit, Tokens, Queued, Before, RunOnce
<1>5. ActiveAccounted
  BY DEF JobInit, ActiveAccounted, Unfinished
<1> QED
  BY <1>1, <1>4, <1>5 DEF JobInv

-----------------------------------------------------------------------------
(* How the ids move.                                                         *)

\* The id is pushed to its list.
LEMMA TokenPushed ==
    ASSUME JobInv, NEW j \in Jobs, adding[j] = "push",
           queues' = [queues EXCEPT ![QueueOf[j]] = Append(@, j)],
           NEW a \in {"answered", "failed"}, adding' = [adding EXCEPT ![j] = a],
           UNCHANGED <<place, job, runs>>
    PROVE  /\ Tokens' /\ Queued(j)'
           /\ queues' \in [QueueNames -> Seq(Jobs)]
           /\ \A k \in Jobs : Queued(k) => Queued(k)'
<1>1. QueueOf[j] \in QueueNames /\ queues \in [QueueNames -> Seq(Jobs)]
  BY QueueNameType DEF JobInv, JobTypeOK
<1>2. /\ queues' \in [QueueNames -> Seq(Jobs)]
      /\ queues'[QueueOf[j]] = Append(queues[QueueOf[j]], j)
      /\ \A q \in QueueNames : q # QueueOf[j] => queues'[q] = queues[q]
  BY <1>1, AppendMembers
<1>3. ~Queued(j) /\ ~Held(j) /\ runs[j] = 0 /\ \A q \in QueueNames : ~Contains(queues[q], j)
  BY DEF JobInv, Tokens, Queued
<1>4. /\ Distinct(queues'[QueueOf[j]])
      /\ \A k \in Jobs : Contains(queues'[QueueOf[j]], k) <=> Contains(queues[QueueOf[j]], k) \/ k = j
  BY <1>1, <1>2, <1>3, AppendMembers DEF JobInv, Tokens
<1>5. \A k \in Jobs, q \in QueueNames :
        Contains(queues'[q], k) <=> Contains(queues[q], k) \/ (k = j /\ q = QueueOf[j])
  BY <1>2, <1>3, <1>4
<1>6. \A q \in QueueNames : Distinct(queues'[q])
  BY <1>2, <1>4 DEF JobInv, Tokens
<1>7. \A k \in Jobs : Queued(k)' <=> Queued(k) \/ k = j
  BY <1>1, <1>5 DEF Queued
<1>8. \A k \in Jobs : adding'[k] \in {"no", "push"} => adding[k] \in {"no", "push"} /\ k # j
  BY DEF JobInv, JobTypeOK
<1>9. /\ \A k \in Jobs, q \in QueueNames : Contains(queues'[q], k) => q = QueueOf[k]
      /\ \A k \in Jobs : adding'[k] \in {"no", "push"} => ~Queued(k)' /\ ~Held(k)' /\ runs'[k] = 0
      /\ \A k \in Jobs : Queued(k)' => ~Held(k)' /\ runs'[k] = 0
  BY <1>3, <1>5, <1>7, <1>8 DEF JobInv, Tokens, Held
<1>10. Tokens'
  BY <1>6, <1>9 DEF JobInv, Tokens, RunOnce
<1> QED
  BY <1>2, <1>7, <1>10

\* An id leaves its list, into a worker's hands or lost.
LEMMA TokenTaken ==
    ASSUME JobInv, NEW q \in QueueNames, queues[q] # << >>,
           queues' = [queues EXCEPT ![q] = Tail(@)],
           UNCHANGED <<adding, runs>>,
           NEW w \in Workers, place[w] = "idle",
           \/ UNCHANGED <<place, job>>
           \/ /\ place' = [place EXCEPT ![w] = "fetch"]
              /\ job' = [job EXCEPT ![w] = Head(queues[q])]
    PROVE  /\ Tokens' /\ Head(queues[q]) \in Jobs
           /\ queues' \in [QueueNames -> Seq(Jobs)]
           /\ \A k \in Jobs : k # Head(queues[q]) => (Queued(k) => Queued(k)') /\ (Held(k) => Held(k)')
<1> DEFINE j == Head(queues[q])
<1>1. queues \in [QueueNames -> Seq(Jobs)] /\ Distinct(queues[q])
  BY DEF JobInv, JobTypeOK, Tokens
<1>2. /\ j \in Jobs /\ Contains(queues[q], j) /\ Tail(queues[q]) \in Seq(Jobs)
      /\ Distinct(Tail(queues[q]))
      /\ \A k \in Jobs : Contains(Tail(queues[q]), k) <=> Contains(queues[q], k) /\ k # j
  BY <1>1, TailMembers
<1>3. /\ queues' \in [QueueNames -> Seq(Jobs)] /\ queues'[q] = Tail(queues[q])
      /\ \A p \in QueueNames : p # q => queues'[p] = queues[p]
  BY <1>1, <1>2
<1>4. /\ Queued(j) /\ q = QueueOf[j] /\ ~Held(j) /\ runs[j] = 0
      /\ adding[j] \notin {"no", "push"}
      /\ \A p \in QueueNames : p # q => ~Contains(queues[p], j)
  BY <1>2 DEF JobInv, Tokens, Queued
<1> HIDE DEF j
<1>5. \A k \in Jobs, p \in QueueNames : Contains(queues'[p], k) <=> Contains(queues[p], k) /\ k # j
  BY <1>2, <1>3, <1>4
<1>6. \A p \in QueueNames : Distinct(queues'[p])
  BY <1>2, <1>3 DEF JobInv, Tokens
<1>7. \A k \in Jobs : Queued(k)' <=> Queued(k) /\ k # j
  BY <1>5 DEF Queued
<1>8. \/ UNCHANGED <<place, job>>
      \/ /\ place' = [place EXCEPT ![w] = "fetch"] /\ job' = [job EXCEPT ![w] = j]
  BY DEF j
<1>9. /\ job[w] = NoJob /\ NoJob \notin Jobs /\ place[w] \notin Before
      /\ job \in [Workers -> Jobs \cup {NoJob}]
      /\ place \in [Workers -> {"idle", "fetch", "mark", "run", "complete", "fail"}]
  BY JobAssumption DEF JobInv, JobTypeOK, Before
<1>10. \A k \in Jobs : k # j => (Held(k)' <=> Held(k))
  BY <1>8, <1>9 DEF Held
<1>11. \A v, u \in Workers : job'[v] = job'[u] /\ job'[v] # NoJob => v = u
  BY <1>4, <1>8, <1>9 DEF JobInv, Tokens, Held
<1>12. \A v \in Workers : place'[v] \in Before => runs'[job'[v]] = 0
  BY <1>4, <1>8, <1>9 DEF JobInv, Tokens
<1>13. /\ \A k \in Jobs, p \in QueueNames : Contains(queues'[p], k) => p = QueueOf[k]
       /\ \A k \in Jobs : adding'[k] \in {"no", "push"} => ~Queued(k)' /\ ~Held(k)' /\ runs'[k] = 0
       /\ \A k \in Jobs : Queued(k)' => ~Held(k)' /\ runs'[k] = 0
  BY <1>4, <1>5, <1>7, <1>10 DEF JobInv, Tokens
<1>14. Tokens'
  BY <1>6, <1>11, <1>12, <1>13 DEF JobInv, Tokens, RunOnce
<1> QED
  BY <1>2, <1>3, <1>7, <1>10, <1>14 DEF j

\* A worker goes on with its job, or lets go of it.
LEMMA TokenKept ==
    ASSUME JobInv, NEW w \in Workers, place[w] # "idle", UNCHANGED <<queues, adding>>,
           NEW p \in {"idle", "mark", "run", "complete", "fail"},
           place' = [place EXCEPT ![w] = p],
           job' = IF p = "idle" THEN [job EXCEPT ![w] = NoJob] ELSE job,
           p \in Before => place[w] \in {"fetch", "mark"},
           \/ runs' = runs
           \/ /\ place[w] = "run" /\ p \notin Before
              /\ runs' = [runs EXCEPT ![job[w]] = @ + 1]
    PROVE  /\ JobTypeOK' <=> (/\ doc' \in [Jobs -> Unfinished \cup Final \cup {"ABSENT"}]
                              /\ hit' \subseteq Jobs /\ faults' \in 0..MaxFaults)
           /\ Tokens'
           /\ \A k \in Jobs : k # job[w] => (Held(k) => Held(k)')
           /\ p # "idle" => \A k \in Jobs : Held(k) => Held(k)'
<1>1. /\ job[w] \in Jobs /\ Held(job[w]) /\ job[w] # NoJob /\ NoJob \notin Jobs
      /\ job \in [Workers -> Jobs \cup {NoJob}] /\ runs \in [Jobs -> Nat]
      /\ place \in [Workers -> {"idle", "fetch", "mark", "run", "complete", "fail"}]
      /\ \A v \in Workers : place[v] = "idle" <=> job[v] = NoJob
  BY HeldIsJob, JobAssumption DEF JobInv, JobTypeOK
<1>2. /\ place' \in [Workers -> {"idle", "fetch", "mark", "run", "complete", "fail"}]
      /\ job' \in [Workers -> Jobs \cup {NoJob}]
      /\ place'[w] = p /\ job'[w] = (IF p = "idle" THEN NoJob ELSE job[w])
      /\ \A v \in Workers : v # w => place'[v] = place[v] /\ job'[v] = job[v]
  BY <1>1
<1>3. /\ runs' \in [Jobs -> Nat]
      /\ \A k \in Jobs : k # job[w] => runs'[k] = runs[k]
      /\ place[w] # "run" => runs' = runs
      /\ place[w] = "run" => runs'[job[w]] <= runs[job[w]] + 1
  BY <1>1
<1>4. \A v \in Workers : place'[v] = "idle" <=> job'[v] = NoJob
  BY <1>1, <1>2
<1>5. /\ \A k \in Jobs : k # job[w] => (Held(k)' <=> Held(k))
      /\ \A k \in Jobs : Held(k)' => Held(k)
      /\ p # "idle" => \A k \in Jobs : Held(k) => Held(k)'
  BY <1>1, <1>2 DEF Held
<1>6. \A k \in Jobs : Queued(k)' <=> Queued(k)
  BY DEF Queued
<1>7. \A v, u \in Workers : job'[v] = job'[u] /\ job'[v] # NoJob => v = u
  BY <1>1, <1>2 DEF JobInv, Tokens
<1>8. ~Queued(job[w]) /\ adding[job[w]] \notin {"no", "push"}
  BY <1>1 DEF JobInv, Tokens
<1>9. ASSUME NEW v \in Workers, place'[v] \in Before PROVE runs'[job'[v]] = 0
  <2>1. CASE v = w
    <3>1. place[w] \in {"fetch", "mark"} /\ p # "idle" /\ runs' = runs
      BY <1>2, <1>9, <2>1 DEF Before
    <3> QED
      BY <1>2, <2>1, <3>1 DEF JobInv, Tokens, Before
  <2>2. CASE v # w
    <3>1. place[v] \in Before /\ job'[v] = job[v] /\ job[v] \in Jobs /\ job[v] # job[w]
      BY <1>1, <1>2, <1>9, <2>2 DEF JobInv, Tokens, Before
    <3> QED
      BY <1>3, <3>1 DEF JobInv, Tokens
  <2> QED
    BY <2>1, <2>2
<1>10. RunOnce'
  <2> SUFFICES ASSUME NEW k \in Jobs PROVE runs'[k] <= 1
    BY DEF RunOnce
  <2>1. CASE k = job[w] /\ place[w] = "run"
    BY <1>1, <1>3, <2>1 DEF JobInv, Tokens, Before
  <2>2. CASE ~(k = job[w] /\ place[w] = "run")
    BY <1>3, <2>2 DEF JobInv, Tokens, RunOnce
  <2> QED
    BY <2>1, <2>2
<1>11. /\ \A k \in Jobs : adding'[k] \in {"no", "push"} => ~Queued(k)' /\ ~Held(k)' /\ runs'[k] = 0
       /\ \A k \in Jobs : Queued(k)' => ~Held(k)' /\ runs'[k] = 0
  BY <1>3, <1>5, <1>6, <1>8 DEF JobInv, Tokens
<1>12. Tokens'
  BY <1>7, <1>9, <1>10, <1>11 DEF JobInv, Tokens
<1> QED
  BY <1>2, <1>3, <1>4, <1>5, <1>12 DEF JobInv, JobTypeOK

-----------------------------------------------------------------------------
(* The steps                                                                 *)

\* The documents that a step leaves active stay accounted for.
LEMMA Accounted ==
    ASSUME JobInv, NEW j \in Jobs,
           \A k \in Jobs : k # j =>
             /\ doc'[k] = doc[k] /\ (adding[k] = "push" => adding'[k] = "push")
             /\ (Queued(k) => Queued(k)') /\ (Held(k) => Held(k)') /\ (k \in hit => k \in hit'),
           doc'[j] \in Unfinished => adding'[j] = "push" \/ Queued(j)' \/ Held(j)' \/ j \in hit'
    PROVE  ActiveAccounted'
  BY DEF JobInv, ActiveAccounted

LEMMA Words ==
    /\ {"PENDING", "PROCESSING"} \subseteq Unfinished /\ {"COMPLETED", "FAILED"} \subseteq Final
    /\ "ABSENT" \notin Unfinished /\ "COMPLETED" \notin Unfinished /\ "FAILED" \notin Unfinished
  BY DEF Unfinished, Final

\* Requests and expiries: no id moves, or one is pushed.
LEMMA RequestStep ==
    ASSUME JobInv, NEW j \in Jobs, NEW applied \in BOOLEAN,
           Create(j) \/ Push(j) \/ AddFails(j, applied) \/ Expire(j)
    PROVE  JobInv'
<1>t. /\ doc \in [Jobs -> Unfinished \cup Final \cup {"ABSENT"}]
      /\ adding \in [Jobs -> {"no", "push", "answered", "failed"}]
      /\ hit \subseteq Jobs /\ faults \in 0..MaxFaults
  BY DEF JobInv, JobTypeOK
<1>1. CASE Create(j)
  <2>1. /\ adding[j] = "no" /\ adding' = [adding EXCEPT ![j] = "push"]
        /\ doc' = [doc EXCEPT ![j] = "PENDING"]
        /\ UNCHANGED <<queues, place, job, runs, hit, faults>>
    BY <1>1 DEF Create
  <2>2. JobTypeOK'
    BY <2>1, <1>t, Words DEF JobInv, JobTypeOK
  <2>3. \A k \in Jobs : (Queued(k)' <=> Queued(k)) /\ (Held(k)' <=> Held(k))
    BY <2>1 DEF Queued, Held
  <2>4. \A k \in Jobs : adding'[k] \in {"no", "push"} => adding[k] \in {"no", "push"}
    BY <2>1, <1>t
  <2>5. Tokens'
    BY <2>1, <2>3, <2>4 DEF JobInv, Tokens, RunOnce
  <2>6. ActiveAccounted'
    BY <2>1, <2>3, <1>t, Accounted
  <2> QED
    BY <2>2, <2>5, <2>6 DEF JobInv
<1>2. CASE Push(j)
  <2>1. /\ adding[j] = "push" /\ adding' = [adding EXCEPT ![j] = "answered"]
        /\ queues' = [queues EXCEPT ![QueueOf[j]] = Append(@, j)]
        /\ UNCHANGED <<doc, place, job, runs, hit, faults>>
    BY <1>2 DEF Push
  <2>2. /\ Tokens' /\ Queued(j)' /\ queues' \in [QueueNames -> Seq(Jobs)]
        /\ \A k \in Jobs : Queued(k) => Queued(k)'
    BY <2>1, TokenPushed
  <2>3. JobTypeOK'
    BY <2>1, <2>2, <1>t DEF JobInv, JobTypeOK
  <2>4. ActiveAccounted'
    BY <2>1, <2>2, <1>t, Accounted DEF Held
  <2> QED
    BY <2>2, <2>3, <2>4 DEF JobInv
<1>3. CASE AddFails(j, applied)
  <2>1. /\ adding[j] = "push" /\ adding' = [adding EXCEPT ![j] = "failed"]
        /\ queues' = IF applied THEN [queues EXCEPT ![QueueOf[j]] = Append(@, j)] ELSE queues
        /\ hit' = hit \cup {j} /\ faults' \in 0..MaxFaults
        /\ UNCHANGED <<doc, place, job, runs>>
    BY <1>3, <1>t, JobAssumption DEF AddFails, Hit
  <2>2. /\ Tokens' /\ queues' \in [QueueNames -> Seq(Jobs)]
        /\ \A k \in Jobs : Queued(k) => Queued(k)'
    <3>1. CASE applied
      BY <2>1, <3>1, TokenPushed
    <3>2. CASE ~applied
      <4>1. queues' = queues
        BY <2>1, <3>2
      <4>2. \A k \in Jobs : (Queued(k)' <=> Queued(k)) /\ (Held(k)' <=> Held(k))
        BY <2>1, <4>1 DEF Queued, Held
      <4>3. \A k \in Jobs : adding'[k] \in {"no", "push"} => adding[k] \in {"no", "push"}
        BY <2>1, <1>t
      <4>4. Tokens'
        BY <2>1, <4>1, <4>2, <4>3 DEF JobInv, Tokens, RunOnce
      <4> QED
        BY <4>1, <4>2, <4>4 DEF JobInv, JobTypeOK
    <3> QED
      BY <3>1, <3>2
  <2>3. JobTypeOK'
    BY <2>1, <2>2, <1>t DEF JobInv, JobTypeOK
  <2>4. ActiveAccounted'
    BY <2>1, <2>2, <1>t, Accounted DEF Held
  <2> QED
    BY <2>2, <2>3, <2>4 DEF JobInv
<1>4. CASE Expire(j)
  <2>1. /\ doc' = [doc EXCEPT ![j] = "ABSENT"]
        /\ hit' = hit \cup {j} /\ faults' \in 0..MaxFaults
        /\ UNCHANGED <<adding, queues, place, job, runs>>
    BY <1>4, <1>t, JobAssumption DEF Expire, Hit
  <2>2. JobTypeOK'
    BY <2>1, <1>t DEF JobInv, JobTypeOK
  <2>3. \A k \in Jobs : (Queued(k)' <=> Queued(k)) /\ (Held(k)' <=> Held(k))
    BY <2>1 DEF Queued, Held
  <2>4. Tokens'
    BY <2>1, <2>3 DEF JobInv, Tokens, RunOnce
  <2>5. ActiveAccounted'
    BY <2>1, <2>3, <1>t, Accounted
  <2> QED
    BY <2>2, <2>4, <2>5 DEF JobInv
<1> QED
  BY <1>1, <1>2, <1>3, <1>4

\* An id is taken from its list.
LEMMA TakeStep ==
    ASSUME JobInv, NEW w \in Workers, Pop(w) \/ PopFails(w)
    PROVE  JobInv'
<1>t. /\ doc \in [Jobs -> Unfinished \cup Final \cup {"ABSENT"}]
      /\ place \in [Workers -> {"idle", "fetch", "mark", "run", "complete", "fail"}]
      /\ job \in [Workers -> Jobs \cup {NoJob}]
      /\ \A v \in Workers : place[v] = "idle" <=> job[v] = NoJob
      /\ hit \subseteq Jobs /\ faults \in 0..MaxFaults /\ NoJob \notin Jobs
  BY JobAssumption DEF JobInv, JobTypeOK
<1>1. CASE Pop(w)
  <2>1. PICK q \in QueueNames :
          /\ queues[q] # << >> /\ job' = [job EXCEPT ![w] = Head(queues[q])]
          /\ queues' = [queues EXCEPT ![q] = Tail(@)]
          /\ place[w] = "idle" /\ place' = [place EXCEPT ![w] = "fetch"]
          /\ UNCHANGED <<doc, adding, runs, hit, faults>>
    BY <1>1 DEF Pop, At, First
  <2>2. /\ Tokens' /\ Head(queues[q]) \in Jobs /\ queues' \in [QueueNames -> Seq(Jobs)]
        /\ \A k \in Jobs : k # Head(queues[q]) => (Queued(k) => Queued(k)') /\ (Held(k) => Held(k)')
    BY <2>1, TokenTaken
  <2>3. PICK j \in Jobs : j = Head(queues[q])
    BY <2>2
  <2>4. Held(j)'
    BY <2>1, <2>3, <1>t DEF Held
  <2>5. /\ doc' \in [Jobs -> Unfinished \cup Final \cup {"ABSENT"}] /\ faults' \in 0..MaxFaults
        /\ place' \in [Workers -> {"idle", "fetch", "mark", "run", "complete", "fail"}]
        /\ job' \in [Workers -> Jobs \cup {NoJob}]
        /\ \A v \in Workers : place'[v] = "idle" <=> job'[v] = NoJob
    BY <2>1, <2>3, <1>t
  <2>6. JobTypeOK'
    BY <2>1, <2>2, <2>5 DEF JobInv, JobTypeOK
  <2>7. ActiveAccounted'
    BY <2>1, <2>2, <2>3, <2>4, Accounted
  <2> QED
    BY <2>2, <2>6, <2>7 DEF JobInv
<1>2. CASE PopFails(w)
  <2>1. PICK q \in QueueNames :
          /\ queues[q] # << >> /\ queues' = [queues EXCEPT ![q] = Tail(@)]
          /\ faults < MaxFaults /\ faults' = faults + 1 /\ hit' = hit \cup {Head(queues[q])}
          /\ place[w] = "idle" /\ UNCHANGED <<doc, adding, place, job, runs>>
    BY <1>2, Zenon DEF PopFails, First, Hit
  <2>2. /\ Tokens' /\ Head(queues[q]) \in Jobs /\ queues' \in [QueueNames -> Seq(Jobs)]
        /\ \A k \in Jobs : k # Head(queues[q]) => (Queued(k) => Queued(k)') /\ (Held(k) => Held(k)')
    BY <2>1, TokenTaken
  <2>3. PICK j \in Jobs : j = Head(queues[q])
    BY <2>2
  <2>4. hit' = hit \cup {j} /\ hit' \subseteq Jobs /\ faults' \in 0..MaxFaults
    BY <2>1, <2>3, <1>t, JobAssumption
  <2>5. JobTypeOK'
    BY <2>1, <2>2, <2>4 DEF JobInv, JobTypeOK
  <2>6. \A k \in Jobs : k # j =>
          /\ doc'[k] = doc[k] /\ (adding[k] = "push" => adding'[k] = "push")
          /\ (Queued(k) => Queued(k)') /\ (Held(k) => Held(k)') /\ (k \in hit => k \in hit')
    BY <2>1, <2>2, <2>3, <2>4
  <2>7. j \in hit'
    BY <2>4
  <2>8. ActiveAccounted'
    BY <2>6, <2>7, Accounted
  <2> QED
    BY <2>2, <2>5, <2>8 DEF JobInv
<1> QED
  BY <1>1, <1>2

\* A worker goes on with the job in its hands or lets go of it; a document that
\* is not finished then is still held, or a fault hit the job.
LEMMA HandStep ==
    ASSUME JobInv, NEW w \in Workers, place[w] # "idle", UNCHANGED <<queues, adding>>,
           NEW p \in {"idle", "mark", "run", "complete", "fail"},
           place' = [place EXCEPT ![w] = p],
           job' = IF p = "idle" THEN [job EXCEPT ![w] = NoJob] ELSE job,
           p \in Before => place[w] \in {"fetch", "mark"},
           \/ runs' = runs
           \/ /\ place[w] = "run" /\ p \notin Before
              /\ runs' = [runs EXCEPT ![job[w]] = @ + 1],
           doc' \in [Jobs -> Unfinished \cup Final \cup {"ABSENT"}],
           \A k \in Jobs : k # job[w] => doc'[k] = doc[k],
           hit' \in {hit, hit \cup {job[w]}}, faults' \in 0..MaxFaults,
           p = "idle" => doc'[job[w]] \notin Unfinished \/ job[w] \in hit'
    PROVE  JobInv'
<1>1. job[w] \in Jobs /\ Held(job[w]) /\ hit \subseteq Jobs
  BY HeldIsJob DEF JobInv, JobTypeOK
<1>2. /\ Tokens' /\ JobTypeOK'
      /\ \A k \in Jobs : k # job[w] => (Held(k) => Held(k)')
      /\ p # "idle" => \A k \in Jobs : Held(k) => Held(k)'
  BY <1>1, TokenKept
<1>3. \A k \in Jobs : Queued(k) => Queued(k)'
  BY DEF Queued
<1>4. ActiveAccounted'
  BY <1>1, <1>2, <1>3, Accounted
<1> QED
  BY <1>2, <1>4 DEF JobInv

LEMMA WorkStep ==
    ASSUME JobInv, NEW w \in Workers, Work(w)
    PROVE  JobInv'
<1>t. /\ doc \in [Jobs -> Unfinished \cup Final \cup {"ABSENT"}] /\ faults \in 0..MaxFaults
  BY DEF JobInv, JobTypeOK
<1>1. CASE Fetch(w)
  <2>1. CASE At(w, "fetch", "mark") /\ UNCHANGED job
    <3>1. /\ place[w] = "fetch" /\ place' = [place EXCEPT ![w] = "mark"] /\ job' = job
          /\ UNCHANGED <<doc, adding, queues, runs, hit, faults>>
      BY <1>1, <2>1 DEF Fetch, At
    <3> QED
      BY <3>1, <1>t, HandStep
  <2>2. CASE Release(w, "fetch") /\ doc[job[w]] = "ABSENT"
    <3>1. /\ place[w] = "fetch" /\ place' = [place EXCEPT ![w] = "idle"]
          /\ job' = [job EXCEPT ![w] = NoJob] /\ "idle" \notin Before
          /\ UNCHANGED <<doc, adding, queues, runs, hit, faults>>
      BY <1>1, <2>2 DEF Fetch, At, Release, Before
    <3>2. doc'[job[w]] \notin Unfinished
      BY <3>1, <2>2, Words
    <3> QED
      BY <3>1, <3>2, <1>t, HandStep
  <2> QED
    BY <1>1, <2>1, <2>2 DEF Fetch
<1>2. CASE Mark(w)
  <2>1. job[w] \in Jobs
    BY <1>2, HeldIsJob DEF JobInv, Mark, At
  <2>2. /\ doc' \in [Jobs -> Unfinished \cup Final \cup {"ABSENT"}]
        /\ \A k \in Jobs : k # job[w] => doc'[k] = doc[k]
    BY <1>2, <1>t, <2>1, Words DEF Mark, Hands
  <2>3. /\ place[w] = "mark" /\ place' = [place EXCEPT ![w] = "run"] /\ job' = job
        /\ UNCHANGED <<adding, queues, runs, hit, faults>>
    BY <1>2 DEF Mark, At
  <2> QED
    BY <1>t, <2>2, <2>3, HandStep
<1>3. CASE Complete(w)
  <2>1. job[w] \in Jobs
    BY <1>3, HeldIsJob DEF JobInv, Complete, Release, At
  <2>2. /\ doc' \in [Jobs -> Unfinished \cup Final \cup {"ABSENT"}]
        /\ \A k \in Jobs : k # job[w] => doc'[k] = doc[k]
        /\ doc'[job[w]] \notin Unfinished
    BY <1>3, <1>t, <2>1, Words DEF Complete, Hands
  <2> QED
    BY <1>3, <1>t, <2>2, HandStep DEF Complete, Release, At, Before
<1>4. CASE Fail(w)
  <2>1. job[w] \in Jobs
    BY <1>4, HeldIsJob DEF JobInv, Fail, Release, At
  <2>2. /\ doc' \in [Jobs -> Unfinished \cup Final \cup {"ABSENT"}]
        /\ \A k \in Jobs : k # job[w] => doc'[k] = doc[k]
        /\ doc'[job[w]] \notin Unfinished
    BY <1>4, <1>t, <2>1, Words DEF Fail, Hands
  <2> QED
    BY <1>4, <1>t, <2>2, HandStep DEF Fail, Release, At, Before
<1>5. ASSUME NEW result \in {"returned", "raised"}, Run(w, result) PROVE JobInv'
  <2> DEFINE p == IF result = "returned" THEN "complete" ELSE "fail"
  <2>1. p \in {"idle", "mark", "run", "complete", "fail"} /\ p \notin Before /\ p # "idle"
    BY DEF Before
  <2>2. /\ place[w] = "run" /\ place' = [place EXCEPT ![w] = p]
        /\ runs' = [runs EXCEPT ![job[w]] = @ + 1]
        /\ UNCHANGED <<doc, adding, queues, job, hit, faults>>
    BY <1>5 DEF Run, At
  <2> HIDE DEF p
  <2> QED
    BY <1>t, <2>1, <2>2, HandStep
<1> QED
  BY <1>1, <1>2, <1>3, <1>4, <1>5 DEF Work

LEMMA WorkerFaultStep ==
    ASSUME JobInv, NEW w \in Workers, NEW applied \in BOOLEAN,
           UpdateFails(w, applied) \/ Crash(w)
    PROVE  JobInv'
<1>t. /\ doc \in [Jobs -> Unfinished \cup Final \cup {"ABSENT"}] /\ faults \in 0..MaxFaults
  BY DEF JobInv, JobTypeOK
<1>1. CASE UpdateFails(w, applied)
  <2> DEFINE p == IF place[w] = "complete" THEN "fail" ELSE "idle"
  <2>1. /\ place[w] \in {"mark", "complete", "fail"}
        /\ place' = [place EXCEPT ![w] = p]
        /\ job' = IF p = "idle" THEN [job EXCEPT ![w] = NoJob] ELSE job
        /\ hit' = hit \cup {job[w]} /\ faults' \in 0..MaxFaults
        /\ doc' = IF applied THEN [doc EXCEPT ![job[w]] = Goal(w)] ELSE doc
        /\ UNCHANGED <<adding, queues, runs>>
    BY <1>1, <1>t, JobAssumption DEF UpdateFails, Release, At, Hit
  <2>2. Goal(w) \in Unfinished \cup Final
    BY <2>1, Words DEF Goal
  <2>3. job[w] \in Jobs /\ place[w] # "idle"
    BY <2>1, HeldIsJob DEF JobInv
  <2>4. /\ doc' \in [Jobs -> Unfinished \cup Final \cup {"ABSENT"}]
        /\ \A k \in Jobs : k # job[w] => doc'[k] = doc[k]
    BY <1>t, <2>1, <2>2, <2>3
  <2>5. p \in {"idle", "mark", "run", "complete", "fail"} /\ p \notin Before
    BY DEF Before
  <2> HIDE DEF p
  <2>6. job[w] \in hit' /\ hit' \in {hit, hit \cup {job[w]}} /\ runs' = runs
    BY <2>1
  <2> QED
    BY <2>1, <2>3, <2>4, <2>5, <2>6, HandStep
<1>2. CASE Crash(w)
  <2>1. /\ place[w] # "idle" /\ place' = [place EXCEPT ![w] = "idle"]
        /\ job' = [job EXCEPT ![w] = NoJob]
        /\ hit' = hit \cup {job[w]} /\ faults' \in 0..MaxFaults
        /\ UNCHANGED <<doc, adding, queues, runs>>
    BY <1>2, <1>t, JobAssumption DEF Crash, Release, At, Hit
  <2>2. job[w] \in hit' /\ "idle" \notin Before
    BY <2>1 DEF Before
  <2> QED
    BY <1>t, <2>1, <2>2, HandStep
<1> QED
  BY <1>1, <1>2

LEMMA JobStep == JobInv /\ [JobNext]_jobVars => JobInv'
<1> SUFFICES ASSUME JobInv, [JobNext]_jobVars PROVE JobInv'
  OBVIOUS
<1>1. CASE UNCHANGED jobVars
  BY <1>1 DEF jobVars, JobInv, JobTypeOK, Tokens, ActiveAccounted, RunOnce, Queued, Held
<1>2. CASE JobNext
  BY <1>2, RequestStep, TakeStep, WorkStep, WorkerFaultStep DEF JobNext
<1> QED
  BY <1>1, <1>2

LEMMA JobInductive == JobSpec => []JobInv
  BY JobInitially, JobStep, PTL DEF JobSpec

\* The variables of the job queue keep their types (job_queue.py, worker.py).
THEOREM JobTypeCorrect == JobSpec => []JobTypeOK
<1>1. JobInv => JobTypeOK
  BY DEF JobInv
<1> QED
  BY <1>1, JobInductive, PTL

\* Whatever the workers, and whatever fails, expires or dies, a task is started
\* at most once (job_queue.py:123-152, worker.py:95-141): an id that was popped
\* never returns to a list.
THEOREM RunsOnce == JobSpec => []RunOnce
<1>1. JobInv => RunOnce
  BY DEF JobInv, Tokens
<1> QED
  BY <1>1, JobInductive, PTL

\* A document that reads PENDING or PROCESSING belongs to a job that is being
\* pushed, waits in its list or is in a worker's hands, or a fault hit it
\* (job_queue.py:54-180, worker.py:30-141).
THEOREM ActiveIsAccounted == JobSpec => []ActiveAccounted
<1>1. JobInv => ActiveAccounted
  BY DEF JobInv
<1> QED
  BY <1>1, JobInductive, PTL

-----------------------------------------------------------------------------
(* The telemetry buffer                                                      *)

BufferTypeOK ==
    /\ items \in Seq(Events) /\ produced \in 0..MaxEvents
    /\ shed \subseteq Events /\ torn \subseteq Events
    /\ stored \in [Events -> Nat]
    /\ step \in [Flushers -> {"idle", "loop", "post", "remove"}]
    /\ batch \in [Flushers -> Seq(Events)]
    /\ unanswered \in Nat /\ crashes \in Nat

\* Events 1..Gone have left the buffer, and the file holds the others in order.
Gone == produced - Len(items)

FileInv ==
    /\ Len(items) <= produced
    /\ \A i \in 1..Len(items) : items[i] = Gone + i

Sending(f) == step[f] \in {"post", "remove"}
InBatch(e) == \E f \in Flushers : Sending(f) /\ \E i \in 1..Len(batch[f]) : batch[f][i] = e

\* A batch under way is a run of events that began where the file began, or
\* before, the capacity rule permitting.
BatchInv ==
    \A f \in Flushers : Sending(f) =>
        /\ Len(batch[f]) \in 1..BatchSize
        /\ \A i \in 1..Len(batch[f]) : batch[f][i] = batch[f][1] + i - 1
        /\ batch[f][1] <= Gone + 1 /\ batch[f][1] + Len(batch[f]) - 1 <= produced
        /\ shed = {} /\ OneFlusher => batch[f][1] = Gone + 1

\* What left the buffer was stored, unless the capacity rule or a crash dropped
\* it; what was stored is what is oldest.
OrderInv ==
    shed = {} /\ OneFlusher =>
        /\ \A e \in 1..Gone : stored[e] > 0 \/ e \in torn
        /\ \A f \in Flushers : step[f] = "remove" =>
              \A i \in 1..Len(batch[f]) : stored[batch[f][i]] > 0
        /\ \A e, d \in Events : stored[e] > 0 /\ d < e => stored[d] > 0 \/ d \in torn

Tries == unanswered + crashes

\* An event that is still to be posted was stored only by tries that failed.
CountInv ==
    \A e \in Events :
        IF e \in Stamped THEN stored[e] <= 1
        ELSE OneFlusher /\ ~ Recommitted(e) =>
                /\ stored[e] <= 1 + Tries
                /\ e > Gone /\ stored[e] > Tries =>
                      InBatch(e) /\ \A f \in Flushers : step[f] = "remove"
                /\ InBatch(e) /\ stored[e] > Tries => \A f \in Flushers : step[f] = "remove"

BufferInv == BufferTypeOK /\ FileInv /\ BatchInv /\ OrderInv /\ CountInv

LEMMA BufferInitially == BufferInit => BufferInv
<1> SUFFICES ASSUME BufferInit PROVE BufferInv
  OBVIOUS
<1>1. BufferTypeOK
  BY BufferAssumption DEF BufferInit, BufferTypeOK
<1>2. produced = 0 /\ Len(items) = 0
  BY DEF BufferInit
<1>3. Gone = 0
  BY <1>2 DEF Gone
<1>4. FileInv
  BY <1>2 DEF FileInv
<1>5. BatchInv /\ OrderInv /\ CountInv
  BY <1>3 DEF BufferInit, BatchInv, OrderInv, CountInv, Tries, Sending, InBatch
<1> QED
  BY <1>1, <1>4, <1>5 DEF BufferInv

-----------------------------------------------------------------------------
(* What the server does with a batch                                         *)

\* The position of an event in a batch under way, and the other way round.
LEMMA BatchPositions ==
    ASSUME BufferTypeOK, BatchInv, NEW f \in Flushers, Sending(f)
    PROVE  /\ Len(batch[f]) \in Nat /\ DOMAIN batch[f] = 1..Len(batch[f])
           /\ \A i \in 1..Len(batch[f]) :
                 batch[f][i] \in Events /\ batch[f][i] = batch[f][1] + i - 1
           /\ batch[f][1] \in Events /\ batch[f][1] \in Nat
<1>1. batch[f] \in Seq(Events) /\ Len(batch[f]) \in 1..BatchSize
  BY DEF BufferTypeOK, BatchInv
<1>2. 1 \in 1..Len(batch[f])
  BY <1>1, BufferAssumption
<1>3. Events \subseteq Nat
  BY BufferAssumption DEF Events
<1>4. /\ Len(batch[f]) \in Nat /\ DOMAIN batch[f] = 1..Len(batch[f])
      /\ \A i \in 1..Len(batch[f]) : batch[f][i] \in Events
  BY <1>1
<1>5. \A i \in 1..Len(batch[f]) : batch[f][i] = batch[f][1] + i - 1
  BY DEF BatchInv
<1> QED
  BY <1>2, <1>3, <1>4, <1>5

\* A batch is stored from its first event on, up to some event; an event with
\* an id only if it was not; and a batch that is refused, only its events that
\* will be stored at every try.
LEMMA IngestEffect ==
    ASSUME BufferTypeOK, BatchInv, NEW f \in Flushers, Sending(f), Ingest(batch[f])
    PROVE  /\ stored' \in [Events -> Nat]
           /\ \A e \in Events : stored'[e] = stored[e] \/ stored'[e] = stored[e] + 1
           /\ \A e \in Events : stored'[e] # stored[e] =>
                 /\ \E i \in 1..Len(batch[f]) : batch[f][i] = e
                 /\ e \in Stamped => stored[e] = 0
           /\ Valid(batch[f]) /\ Clean(batch[f]) =>
                 \A i \in 1..Len(batch[f]) : stored'[batch[f][i]] > 0
           /\ \A i, j \in 1..Len(batch[f]) :
                 i < j /\ stored'[batch[f][j]] # stored[batch[f][j]] => stored'[batch[f][i]] > 0
           /\ ~ (Valid(batch[f]) /\ Clean(batch[f])) =>
                 \A e \in Events : stored'[e] # stored[e] => Recommitted(e)
<1> DEFINE b == batch[f]
           Hits(e) == \E i \in Committed(b) : b[i] = e
<1>1. /\ Len(b) \in Nat /\ DOMAIN b = 1..Len(b)
      /\ \A i \in 1..Len(b) : b[i] \in Events /\ b[i] = b[1] + i - 1
      /\ b[1] \in Events /\ b[1] \in Nat /\ Len(b) \in 1..BatchSize /\ stored \in [Events -> Nat]
  BY BatchPositions DEF BatchInv, BufferTypeOK
<1> HIDE DEF b
<1>2. /\ stored' \in [Events -> Nat]
      /\ ~Valid(b) => stored' = stored
      /\ \A e \in Events : Valid(b) /\ Hits(e) => stored'[e] = stored[e] + 1
      /\ \A e \in Events : ~Hits(e) => stored'[e] = stored[e]
  BY <1>1 DEF Ingest, b
<1>3. \A i \in Committed(b) : i \in 1..Len(b) /\ ~Conflict(b, i)
  BY <1>1 DEF Committed, Clean
<1>4. \A i, j \in 1..Len(b) : i < j /\ j \in Committed(b) => i \in Committed(b)
  <2> SUFFICES ASSUME NEW i \in 1..Len(b), NEW j \in 1..Len(b), i < j, j \in Committed(b)
               PROVE  i \in Committed(b)
    OBVIOUS
  <2>1. CASE Clean(b)
    BY <1>1, <2>1 DEF Committed
  <2>2. CASE ~Clean(b)
    <3>1. PICK k \in j..Len(b) : b[k] \in Routed /\ \A l \in 1..k : ~ Conflict(b, l)
      BY <2>2 DEF Committed
    <3>2. k \in i..Len(b)
      BY <1>1, <3>1
    <3> QED
      BY <1>1, <3>1, <3>2 DEF Committed
  <2> QED
    BY <2>1, <2>2
<1>5. \A i, j \in 1..Len(b) : b[i] = b[j] => i = j
  BY <1>1
<1>6. \A i \in 1..Len(b) : Hits(b[i]) <=> i \in Committed(b)
  BY <1>3, <1>5
<1>7. \A e \in Events : stored'[e] # stored[e] => Valid(b) /\ Hits(e)
  BY <1>2
<1>8. \A e \in Events : Hits(e) => /\ \E i \in 1..Len(b) : b[i] = e
                                   /\ e \in Stamped => stored[e] = 0
  BY <1>1, <1>3 DEF Conflict
<1>9. Valid(b) /\ Clean(b) => \A i \in 1..Len(b) : stored'[b[i]] > 0
  <2> SUFFICES ASSUME Valid(b), Clean(b), NEW i \in 1..Len(b) PROVE stored'[b[i]] > 0
    OBVIOUS
  <2>1. i \in Committed(b)
    BY <1>1 DEF Committed
  <2>2. stored'[b[i]] = stored[b[i]] + 1
    BY <1>1, <1>2, <1>6, <2>1
  <2> QED
    BY <1>1, <2>2
<1>10. \A i, j \in 1..Len(b) : i < j /\ stored'[b[j]] # stored[b[j]] => stored'[b[i]] > 0
  <2> SUFFICES ASSUME NEW i \in 1..Len(b), NEW j \in 1..Len(b), i < j, stored'[b[j]] # stored[b[j]]
               PROVE  stored'[b[i]] > 0
    OBVIOUS
  <2>1. Valid(b) /\ j \in Committed(b)
    BY <1>1, <1>6, <1>7
  <2>2. stored'[b[i]] = stored[b[i]] + 1
    BY <1>1, <1>2, <1>4, <1>6, <2>1
  <2> QED
    BY <1>1, <2>2
<1>11. ASSUME ~ (Valid(b) /\ Clean(b)), NEW e \in Events, stored'[e] # stored[e]
       PROVE  Recommitted(e)
  <2>1. Valid(b) /\ ~Clean(b) /\ Hits(e)
    BY <1>7, <1>11
  <2>2. PICK i \in 1..Len(b) : b[i] = e /\ i \in Committed(b)
    BY <1>3, <2>1
  <2>3. PICK k \in i..Len(b) : b[k] \in Routed /\ \A l \in 1..k : ~ Conflict(b, l)
    BY <2>1, <2>2 DEF Committed
  <2>4. PICK c \in 1..Len(b) : Conflict(b, c)
    BY <1>1, <2>1 DEF Clean
  <2>5. k \in 1..Len(b) /\ k < c /\ i <= k
    BY <1>1, <2>3, <2>4
  <2>6. b[c] \in Stamped
    BY <2>4 DEF Conflict
  <2>7. /\ e <= b[k] /\ b[k] < b[c] /\ b[c] < e + BatchSize
        /\ b[k] \in Events /\ b[c] \in Events
    <3>1. e = b[1] + i - 1 /\ b[k] = b[1] + k - 1 /\ b[c] = b[1] + c - 1
      BY <1>1, <2>2, <2>5
    <3> QED
      BY <1>1, <2>5, <3>1, BufferAssumption
  <2> QED
    BY <2>3, <2>6, <2>7 DEF Recommitted
<1> QED
  BY <1>2, <1>7, <1>8, <1>9, <1>10, <1>11 DEF b
-----------------------------------------------------------------------------
(* The steps                                                                 *)

LEMMA GoneType ==
    ASSUME BufferTypeOK, FileInv
    PROVE  Gone \in 0..produced /\ Gone \in Nat /\ produced \in Nat /\ Len(items) \in Nat
  BY BufferAssumption DEF BufferTypeOK, FileInv, Gone

LEMMA EnqueueStep ==
    ASSUME BufferInv, Enqueue
    PROVE  BufferInv'
<1> DEFINE t == IF Full THEN Tail(items) ELSE items
           away == IF Full THEN Gone + 1 ELSE Gone
<1>0. Gone \in 0..produced /\ Gone \in Nat /\ produced \in Nat /\ Len(items) \in Nat
  BY GoneType DEF BufferInv
<1>1. /\ items \in Seq(Events) /\ Len(items) = produced - Gone
      /\ \A i \in 1..Len(items) : items[i] = Gone + i
  BY <1>0 DEF BufferInv, BufferTypeOK, FileInv, Gone
<1>2. /\ t \in Seq(Events) /\ Len(t) = produced - away /\ away \in 0..produced
      /\ \A i \in 1..Len(t) : t[i] = away + i
      /\ Full => Head(items) \in Events
  <2>1. CASE Full
    <3>1. items # <<>> /\ Len(items) > 0
      BY <1>0, <1>1, <2>1, BufferAssumption DEF Full
    <3>2. /\ Tail(items) \in Seq(Events) /\ Len(Tail(items)) = Len(items) - 1
          /\ Head(items) \in Events
          /\ \A i \in 1..Len(Tail(items)) : Tail(items)[i] = items[i + 1]
      BY <1>1, <3>1
    <3>3. \A i \in 1..Len(Tail(items)) : Tail(items)[i] = Gone + 1 + i
      BY <1>0, <1>1, <3>1, <3>2
    <3> QED
      BY <1>0, <1>1, <2>1, <3>1, <3>2, <3>3
  <2>2. CASE ~Full
    BY <1>0, <1>1, <2>2
  <2> QED
    BY <2>1, <2>2
<1>3. /\ produced' = produced + 1 /\ items' = Append(t, produced + 1)
      /\ produced + 1 \in Events /\ produced' \in 0..MaxEvents
      /\ shed' = IF Full THEN shed \cup {Head(items)} ELSE shed
      /\ UNCHANGED <<torn, stored, step, batch, unanswered, crashes>>
  BY <1>0, BufferAssumption DEF Enqueue, Events
<1> HIDE DEF t
<1>4. /\ items' \in Seq(Events) /\ Len(items') = produced' - away
      /\ \A i \in 1..Len(items') : items'[i] = away + i
  <2>1. /\ Append(t, produced + 1) \in Seq(Events) /\ Len(Append(t, produced + 1)) = Len(t) + 1
        /\ Append(t, produced + 1)[Len(t) + 1] = produced + 1
        /\ \A i \in 1..Len(t) : Append(t, produced + 1)[i] = t[i]
    BY <1>2, <1>3
  <2>2. Len(t) \in Nat /\ away + Len(t) + 1 = produced + 1
    BY <1>0, <1>2
  <2> QED
    BY <1>0, <1>2, <1>3, <2>1, <2>2
<1>5. Gone' = away /\ away >= Gone
  <2>1. Gone' = produced' - Len(items') /\ produced' \in Nat
    BY <1>0, <1>3 DEF Gone
  <2>2. away \in Nat /\ away >= Gone
    BY <1>0, <1>2
  <2> QED
    BY <1>4, <2>1, <2>2
<1>6. BufferTypeOK'
  BY <1>2, <1>3, <1>4 DEF BufferInv, BufferTypeOK
<1>7. FileInv'
  BY <1>0, <1>2, <1>3, <1>4, <1>5 DEF FileInv
<1>8. shed' = {} => shed = {} /\ Gone' = Gone
  BY <1>3, <1>5
<1>9. BatchInv'
  <2> SUFFICES ASSUME NEW f \in Flushers, Sending(f)
               PROVE  /\ batch[f][1] <= Gone' + 1 /\ batch[f][1] + Len(batch[f]) - 1 <= produced'
                      /\ shed' = {} /\ OneFlusher => batch[f][1] = Gone' + 1
    BY <1>3 DEF BufferInv, BatchInv, Sending
  <2>1. /\ batch[f][1] \in Nat /\ Len(batch[f]) \in Nat
    BY BatchPositions DEF BufferInv
  <2>2. /\ batch[f][1] <= Gone + 1 /\ batch[f][1] + Len(batch[f]) - 1 <= produced
        /\ shed = {} /\ OneFlusher => batch[f][1] = Gone + 1
    BY DEF BufferInv, BatchInv
  <2> QED
    BY <1>0, <1>2, <1>3, <1>5, <1>8, <2>1, <2>2
<1>10. OrderInv'
  BY <1>3, <1>8 DEF BufferInv, OrderInv
<1>11. CountInv'
  <2>1. \A e \in Events : e > Gone' => e > Gone
    BY <1>0, <1>2, <1>5, BufferAssumption DEF Events
  <2> QED
    BY <1>3, <2>1 DEF BufferInv, CountInv, InBatch, Sending, Tries
<1> QED
  BY <1>6, <1>7, <1>9, <1>10, <1>11 DEF BufferInv

\* Flusher f peeks a batch.
LEMMA PeekStep ==
    ASSUME BufferInv, NEW f \in Flushers, Peek(f)
    PROVE  BufferInv'
<1> DEFINE n == IF BatchSize < Len(items) THEN BatchSize ELSE Len(items)
           b == FirstOf(items, BatchSize)
<1>0. Gone \in 0..produced /\ Gone \in Nat /\ produced \in Nat /\ Len(items) \in Nat
  BY GoneType DEF BufferInv
<1>1. /\ items \in Seq(Events) /\ Len(items) = produced - Gone /\ items # <<>>
      /\ \A i \in 1..Len(items) : items[i] = Gone + i
      /\ step[f] \in {"idle", "loop"}
      /\ batch' = [batch EXCEPT ![f] = b] /\ step' = [step EXCEPT ![f] = "post"]
      /\ UNCHANGED <<items, produced, shed, torn, stored, unanswered, crashes>>
  BY <1>0 DEF BufferInv, BufferTypeOK, FileInv, Gone, Peek
<1>2. n \in 1..Len(items) /\ n <= BatchSize
  BY <1>0, <1>1, BufferAssumption
<1>3. /\ b \in Seq(Events) /\ Len(b) = n /\ \A i \in 1..n : b[i] = Gone + i
  <2>1. b = SubSeq(items, 1, n)
    BY BufferAssumption, <1>0 DEF FirstOf
  <2>2. b \in Seq(Events) /\ Len(b) = n /\ \A i \in 1..n : b[i] = items[i]
    BY <1>0, <1>1, <1>2, <2>1
  <2> QED
    BY <1>1, <1>2, <2>2
<1> HIDE DEF b, n
<1>4. Gone' = Gone /\ FileInv'
  BY <1>1 DEF BufferInv, FileInv, Gone
<1>5. /\ batch'[f] = b /\ step'[f] = "post"
      /\ \A g \in Flushers : g # f => batch'[g] = batch[g] /\ step'[g] = step[g]
      /\ batch' \in [Flushers -> Seq(Events)]
      /\ step' \in [Flushers -> {"idle", "loop", "post", "remove"}]
  BY <1>1, <1>3 DEF BufferInv, BufferTypeOK
<1>6. BufferTypeOK'
  BY <1>1, <1>5 DEF BufferInv, BufferTypeOK
<1>7. BatchInv'
  <2>1. /\ Len(b) \in 1..BatchSize /\ \A i \in 1..Len(b) : b[i] = b[1] + i - 1
        /\ b[1] = Gone + 1 /\ b[1] + Len(b) - 1 <= produced
    BY <1>0, <1>1, <1>2, <1>3, BufferAssumption
  <2>2. ASSUME NEW g \in Flushers, Sending(g)'
        PROVE  /\ Len(batch'[g]) \in 1..BatchSize
               /\ \A i \in 1..Len(batch'[g]) : batch'[g][i] = batch'[g][1] + i - 1
               /\ batch'[g][1] <= Gone' + 1 /\ batch'[g][1] + Len(batch'[g]) - 1 <= produced'
               /\ shed' = {} /\ OneFlusher => batch'[g][1] = Gone' + 1
    <3>1. CASE g = f
      BY <1>0, <1>1, <1>4, <1>5, <2>1, <3>1
    <3>2. CASE g # f
      BY <1>1, <1>4, <1>5, <2>2, <3>2 DEF BufferInv, BatchInv, Sending
    <3> QED
      BY <3>1, <3>2
  <2> QED
    BY <2>2 DEF BatchInv
<1>8. OrderInv'
  BY <1>1, <1>4, <1>5 DEF BufferInv, OrderInv, OneFlusher
<1>9. CountInv'
  <2> SUFFICES ASSUME NEW e \in Events, e \notin Stamped, OneFlusher, ~Recommitted(e)
               PROVE  stored[e] <= 1 + Tries /\ (e > Gone => stored[e] <= Tries)
                      /\ (InBatch(e)' => e > Gone)
    BY <1>1, <1>4 DEF BufferInv, BufferTypeOK, CountInv, Tries
  <2>1. stored[e] <= 1 + Tries /\ (e > Gone => ~(stored[e] > Tries))
    BY <1>1 DEF BufferInv, CountInv
  <2>2. stored[e] \in Nat /\ Tries \in Nat
    BY DEF BufferInv, BufferTypeOK, Tries
  <2>3. InBatch(e)' => \E i \in 1..Len(b) : b[i] = e
    BY <1>5 DEF InBatch, OneFlusher
  <2> QED
    BY <1>0, <1>3, <2>1, <2>2, <2>3, <1>2
<1> QED
  BY <1>4, <1>6, <1>7, <1>8, <1>9 DEF BufferInv

\* Where a flusher goes on to, after a POST or an empty buffer.
LEMMA StepType ==
    ASSUME BufferTypeOK, NEW f \in Flushers, NEW s \in {"idle", "loop", "post", "remove"},
           step' = [step EXCEPT ![f] = s]
    PROVE  /\ step' \in [Flushers -> {"idle", "loop", "post", "remove"}]
           /\ step'[f] = s /\ \A g \in Flushers : g # f => step'[g] = step[g]
  BY DEF BufferTypeOK

LEMMA DrainedStep ==
    ASSUME BufferInv, NEW f \in Flushers, Drained(f)
    PROVE  BufferInv'
<1>1. /\ step[f] = "loop" /\ step' = [step EXCEPT ![f] = "idle"]
      /\ UNCHANGED <<items, produced, shed, torn, stored, batch, unanswered, crashes>>
  BY DEF Drained
<1>2. /\ step' \in [Flushers -> {"idle", "loop", "post", "remove"}]
      /\ step'[f] = "idle" /\ \A g \in Flushers : g # f => step'[g] = step[g]
  BY <1>1, StepType DEF BufferInv
<1>3. Gone' = Gone /\ \A g \in Flushers : Sending(g)' <=> Sending(g)
  BY <1>1, <1>2 DEF Gone, Sending
<1>4. BufferTypeOK' /\ FileInv'
  BY <1>1, <1>2, <1>3 DEF BufferInv, BufferTypeOK, FileInv
<1>5. BatchInv'
  BY <1>1, <1>3 DEF BufferInv, BatchInv
<1>6. OrderInv'
  BY <1>1, <1>2, <1>3 DEF BufferInv, OrderInv
<1>7. CountInv'
  <2> SUFFICES ASSUME NEW e \in Events, e \notin Stamped, OneFlusher, ~Recommitted(e)
               PROVE  stored[e] <= 1 + Tries /\ ~InBatch(e)' /\ ~(e > Gone /\ stored[e] > Tries)
    BY <1>1, <1>3 DEF BufferInv, CountInv, Tries
  <2> QED
    BY <1>1, <1>2 DEF BufferInv, CountInv, InBatch, Sending, OneFlusher
<1> QED
  BY <1>4, <1>5, <1>6, <1>7 DEF BufferInv

\* The three ends of a POST: accepted, refused, and no answer.
LEMMA PostStep ==
    ASSUME BufferInv, NEW f \in Flushers, Accepted(f) \/ Refused(f) \/ Lost(f)
    PROVE  BufferInv'
<1> DEFINE b == batch[f]
           Good == Valid(b) /\ Clean(b)
<1>0. Gone \in 0..produced /\ Gone \in Nat /\ produced \in Nat
  BY GoneType DEF BufferInv
<1>t. stored \in [Events -> Nat] /\ unanswered \in Nat /\ crashes \in Nat /\ Tries \in Nat
  BY DEF BufferInv, BufferTypeOK, Tries
<1>1. PICK s \in {"idle", "remove"} :
        /\ step[f] = "post" /\ step' = [step EXCEPT ![f] = s]
        /\ Ingest(b) \/ stored' = stored
        /\ s = "remove" => Good /\ Ingest(b)
        /\ unanswered' = unanswered \/ (unanswered' = unanswered + 1 /\ s = "idle")
        /\ s = "idle" /\ unanswered' = unanswered => ~Good
        /\ UNCHANGED <<items, produced, shed, torn, batch, crashes>>
  <2>1. CASE Accepted(f)
    BY <2>1 DEF Accepted
  <2>2. CASE Refused(f)
    BY <2>2 DEF Refused
  <2>3. CASE Lost(f)
    BY <2>3, <1>t DEF Lost
  <2> QED
    BY <2>1, <2>2, <2>3
<1>2. /\ step' \in [Flushers -> {"idle", "loop", "post", "remove"}]
      /\ step'[f] = s /\ \A g \in Flushers : g # f => step'[g] = step[g]
  BY <1>1, StepType DEF BufferInv
<1>3. Sending(f) /\ BufferTypeOK /\ BatchInv
  BY <1>1 DEF Sending, BufferInv
<1>4. /\ Len(b) \in Nat /\ b[1] \in Nat
      /\ \A i \in 1..Len(b) : b[i] \in Events /\ b[i] = b[1] + i - 1
  BY <1>3, BatchPositions
<1>5. /\ stored' \in [Events -> Nat]
      /\ \A e \in Events : stored'[e] = stored[e] \/ stored'[e] = stored[e] + 1
      /\ \A e \in Events : stored'[e] # stored[e] =>
            /\ \E i \in 1..Len(b) : b[i] = e
            /\ e \in Stamped => stored[e] = 0
      /\ s = "remove" => \A i \in 1..Len(b) : stored'[b[i]] > 0
      /\ \A i, j \in 1..Len(b) :
            i < j /\ stored'[b[j]] # stored[b[j]] => stored'[b[i]] > 0
      /\ ~Good => \A e \in Events : stored'[e] # stored[e] => Recommitted(e)
  <2>1. CASE Ingest(b)
    BY <1>1, <1>3, <2>1, IngestEffect
  <2>2. CASE stored' = stored /\ s # "remove"
    BY <1>t, <1>4, <2>2
  <2> QED
    BY <1>1, <2>1, <2>2
<1> HIDE DEF b, Good
<1>6. Gone' = Gone /\ \A g \in Flushers : Sending(g)' => Sending(g)
  BY <1>1, <1>2 DEF Gone, Sending
<1>7. BufferTypeOK'
  BY <1>1, <1>2, <1>5, <1>t DEF BufferInv, BufferTypeOK
<1>8. FileInv' /\ BatchInv'
  BY <1>1, <1>6 DEF BufferInv, FileInv, BatchInv
<1>9. OrderInv'
  <2> SUFFICES ASSUME shed = {}, OneFlusher
               PROVE  /\ \A e \in 1..Gone : stored'[e] > 0 \/ e \in torn
                      /\ \A g \in Flushers : step'[g] = "remove" =>
                            \A i \in 1..Len(batch[g]) : stored'[batch[g][i]] > 0
                      /\ \A e, d \in Events : stored'[e] > 0 /\ d < e => stored'[d] > 0 \/ d \in torn
    BY <1>1, <1>6 DEF OrderInv
  <2>0. 1..Gone \subseteq Events
    BY <1>0, BufferAssumption DEF Events, BufferInv, BufferTypeOK
  <2>1. \A e \in 1..Gone : stored'[e] > 0 \/ e \in torn
    BY <1>5, <1>t, <2>0 DEF BufferInv, OrderInv
  <2>2. \A g \in Flushers : step'[g] = "remove" =>
           \A i \in 1..Len(batch[g]) : stored'[batch[g][i]] > 0
    BY <1>2, <1>5 DEF OneFlusher, b
  <2>3. ASSUME NEW e \in Events, NEW d \in Events, stored'[e] > 0, d < e
        PROVE  stored'[d] > 0 \/ d \in torn
    <3>1. CASE stored[e] > 0
      BY <1>5, <1>t, <2>3, <3>1 DEF BufferInv, OrderInv
    <3>2. CASE stored'[e] # stored[e]
      <4>1. PICK j \in 1..Len(b) : b[j] = e
        BY <1>5, <3>2
      <4>2. b[1] = Gone + 1
        BY <1>3 DEF BatchInv, b
      <4>3. CASE d <= Gone
        <5>1. d \in 1..Gone
          BY <1>0, <4>3, BufferAssumption DEF Events
        <5> QED
          BY <2>1, <5>1
      <4>4. CASE d > Gone
        <5>1. e = Gone + j /\ d \in Nat
          BY <1>0, <1>4, <4>1, <4>2, BufferAssumption DEF Events
        <5>2. d - Gone \in 1..Len(b) /\ d - Gone < j
          BY <1>0, <1>4, <2>3, <4>1, <4>4, <5>1
        <5>3. b[d - Gone] = d
          BY <1>0, <1>4, <4>2, <5>1, <5>2
        <5> QED
          BY <1>5, <3>2, <4>1, <5>2, <5>3
      <4> QED
        BY <1>0, <4>3, <4>4, BufferAssumption DEF Events
    <3> QED
      BY <1>t, <1>5, <2>3, <3>1, <3>2
  <2> QED
    BY <2>1, <2>2, <2>3
<1>10. CountInv'
  <2>1. \A e \in Events : e \in Stamped => stored'[e] <= 1
    BY <1>5, <1>t DEF BufferInv, CountInv
  <2>2. ASSUME NEW e \in Events, e \notin Stamped, OneFlusher, ~Recommitted(e)
        PROVE  /\ stored'[e] <= 1 + Tries'
               /\ e > Gone' /\ stored'[e] > Tries' =>
                      InBatch(e)' /\ \A g \in Flushers : step'[g] = "remove"
               /\ InBatch(e)' /\ stored'[e] > Tries' => \A g \in Flushers : step'[g] = "remove"
    <3>1. \A g \in Flushers : g = f
      BY <2>2 DEF OneFlusher
    <3>2. /\ stored[e] \in Nat /\ stored'[e] \in Nat /\ Tries \in Nat
          /\ Tries' = Tries \/ (Tries' = Tries + 1 /\ s = "idle")
          /\ Tries' = Tries /\ s = "idle" => ~Good
      <4>1. CASE unanswered' = unanswered
        BY <1>1, <1>5, <1>t, <4>1 DEF Tries
      <4>2. CASE unanswered' = unanswered + 1 /\ s = "idle"
        <5>1. Tries' = Tries + 1
          BY <1>1, <1>t, <4>2 DEF Tries
        <5> QED
          BY <1>5, <1>t, <4>2, <5>1
      <4> QED
        BY <1>1, <4>1, <4>2
    <3>3. /\ stored[e] <= 1 + Tries
          /\ e > Gone => ~(stored[e] > Tries)
          /\ InBatch(e) => ~(stored[e] > Tries)
      BY <1>1, <2>2 DEF BufferInv, CountInv
    <3>4. stored'[e] # stored[e] => InBatch(e)
      BY <1>3, <1>5 DEF InBatch, b
    <3>5. InBatch(e)' => s = "remove"
      BY <1>2, <3>1 DEF InBatch, Sending
    <3>6. CASE s = "idle"
      <4>1. stored'[e] <= Tries' \/ (stored'[e] = stored[e] /\ ~(e > Gone))
        <5>1. CASE stored'[e] = stored[e]
          BY <3>2, <3>3, <5>1
        <5>2. CASE stored'[e] # stored[e]
          <6>1. stored'[e] = stored[e] + 1 /\ Good
            BY <1>5, <2>2, <5>2
          <6> QED
            BY <3>2, <3>3, <3>4, <3>6, <5>2, <6>1
        <5> QED
          BY <5>1, <5>2
      <4>2. stored'[e] <= 1 + Tries'
        BY <3>2, <3>3, <4>1
      <4> QED
        BY <1>6, <3>2, <3>5, <3>6, <4>1, <4>2
    <3>7. CASE s = "remove"
      <4>1. stored'[e] <= 1 + Tries' /\ \A g \in Flushers : step'[g] = "remove"
        BY <1>2, <1>5, <3>1, <3>2, <3>3, <3>4, <3>7
      <4>2. e > Gone' /\ stored'[e] > Tries' => InBatch(e)'
        <5> SUFFICES ASSUME e > Gone', stored'[e] > Tries' PROVE InBatch(e)'
          OBVIOUS
        <5>1. stored'[e] # stored[e]
          BY <1>6, <3>2, <3>3
        <5>2. \E i \in 1..Len(batch'[f]) : batch'[f][i] = e
          BY <1>1, <1>5, <5>1 DEF b
        <5> QED
          BY <1>2, <3>7, <5>2 DEF InBatch, Sending
      <4> QED
        BY <4>1, <4>2
    <3> QED
      BY <3>6, <3>7
  <2> QED
    BY <2>1, <2>2 DEF CountInv
<1> QED
  BY <1>7, <1>8, <1>9, <1>10 DEF BufferInv

\* The flusher drops as many items as it sent.
LEMMA RemoveStep ==
    ASSUME BufferInv, NEW f \in Flushers, RemoveBatch(f)
    PROVE  BufferInv'
<1> DEFINE b == batch[f]
           n == Len(b)
           away == IF Gone + n <= produced THEN Gone + n ELSE produced
<1>0. Gone \in 0..produced /\ Gone \in Nat /\ produced \in Nat /\ Len(items) \in Nat
  BY GoneType DEF BufferInv
<1>1. /\ step[f] = "remove" /\ step' = [step EXCEPT ![f] = "loop"]
      /\ items' = SubSeq(items, n + 1, Len(items))
      /\ UNCHANGED <<produced, shed, torn, stored, batch, unanswered, crashes>>
  BY DEF RemoveBatch, Without
<1>2. /\ step' \in [Flushers -> {"idle", "loop", "post", "remove"}]
      /\ step'[f] = "loop" /\ \A g \in Flushers : g # f => step'[g] = step[g]
  BY <1>1, StepType DEF BufferInv
<1>3. Sending(f) /\ BufferTypeOK /\ BatchInv
  BY <1>1 DEF Sending, BufferInv
<1>4. /\ n \in Nat /\ n > 0 /\ b[1] \in Nat
      /\ \A i \in 1..n : b[i] \in Events /\ b[i] = b[1] + i - 1
      /\ b[1] <= Gone + 1 /\ b[1] + n - 1 <= produced
      /\ shed = {} /\ OneFlusher => b[1] = Gone + 1
  BY <1>3, BatchPositions DEF BatchInv
<1>5. /\ items \in Seq(Events) /\ Len(items) = produced - Gone
      /\ \A i \in 1..Len(items) : items[i] = Gone + i
  BY <1>0 DEF BufferInv, BufferTypeOK, FileInv, Gone
<1> HIDE DEF b, n
<1>6. /\ items' \in Seq(Events) /\ Len(items') = produced - away
      /\ \A i \in 1..Len(items') : items'[i] = away + i
  <2>1. CASE Gone + n <= produced
    <3>1. /\ items' \in Seq(Events) /\ Len(items') = Len(items) - n
          /\ \A i \in 1..Len(items') : items'[i] = items[n + i]
      BY <1>0, <1>1, <1>4, <1>5, <2>1
    <3> QED
      BY <1>0, <1>4, <1>5, <2>1, <3>1
  <2>2. CASE ~(Gone + n <= produced)
    <3>1. items' = <<>>
      BY <1>0, <1>1, <1>4, <1>5, <2>2
    <3>2. items' \in Seq(Events) /\ Len(items') = 0
      BY <3>1
    <3> QED
      BY <1>0, <2>2, <3>2
  <2> QED
    BY <2>1, <2>2
<1>7. /\ away \in Nat /\ away >= Gone /\ away <= produced
      /\ \A e \in Nat : e > Gone /\ e <= away => e - Gone \in 1..n
  BY <1>0, <1>4
<1>8. Gone' = away
  BY <1>0, <1>1, <1>6, <1>7 DEF Gone
<1>9. \A g \in Flushers : Sending(g)' => Sending(g) /\ g # f
  BY <1>2 DEF Sending
<1>10. BufferTypeOK' /\ FileInv'
  BY <1>0, <1>1, <1>2, <1>6, <1>7, <1>8 DEF BufferInv, BufferTypeOK, FileInv
<1>11. BatchInv'
  <2> SUFFICES ASSUME NEW g \in Flushers, Sending(g), g # f
               PROVE  batch[g][1] <= Gone' + 1
    BY <1>1, <1>3, <1>9 DEF BatchInv, OneFlusher
  <2>1. batch[g][1] <= Gone + 1 /\ batch[g][1] \in Nat
    BY <1>3, BatchPositions DEF BatchInv
  <2> QED
    BY <1>0, <1>7, <1>8, <2>1
<1>12. OrderInv'
  <2> SUFFICES ASSUME shed = {}, OneFlusher, NEW e \in 1..Gone'
               PROVE  stored[e] > 0 \/ e \in torn
    BY <1>1, <1>2 DEF BufferInv, OrderInv, OneFlusher
  <2>1. CASE e \in 1..Gone
    BY <2>1 DEF BufferInv, OrderInv
  <2>2. CASE e > Gone
    <3>0. e \in Nat /\ e <= away
      BY <1>7, <1>8
    <3>1. e - Gone \in 1..n /\ b[e - Gone] = e
      <4>1. e - Gone \in 1..n
        BY <1>7, <2>2, <3>0
      <4>2. b[1] = Gone + 1
        BY <1>4
      <4> QED
        BY <1>0, <1>4, <3>0, <4>1, <4>2
    <3>2. \A i \in 1..n : stored[b[i]] > 0
      BY <1>1 DEF BufferInv, OrderInv, b, n
    <3> QED
      BY <3>1, <3>2
  <2> QED
    BY <1>0, <1>7, <1>8, <2>1, <2>2
<1>13. CountInv'
  <2> SUFFICES ASSUME NEW e \in Events, e \notin Stamped, OneFlusher, ~Recommitted(e)
               PROVE  stored[e] <= 1 + Tries /\ ~InBatch(e)' /\ (e > Gone' => ~(stored[e] > Tries))
    BY <1>1 DEF BufferInv, CountInv, Tries
  <2>1. stored[e] <= 1 + Tries /\ (e > Gone /\ stored[e] > Tries => InBatch(e))
    BY DEF BufferInv, CountInv
  <2>2. ~InBatch(e)'
    BY <1>9 DEF InBatch, OneFlusher
  <2>3. ASSUME e > Gone', InBatch(e) PROVE FALSE
    <3>1. PICK i \in 1..n : b[i] = e
      BY <2>3 DEF InBatch, OneFlusher, b, n
    <3>2. e <= Gone + n /\ e <= produced
      BY <1>0, <1>4, <3>1
    <3> QED
      BY <1>0, <1>4, <1>7, <1>8, <2>3, <3>1, <3>2
  <2>4. e > Gone' => e > Gone
    BY <1>0, <1>7, <1>8, BufferAssumption DEF Events
  <2> QED
    BY <2>1, <2>2, <2>3, <2>4
<1> QED
  BY <1>10, <1>11, <1>12, <1>13 DEF BufferInv

LEMMA DieStep ==
    ASSUME BufferInv, NEW inWrite \in BOOLEAN, AgentDies(inWrite)
    PROVE  BufferInv'
<1>0. /\ Gone \in 0..produced /\ Gone \in Nat /\ produced \in Nat /\ produced <= MaxEvents
      /\ Len(items) \in Nat /\ items \in Seq(Events) /\ Len(items) = produced - Gone
      /\ \A i \in 1..Len(items) : items[i] = Gone + i
  BY GoneType, BufferAssumption DEF BufferInv, BufferTypeOK, FileInv, Gone
<1>1. /\ crashes' = crashes + 1
      /\ items' = IF inWrite THEN <<>> ELSE items
      /\ torn' = IF inWrite THEN torn \cup Buffered ELSE torn
      /\ step' = [f \in Flushers |-> "idle"]
      /\ batch' = [f \in Flushers |-> <<>>]
      /\ UNCHANGED <<produced, shed, stored, unanswered>>
  BY DEF AgentDies
<1>2. Buffered \subseteq Events /\ \A e \in Events : e > Gone /\ e <= produced => e \in Buffered
  <2>1. \A i \in DOMAIN items : items[i] \in Events
    BY <1>0
  <2>2. ASSUME NEW e \in Events, e > Gone, e <= produced PROVE e \in Buffered
    <3>1. e - Gone \in 1..Len(items) /\ items[e - Gone] = e /\ DOMAIN items = 1..Len(items)
      BY <1>0, <2>2, BufferAssumption DEF Events
    <3> QED
      BY <3>1 DEF Buffered
  <2> QED
    BY <2>1, <2>2 DEF Buffered
<1>3. /\ items' \in Seq(Events) /\ FileInv'
      /\ Gone' = IF inWrite THEN produced ELSE Gone
  <2>1. CASE inWrite
    <3>1. items' \in Seq(Events) /\ Len(items') = 0
      BY <1>1, <2>1
    <3>2. Gone' = produced
      BY <1>0, <1>1, <3>1 DEF Gone
    <3>3. FileInv'
      BY <1>0, <1>1, <3>1 DEF FileInv
    <3> QED
      BY <2>1, <3>1, <3>2, <3>3
  <2>2. CASE ~inWrite
    BY <1>0, <1>1, <2>2 DEF Gone, FileInv, BufferInv
  <2> QED
    BY <2>1, <2>2
<1>4. torn \subseteq torn' /\ torn' \subseteq Events
  BY <1>1, <1>2 DEF BufferInv, BufferTypeOK
<1>5. BufferTypeOK'
  BY <1>1, <1>3, <1>4 DEF BufferInv, BufferTypeOK
<1>6. BatchInv' /\ \A f \in Flushers : ~Sending(f)'
  BY <1>1 DEF BatchInv, Sending
<1>7. OrderInv'
  <2> SUFFICES ASSUME shed = {}, OneFlusher, NEW e \in 1..Gone'
               PROVE  stored[e] > 0 \/ e \in torn'
    BY <1>1, <1>4 DEF BufferInv, OrderInv
  <2>1. CASE e <= Gone
    BY <1>0, <1>4, <2>1 DEF BufferInv, OrderInv
  <2>2. CASE e > Gone
    <3>1. inWrite /\ e \in Events /\ e <= produced
      BY <1>0, <1>3, <2>2, BufferAssumption DEF Events
    <3> QED
      BY <1>1, <1>2, <2>2, <3>1
  <2> QED
    BY <1>0, <1>3, <2>1, <2>2
<1>8. CountInv'
  <2> SUFFICES ASSUME NEW e \in Events, e \notin Stamped, OneFlusher, ~Recommitted(e)
               PROVE  stored[e] <= 1 + Tries' /\ ~(stored[e] > Tries')
    BY <1>1, <1>6 DEF BufferInv, CountInv
  <2>1. stored[e] <= 1 + Tries
    BY DEF BufferInv, CountInv
  <2>2. Tries' = Tries + 1 /\ Tries \in Nat /\ stored[e] \in Nat
    BY <1>1 DEF BufferInv, BufferTypeOK, Tries
  <2> QED
    BY <2>1, <2>2
<1> QED
  BY <1>3, <1>5, <1>6, <1>7, <1>8 DEF BufferInv

LEMMA BufferStep == BufferInv /\ [BufferNext]_bufferVars => BufferInv'
<1> SUFFICES ASSUME BufferInv, [BufferNext]_bufferVars PROVE BufferInv'
  OBVIOUS
<1>1. CASE UNCHANGED bufferVars
  BY <1>1 DEF bufferVars, BufferInv, BufferTypeOK, FileInv, BatchInv, OrderInv, CountInv, Gone,
              Sending, InBatch, Tries
<1>2. CASE BufferNext
  BY <1>2, EnqueueStep, PeekStep, DrainedStep, PostStep, RemoveStep, DieStep, Zenon DEF BufferNext, Flush
<1> QED
  BY <1>1, <1>2

LEMMA BufferInductive == BufferSpec => []BufferInv
  BY BufferInitially, BufferStep, PTL DEF BufferSpec

\* While the buffer has room and one thread flushes it, events are stored in the
\* order they came, and one that left the buffer was stored or torn by a crash
\* (telemetry_buffer.py:31-121, telemetry_service.py:23-106): what a flush
\* removes, while collectors enqueue, is what it sent.
THEOREM OrderKept == BufferSpec => []StoredInOrder
<1>1. BufferInv => StoredInOrder
  <2> SUFFICES ASSUME BufferInv, shed = {}, OneFlusher, NEW e \in 1..produced, e \notin Buffered
               PROVE  stored[e] > 0 \/ e \in torn
    BY DEF StoredInOrder, BufferInv, OrderInv
  <2>1. Gone \in 0..produced /\ produced \in Nat /\ Len(items) = produced - Gone /\ items \in Seq(Events)
    BY GoneType DEF BufferInv, BufferTypeOK, Gone
  <2>2. e <= Gone
    <3> SUFFICES ASSUME e > Gone PROVE FALSE
      BY <2>1
    <3>1. e - Gone \in DOMAIN items /\ items[e - Gone] = e
      BY <2>1 DEF BufferInv, FileInv
    <3> QED
      BY <3>1 DEF Buffered
  <2> QED
    BY <2>1, <2>2 DEF BufferInv, OrderInv
<1> QED
  BY <1>1, BufferInductive, PTL

\* An event with an id of its own has one row however often it is sent, from
\* however many flushes; one without is stored again only for a lost answer or
\* a crash, unless a conflict behind it makes its batch fail for ever
\* (telemetry_service.py:49-97).
THEOREM DuplicatesHaveCause == BufferSpec => []DuplicatesExplained
<1>1. BufferInv => DuplicatesExplained
  BY DEF BufferInv, BufferTypeOK, CountInv, DuplicatesExplained, Tries
<1> QED
  BY <1>1, BufferInductive, PTL

-----------------------------------------------------------------------------
(* The registry of devices                                                   *)

DeviceRow == [status : Statuses, beat : {"recent", "old"}]
Loaded == [op : Ops, row : Ids \cup {NoRow}, seen : Statuses, todo : SUBSET Ids]
Agents == [pc : {"down", "starting", "running"}, id : Ids \cup {NoRow},
           waits : Handlers \cup {NoHandler}]

\* What request h refers to is in the table.
InTable(h) ==
    /\ req[h].row \in 0 .. Len(devices) /\ req[h].todo \subseteq 1 .. Len(devices)
    /\ req[h].op \notin {"idle", "register"} => req[h].row # NoRow

\* The types, the references into the table, and why abandoned is bounded: every
\* start abandons one registration at most.
TypesInv ==
    /\ devices \in Seq(DeviceRow) /\ Len(devices) <= MaxRows
    /\ req \in [Handlers -> Loaded] /\ (\A h \in Handlers : InTable(h))
    /\ agent \in Agents /\ agent.id \in 0 .. Len(devices)
    /\ late \in [Ids -> Nat]
    /\ starts \in 0..MaxStarts /\ lost \in 0..MaxLost /\ abandoned \in Nat
    /\ abandoned <= starts /\ (agent.pc = "starting" => abandoned < starts)

-----------------------------------------------------------------------------
(* The parts of the actions                                                  *)

\* A row of the table, the row of a request.
LEMMA RowType ==
    ASSUME TypesInv, NEW r \in 1 .. Len(devices)
    PROVE  /\ devices[r] \in DeviceRow /\ devices[r].status \in Statuses
           /\ devices[r].beat \in {"recent", "old"}
<1>1. devices[r] \in DeviceRow
  BY DEF TypesInv
<1> QED
  BY <1>1 DEF DeviceRow

LEMMA RequestType ==
    ASSUME TypesInv, NEW h \in Handlers
    PROVE  /\ req[h].op \in Ops /\ req[h].seen \in Statuses
           /\ req[h].row \in 0 .. Len(devices)
           /\ req[h].row # NoRow => req[h].row \in 1 .. Len(devices)
<1>1. req[h] \in Loaded /\ InTable(h) /\ Len(devices) \in Nat
  BY DEF TypesInv
<1> QED
  BY <1>1 DEF Loaded, InTable, NoRow

\* A load leaves requests of their type, with what they refer to in the table.
LEMMA LoadKeeps ==
    ASSUME TypesInv, NEW h \in Handlers, NEW op \in Ops, NEW r \in 0 .. Len(devices),
           NEW rest \in SUBSET (1 .. Len(devices)), op # "register" => r # NoRow,
           Load(h, op, r, rest), Len(devices') = Len(devices)
    PROVE  /\ req' \in [Handlers -> Loaded] /\ \A k \in Handlers : InTable(k)'
           /\ req'[h].op = op /\ req'[h].row = r /\ req'[h].todo = rest
           /\ \A k \in Handlers \ {h} : req'[k] = req[k]
<1>1. PICK s : /\ s = IF r = NoRow THEN "ONLINE" ELSE devices[r].status
               /\ req' = [req EXCEPT ![h] = [op |-> op, row |-> r, todo |-> rest, seen |-> s]]
  BY DEF Load
<1>2. s \in Statuses
  <2>1. CASE r = NoRow
    BY <1>1, <2>1 DEF Statuses
  <2>2. CASE r # NoRow
    <3>1. r \in 1 .. Len(devices)
      BY <2>2 DEF TypesInv, NoRow
    <3> QED
      BY <1>1, <2>2, <3>1, RowType
  <2> QED
    BY <2>1, <2>2
<1>3. r \in Ids \cup {NoRow} /\ rest \in SUBSET Ids
  BY DeviceAssumption DEF TypesInv, Ids, NoRow
<1>4. [op |-> op, row |-> r, todo |-> rest, seen |-> s] \in Loaded
  BY <1>2, <1>3 DEF Loaded
<1>5. req' \in [Handlers -> Loaded]
  BY <1>1, <1>4 DEF TypesInv
<1>6. /\ req'[h].op = op /\ req'[h].row = r /\ req'[h].todo = rest
      /\ \A k \in Handlers \ {h} : req'[k] = req[k]
  BY <1>1 DEF TypesInv
<1> QED
  BY <1>5, <1>6 DEF TypesInv, InTable

\* So does the end of a request.
LEMMA DoneKeeps ==
    ASSUME TypesInv, NEW h \in Handlers, Done(h),
           Len(devices') \in Nat, Len(devices) <= Len(devices')
    PROVE  /\ req' \in [Handlers -> Loaded] /\ \A k \in Handlers : InTable(k)'
           /\ req'[h] = Idle /\ \A k \in Handlers \ {h} : req'[k] = req[k]
<1>1. /\ req' = [req EXCEPT ![h] = Idle] /\ Idle \in Loaded
      /\ Idle.row = NoRow /\ Idle.todo = {} /\ Idle.op = "idle"
  BY DEF Done, Idle, Loaded, Ops, Statuses
<1>2. req' \in [Handlers -> Loaded] /\ req'[h] = Idle
  BY <1>1 DEF TypesInv
<1>3. \A k \in Handlers \ {h} : req'[k] = req[k]
  BY <1>1 DEF TypesInv
<1>4. Len(devices) \in Nat
  BY DEF TypesInv
<1> QED
  BY <1>1, <1>2, <1>3, <1>4 DEF TypesInv, InTable, NoRow

\* A commit changes the status of its own row, and that row's count of uploads.
LEMMA WriteKeeps ==
    ASSUME TypesInv, NEW h \in Handlers, req[h].row # NoRow, NEW s \in Statuses,
           NEW beat \in {"recent", "old"}, Write(h, s, beat)
    PROVE  /\ devices' \in Seq(DeviceRow) /\ Len(devices') = Len(devices)
           /\ late' \in [Ids -> Nat]
           /\ \A r \in 1 .. Len(devices) :
                devices'[r].status = IF r = req[h].row THEN Dirty(h, s) ELSE devices[r].status
           /\ \A r \in Ids :
                late'[r] = IF r = req[h].row /\ Dirty(h, s) # "ISOLATED" THEN 0 ELSE late[r]
<1>1. PICK r : r = req[h].row
  OBVIOUS
<1>2. r \in 1 .. Len(devices) /\ r \in Ids
  BY <1>1, DeviceAssumption DEF TypesInv, InTable, NoRow, Ids
<1>3. PICK d : d = Dirty(h, s)
  OBVIOUS
<1>4. d \in Statuses
  BY <1>1, <1>2, <1>3, RowType DEF Dirty
<1>5. /\ devices' = [devices EXCEPT ![r] = [status |-> d, beat |-> beat]]
      /\ late' = IF d = "ISOLATED" THEN late ELSE [late EXCEPT ![r] = 0]
  BY <1>1, <1>3 DEF Write
<1>6. [status |-> d, beat |-> beat] \in DeviceRow
  BY <1>4 DEF DeviceRow
<1>7. devices' \in Seq(DeviceRow) /\ Len(devices') = Len(devices)
  BY <1>2, <1>5, <1>6 DEF TypesInv
<1>8. \A q \in 1 .. Len(devices) :
        devices'[q].status = IF q = r THEN d ELSE devices[q].status
  BY <1>2, <1>5 DEF TypesInv
<1>9. late' \in [Ids -> Nat]
  BY <1>2, <1>5 DEF TypesInv
<1>10. \A q \in Ids : late'[q] = IF q = r /\ d # "ISOLATED" THEN 0 ELSE late[q]
  BY <1>2, <1>5 DEF TypesInv
<1> QED
  BY <1>1, <1>3, <1>7, <1>8, <1>9, <1>10

\* An answer gives the agent no id outside the table, and starts no agent.
LEMMA AnswerKeeps ==
    ASSUME TypesInv, NEW h \in Handlers, NEW id \in 0 .. MaxRows, Answer(h, id)
    PROVE  /\ agent' \in Agents /\ agent'.id \in {id, agent.id}
           /\ agent.waits = h => agent'.waits = NoHandler /\ agent'.pc = "running"
           /\ agent.waits # h => agent' = agent
<1>1. CASE agent.waits = h
  <2>1. PICK i : /\ i = IF id = NoRow THEN agent.id ELSE id
                 /\ agent' = [agent EXCEPT !.waits = NoHandler, !.pc = "running", !.id = i]
    BY <1>1 DEF Answer
  <2>2. i \in Ids \cup {NoRow}
    BY <2>1, DeviceAssumption DEF TypesInv, Agents, Ids, NoRow
  <2> QED
    BY <1>1, <2>1, <2>2 DEF TypesInv, Agents
<1>2. CASE agent.waits # h
  BY <1>2 DEF Answer, TypesInv
<1> QED
  BY <1>1, <1>2

-----------------------------------------------------------------------------
(* Types                                                                     *)

LEMMA TypesInitially == DeviceInit => TypesInv
<1> SUFFICES ASSUME DeviceInit PROVE TypesInv
  OBVIOUS
<1>1. devices = <<>> /\ Len(devices) = 0 /\ devices \in Seq(DeviceRow)
  BY DEF DeviceInit
<1>2. Idle \in Loaded /\ Idle.row = 0 /\ Idle.todo = {} /\ Idle.op = "idle"
  BY DEF Idle, Loaded, Ops, Statuses, NoRow
<1>3. req \in [Handlers -> Loaded] /\ (\A h \in Handlers : InTable(h))
  BY <1>1, <1>2 DEF DeviceInit, InTable
<1>4. agent \in Agents /\ agent.id = 0 /\ agent.pc = "down"
  BY DEF DeviceInit, Agents, NoRow
<1>5. late \in [Ids -> Nat] /\ starts = 0 /\ lost = 0 /\ abandoned = 0
  BY DEF DeviceInit
<1> QED
  BY <1>1, <1>3, <1>4, <1>5, DeviceAssumption DEF TypesInv

\* A step that changes the table in one request's commit only.
LEMMA CommitTypes ==
    ASSUME TypesInv, NEW h \in Handlers, req[h].row # NoRow, NEW s \in Statuses,
           NEW beat \in {"recent", "old"}, Write(h, s, beat),
           req' \in [Handlers -> Loaded], \A k \in Handlers : InTable(k)',
           agent' \in Agents, agent'.id \in {agent.id, req[h].row},
           agent'.pc \in {agent.pc, "running"},
           UNCHANGED <<starts, lost, abandoned>>
    PROVE  TypesInv'
<1>1. devices' \in Seq(DeviceRow) /\ Len(devices') = Len(devices) /\ late' \in [Ids -> Nat]
  BY WriteKeeps
<1>2. agent'.id \in 0 .. Len(devices)
  BY DEF TypesInv, InTable
<1> QED
  BY <1>1, <1>2 DEF TypesInv

LEMMA TypesStep == TypesInv /\ [DeviceNext]_deviceVars => TypesInv'
<1> SUFFICES ASSUME TypesInv, [DeviceNext]_deviceVars PROVE TypesInv'
  OBVIOUS
<1>0. Len(devices) \in Nat /\ DOMAIN devices = 1 .. Len(devices)
  BY DEF TypesInv
<1>1. ASSUME NEW h \in Handlers, Start(h) PROVE TypesInv'
  <2>1. /\ agent.pc = "down" /\ starts < MaxStarts /\ starts' = starts + 1
        /\ UNCHANGED <<devices, late, abandoned>>
    BY <1>1 DEF Start
  <2>2. /\ req' \in [Handlers -> Loaded] /\ (\A k \in Handlers : InTable(k)')
        /\ agent' \in Agents /\ agent'.id = agent.id /\ lost' \in 0..MaxLost
    <3>1. CASE /\ \E r \in IF devices = <<>> THEN {NoRow} ELSE DOMAIN devices :
                    Load(h, "register", r, {})
               /\ agent' = [agent EXCEPT !.pc = "starting", !.waits = h]
               /\ UNCHANGED lost
      <4>1. PICK r \in 0 .. Len(devices) : Load(h, "register", r, {})
        BY <1>0, <3>1 DEF NoRow
      <4>2. "register" \in Ops
        BY DEF Ops
      <4> QED
        BY <2>1, <3>1, <4>1, <4>2, LoadKeeps DEF TypesInv, Agents
    <3>2. CASE /\ lost < MaxLost /\ lost' = lost + 1
               /\ agent' = [agent EXCEPT !.pc = "running"] /\ UNCHANGED req
      <4>1. \A k \in Handlers : InTable(k)'
        BY <2>1, <3>2 DEF TypesInv, InTable
      <4>2. agent' \in Agents /\ agent'.id = agent.id
        BY <3>2 DEF TypesInv, Agents
      <4>3. lost' \in 0..MaxLost
        BY <3>2, DeviceAssumption DEF TypesInv
      <4> QED
        BY <3>2, <4>1, <4>2, <4>3 DEF TypesInv
    <3> QED
      BY <1>1, <3>1, <3>2 DEF Start
  <2>3. starts' \in 0..MaxStarts /\ abandoned' < starts'
    BY <2>1, DeviceAssumption DEF TypesInv
  <2> QED
    BY <2>1, <2>2, <2>3 DEF TypesInv
<1>2. ASSUME NEW h \in Handlers, Beat(h) PROVE TypesInv'
  <2>1. /\ agent' = [agent EXCEPT !.waits = h] /\ agent.id # NoRow
        /\ Load(h, "beat", agent.id, {})
        /\ UNCHANGED <<devices, late, starts, lost, abandoned>>
    BY <1>2 DEF Beat
  <2>2. "beat" \in Ops
    BY DEF Ops
  <2>3. agent.id \in 0 .. Len(devices)
    BY DEF TypesInv
  <2>4. req' \in [Handlers -> Loaded] /\ \A k \in Handlers : InTable(k)'
    BY <2>1, <2>2, <2>3, LoadKeeps
  <2> QED
    BY <2>1, <2>4 DEF TypesInv, Agents
<1>3. ASSUME TimesOut \/ Stop PROVE TypesInv'
  <2>1. /\ abandoned' = Abandons /\ agent'.pc \in {"running", "down"}
        /\ agent'.id = agent.id /\ agent' \in Agents /\ lost' \in 0..MaxLost
        /\ UNCHANGED <<devices, req, late, starts>>
    <3>1. CASE TimesOut
      <4>1. agent' = [agent EXCEPT !.pc = "running", !.waits = NoHandler]
        BY <3>1 DEF TimesOut
      <4>2. agent' \in Agents /\ agent'.id = agent.id /\ agent'.pc = "running"
        BY <4>1 DEF TypesInv, Agents
      <4>3. lost' \in 0..MaxLost
        BY <3>1, DeviceAssumption DEF TimesOut, TypesInv
      <4> QED
        BY <3>1, <4>2, <4>3 DEF TimesOut
    <3>2. CASE Stop
      <4>1. agent' = [agent EXCEPT !.pc = "down", !.waits = NoHandler]
        BY <3>2 DEF Stop
      <4>2. agent' \in Agents /\ agent'.id = agent.id /\ agent'.pc = "down"
        BY <4>1 DEF TypesInv, Agents
      <4> QED
        BY <3>2, <4>2 DEF Stop, TypesInv
    <3> QED
      BY <1>3, <3>1, <3>2
  <2>2. abandoned' \in Nat /\ abandoned' <= starts
    BY <2>1 DEF Abandons, TypesInv
  <2> QED
    BY <2>1, <2>2 DEF TypesInv, InTable
<1>4. ASSUME NEW h \in Handlers, RegisterCommit(h) PROVE TypesInv'
  <2>1. CASE req[h].row # NoRow
    <3>1. /\ Write(h, "ONLINE", "recent") /\ Answer(h, req[h].row) /\ Done(h)
          /\ UNCHANGED <<starts, lost, abandoned>>
      BY <1>4, <2>1 DEF RegisterCommit
    <3>2. "ONLINE" \in Statuses
      BY DEF Statuses
    <3>3. Len(devices') = Len(devices)
      BY <2>1, <3>1, <3>2, WriteKeeps
    <3>4. req' \in [Handlers -> Loaded] /\ \A k \in Handlers : InTable(k)'
      BY <1>0, <3>1, <3>3, DoneKeeps
    <3>5. req[h].row \in 0 .. MaxRows
      BY DeviceAssumption DEF TypesInv, InTable
    <3>6. /\ agent' \in Agents /\ agent'.id \in {agent.id, req[h].row}
          /\ agent'.pc \in {agent.pc, "running"}
      BY <3>1, <3>5, AnswerKeeps
    <3> QED
      BY <2>1, <3>1, <3>2, <3>4, <3>6, CommitTypes
  <2>2. CASE req[h].row = NoRow
    <3>1. /\ Len(devices) < MaxRows
          /\ devices' = Append(devices, [status |-> "ONLINE", beat |-> "recent"])
          /\ Answer(h, Len(devices) + 1) /\ Done(h)
          /\ UNCHANGED <<late, starts, lost, abandoned>>
      BY <1>4, <2>2 DEF RegisterCommit
    <3>2. [status |-> "ONLINE", beat |-> "recent"] \in DeviceRow
      BY DEF DeviceRow, Statuses
    <3>3. devices' \in Seq(DeviceRow) /\ Len(devices') = Len(devices) + 1
      BY <3>1, <3>2 DEF TypesInv
    <3>4. req' \in [Handlers -> Loaded] /\ \A k \in Handlers : InTable(k)'
      BY <1>0, <3>1, <3>3, DoneKeeps
    <3>5. Len(devices) + 1 \in 0 .. MaxRows
      BY <1>0, <3>1, DeviceAssumption
    <3>6. /\ agent' \in Agents /\ agent'.id \in {agent.id, Len(devices) + 1}
          /\ agent'.pc \in {agent.pc, "running"}
      BY <3>1, <3>5, AnswerKeeps
    <3> QED
      BY <1>0, <3>1, <3>3, <3>4, <3>5, <3>6 DEF TypesInv
  <2> QED
    BY <2>1, <2>2
<1>5. ASSUME NEW h \in Handlers, BeatCommit(h) PROVE TypesInv'
  <2>1. /\ Write(h, BeatStatus(h), "recent") /\ Answer(h, NoRow) /\ Done(h)
        /\ req[h].row # NoRow /\ UNCHANGED <<starts, lost, abandoned>>
    BY <1>5 DEF BeatCommit, TypesInv, InTable
  <2>2. BeatStatus(h) \in Statuses
    BY DEF BeatStatus, Statuses
  <2>3. Len(devices') = Len(devices)
    BY <2>1, <2>2, WriteKeeps
  <2>4. req' \in [Handlers -> Loaded] /\ \A k \in Handlers : InTable(k)'
    BY <1>0, <2>1, <2>3, DoneKeeps
  <2>5. NoRow \in 0 .. MaxRows
    BY DeviceAssumption DEF NoRow
  <2>6. agent' \in Agents /\ agent'.id \in {NoRow, agent.id} /\ agent'.pc \in {agent.pc, "running"}
    BY <2>1, <2>5, AnswerKeeps
  <2>7. agent'.id = agent.id
    BY <2>1 DEF Answer, TypesInv, Agents
  <2> QED
    BY <2>1, <2>2, <2>4, <2>6, <2>7, CommitTypes
<1>6. ASSUME NEW h \in Handlers, Request(h) \/ UploadCheck(h) \/ SweepLoad(h)
      PROVE  TypesInv'
  <2>1. /\ \E op \in Ops \ {"register"}, r \in 1 .. Len(devices),
             rest \in SUBSET (1 .. Len(devices)) : Load(h, op, r, rest)
        /\ UNCHANGED <<devices, agent, late, starts, lost, abandoned>>
    <3>1. CASE Request(h)
      BY <1>0, <3>1 DEF Request, Ops
    <3>2. CASE UploadCheck(h)
      <4>1. agent.id \in 1 .. Len(devices)
        BY <1>0, <3>2 DEF UploadCheck, TypesInv, NoRow
      <4> QED
        BY <3>2, <4>1 DEF UploadCheck, Ops
    <3>3. CASE SweepLoad(h)
      BY <1>0, <3>3 DEF SweepLoad, Ops
    <3> QED
      BY <1>6, <3>1, <3>2, <3>3
  <2>2. PICK op \in Ops \ {"register"}, r \in 1 .. Len(devices),
             rest \in SUBSET (1 .. Len(devices)) : Load(h, op, r, rest)
    BY <2>1
  <2>3. r \in 0 .. Len(devices) /\ r # NoRow
    BY <1>0 DEF NoRow
  <2>4. req' \in [Handlers -> Loaded] /\ \A k \in Handlers : InTable(k)'
    BY <2>1, <2>2, <2>3, LoadKeeps
  <2> QED
    BY <2>1, <2>4 DEF TypesInv
<1>7. ASSUME NEW h \in Handlers, IsolateCommit(h) \/ UnisolateCommit(h) \/ ReportCommit(h)
      PROVE  TypesInv'
  <2>1. req[h].row # NoRow /\ Done(h) /\ UNCHANGED <<agent, starts, lost, abandoned>>
    BY <1>7 DEF IsolateCommit, UnisolateCommit, ReportCommit, TypesInv, InTable
  <2>2. devices[req[h].row].beat \in {"recent", "old"} /\ req[h].seen \in Statuses
    BY <2>1, RowType, RequestType
  <2>3. PICK s \in Statuses, beat \in {"recent", "old"} : Write(h, s, beat)
    BY <1>7, <2>2 DEF IsolateCommit, UnisolateCommit, ReportCommit, Statuses
  <2>4. Len(devices') = Len(devices)
    BY <2>1, <2>3, WriteKeeps
  <2>5. req' \in [Handlers -> Loaded] /\ \A k \in Handlers : InTable(k)'
    BY <1>0, <2>1, <2>4, DoneKeeps
  <2> QED
    BY <2>1, <2>3, <2>5, CommitTypes DEF TypesInv
<1>8. ASSUME NEW h \in Handlers, UploadCommit(h) PROVE TypesInv'
  <2>1. /\ req[h].row \in Ids /\ Done(h)
        /\ UNCHANGED <<devices, agent, starts, lost, abandoned>>
    <3>1. req[h].op = "upload" /\ Done(h) /\ UNCHANGED <<devices, agent, starts, lost, abandoned>>
      BY <1>8 DEF UploadCommit
    <3>2. req[h].row # NoRow
      BY <3>1 DEF TypesInv, InTable
    <3>3. req[h].row \in Ids
      BY <1>0, <3>2, RequestType, DeviceAssumption DEF TypesInv, Ids
    <3> QED
      BY <3>1, <3>3
  <2>2. late' \in [Ids -> Nat]
    BY <1>8, <2>1 DEF UploadCommit, TypesInv
  <2>3. req' \in [Handlers -> Loaded] /\ \A k \in Handlers : InTable(k)'
    BY <1>0, <2>1, DoneKeeps
  <2> QED
    BY <2>1, <2>2, <2>3 DEF TypesInv
<1>9. ASSUME NEW h \in Handlers, RollBack(h) PROVE TypesInv'
  <2>1. /\ Answer(h, NoRow) /\ Done(h) /\ lost' = lost + 1 /\ lost < MaxLost
        /\ UNCHANGED <<devices, late, starts, abandoned>>
    BY <1>9 DEF RollBack
  <2>2. req' \in [Handlers -> Loaded] /\ \A k \in Handlers : InTable(k)'
    BY <1>0, <2>1, DoneKeeps
  <2>3. NoRow \in 0 .. MaxRows
    BY DeviceAssumption DEF NoRow
  <2>4. agent' \in Agents /\ agent'.pc \in {agent.pc, "running"}
    BY <2>1, <2>3, AnswerKeeps
  <2>5. agent'.id = agent.id
    BY <2>1 DEF Answer, TypesInv, Agents
  <2> QED
    BY <2>1, <2>2, <2>4, <2>5, DeviceAssumption DEF TypesInv
<1>10. ASSUME NEW h \in Handlers, SweepCommit(h) PROVE TypesInv'
  <2>1. req[h].row # NoRow /\ UNCHANGED <<agent, starts, lost, abandoned>>
    BY <1>10 DEF SweepCommit, TypesInv, InTable
  <2>2. devices[req[h].row].beat \in {"recent", "old"} /\ SweepStatus(h) \in Statuses
    BY <2>1, RowType, RequestType DEF SweepStatus, Statuses
  <2>3. Write(h, SweepStatus(h), devices[req[h].row].beat)
    BY <1>10 DEF SweepCommit
  <2>4. Len(devices') = Len(devices)
    BY <2>1, <2>2, <2>3, WriteKeeps
  <2>5. req' \in [Handlers -> Loaded] /\ \A k \in Handlers : InTable(k)'
    <3> DEFINE rest == {r \in req[h].todo : Stale(r)}
    <3>1. rest \subseteq 1 .. Len(devices)
      BY DEF TypesInv, InTable
    <3>2. Done(h) \/ \E r \in rest : Load(h, "sweep", r, rest \ {r})
      BY <1>10 DEF SweepCommit
    <3> HIDE DEF rest
    <3>3. CASE Done(h)
      BY <1>0, <2>4, <3>3, DoneKeeps
    <3>4. CASE \E r \in rest : Load(h, "sweep", r, rest \ {r})
      <4>1. PICK r \in rest : Load(h, "sweep", r, rest \ {r})
        BY <3>4
      <4>2. r \in 0 .. Len(devices) /\ r # NoRow /\ "sweep" \in Ops
        BY <1>0, <3>1 DEF NoRow, Ops
      <4>3. rest \ {r} \in SUBSET (1 .. Len(devices))
        BY <3>1
      <4> QED
        BY <2>4, <4>1, <4>2, <4>3, LoadKeeps
    <3> QED
      BY <3>2, <3>3, <3>4
  <2> QED
    BY <2>1, <2>2, <2>3, <2>5, CommitTypes DEF TypesInv
<1>11. ASSUME Silence PROVE TypesInv'
  <2>1. PICK r \in DOMAIN devices : devices' = [devices EXCEPT ![r].beat = "old"]
    BY <1>11 DEF Silence
  <2>2. [devices[r] EXCEPT !.beat = "old"] \in DeviceRow
    BY <1>0, RowType DEF DeviceRow
  <2>3. devices' = [devices EXCEPT ![r] = [devices[r] EXCEPT !.beat = "old"]]
    BY <2>1
  <2>4. devices' \in Seq(DeviceRow) /\ Len(devices') = Len(devices)
    BY <1>0, <2>2, <2>3 DEF TypesInv
  <2> QED
    BY <1>11, <2>4 DEF Silence, TypesInv, InTable
<1>12. CASE UNCHANGED deviceVars
  BY <1>12 DEF deviceVars, TypesInv, InTable
<1> QED
  BY <1>1, <1>2, <1>3, <1>4, <1>5, <1>6, <1>7, <1>8, <1>9, <1>10, <1>11, <1>12
  DEF DeviceNext, Commit, AgentNext

\* The registry is well-typed: every request, and the agent's cached device_id,
\* refers to a row of the table (device_service.py looks it up before each use).
THEOREM DeviceTypeCorrect == DeviceSpec => []DeviceTypeOK
<1>1. TypesInv => DeviceTypeOK
  <2> SUFFICES ASSUME TypesInv PROVE DeviceTypeOK
    OBVIOUS
  <2>1. Len(devices) \in Nat /\ DOMAIN devices = 1 .. Len(devices)
    BY DEF TypesInv
  <2>2. \A r \in DOMAIN devices : devices[r] \in [status : Statuses, beat : {"recent", "old"}]
    BY <2>1, RowType DEF DeviceRow
  <2>3. abandoned \in 0..(MaxStarts + MaxLost)
    BY DeviceAssumption DEF TypesInv
  <2> QED
    BY <2>2, <2>3 DEF TypesInv, DeviceTypeOK, Loaded, Agents
<1> QED
  BY <1>1, TypesInitially, TypesStep, PTL DEF DeviceSpec

-----------------------------------------------------------------------------
(* The isolation a request read is kept                                      *)

\* A commit that takes an isolation back assigned a status it had not loaded.
LEMMA LeavesByCommit ==
    ASSUME TypesInv, NEW h \in Handlers, req[h].row # NoRow, NEW s \in Statuses,
           NEW beat \in {"recent", "old"}, Write(h, s, beat),
           NEW r \in DOMAIN devices, Leaves(r)
    PROVE  r = req[h].row /\ s # "ISOLATED" /\ s # req[h].seen
<1>1. r \in 1 .. Len(devices)
  BY DEF TypesInv
<1>2. devices'[r].status = IF r = req[h].row THEN Dirty(h, s) ELSE devices[r].status
  BY <1>1, WriteKeeps
<1> QED
  BY <1>2 DEF Leaves, Dirty

\* A thread's own row is committed by the step that changes its request.
LEMMA Merged ==
    ASSUME TypesInv, NEW h \in Handlers, req[h].op # "idle", Done(h)
    PROVE  Commits(h, req[h].row)
<1>1. req'[h].op = "idle"
  BY DEF Done, Idle, TypesInv
<1> QED
  BY <1>1 DEF Commits

Excused(r) == \E h \in Handlers : /\ Commits(h, r)
                                  /\ \/ req[h].op \in {"unisolate", "register"}
                                     \/ req[h].seen # "ISOLATED"

\* A beat, report or sweep that read an isolation never takes it back: only a
\* restoration, a registration or a request that read the row before does
\* (record_heartbeat, device_service.py; evaluate_device_health).
THEOREM IsolationReadIsKept == DeviceSpec => SeenIsolationKept
<1>1. ASSUME TypesInv, [DeviceNext]_deviceVars, NEW r \in DOMAIN devices, Leaves(r)
      PROVE  Excused(r)
  <2>0. devices[r].status = "ISOLATED" /\ devices'[r].status # "ISOLATED"
    BY <1>1 DEF Leaves
  <2>1. ASSUME NEW h \in Handlers, RegisterCommit(h) PROVE Excused(r)
    <3>1. req[h].op = "register" /\ Done(h)
      BY <2>1 DEF RegisterCommit
    <3>2. Commits(h, req[h].row)
      BY <1>1, <3>1, Merged
    <3>3. CASE req[h].row # NoRow
      <4>1. Write(h, "ONLINE", "recent") /\ "ONLINE" \in Statuses
        BY <2>1, <3>3 DEF RegisterCommit, Statuses
      <4>2. r = req[h].row
        BY <1>1, <3>3, <4>1, LeavesByCommit
      <4> QED
        BY <3>1, <3>2, <4>2 DEF Excused
    <3>4. CASE req[h].row = NoRow
      <4>1. devices' = Append(devices, [status |-> "ONLINE", beat |-> "recent"])
        BY <2>1, <3>4 DEF RegisterCommit
      <4>2. devices'[r] = devices[r]
        BY <1>1, <4>1 DEF TypesInv
      <4> QED
        BY <2>0, <4>2
    <3> QED
      BY <3>3, <3>4
  <2>2. ASSUME NEW h \in Handlers,
               BeatCommit(h) \/ IsolateCommit(h) \/ UnisolateCommit(h) \/ ReportCommit(h)
        PROVE  Excused(r)
    <3>1. req[h].op \in {"beat", "isolate", "unisolate", "report"} /\ Done(h)
      BY <2>2 DEF BeatCommit, IsolateCommit, UnisolateCommit, ReportCommit
    <3>2. req[h].row # NoRow /\ req[h].op # "idle"
      BY <1>1, <3>1 DEF TypesInv, InTable
    <3>3. devices[req[h].row].beat \in {"recent", "old"} /\ req[h].seen \in Statuses
      BY <1>1, <3>2, RowType, RequestType
    <3>4. BeatStatus(h) \in Statuses
      BY DEF BeatStatus, Statuses
    <3>5. PICK s \in Statuses, beat \in {"recent", "old"} :
            /\ Write(h, s, beat)
            /\ \/ s = BeatStatus(h) \/ s = "ISOLATED" \/ req[h].op = "unisolate"
               \/ s = req[h].seen
      <4>1. CASE BeatCommit(h)
        BY <3>4, <4>1 DEF BeatCommit
      <4>2. CASE IsolateCommit(h)
        BY <3>3, <4>2 DEF IsolateCommit, Statuses
      <4>3. CASE UnisolateCommit(h)
        BY <3>3, <4>3 DEF UnisolateCommit, Statuses
      <4>4. CASE ReportCommit(h)
        BY <3>3, <4>4 DEF ReportCommit
      <4> QED
        BY <2>2, <4>1, <4>2, <4>3, <4>4
    <3>6. r = req[h].row /\ s # "ISOLATED" /\ s # req[h].seen
      BY <1>1, <3>2, <3>5, LeavesByCommit
    <3>7. Commits(h, r)
      BY <1>1, <3>1, <3>2, <3>6, Merged
    <3> QED
      BY <3>5, <3>6, <3>7 DEF Excused, BeatStatus
  <2>3. ASSUME NEW h \in Handlers, SweepCommit(h) PROVE Excused(r)
    <3>1. req[h].op = "sweep" /\ Write(h, SweepStatus(h), devices[req[h].row].beat)
      BY <2>3 DEF SweepCommit
    <3>2. req[h].row # NoRow
      BY <1>1, <3>1 DEF TypesInv, InTable
    <3>3. devices[req[h].row].beat \in {"recent", "old"} /\ SweepStatus(h) \in Statuses
      BY <1>1, <3>2, RowType, RequestType DEF SweepStatus, Statuses
    <3>4. r = req[h].row /\ SweepStatus(h) # req[h].seen
      BY <1>1, <3>1, <3>2, <3>3, LeavesByCommit
    <3>5. req[h].seen # "ISOLATED"
      BY <3>4 DEF SweepStatus
    <3>6. req'[h] # req[h]
      <4> DEFINE rest == {q \in req[h].todo : Stale(q)}
      <4>1. Done(h) \/ \E q \in rest : Load(h, "sweep", q, rest \ {q})
        BY <2>3 DEF SweepCommit
      <4>2. rest \subseteq req[h].todo
        OBVIOUS
      <4> HIDE DEF rest
      <4>3. CASE Done(h)
        BY <1>1, <3>1, <4>3, Merged DEF Commits
      <4>4. CASE \E q \in rest : Load(h, "sweep", q, rest \ {q})
        <5>1. PICK q \in rest : Load(h, "sweep", q, rest \ {q})
          BY <4>4
        <5>2. req'[h].todo = rest \ {q}
          BY <1>1, <5>1 DEF Load, TypesInv
        <5> QED
          BY <4>2, <5>1, <5>2
      <4> QED
        BY <4>1, <4>3, <4>4
    <3> QED
      BY <3>4, <3>5, <3>6 DEF Excused, Commits
  <2>4. ASSUME Silence PROVE FALSE
    <3>1. PICK q \in DOMAIN devices : devices' = [devices EXCEPT ![q].beat = "old"]
      BY <2>4 DEF Silence
    <3>2. devices[q] \in DeviceRow /\ devices[r] \in DeviceRow
      BY <1>1 DEF TypesInv
    <3>3. devices'[r].status = devices[r].status
      BY <1>1, <3>1, <3>2 DEF DeviceRow
    <3> QED
      BY <2>0, <3>3
  <2>5. ASSUME UNCHANGED devices PROVE FALSE
    BY <2>0, <2>5
  <2> QED
    BY <1>1, <2>1, <2>2, <2>3, <2>4, <2>5
    DEF DeviceNext, Commit, AgentNext, Start, Beat, Request, UploadCheck, SweepLoad,
        UploadCommit, RollBack, TimesOut, Stop, deviceVars
<1>2. TypesInv /\ [DeviceNext]_deviceVars
        => [\A r \in DOMAIN devices : Leaves(r) => Excused(r)]_deviceVars
  BY <1>1
<1>3. SeenIsolationKept <=> [][\A r \in DOMAIN devices : Leaves(r) => Excused(r)]_deviceVars
  BY DEF SeenIsolationKept, Excused
<1> QED
  BY <1>2, <1>3, TypesInitially, TypesStep, PTL DEF DeviceSpec

-----------------------------------------------------------------------------
(* Uploads to an isolated row                                                *)

Isolated(r) == r \in 1 .. Len(devices) /\ devices[r].status = "ISOLATED"

\* The threads that were admitted to upload for row r.
Uploading(r) == {h \in Handlers : req[h].op = "upload" /\ req[h].row = r}

\* What was stored and what may still be: the thread that isolates uploads nothing.
Window(r) ==
    IF Isolated(r) THEN late[r] + Cardinality(Uploading(r)) < Cardinality(Handlers)
                   ELSE late[r] = 0

WindowInv == \A r \in Ids : Window(r)

\* Cardinalities of sets of threads.
LEMMA ThreadSets ==
    /\ Cardinality(Handlers) \in Nat
    /\ \A S \in SUBSET Handlers : Cardinality(S) \in Nat
    /\ \A S, T \in SUBSET Handlers : S \subseteq T => Cardinality(S) <= Cardinality(T)
    /\ \A S \in SUBSET Handlers : \A h \in S : Cardinality(S \ {h}) = Cardinality(S) - 1
<1>1. \A S \in SUBSET Handlers : IsFiniteSet(S) /\ Cardinality(S) \in Nat
  BY DeviceAssumption, FS_Subset, FS_CardinalityType
<1>2. \A S, T \in SUBSET Handlers : S \subseteq T => Cardinality(S) <= Cardinality(T)
  BY <1>1, FS_Subset
<1>3. \A S \in SUBSET Handlers : \A h \in S : Cardinality(S \ {h}) = Cardinality(S) - 1
  BY <1>1, FS_RemoveElement
<1> QED
  BY <1>1, <1>2, <1>3

\* A step that admits no upload for r keeps its window, unless it isolates r.
LEMMA WindowStays ==
    ASSUME NEW r \in Ids, TypesInv, Window(r), Uploading(r)' \subseteq Uploading(r),
           Isolated(r)' => Isolated(r) /\ late'[r] = late[r],
           ~ Isolated(r)' => late'[r] = 0
    PROVE  Window(r)'
<1>1. CASE Isolated(r)'
  <2>1. Uploading(r) \in SUBSET Handlers /\ Uploading(r)' \in SUBSET Handlers
    BY DEF Uploading
  <2>2. Cardinality(Uploading(r)') <= Cardinality(Uploading(r))
    BY <2>1, ThreadSets
  <2>3. Cardinality(Uploading(r)') \in Nat /\ Cardinality(Uploading(r)) \in Nat
    BY <2>1, ThreadSets
  <2>4. late[r] + Cardinality(Uploading(r)) < Cardinality(Handlers) /\ late'[r] = late[r]
    BY <1>1 DEF Window
  <2>5. late[r] \in Nat /\ Cardinality(Handlers) \in Nat
    BY ThreadSets DEF TypesInv
  <2>6. late'[r] + Cardinality(Uploading(r)') < Cardinality(Handlers)
    BY <2>2, <2>3, <2>4, <2>5
  <2>7. Cardinality(Uploading(r)') = Cardinality(Uploading(r))'
    OBVIOUS
  <2> QED
    BY <1>1, <2>6, <2>7 DEF Window
<1>2. CASE ~ Isolated(r)'
  BY <1>2 DEF Window
<1> QED
  BY <1>1, <1>2

\* A thread whose request becomes another kind admits no upload.
LEMMA NoneAdmitted ==
    ASSUME NEW h \in Handlers, \A k \in Handlers \ {h} : req'[k] = req[k],
           req'[h].op # "upload"
    PROVE  \A r \in Ids : Uploading(r)' \subseteq Uploading(r)
  BY DEF Uploading

\* A commit isolates a row only if it assigned ISOLATED over another status.
LEMMA CommitWindow ==
    ASSUME TypesInv, WindowInv, NEW h \in Handlers, req[h].row # NoRow, req[h].op # "upload",
           NEW s \in Statuses, NEW beat \in {"recent", "old"}, Write(h, s, beat),
           \A k \in Handlers \ {h} : req'[k] = req[k], req'[h].op # "upload"
    PROVE  WindowInv'
<1> SUFFICES ASSUME NEW r \in Ids PROVE Window(r)'
  BY DEF WindowInv
<1>1. /\ devices' \in Seq(DeviceRow) /\ Len(devices') = Len(devices)
      /\ \A q \in 1 .. Len(devices) :
           devices'[q].status = IF q = req[h].row THEN Dirty(h, s) ELSE devices[q].status
      /\ \A q \in Ids :
           late'[q] = IF q = req[h].row /\ Dirty(h, s) # "ISOLATED" THEN 0 ELSE late[q]
  BY WriteKeeps
<1>2. Uploading(r)' \subseteq Uploading(r)
  BY NoneAdmitted
<1>3. req[h].row \in 1 .. Len(devices)
  BY RequestType
<1>4. Window(r)
  BY DEF WindowInv
<1>5. CASE r = req[h].row
  <2>1. CASE Dirty(h, s) # "ISOLATED"
    <3>1. ~ Isolated(r)' /\ late'[r] = 0
      BY <1>1, <1>3, <1>5, <2>1 DEF Isolated
    <3> QED
      BY <1>2, <1>4, <3>1, WindowStays
  <2>2. CASE Dirty(h, s) = "ISOLATED" /\ Isolated(r)
    <3>1. Isolated(r)' /\ late'[r] = late[r]
      BY <1>1, <1>3, <1>5, <2>2 DEF Isolated
    <3> QED
      BY <1>2, <1>4, <2>2, <3>1, WindowStays
  <2>3. CASE Dirty(h, s) = "ISOLATED" /\ ~ Isolated(r)
    <3>1. Isolated(r)' /\ late'[r] = 0
      BY <1>1, <1>3, <1>4, <1>5, <2>3 DEF Isolated, Window
    <3>2. Uploading(r)' \subseteq Handlers \ {h} /\ Handlers \ {h} \in SUBSET Handlers
      BY DEF Uploading
    <3>3. /\ Cardinality(Uploading(r)') <= Cardinality(Handlers \ {h})
          /\ Cardinality(Handlers \ {h}) = Cardinality(Handlers) - 1
          /\ Cardinality(Uploading(r)') \in Nat /\ Cardinality(Handlers) \in Nat
      BY <3>2, ThreadSets
    <3>4. late'[r] + Cardinality(Uploading(r)') < Cardinality(Handlers)
      BY <3>1, <3>3
    <3>5. Cardinality(Uploading(r)') = Cardinality(Uploading(r))'
      OBVIOUS
    <3> QED
      BY <3>1, <3>4, <3>5 DEF Window
  <2> QED
    BY <2>1, <2>2, <2>3
<1>6. CASE r # req[h].row
  <2>1. late'[r] = late[r]
    BY <1>1, <1>6
  <2>2. Isolated(r)' <=> Isolated(r)
    BY <1>1, <1>6 DEF Isolated
  <2>3. ~ Isolated(r)' => late'[r] = 0
    BY <1>4, <2>1, <2>2 DEF Window
  <2> QED
    BY <1>2, <1>4, <2>1, <2>2, <2>3, WindowStays
<1> QED
  BY <1>5, <1>6

\* A step that leaves the table and the counts alone.
LEMMA QuietWindow ==
    ASSUME TypesInv, WindowInv, late' = late, \A r \in Ids : Isolated(r)' <=> Isolated(r),
           \A r \in Ids : Uploading(r)' \subseteq Uploading(r) \/ ~ Isolated(r)
    PROVE  WindowInv'
<1> SUFFICES ASSUME NEW r \in Ids PROVE Window(r)'
  BY DEF WindowInv
<1>1. Window(r) /\ (Isolated(r)' <=> Isolated(r)) /\ late'[r] = late[r]
  BY DEF WindowInv
<1>2. ~ Isolated(r)' => late'[r] = 0
  BY <1>1 DEF Window
<1>3. CASE Uploading(r)' \subseteq Uploading(r)
  BY <1>1, <1>2, <1>3, WindowStays
<1>4. CASE ~ Isolated(r)
  BY <1>1, <1>2, <1>4 DEF Window
<1> QED
  BY <1>3, <1>4

LEMMA WindowInitially == DeviceInit => WindowInv
<1> SUFFICES ASSUME DeviceInit, NEW r \in Ids PROVE Window(r)
  BY DEF WindowInv
<1>1. Len(devices) = 0 /\ late[r] = 0
  BY DEF DeviceInit
<1> QED
  BY <1>1 DEF Window, Isolated

LEMMA WindowStep == TypesInv /\ WindowInv /\ [DeviceNext]_deviceVars => WindowInv'
<1> SUFFICES ASSUME TypesInv, WindowInv, [DeviceNext]_deviceVars PROVE WindowInv'
  OBVIOUS
<1>0. Len(devices) \in Nat /\ DOMAIN devices = 1 .. Len(devices)
  BY DEF TypesInv
<1>1. ASSUME NEW h \in Handlers,
             RegisterCommit(h) \/ BeatCommit(h) \/ IsolateCommit(h) \/ UnisolateCommit(h)
               \/ ReportCommit(h),
             req[h].row # NoRow
      PROVE  WindowInv'
  <2>1. req[h].op # "upload" /\ Done(h)
    BY <1>1 DEF RegisterCommit, BeatCommit, IsolateCommit, UnisolateCommit, ReportCommit
  <2>2. devices[req[h].row].beat \in {"recent", "old"} /\ req[h].seen \in Statuses
    BY <1>1, RowType, RequestType
  <2>3. BeatStatus(h) \in Statuses
    BY DEF BeatStatus, Statuses
  <2>4. PICK s \in Statuses, beat \in {"recent", "old"} : Write(h, s, beat)
    BY <1>1, <2>2, <2>3
    DEF RegisterCommit, BeatCommit, IsolateCommit, UnisolateCommit, ReportCommit, Statuses
  <2>5. req'[h].op # "upload" /\ \A k \in Handlers \ {h} : req'[k] = req[k]
    BY <2>1 DEF Done, Idle, TypesInv
  <2> QED
    BY <1>1, <2>1, <2>4, <2>5, CommitWindow
<1>2. ASSUME NEW h \in Handlers, SweepCommit(h) PROVE WindowInv'
  <2>1. req[h].op = "sweep" /\ Write(h, SweepStatus(h), devices[req[h].row].beat)
    BY <1>2 DEF SweepCommit
  <2>2. req[h].row # NoRow
    BY <2>1 DEF TypesInv, InTable
  <2>3. devices[req[h].row].beat \in {"recent", "old"} /\ SweepStatus(h) \in Statuses
    BY <2>2, RowType, RequestType DEF SweepStatus, Statuses
  <2>4. req'[h].op # "upload" /\ \A k \in Handlers \ {h} : req'[k] = req[k]
    <3>1. CASE Done(h)
      BY <3>1 DEF Done, Idle, TypesInv
    <3>2. CASE \E q, rest : Load(h, "sweep", q, rest)
      BY <3>2 DEF Load, TypesInv
    <3> QED
      BY <1>2, <3>1, <3>2 DEF SweepCommit
  <2> QED
    BY <2>1, <2>2, <2>3, <2>4, CommitWindow
<1>3. ASSUME NEW h \in Handlers, RegisterCommit(h), req[h].row = NoRow PROVE WindowInv'
  <2>1. /\ devices' = Append(devices, [status |-> "ONLINE", beat |-> "recent"])
        /\ Done(h) /\ late' = late
    BY <1>3 DEF RegisterCommit
  <2>2. /\ Len(devices') = Len(devices) + 1
        /\ \A r \in 1 .. Len(devices) : devices'[r] = devices[r]
        /\ devices'[Len(devices) + 1].status = "ONLINE"
    BY <1>0, <2>1 DEF TypesInv
  <2>3. ASSUME NEW r \in Ids PROVE Isolated(r)' <=> Isolated(r)
    <3>1. r \in 1 .. Len(devices') <=> r \in 1 .. Len(devices) \/ r = Len(devices) + 1
      BY <1>0, <2>2
    <3> QED
      BY <1>0, <2>2, <3>1 DEF Isolated
  <2>4. req'[h].op # "upload" /\ \A k \in Handlers \ {h} : req'[k] = req[k]
    BY <2>1 DEF Done, Idle, TypesInv
  <2>5. \A r \in Ids : Uploading(r)' \subseteq Uploading(r)
    BY <2>4, NoneAdmitted
  <2> QED
    BY <2>1, <2>3, <2>5, QuietWindow
<1>4. ASSUME NEW h \in Handlers, UploadCommit(h) PROVE WindowInv'
  <2>1. /\ req[h].op = "upload" /\ Done(h) /\ devices' = devices
        /\ late' = [late EXCEPT ![req[h].row] =
                      IF devices[req[h].row].status = "ISOLATED" THEN @ + 1 ELSE 0]
    BY <1>4 DEF UploadCommit
  <2>2. req[h].row # NoRow
    BY <2>1 DEF TypesInv, InTable
  <2>3. req[h].row \in 1 .. Len(devices) /\ req[h].row \in Ids
    BY <1>0, <2>2, RequestType, DeviceAssumption DEF TypesInv, Ids
  <2>4. req'[h].op = "idle" /\ \A k \in Handlers \ {h} : req'[k] = req[k]
    BY <2>1 DEF Done, Idle, TypesInv
  <2> SUFFICES ASSUME NEW r \in Ids PROVE Window(r)'
    BY DEF WindowInv
  <2>5. Window(r) /\ (Isolated(r)' <=> Isolated(r)) /\ late[r] \in Nat
    BY <2>1 DEF WindowInv, Isolated, TypesInv
  <2>6. Uploading(r)' \subseteq Uploading(r)
    BY <2>4, NoneAdmitted
  <2>7. CASE r = req[h].row /\ Isolated(r)
    <3>1. late'[r] = late[r] + 1
      BY <2>1, <2>7 DEF Isolated, TypesInv
    <3>2. Uploading(r)' = Uploading(r) \ {h} /\ h \in Uploading(r)
      BY <2>1, <2>4, <2>7 DEF Uploading
    <3>3. Uploading(r) \in SUBSET Handlers
      BY DEF Uploading
    <3>4. /\ Cardinality(Uploading(r)') = Cardinality(Uploading(r)) - 1
          /\ Cardinality(Uploading(r)) \in Nat /\ Cardinality(Handlers) \in Nat
      BY <3>2, <3>3, ThreadSets
    <3>5. late[r] + Cardinality(Uploading(r)) < Cardinality(Handlers)
      BY <2>5, <2>7 DEF Window
    <3>6. late'[r] + Cardinality(Uploading(r)') < Cardinality(Handlers)
      BY <2>5, <3>1, <3>4, <3>5
    <3>7. Cardinality(Uploading(r)') = Cardinality(Uploading(r))'
      OBVIOUS
    <3> QED
      BY <2>5, <2>7, <3>6, <3>7 DEF Window
  <2>8. CASE r = req[h].row /\ ~ Isolated(r)
    <3>1. late'[r] = 0
      BY <2>1, <2>3, <2>8 DEF Isolated, TypesInv
    <3> QED
      BY <2>5, <2>6, <2>8, <3>1, WindowStays
  <2>9. CASE r # req[h].row
    <3>1. late'[r] = late[r]
      BY <2>1, <2>9 DEF TypesInv
    <3>2. ~ Isolated(r)' => late'[r] = 0
      BY <2>5, <3>1 DEF Window
    <3> QED
      BY <2>5, <2>6, <3>1, <3>2, WindowStays
  <2> QED
    BY <2>7, <2>8, <2>9
<1>5. ASSUME NEW h \in Handlers, RollBack(h) PROVE WindowInv'
  <2>1. Done(h) /\ UNCHANGED <<devices, late>>
    BY <1>5 DEF RollBack
  <2>2. req'[h].op # "upload" /\ \A k \in Handlers \ {h} : req'[k] = req[k]
    BY <2>1 DEF Done, Idle, TypesInv
  <2>3. \A r \in Ids : (Isolated(r)' <=> Isolated(r)) /\ Uploading(r)' \subseteq Uploading(r)
    BY <2>1, <2>2, NoneAdmitted DEF Isolated
  <2> QED
    BY <2>1, <2>3, QuietWindow
<1>6. ASSUME NEW h \in Handlers, Start(h) \/ Beat(h) \/ Request(h) \/ SweepLoad(h)
      PROVE  WindowInv'
  <2>1. UNCHANGED <<devices, late>>
    BY <1>6 DEF Start, Beat, Request, SweepLoad
  <2>2. \/ UNCHANGED req
        \/ \E op \in {"register", "beat", "isolate", "unisolate", "report", "sweep"} :
             \E r, rest : Load(h, op, r, rest)
    BY <1>6 DEF Start, Beat, Request, SweepLoad
  <2>3. ASSUME NEW r \in Ids PROVE Uploading(r)' \subseteq Uploading(r)
    <3>1. CASE UNCHANGED req
      BY <3>1 DEF Uploading
    <3>2. CASE ~ UNCHANGED req
      <4>1. req'[h].op # "upload" /\ \A k \in Handlers \ {h} : req'[k] = req[k]
        BY <2>2, <3>2 DEF Load, TypesInv
      <4> QED
        BY <4>1, NoneAdmitted
    <3> QED
      BY <3>1, <3>2
  <2>4. \A r \in Ids : Isolated(r)' <=> Isolated(r)
    BY <2>1 DEF Isolated
  <2> QED
    BY <2>1, <2>3, <2>4, QuietWindow
<1>7. ASSUME NEW h \in Handlers, UploadCheck(h) PROVE WindowInv'
  <2>1. /\ UNCHANGED <<devices, agent, late>> /\ Load(h, "upload", agent.id, {})
        /\ devices[agent.id].status # "ISOLATED"
    BY <1>7 DEF UploadCheck, Admitted
  <2>2. req'[h].row = agent.id /\ \A k \in Handlers \ {h} : req'[k] = req[k]
    BY <2>1 DEF Load, TypesInv
  <2>3. \A r \in Ids : Isolated(r)' <=> Isolated(r)
    BY <2>1 DEF Isolated
  <2>4. ASSUME NEW r \in Ids PROVE Uploading(r)' \subseteq Uploading(r) \/ ~ Isolated(r)
    <3>1. CASE r = agent.id
      BY <2>1, <3>1 DEF Isolated
    <3>2. CASE r # agent.id
      BY <2>2, <3>2 DEF Uploading
    <3> QED
      BY <3>1, <3>2
  <2> QED
    BY <2>1, <2>3, <2>4, QuietWindow
<1>8. ASSUME Silence PROVE WindowInv'
  <2>1. PICK q \in DOMAIN devices : devices' = [devices EXCEPT ![q].beat = "old"]
    BY <1>8 DEF Silence
  <2>2. \A r \in DOMAIN devices : devices[r] \in DeviceRow
    BY DEF TypesInv
  <2>3. Len(devices') = Len(devices)
    BY <1>0, <2>1 DEF TypesInv
  <2>4. \A r \in DOMAIN devices : devices'[r].status = devices[r].status
    BY <2>1, <2>2 DEF DeviceRow
  <2>5. \A r \in Ids : Isolated(r)' <=> Isolated(r)
    BY <1>0, <2>3, <2>4 DEF Isolated
  <2>6. \A r \in Ids : Uploading(r)' \subseteq Uploading(r)
    BY <1>8 DEF Silence, Uploading
  <2> QED
    BY <1>8, <2>5, <2>6, QuietWindow DEF Silence
<1>9. CASE \/ TimesOut
          \/ Stop
          \/ UNCHANGED deviceVars
  <2>1. UNCHANGED <<devices, req, late>>
    BY <1>9 DEF TimesOut, Stop, deviceVars
  <2>2. \A r \in Ids : (Isolated(r)' <=> Isolated(r)) /\ Uploading(r)' \subseteq Uploading(r)
    BY <2>1 DEF Isolated, Uploading
  <2> QED
    BY <2>1, <2>2, QuietWindow
<1>10. \A h \in Handlers :
         BeatCommit(h) \/ IsolateCommit(h) \/ UnisolateCommit(h) \/ ReportCommit(h)
           => req[h].row # NoRow
  BY DEF BeatCommit, IsolateCommit, UnisolateCommit, ReportCommit, TypesInv, InTable
<1> QED
  BY <1>1, <1>2, <1>3, <1>4, <1>5, <1>6, <1>7, <1>8, <1>9, <1>10
  DEF DeviceNext, Commit, AgentNext

\* After an isolation commits, fewer uploads are stored for the row than there
\* are threads: the check in front of the insert (api/usb.py) is a read of its
\* own, so those already admitted get through, and no more.
THEOREM UploadsBounded == DeviceSpec => []UploadWindow
<1>1. TypesInv /\ WindowInv => UploadWindow
  <2> SUFFICES ASSUME TypesInv, WindowInv, NEW r \in Ids
               PROVE  late[r] < Cardinality(Handlers)
    BY DEF UploadWindow
  <2>1. Uploading(r) \in SUBSET Handlers
    BY DEF Uploading
  <2>2. Cardinality(Uploading(r)) \in Nat /\ Cardinality(Handlers) \in Nat /\ late[r] \in Nat
    BY <2>1, ThreadSets DEF TypesInv
  <2>3. Cardinality(Handlers) # 0
    <3>1. PICK h : h \in Handlers
      BY DeviceAssumption
    <3>2. /\ Cardinality(Handlers \ {h}) = Cardinality(Handlers) - 1
          /\ Cardinality(Handlers \ {h}) \in Nat
      BY <3>1, ThreadSets
    <3> QED
      BY <2>2, <3>2
  <2>4. Window(r)
    BY DEF WindowInv
  <2>5. CASE Isolated(r)
    <3>1. late[r] + Cardinality(Uploading(r)) < Cardinality(Handlers)
      BY <2>4, <2>5 DEF Window
    <3> QED
      BY <2>2, <3>1
  <2>6. CASE ~ Isolated(r)
    <3>1. late[r] = 0
      BY <2>4, <2>6 DEF Window
    <3> QED
      BY <2>2, <2>3, <3>1
  <2> QED
    BY <2>5, <2>6
<1> QED
  BY <1>1, TypesInitially, TypesStep, WindowInitially, WindowStep, PTL DEF DeviceSpec

-----------------------------------------------------------------------------
(* Duplicate rows                                                            *)

\* Registrations under way that found no row, and will insert one.
Inserting == {h \in Handlers : req[h].op = "register" /\ req[h].row = NoRow}

\* The agent waits for its own registrations and beats only, and one that
\* starts waits for its registration until it gives up.
WaitInv ==
    /\ agent.waits \in Inserting => agent.pc = "starting"
    /\ agent.waits \in Handlers => req[agent.waits].op \in {"register", "beat"}
    /\ agent.pc = "down" => agent.waits = NoHandler

\* Every row, present or on its way, besides the first was abandoned; while there
\* is none, all on their way were, but the one the agent waits for.
AbandonedInv ==
    /\ Len(devices) + Cardinality(Inserting) <= abandoned + 1
    /\ Len(devices) = 0 /\ agent.waits \notin Inserting => Cardinality(Inserting) <= abandoned

DuplicateInv == WaitInv /\ AbandonedInv

LEMMA DuplicatesInitially == DeviceInit => DuplicateInv
<1> SUFFICES ASSUME DeviceInit PROVE DuplicateInv
  OBVIOUS
<1>1. Len(devices) = 0 /\ abandoned = 0 /\ Inserting = {}
  BY DEF DeviceInit, Inserting, Idle
<1>2. Cardinality({}) = 0
  BY FS_EmptySet
<1> QED
  BY <1>1, <1>2, DeviceAssumption DEF DeviceInit, DuplicateInv, WaitInv, AbandonedInv

\* A step that neither starts, ends nor abandons an insertion.
LEMMA QuietCount ==
    ASSUME AbandonedInv, Inserting' = Inserting, Len(devices') = Len(devices),
           abandoned' = abandoned, agent.waits \in Inserting => agent'.waits \in Inserting
    PROVE  AbandonedInv'
<1>1. Cardinality(Inserting)' = Cardinality(Inserting)
  OBVIOUS
<1>2. Len(devices') + Cardinality(Inserting)' <= abandoned' + 1
  BY <1>1 DEF AbandonedInv
<1>3. Len(devices') = 0 /\ agent'.waits \notin Inserting' => Cardinality(Inserting)' <= abandoned'
  BY <1>1 DEF AbandonedInv
<1> QED
  BY <1>2, <1>3 DEF AbandonedInv

\* A request that ends, or changes to another kind, is not one the agent waits for,
\* unless it is answered.
LEMMA OthersWait ==
    ASSUME WaitInv, TypesInv, NEW h \in Handlers, \A k \in Handlers \ {h} : req'[k] = req[k],
           req'[h].op \notin {"register"},
           \/ agent' = agent /\ agent.waits # h
           \/ agent.waits = h /\ agent'.waits = NoHandler
    PROVE  WaitInv' /\ Inserting' = Inserting \ {h}
<1>1. Inserting' = Inserting \ {h}
  BY DEF Inserting
<1>2. CASE agent' = agent /\ agent.waits # h
  BY <1>1, <1>2 DEF WaitInv
<1>3. CASE agent'.waits = NoHandler
  BY <1>1, <1>3, DeviceAssumption DEF WaitInv, Inserting
<1> QED
  BY <1>1, <1>2, <1>3

\* An answer ends the agent's wait for this thread and no other.
LEMMA Answered ==
    ASSUME TypesInv, NEW h, NEW id, Answer(h, id)
    PROVE  (agent' = agent /\ agent.waits # h) \/ (agent.waits = h /\ agent'.waits = NoHandler)
<1>1. CASE agent.waits = h
  <2>1. PICK i : agent' = [agent EXCEPT !.waits = NoHandler, !.pc = "running", !.id = i]
    BY <1>1 DEF Answer
  <2>2. agent \in Agents
    BY DEF TypesInv
  <2>3. agent'.waits = NoHandler
    BY <2>1, <2>2 DEF Agents
  <2> QED
    BY <1>1, <2>3
<1>2. CASE agent.waits # h
  BY <1>2 DEF Answer
<1> QED
  BY <1>1, <1>2

LEMMA DuplicatesStep == TypesInv /\ DuplicateInv /\ [DeviceNext]_deviceVars => DuplicateInv'
<1> SUFFICES ASSUME TypesInv, DuplicateInv, [DeviceNext]_deviceVars PROVE DuplicateInv'
  OBVIOUS
<1> USE DEF DuplicateInv
<1>0. /\ Len(devices) \in Nat /\ abandoned \in Nat /\ DOMAIN devices = 1 .. Len(devices)
      /\ Inserting \in SUBSET Handlers /\ Cardinality(Inserting) \in Nat
      /\ \A h \in Inserting : Cardinality(Inserting \ {h}) = Cardinality(Inserting) - 1
  BY ThreadSets DEF TypesInv, Inserting
<1>1. ASSUME NEW h \in Handlers, Start(h) PROVE DuplicateInv'
  <2>1. /\ agent.pc = "down" /\ agent.waits = NoHandler /\ agent.waits \notin Inserting
        /\ UNCHANGED <<devices, abandoned>>
    BY <1>0, <1>1, DeviceAssumption DEF Start, WaitInv
  <2>2. CASE req' = req /\ agent' = [agent EXCEPT !.pc = "running"]
    <3>1. Inserting' = Inserting /\ agent'.waits = agent.waits /\ agent'.pc = "running"
      BY <2>2 DEF Inserting, TypesInv, Agents
    <3>2. WaitInv'
      BY <2>1, <2>2, <3>1, DeviceAssumption DEF WaitInv
    <3> QED
      BY <2>1, <3>1, <3>2, QuietCount
  <2>3. ASSUME NEW r, Load(h, "register", r, {}), req[h].op = "idle",
               r \in IF devices = <<>> THEN {NoRow} ELSE DOMAIN devices,
               agent' = [agent EXCEPT !.pc = "starting", !.waits = h]
        PROVE  DuplicateInv'
    <3>1. /\ req'[h].op = "register" /\ req'[h].row = r
          /\ \A k \in Handlers \ {h} : req'[k] = req[k]
      BY <2>3 DEF Load, TypesInv
    <3>2. agent'.waits = h /\ agent'.pc = "starting"
      BY <2>3 DEF TypesInv, Agents
    <3>3. WaitInv'
      BY <3>1, <3>2 DEF WaitInv
    <3>4. h \notin Inserting
      BY <2>3 DEF Inserting
    <3>5. CASE devices = <<>>
      <4>1. Len(devices) = 0 /\ r = NoRow
        BY <2>3, <3>5
      <4>2. Inserting' = Inserting \cup {h} /\ h \in Inserting'
        BY <3>1, <4>1 DEF Inserting
      <4>3. Inserting' \in SUBSET Handlers /\ Inserting' \ {h} = Inserting
        BY <1>0, <3>4, <4>2
      <4>4. Cardinality(Inserting) = Cardinality(Inserting') - 1
        BY <4>2, <4>3, ThreadSets
      <4>5. Cardinality(Inserting') \in Nat /\ Cardinality(Inserting)' = Cardinality(Inserting')
        BY <4>3, ThreadSets
      <4>6. Cardinality(Inserting) <= abandoned
        BY <2>1, <4>1 DEF AbandonedInv
      <4>7. Len(devices') + Cardinality(Inserting') <= abandoned' + 1
        BY <1>0, <2>1, <4>1, <4>4, <4>5, <4>6
      <4> QED
        BY <3>2, <3>3, <4>2, <4>5, <4>7 DEF AbandonedInv
    <3>6. CASE devices # <<>>
      <4>1. r # NoRow /\ Len(devices) # 0
        BY <1>0, <2>3, <3>6 DEF NoRow, TypesInv
      <4>2. Inserting' = Inserting
        BY <3>1, <3>4, <4>1 DEF Inserting
      <4> QED
        BY <2>1, <3>3, <4>2, QuietCount
    <3> QED
      BY <3>5, <3>6
  <2> QED
    BY <1>1, <2>2, <2>3 DEF Start
<1>2. ASSUME NEW h \in Handlers, Beat(h) PROVE DuplicateInv'
  <2>1. /\ agent.pc = "running" /\ agent.waits = NoHandler /\ req[h].op = "idle"
        /\ Load(h, "beat", agent.id, {}) /\ agent' = [agent EXCEPT !.waits = h]
        /\ UNCHANGED <<devices, abandoned>>
    BY <1>2 DEF Beat
  <2>2. /\ req'[h].op = "beat" /\ \A k \in Handlers \ {h} : req'[k] = req[k]
        /\ agent'.waits = h /\ agent'.pc = "running"
    BY <2>1 DEF Load, TypesInv, Agents
  <2>3. Inserting' = Inserting /\ h \notin Inserting
    BY <2>1, <2>2 DEF Inserting
  <2>4. WaitInv'
    BY <2>2, <2>3 DEF WaitInv
  <2>5. agent.waits \notin Inserting
    BY <1>0, <2>1, DeviceAssumption
  <2> QED
    BY <2>1, <2>3, <2>4, <2>5, QuietCount
<1>3. ASSUME TimesOut \/ Stop PROVE DuplicateInv'
  <2>1. /\ abandoned' = Abandons /\ UNCHANGED <<devices, req>>
        /\ \E p \in {"running", "down"} : agent' = [agent EXCEPT !.pc = p, !.waits = NoHandler]
    BY <1>3 DEF TimesOut, Stop
  <2>2. agent'.waits = NoHandler /\ Inserting' = Inserting
    BY <2>1 DEF TypesInv, Agents, Inserting
  <2>3. WaitInv'
    BY <1>0, <2>2, DeviceAssumption DEF WaitInv
  <2>4. abandoned <= abandoned' /\ abandoned' \in Nat
    BY <1>0, <2>1 DEF Abandons
  <2>5. Cardinality(Inserting) <= abandoned' \/ Len(devices) # 0
    <3>1. CASE agent.waits \in Inserting
      <4>1. abandoned' = abandoned + 1
        BY <2>1, <3>1 DEF Abandons, WaitInv
      <4>2. Len(devices) + Cardinality(Inserting) <= abandoned + 1
        BY DEF AbandonedInv
      <4> QED
        BY <1>0, <4>1, <4>2
    <3>2. CASE agent.waits \notin Inserting
      <4>1. Cardinality(Inserting) <= abandoned \/ Len(devices) # 0
        BY <3>2 DEF AbandonedInv
      <4> QED
        BY <1>0, <2>4, <4>1
    <3> QED
      BY <3>1, <3>2
  <2>6. Len(devices) + Cardinality(Inserting) <= abandoned' + 1
    <3>1. Len(devices) + Cardinality(Inserting) <= abandoned + 1
      BY DEF AbandonedInv
    <3> QED
      BY <1>0, <2>4, <3>1
  <2>7. Cardinality(Inserting)' = Cardinality(Inserting) /\ devices' = devices
    BY <2>1, <2>2
  <2> QED
    BY <2>3, <2>5, <2>6, <2>7 DEF AbandonedInv
<1>4. ASSUME NEW h \in Handlers, RegisterCommit(h), req[h].row = NoRow PROVE DuplicateInv'
  <2>1. /\ req[h].op = "register" /\ Done(h) /\ Answer(h, Len(devices) + 1)
        /\ devices' = Append(devices, [status |-> "ONLINE", beat |-> "recent"])
        /\ abandoned' = abandoned
    BY <1>4 DEF RegisterCommit
  <2>2. req'[h].op = "idle" /\ \A k \in Handlers \ {h} : req'[k] = req[k]
    BY <2>1 DEF Done, Idle, TypesInv
  <2>3. Len(devices') = Len(devices) + 1
    BY <2>1 DEF TypesInv
  <2>4. (agent' = agent /\ agent.waits # h) \/ (agent.waits = h /\ agent'.waits = NoHandler)
    BY <2>1, Answered
  <2>5. WaitInv' /\ Inserting' = Inserting \ {h}
    BY <2>2, <2>4, OthersWait
  <2>6. h \in Inserting
    BY <1>4, <2>1 DEF Inserting
  <2>7. /\ Cardinality(Inserting') = Cardinality(Inserting) - 1
        /\ Cardinality(Inserting)' = Cardinality(Inserting')
    BY <1>0, <2>5, <2>6
  <2>8. Len(devices) + Cardinality(Inserting) <= abandoned + 1
    BY DEF AbandonedInv
  <2>9. Len(devices') + Cardinality(Inserting') <= abandoned' + 1 /\ Len(devices') # 0
    BY <1>0, <2>1, <2>3, <2>7, <2>8
  <2> QED
    BY <2>5, <2>7, <2>9 DEF AbandonedInv
<1>5. ASSUME NEW h \in Handlers, h \notin Inserting,
             \A k \in Handlers \ {h} : req'[k] = req[k], req'[h].op # "register",
             \/ agent' = agent /\ agent.waits # h
             \/ agent.waits = h /\ agent'.waits = NoHandler,
             Len(devices') = Len(devices), abandoned' = abandoned
      PROVE  DuplicateInv'
  <2>0. req'[h].op \notin {"register"} /\ Inserting \ {h} = Inserting
    BY <1>5
  <2>3. WaitInv' /\ Inserting' = Inserting \ {h}
    BY <1>0, <1>5, <2>0, OthersWait
  <2>1. WaitInv' /\ Inserting' = Inserting
    BY <2>0, <2>3
  <2>2. agent.waits \in Inserting => agent'.waits \in Inserting
    BY <1>5
  <2> QED
    BY <1>5, <2>1, <2>2, QuietCount
<1>6. ASSUME NEW h \in Handlers, (RegisterCommit(h) /\ req[h].row # NoRow) \/ BeatCommit(h)
      PROVE  DuplicateInv'
  <2>1. /\ req[h].row # NoRow /\ Done(h) /\ abandoned' = abandoned
        /\ \E s \in Statuses : Write(h, s, "recent")
        /\ \E id \in 0 .. MaxRows : Answer(h, id)
    <3>1. BeatStatus(h) \in Statuses /\ "ONLINE" \in Statuses /\ NoRow \in 0 .. MaxRows
      BY DeviceAssumption DEF BeatStatus, Statuses, NoRow
    <3>2. req[h].row \in 0 .. MaxRows
      BY <1>0, RequestType, DeviceAssumption DEF TypesInv
    <3> QED
      BY <1>6, <3>1, <3>2 DEF RegisterCommit, BeatCommit, TypesInv, InTable
  <2>2. Len(devices') = Len(devices)
    BY <2>1, WriteKeeps
  <2>3. req'[h].op # "register" /\ \A k \in Handlers \ {h} : req'[k] = req[k]
    BY <2>1 DEF Done, Idle, TypesInv
  <2>4. (agent' = agent /\ agent.waits # h) \/ (agent.waits = h /\ agent'.waits = NoHandler)
    BY <2>1, Answered
  <2> QED
    BY <1>5, <2>1, <2>2, <2>3, <2>4 DEF Inserting
<1>7. ASSUME NEW h \in Handlers,
             IsolateCommit(h) \/ UnisolateCommit(h) \/ ReportCommit(h) \/ SweepCommit(h)
               \/ UploadCommit(h)
      PROVE  DuplicateInv'
  <2>1. req[h].op \notin {"idle", "register", "beat"} /\ UNCHANGED <<agent, abandoned>>
    BY <1>7
    DEF IsolateCommit, UnisolateCommit, ReportCommit, SweepCommit, UploadCommit
  <2>2. Len(devices') = Len(devices)
    <3>1. CASE UploadCommit(h)
      BY <3>1 DEF UploadCommit
    <3>2. CASE ~ UploadCommit(h)
      <4>1. req[h].row # NoRow
        BY <2>1 DEF TypesInv, InTable
      <4>2. devices[req[h].row].beat \in {"recent", "old"} /\ req[h].seen \in Statuses
        BY <4>1, RowType, RequestType
      <4>3. SweepStatus(h) \in Statuses
        BY <4>2 DEF SweepStatus, Statuses
      <4>4. PICK s \in Statuses, beat \in {"recent", "old"} : Write(h, s, beat)
        BY <1>7, <3>2, <4>2, <4>3
        DEF IsolateCommit, UnisolateCommit, ReportCommit, SweepCommit, Statuses
      <4> QED
        BY <4>1, <4>4, WriteKeeps
    <3> QED
      BY <3>1, <3>2
  <2>3. req'[h].op # "register" /\ \A k \in Handlers \ {h} : req'[k] = req[k]
    <3>1. CASE Done(h)
      BY <3>1 DEF Done, Idle, TypesInv
    <3>2. CASE \E q, rest : Load(h, "sweep", q, rest)
      BY <3>2 DEF Load, TypesInv
    <3> QED
      BY <1>7, <3>1, <3>2
      DEF IsolateCommit, UnisolateCommit, ReportCommit, SweepCommit, UploadCommit
  <2>4. agent.waits # h
    BY <2>1 DEF WaitInv
  <2> QED
    BY <1>5, <2>1, <2>2, <2>3, <2>4 DEF Inserting
<1>8. ASSUME NEW h \in Handlers, Request(h) \/ UploadCheck(h) \/ SweepLoad(h)
      PROVE  DuplicateInv'
  <2>1. req[h].op = "idle" /\ UNCHANGED <<devices, agent, abandoned>>
    BY <1>8 DEF Request, UploadCheck, SweepLoad
  <2>2. \E op \in {"isolate", "unisolate", "report", "upload", "sweep"} :
          \E r, rest : Load(h, op, r, rest)
    BY <1>8 DEF Request, UploadCheck, SweepLoad
  <2>3. req'[h].op # "register" /\ \A k \in Handlers \ {h} : req'[k] = req[k]
    BY <2>2 DEF Load, TypesInv
  <2>4. agent.waits # h
    BY <2>1 DEF WaitInv
  <2> QED
    BY <1>5, <2>1, <2>3, <2>4 DEF Inserting
<1>9. ASSUME NEW h \in Handlers, RollBack(h) PROVE DuplicateInv'
  <2>1. Done(h) /\ Answer(h, NoRow) /\ UNCHANGED <<devices, abandoned>>
    BY <1>9 DEF RollBack
  <2>2. req'[h].op # "register" /\ \A k \in Handlers \ {h} : req'[k] = req[k]
    BY <2>1 DEF Done, Idle, TypesInv
  <2>3. (agent' = agent /\ agent.waits # h) \/ (agent.waits = h /\ agent'.waits = NoHandler)
    BY <2>1, Answered
  <2>4. CASE h \notin Inserting
    BY <1>5, <2>1, <2>2, <2>3, <2>4
  <2>5. CASE h \in Inserting
    <3>1. WaitInv' /\ Inserting' = Inserting \ {h}
      BY <2>2, <2>3, OthersWait
    <3>2. /\ Cardinality(Inserting') = Cardinality(Inserting) - 1
          /\ Cardinality(Inserting)' = Cardinality(Inserting')
      BY <1>0, <2>5, <3>1
    <3>3. Len(devices) + Cardinality(Inserting) <= abandoned + 1
      BY DEF AbandonedInv
    <3>4. Len(devices') + Cardinality(Inserting') <= abandoned' + 1
      BY <1>0, <2>1, <3>2, <3>3
    <3>5. Len(devices') = 0 => Cardinality(Inserting') <= abandoned'
      BY <1>0, <2>1, <3>2, <3>3
    <3> QED
      BY <3>1, <3>2, <3>4, <3>5 DEF AbandonedInv
  <2> QED
    BY <2>4, <2>5
<1>10. ASSUME Silence \/ UNCHANGED deviceVars PROVE DuplicateInv'
  <2>1. UNCHANGED <<req, agent, abandoned>> /\ Len(devices') = Len(devices)
    <3>1. CASE Silence
      <4>1. PICK q \in DOMAIN devices : devices' = [devices EXCEPT ![q].beat = "old"]
        BY <3>1 DEF Silence
      <4> QED
        BY <3>1, <4>1 DEF Silence, TypesInv
    <3> QED
      BY <1>10, <3>1 DEF deviceVars
  <2>2. Inserting' = Inserting
    BY <2>1 DEF Inserting
  <2>3. WaitInv'
    BY <2>1, <2>2 DEF WaitInv
  <2> QED
    BY <2>1, <2>2, <2>3, QuietCount
<1> QED
  BY <1>1, <1>2, <1>3, <1>4, <1>6, <1>7, <1>8, <1>9, <1>10
  DEF DeviceNext, Commit, AgentNext

\* A host gets a second row only where the agent gave up a registration, by a
\* time-out or a restart, that another one overlapped (register_device looks the
\* host up and inserts it in separate statements): each abandoned one adds one.
THEOREM DuplicatesAreAbandoned == DeviceSpec => []DuplicatesAbandoned
<1>1. TypesInv /\ DuplicateInv => DuplicatesAbandoned
  <2> SUFFICES ASSUME TypesInv, DuplicateInv PROVE DuplicatesAbandoned
    OBVIOUS
  <2>1. Inserting \in SUBSET Handlers /\ Len(devices) \in Nat /\ abandoned \in Nat
    BY DEF Inserting, TypesInv
  <2>2. Cardinality(Inserting) \in Nat
    BY <2>1, ThreadSets
  <2>3. Len(devices) + Cardinality(Inserting) <= abandoned + 1
    BY DEF DuplicateInv, AbandonedInv
  <2> QED
    BY <2>1, <2>2, <2>3 DEF DuplicatesAbandoned
<1> QED
  BY <1>1, TypesInitially, TypesStep, DuplicatesInitially, DuplicatesStep, PTL DEF DeviceSpec
=============================================================================
