------------------------------- MODULE JobQueue -------------------------------
(* Background jobs (backend/app/core/job_queue.py) and the worker processes
   that run them (backend/app/worker.py).

   A job is a JSON document in Redis, with a time to live, and its id in a
   list of one of the queues.  Every Redis command is atomic; a job's life is a
   sequence of them, issued by one API request and then by one worker, and any
   of them may fail for its caller with or without having been applied.  The
   index of recent jobs, which only the listing reads, is left out.          *)
EXTENDS Naturals, Sequences, FiniteSets, SequencesExt

CONSTANTS Workers, Jobs,
          QueueOf,      \* position of the job's queue in QUEUES_TO_LISTEN
          Undefined,    \* jobs whose task calls a function that no service
                        \* defines (worker.py:57, :71 and :81)
          NoJob,
          MaxFaults     \* bound: failing commands, crashes and expiries

ASSUME JobAssumption ==
    /\ QueueOf \in [Jobs -> Nat] /\ Undefined \subseteq Jobs
    /\ NoJob \notin Jobs /\ MaxFaults \in Nat

VARIABLES
    doc,        \* "status" in the job's document, "ABSENT" without one
    adding,     \* each enqueue_job: where it is
    queues,     \* the lists of ids
    place, job,    \* each worker: where it is, the job in its hands
    runs,       \* how often the job's task was started
    hit,        \* jobs that a fault touched
    faults

jobVars == <<doc, adding, queues, place, job, runs, hit, faults>>

QueueNames == {QueueOf[j] : j \in Jobs}
Unfinished == {"PENDING", "PROCESSING"}
Final  == {"COMPLETED", "FAILED"}

JobInit ==
    /\ doc = [j \in Jobs |-> "ABSENT"]
    /\ adding = [j \in Jobs |-> "no"]
    /\ queues = [q \in QueueNames |-> <<>>]
    /\ place = [w \in Workers |-> "idle"] /\ job = [w \in Workers |-> NoJob]
    /\ runs = [j \in Jobs |-> 0]
    /\ hit = {} /\ faults = 0

-----------------------------------------------------------------------------
(* enqueue_job                                                               *)

\* SETEX of the document
Create(j) ==
    /\ adding[j] = "no"
    /\ adding' = [adding EXCEPT ![j] = "push"]
    /\ doc' = [doc EXCEPT ![j] = "PENDING"]
    /\ UNCHANGED <<queues, place, job, runs, hit, faults>>

\* RPUSH of the id
Push(j) ==
    /\ adding[j] = "push"
    /\ adding' = [adding EXCEPT ![j] = "answered"]
    /\ queues' = [queues EXCEPT ![QueueOf[j]] = Append(@, j)]
    /\ UNCHANGED <<doc, place, job, runs, hit, faults>>

-----------------------------------------------------------------------------
(* run_worker                                                                *)

At(w, from, to) == place[w] = from /\ place' = [place EXCEPT ![w] = to]

Release(w, from) == At(w, from, "idle") /\ job' = [job EXCEPT ![w] = NoJob]
Hands(w, status) == doc' = [doc EXCEPT ![job[w]] = status]

\* BLPOP takes from the first queue of the list that is not empty.
First(q) == queues[q] # <<>> /\ \A p \in QueueNames : p < q => queues[p] = <<>>

Pop(w) ==
    /\ At(w, "idle", "fetch")
    /\ \E q \in QueueNames :
        /\ First(q)
        /\ job' = [job EXCEPT ![w] = Head(queues[q])]
        /\ queues' = [queues EXCEPT ![q] = Tail(@)]
    /\ UNCHANGED <<doc, adding, runs, hit, faults>>

\* get_job of the popped id: the document may have expired in the meantime.
Fetch(w) ==
    /\ \/ At(w, "fetch", "mark") /\ doc[job[w]] # "ABSENT" /\ UNCHANGED job
       \/ Release(w, "fetch") /\ doc[job[w]] = "ABSENT"
    /\ UNCHANGED <<doc, adding, queues, runs, hit, faults>>

\* update_job_status(PROCESSING), outside of handle_job's try
Mark(w) ==
    /\ At(w, "mark", "run")
    /\ Hands(w, "PROCESSING")
    /\ UNCHANGED <<adding, queues, job, runs, hit, faults>>

\* The task returns or raises (a result that json.dumps refuses counts as that).
Run(w, result) ==
    /\ result = "returned" => job[w] \notin Undefined
    /\ At(w, "run", IF result = "returned" THEN "complete" ELSE "fail")
    /\ runs' = [runs EXCEPT ![job[w]] = @ + 1]
    /\ UNCHANGED <<doc, adding, queues, job, hit, faults>>

Complete(w) ==
    /\ Release(w, "complete")
    /\ Hands(w, "COMPLETED")
    /\ UNCHANGED <<adding, queues, runs, hit, faults>>

\* Mutant: the except branch logs and does not record
FailForgotten(w) ==
    /\ Release(w, "fail")
    /\ UNCHANGED <<doc, adding, queues, runs, hit, faults>>

Fail(w) ==
    /\ Release(w, "fail")
    /\ Hands(w, "FAILED")
    /\ UNCHANGED <<adding, queues, runs, hit, faults>>

-----------------------------------------------------------------------------
(* Faults.  A command that fails for its caller was applied or not.          *)

Hit(j) ==
    /\ faults < MaxFaults /\ faults' = faults + 1
    /\ hit' = hit \cup {j}

\* The request dies, or its RPUSH fails: the caller is answered an error.
AddFails(j, applied) ==
    /\ adding[j] = "push" /\ Hit(j)
    /\ adding' = [adding EXCEPT ![j] = "failed"]
    /\ queues' = IF applied THEN [queues EXCEPT ![QueueOf[j]] = Append(@, j)] ELSE queues
    /\ UNCHANGED <<doc, place, job, runs>>

\* BLPOP removed the id and its answer never came.
PopFails(w) ==
    /\ place[w] = "idle"
    /\ \E q \in QueueNames :
        /\ First(q) /\ Hit(Head(queues[q]))
        /\ queues' = [queues EXCEPT ![q] = Tail(@)]
    /\ UNCHANGED <<doc, adding, place, job, runs>>

\* The status that the next update would write
Goal(w) == CASE place[w] = "mark" -> "PROCESSING" [] place[w] = "complete" -> "COMPLETED"
             [] place[w] = "fail" -> "FAILED"

\* update_job_status raises: inside the try the except branch goes on to
\* record FAILED, elsewhere run_worker logs the error and takes another job.
UpdateFails(w, applied) ==
    /\ place[w] \in {"mark", "complete", "fail"} /\ Hit(job[w])
    /\ IF place[w] = "complete" THEN At(w, "complete", "fail") /\ UNCHANGED job
                             ELSE Release(w, place[w])
    /\ doc' = IF applied THEN [doc EXCEPT ![job[w]] = Goal(w)] ELSE doc
    /\ UNCHANGED <<adding, queues, runs>>

\* A failing GET, or the worker process dies and is started again: the job
\* that it held is in no queue.
Crash(w) ==
    /\ place[w] # "idle" /\ Hit(job[w])
    /\ Release(w, place[w])
    /\ UNCHANGED <<doc, adding, queues, runs>>

\* JOB_TTL_SECONDS pass without an update: no task runs that long.
Expire(j) ==
    /\ doc[j] # "ABSENT" /\ adding[j] # "push" /\ Hit(j)
    /\ \A w \in Workers : job[w] = j => place[w] = "fetch"
    /\ doc' = [doc EXCEPT ![j] = "ABSENT"]
    /\ UNCHANGED <<adding, queues, place, job, runs>>

-----------------------------------------------------------------------------
Work(w) ==
    \/ Fetch(w) \/ Mark(w) \/ Complete(w) \/ Fail(w)
    \/ \E result \in {"returned", "raised"} : Run(w, result)

JobNext ==
    \/ \E j \in Jobs : Create(j) \/ Push(j) \/ Expire(j)
    \/ \E w \in Workers : Pop(w) \/ Work(w) \/ PopFails(w) \/ Crash(w)
    \/ \E applied \in BOOLEAN : \/ \E j \in Jobs : AddFails(j, applied)
                                \/ \E w \in Workers : UpdateFails(w, applied)

JobSpec == JobInit /\ [][JobNext]_jobVars

-----------------------------------------------------------------------------
JobTypeOK ==
    /\ doc \in [Jobs -> Unfinished \cup Final \cup {"ABSENT"}]
    /\ adding \in [Jobs -> {"no", "push", "answered", "failed"}]
    /\ queues \in [QueueNames -> Seq(Jobs)]
    /\ place \in [Workers -> {"idle", "fetch", "mark", "run", "complete", "fail"}]
    /\ job \in [Workers -> Jobs \cup {NoJob}]
    /\ \A w \in Workers : place[w] = "idle" <=> job[w] = NoJob
    /\ runs \in [Jobs -> Nat]
    /\ hit \subseteq Jobs /\ faults \in 0..MaxFaults

Queued(j) == \E q \in QueueNames : Contains(queues[q], j)
Held(j)   == \E w \in Workers : job[w] = j

\* A task is started at most once, whatever fails, expires or dies: the work of
\* a job (commands to a fleet, a report) is never repeated.
RunOnce == \A j \in Jobs : runs[j] <= 1

\* A job that reads PENDING or PROCESSING is being pushed, queued or in a
\* worker's hands: only a fault leaves one that nobody will ever finish.
ActiveAccounted ==
    \A j \in Jobs : doc[j] \in Unfinished =>
        adding[j] = "push" \/ Queued(j) \/ Held(j) \/ j \in hit

\* Workers that died or lost their connection return to the queues: a job that
\* was answered with 202 ends as COMPLETED or FAILED unless a fault touched it.
AnsweredEnds ==
    \A j \in Jobs : adding[j] = "answered" ~> (doc[j] \in Final \/ j \in hit)
=============================================================================
