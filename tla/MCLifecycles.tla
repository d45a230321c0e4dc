---------------------------- MODULE MCLifecycles ----------------------------
(* Small instances of the two queues that promise that what they accepted is
   dealt with in the end: the backend's job queue and the agent's telemetry
   buffer.  They share no state, so a behaviour of the run is a behaviour of
   one of them, chosen in the initial state.                                 *)
EXTENDS JobQueue, TelemetryBuffer, TLC

CONSTANTS w1, w2, j1, j2, j3, f1

VARIABLE part   \* the component that runs

vars == <<part, jobVars, bufferVars>>

TwoQueues == (j1 :> 1) @@ (j2 :> 1) @@ (j3 :> 2)

Init ==
    /\ part \in {"jobs", "buffer"}
    /\ JobInit /\ BufferInit

\* A step of one component
Queue(A)  == part = "jobs"   /\ A /\ UNCHANGED <<part, bufferVars>>
Buffer(A) == part = "buffer" /\ A /\ UNCHANGED <<part, jobVars>>

Next == Queue(JobNext) \/ Buffer(BufferNext)

\* The fairness of the component that runs
Fairness ==
    /\ \A j \in Jobs : WF_vars(Queue(Push(j)))
    /\ \A w \in Workers : WF_vars(Queue(Pop(w))) /\ WF_vars(Queue(Work(w)))
    /\ \A f \in Flushers : WF_vars(Buffer(Flush(f)))

FairSpec == Init /\ [][Next]_vars /\ Fairness
=============================================================================
