\* With everything run or stored and nothing to come, both rest.
SPECIFICATION FairSpec
CONSTANTS
    w1 = w1  w2 = w2  j1 = j1  j2 = j2  j3 = j3
    Workers = {w1, w2}
    Jobs = {j1, j2, j3}
    QueueOf <- TwoQueues
    Undefined = {j3}
    NoJob = NoJob
    MaxFaults = 2
    f1 = f1
    Flushers = {f1}
    MaxEvents = 6
    Capacity = 4
    BatchSize = 2
    Stamped = {1, 2}
    Invalid = {5}
    Routed = {2, 3}
    MaxUnanswered = 2  MaxCrashes = 2
INVARIANTS   ActiveAccounted
PROPERTIES EventLeaves AnsweredEnds
CHECK_DEADLOCK FALSE
