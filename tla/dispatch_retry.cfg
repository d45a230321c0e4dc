\* A backend and agents with nothing left to do or to deliver stop.
SPECIFICATION DispatchSpec
CONSTANTS
    h1 = h1  h2 = h2  d1 = d1  d2 = d2  a1 = a1  t1 = t1  t2 = t2
    Handlers = {h1}
    Devices = {d1}
    ActionIds = {a1}
    Kinds = {"ISOLATE", "QUARANTINE"}
    Isolate = "ISOLATE"
    NoAction = NoAction
    MaxRetries = 1  MaxReports = 1  MaxAborts = 0
    Threads = {t1, t2}
    Host <- TwoThreads
    Runnable = {"ISOLATE"}
    Dispatches = 2
    CacheLimit = 1
    MaxRestarts = 0  MaxReceived = 2
INVARIANT RetryAdmitted
CHECK_DEADLOCK FALSE
