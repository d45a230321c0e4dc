\* A backend and agents with nothing left to do or to deliver stop.
SPECIFICATION DispatchSpec
CONSTANTS
    h1 = h1  h2 = h2  d1 = d1  d2 = d2  a1 = a1  t1 = t1  t2 = t2
    Handlers = {h1, h2}
    Devices = {d1}
    ActionIds = {a1}
    Kinds = {"ISOLATE", "QUARANTINE"}
    Isolate = "ISOLATE"
    NoAction = NoAction
    MaxRetries = 1  MaxReports = 1  MaxAborts = 1
    Threads = {t1}
    Host <- OneThread
    Runnable = {"ISOLATE"}
    Dispatches = 2
    CacheLimit = 1
    MaxRestarts = 1  MaxReceived = 2
SYMMETRY Interchangeable
INVARIANTS FailureIsReal OnlyDispatchedRuns
CHECK_DEADLOCK FALSE
