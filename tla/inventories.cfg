\* With nothing to happen on the endpoint and no request left, all rest.
SPECIFICATION Spec
CONSTANTS
    Pids = {p1}
    Images = {"shell", "tool"}
    NoImage = NoImage
    Blocklisted = {"tool"}
    Toggled = {"shell"}
    Hostile = {"tool"}
    Posts = {1, 2}
    MaxChanges = 3
    MaxPostFaults = 1
    k1 = k1  k2 = k2
    Conns = {k1, k2}
    PortOf <- OnePort
    ProcOf <- OneProcess
    RemoteOf <- OneListens
    NoRemote = "none"
    States = {"S1", "S2"}
    Closed = Closed
    Suspicious = {k2}
    Violating = {k2}
    Calls = {1, 2}
    MaxMoves = 2
    MaxCallFaults = 1
    FilePaths = {f, g}
    Hashes = {A, B}
    NoHash = NoHash
    NoPath = NoPath
    Verifiers = {1, 2}
    MaxRecordFaults = 1
    Names = {"bob", "eve", "pc", "none"}
    Happenings <- BobsDay
    Samples <- LogCleared
    NoName = "none"
    FailureThreshold = 2
    CollectLimit = 3
    CollectLeast = 2
    Uploads = {u1, u2}
    MaxEntries = 3
    MaxUploadFaults = 1
    Processes = {"p"}
    Bursts <- Attack
    Callers = {c1, c2}
    Delay = 35  MaxClock = 70  MaxBursts = 2
    Devices = {d1, d2}
    CorrIds = {x, y}
    Events <- TwoEvents
    Sequels = {1, 2}
    SequelLength = 2
    Interval = 200  MaxTime = 400
    MaxRollbacks = 1
INVARIANTS TypeOK    MinuteKept
 
CHECK_DEADLOCK FALSE
