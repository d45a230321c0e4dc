\* With every request and message handled and none to come, all rest.
SPECIFICATION Spec
CONSTANTS
    r1 = r1  r2 = r2  r3 = r3  u1 = u1
    Categories = {"FIM"}
    Areas = {"FIM"}
    AreaOf <- AnyArea
    Subscribers = {u1}
    WantsOf <- FimOnly
    Priorities = {10}
    Admins = {r1, r2}
    MaxPolicies = 3
    MaxSyncFaults = 1
    g1 = g1  t1 = t1  t2 = t2
    Agents = {g1}
    Threads = {t1, t2}
    Host <- TwoThreads
    Ids = {"a1", "a2"}
    Types = {"ISOLATE", "QUARANTINE"}
    Runnable = {"ISOLATE"}
    Dispatches = 2
    CacheLimit = 1
    MaxRestarts = 1  MaxReceived = 3
    s1 = s1  s2 = s2  s3 = s3
    Sockets = {s1, s2, s3}
    Clients = {g1}
    NoClient = NoClient
    NoSocket = NoSocket
    OwnerOf <- SocketOwner
    Broadcasts = {r1, r2}
    Limit = 2
    Minute = 2
    Slack = 1
    Calls = {r1, r2, r3}
    MaxTime = 4
    c1 = c1  k1 = k1  v0 = v0  v1 = v1  h1 = h1  l1 = l1  l2 = l2
    Cases = {c1}
    Reports = {k1}
    Upgrades = {u1}
    Machines = {h1}
    Links = {l1, l2}
    Releases = {v0, v1}
    FirstRelease = v0
    Editors = {r1, r2}
    MaxEdits = 3
SYMMETRY Interchangeable
INVARIANTS TypeOK SyncedInForceUnlessExcused RunOnceWhileRemembered EntryIsNewest WindowKept EditsStand
CHECK_DEADLOCK FALSE
