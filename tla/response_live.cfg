SPECIFICATION FairSpec
CONSTANTS
    h1 = h1  h2 = h2  d1 = d1  a1 = a1  a2 = a2
    Handlers = {h1, h2}
    Devices = {d1}
    ActionIds = {a1, a2}
    Kinds = {"ISOLATE"}
    Isolate = "ISOLATE"
    NoAction = NoAction
    MaxRetries = 1  MaxReports = 1  MaxAborts = 0
PROPERTY ActionSettles
