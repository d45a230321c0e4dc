\* an agent whose only registration was lost does nothing more: the system may stop
SPECIFICATION FairDeviceSpec
CONSTANTS
    h1 = h1  h2 = h2
    Handlers = {h1, h2}
    NoHandler = NoHandler
    MaxRows = 2
    MaxStarts = 2
    MaxLost = 1
INVARIANTS DuplicatesAbandoned UploadWindow
PROPERTIES SeenIsolationKept ComesBack
CHECK_DEADLOCK FALSE
