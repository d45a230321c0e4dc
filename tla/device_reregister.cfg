\* an agent whose only registration was lost does nothing more: the system may stop
SPECIFICATION DeviceSpec
CONSTANTS
    Handlers = {h1}
    h1 = h1  h2 = h2
    NoHandler = NoHandler
    MaxRows = 1
    MaxStarts = 2
    MaxLost = 0
PROPERTIES IsolationHolds
CHECK_DEADLOCK FALSE
