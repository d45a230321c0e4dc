\* With every command acknowledged and none to come the system is at rest.
SPECIFICATION FairSpec
CONSTANTS
    h1 = h1  h2 = h2  c1 = c1  c2 = c2
    Handlers = {h1, h2}
    Commands = {c1, c2}
    MaxMishaps = 1
INVARIANTS PendingShown DeliveredOnceAlone
PROPERTIES OutcomeFinalAlone CommandSettles
CHECK_DEADLOCK FALSE
