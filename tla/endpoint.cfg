\* With no drive, file or request to come, all rest.
SPECIFICATION Spec
CONSTANTS
    r1 = r1  r2 = r2  l1 = l1  d1 = d1  d2 = d2  f1 = f1  f2 = f2  f3 = f3  e1 = e1
    Requests = {r1, r2}
    Files = {f1, f2}
    Events = {e1}
    Hits <- RulesOf
    MaxBreaks = 1
    Letters = {l1}
    Drives = {d1, d2}
    NoDrive = NoDrive
    Holds <- HoldsOf
    Dangerous = {f1}
    Ignored = {}
    AutoQuarantine = TRUE
    BatchSize = 2
    MaxSwaps = 2
    MaxLosses = 1
    Paths = {p, q}
    Data = {A, B}
    NoFile = NoFile
    SizeOf <- OneByte
    SeenLimit = 2
    MaxWrites = 2
    m1 = m1  m2 = m2
    Threats = {f1, f2, f3}
    LabelOf <- Twins
    Movers = {m1, m2}
    NoThreat = NoThreat
    MaxSeconds = 1
    MaxStops = 1
SYMMETRY Interchangeable
INVARIANTS TypeOK DuplicatesOverlapped FindingsAccounted VaultedReported  
CHECK_DEADLOCK FALSE
