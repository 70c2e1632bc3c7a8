CONSTANTS
    Runs = {r1, r2}
    m1 = m1  m2 = m2  s1 = s1  s2 = s2  s3 = s3  bad = bad  stray = stray
    Months = {m1}
    Snapshots = {s1, stray}
    NoSnapshot = NoSnapshot
    Elsewhere = Elsewhere
    Marts = {revenue, payment}
    Good = {s1, stray}
    Strays = {stray}
    Served = {}
    LatestMonth = m1
    Requests <- GateRequests
    MaxNoDataRuns = 2
    RepairSuperseded = TRUE
    Relanding = FALSE
    NoRun = NoRun
    MaxResumes = 1
    MaxSourceChanges = 0
SPECIFICATION Spec
INVARIANTS NoDataWasProcessed
CHECK_DEADLOCK FALSE
SYMMETRY RunSymmetry
