CONSTANTS
    Runs = {r1, r2, r3}
    m1 = m1  m2 = m2  s1 = s1  s2 = s2  s3 = s3  bad = bad  stray = stray
    Months = {m1}
    Snapshots = {s1, s2, bad}
    NoSnapshot = NoSnapshot
    Elsewhere = Elsewhere
    Marts = {revenue}
    Good = {s1, s2}
    Strays = {}
    Served = {s1, bad}
    LatestMonth = m1
    Requests <- ScheduledRequests
    MaxNoDataRuns = 2
    RepairSuperseded = FALSE
    Relanding = FALSE
    NoRun = NoRun
    MaxResumes = 0
    MaxSourceChanges = 1
SPECIFICATION Spec
INVARIANTS IInv
PROPERTIES NoDataMeansCurrent
CHECK_DEADLOCK FALSE
SYMMETRY RunSymmetry
