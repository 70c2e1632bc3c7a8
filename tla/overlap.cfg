CONSTANTS
    Runs = {r1, r2}
    m1 = m1  m2 = m2  s1 = s1  s2 = s2  s3 = s3  bad = bad  stray = stray
    Months = {m1, m2}
    Snapshots = {s1, s2, s3, stray}
    NoSnapshot = NoSnapshot
    Elsewhere = Elsewhere
    Marts = {revenue}
    Good = {s1, s2, s3}
    Strays = {stray}
    Served = {}
    LatestMonth = m2
    Requests <- OverlapRequests
    MaxNoDataRuns = 2
    RepairSuperseded = TRUE
    Relanding = FALSE
    NoRun = NoRun
    MaxResumes = 2
    MaxSourceChanges = 0
SPECIFICATION Spec
INVARIANTS TypeOK HandoffFaithful GoldKeepsNewestPlan ChainReady
    NoDataOnlyStrays BackfillServed
PROPERTIES LedgerSpec SupersededNeverWrites
CHECK_DEADLOCK FALSE
SYMMETRY RunSymmetry
