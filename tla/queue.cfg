CONSTANTS
    Runs = {r1, r2}
    m1 = m1  m2 = m2  s1 = s1  s2 = s2  s3 = s3  bad = bad  stray = stray
    Months = {m1}
    Snapshots = {s1}
    NoSnapshot = NoSnapshot
    Elsewhere = Elsewhere
    Marts = {revenue}
    Good = {s1}
    Strays = {}
    Served = {s1}
    LatestMonth = m1
    Requests <- QueueRequests
    MaxNoDataRuns = 2
    RepairSuperseded = TRUE
    Relanding = FALSE
    NoRun = NoRun
    MaxResumes = 1
    MaxSourceChanges = 0
SPECIFICATION FairSpec
PROPERTIES QueueDrains LandedPlanFinal
CHECK_DEADLOCK FALSE
