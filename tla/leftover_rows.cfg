CONSTANTS
    r1 = r1  r2 = r2  m1 = m1  m2 = m2
    s1 = s1  s2 = s2  s3 = s3  k1 = k1  k2 = k2  k3 = k3
    Runs = {r1, r2}
    Months = {m1, m2}
    Marts = {revenue, payment}
    Snapshots = {s1, s2, s3}
    NoSnapshot = NoSnapshot
    Keys = {k1, k2, k3}
    KeysOf <- MCKeysOf
    Handoff <- MCHandoff
    Attempts = {a1, a2}
    NoRun = NoRun
    MaxExports <- MCMaxExports
SPECIFICATION Spec
INVARIANTS FreshlyPublishedReconciles
CHECK_DEADLOCK FALSE
SYMMETRY PublisherSymmetry
