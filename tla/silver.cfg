CONSTANTS
    m1 = m1  m2 = m2
    original = original  corrected = corrected  other = other  stray = stray
    Months = {m1, m2}
    Snapshots = {original, corrected, other, stray}
    RowsOf <- TheRows
    Received <- TheReceived
    Unknown = Unknown
    Plans <- ThePlans
    ZoneVersions <- TheZones
    RateCodes = {1}
    PaymentTypes = {1}
    MaxBad = 1
    OutOf = 2
    MinimumRows = 4
    MaxSeeds = 2
SPECIFICATION Spec
INVARIANTS TypeOK AcceptedAddsUp ExactWhenSteady ExactSoFar GateCountsDeliveries
