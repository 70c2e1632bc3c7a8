CONSTANTS
    Uploaders = {"daily", "job", p1, p2}
    Calls = {p1, p2}
    Contents = {c1, c2}
    First = c1
    NoSum = NoSum
    NoObject = NoObject
    NoItem = NoItem
    NoFile = NoFile
    NoDate = NoDate
    Malformed = Malformed
    NoId = "none"
    Lag = 2
    Lookback = 2
    DailyLookback = 2
    MaxChanges = 1
    PageSize = 2
    MaxDeaths = 1
    Uris <- AllUris
    Sums <- AllSums
    Foreign <- ByHand
    Clients <- AllClients
    Calendar <- AllMonths
    Published <- OnTime
    FirstDay <- January
    Horizon <- February
    Launches <- AllLaunches
SPECIFICATION IntakeSpec
INVARIANTS TypeOK FilesTypeOK EndedComplete LateArrivalsLanded NothingNewerSkipped
    ReturnsTheSnapshot RecordedOnce TakenIsLanded ReplaysAgree
PROPERTIES RegisterSpec StepsRunOut EveryCallEnds
CHECK_DEADLOCK FALSE
