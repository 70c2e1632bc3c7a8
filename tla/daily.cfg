CONSTANTS
    Workflows = {w1, w2}
    Runs = {r1, r2}
    Newest = 2
    Contents = {c1, c2, bad}
    Good = {c1, c2}
    NoContent = NoContent
    NoRun = NoRun
    MaxChanges = 2
    MaxOverrides = 1
    MaxFaults = 1
SPECIFICATION FairSpec
INVARIANTS Inv PublishesWhatItLanded
PROPERTIES ServedSpec NewestIsServed
