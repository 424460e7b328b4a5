SPECIFICATION FairSpec
CONSTANTS
    Docs = {d1}
    Slots = {s1, s2}
    MaxStage = 1
    MaxCycle = 1
    MaxFailures = 1
INVARIANTS
    SentMeansMailed
    LiveClaimsKept
PROPERTIES
    NoMailAfterTrace
    NothingLeftMeansMailed
    DueEventuallyMailed
