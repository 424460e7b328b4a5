SPECIFICATION Spec
CONSTANTS
    Responses = {r1, r2}
    Credits = {c1}
    Workers = {w1}
    Offers = {"high", "unavailable"}
    None = None
    MaxComparisons = 2
    MaxCrashes = 1
SYMMETRY Symmetry
INVARIANTS
    WinnerStillStands
    LatestComparisonAgrees
PROPERTIES
    AboveThresholdNeedsManager
