SPECIFICATION Spec
CONSTANTS
    Responses = {r1, r2}
    Credits = {c1}
    Workers = {w1, w2}
    Offers = {"low"}
    None = None
    MaxComparisons = 1
    MaxCrashes = 1
SYMMETRY Symmetry
INVARIANTS
    AtMostOneWinner
PROPERTIES
    RemovedNeverAwarded
    ImplementsRegister
CHECK_DEADLOCK FALSE
