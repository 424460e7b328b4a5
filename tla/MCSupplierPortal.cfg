SPECIFICATION Spec
CONSTANTS
    Contacts = {c1}
    Workers = {w1, w2}
    MaxTokens = 3
    MaxSubmissions = 3
    MaxExpired = 1
    MaxEvents = 5
    None = None
SYMMETRY Symmetry
INVARIANTS
    CarrierAgrees
    HistoryFollows
PROPERTIES
    RemovedStaysRemoved
    ImplementsRecord
CHECK_DEADLOCK FALSE
