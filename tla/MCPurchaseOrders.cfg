SPECIFICATION Spec
CONSTANTS
    Items = {i1, i2}
    Workers = {w1, w2}
    MaxOrders = 3
    None = None
SYMMETRY Symmetry
INVARIANTS
    PositionsContiguous
PROPERTIES
    DeletionLeavesNoSingle
    GroupingMakesTwo
    ItemsFollowTheNeighbour
    ImplementsList
CHECK_DEADLOCK FALSE
