SPECIFICATION Spec
CONSTANTS
    Products = {p1, p2}
    Codes = {c1, c2}
    Items = {i1}
    Labels = {l1}
    Workers = {w1, w2}
    MaxCodes = 2
    MaxImports = 1
SYMMETRY Symmetry
INVARIANTS
    OneFortnight
    LinkedAsNamed
PROPERTIES
    PackagingKept
    ImportSettles
    SavedIsRegistered
