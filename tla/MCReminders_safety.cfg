SPECIFICATION Spec
CONSTANTS
    p1 = p1
    Pairs = {p1}
    Offers = {p1}
    OfferOf <- Own
    Addresses = {a1, a2}
    Comercial = {}
    Movers = {p1}
    Sweeps = {s1, s2}
    Stoppers = {}
    MaxCalls = 2
    MaxFailures = 1
SYMMETRY AddressSymmetry
INVARIANTS
    OneLetterADay
    ClaimsTellTheTruth
    SupplierKeepsALink
PROPERTIES
    ImplementsLedger
