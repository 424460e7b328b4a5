SPECIFICATION Spec
CONSTANTS
    p1 = p1
    Pairs = {p1}
    Offers = {p1}
    OfferOf <- Own
    Addresses = {a1}
    Comercial = {}
    Movers = {}
    Sweeps = {s1}
    Stoppers = {}
    MaxCalls = 2
    MaxFailures = 1
INVARIANT LinkHolds
