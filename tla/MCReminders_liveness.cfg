SPECIFICATION FairSpec
CONSTANTS
    p1 = p1
    Pairs = {p1}
    Offers = {p1}
    OfferOf <- Own
    Addresses = {a1, a2}
    Comercial = {a2}
    Movers = {}
    Sweeps = {s1}
    Stoppers = {p1}
    MaxCalls = 2
    MaxFailures = 1
PROPERTIES
    KeepsReminding
