SPECIFICATION Spec
CONSTANTS
    o1 = o1
    Forwards = {f1, f2}
    Offers = {o1}
    Partners = {o1}
    PartnerOf <- Own
    Workers = {w1, w2}
    MaxLinks = 2
    MaxAnswers = 2
SYMMETRY Symmetry
INVARIANTS
    AuditComplete
    OneActiveUnlessRevived
    LatestAnswerTold
PROPERTIES
    AnsweredKeepsItsLink
    RevokedTakesNothing
    ImplementsDialogue
