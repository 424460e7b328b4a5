SPECIFICATION Spec
CONSTANTS
    l1 = l1
    l2 = l2
    Requests = {1, 2}
    Lines = {l1, l2}
    RequestOf <- OneEach
    NewLines = {l1}
    Catalog = {c1, c2}
    Quotes = {q1}
    Rows = {i1, i2}
    Workers = {w1, w2}
    MaxEdits = 1
SYMMETRY Symmetry
INVARIANTS
    LinkedAsAgreed
    MailsTellTheTruth
    NoCircle
PROPERTIES
    ImplementsBook
