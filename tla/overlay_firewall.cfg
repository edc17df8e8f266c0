SPECIFICATION Spec
CONSTANTS
    p1 = p1
    p2 = p2
    a = a
    b = b
    Panels = {p1, p2}
    LinksOf <- OneEach
    Tries = 2
    MaxCopies = 3
    MaxSyncs = 2
    MaxRestarts = 1
INVARIANTS
    TypeOK
    OpenOnce
    RemovedClosed
