SPECIFICATION Spec
CONSTANTS
    p1 = p1
    p2 = p2
    a = a
    b = b
    Panels = {p1, p2}
    LinksOf <- OneEach
    Tries = 2
    MaxCopies = 0
    MaxSyncs = 1
    MaxRestarts = 0
INVARIANTS
    SharedStays
