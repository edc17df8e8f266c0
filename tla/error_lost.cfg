SPECIFICATION Spec
CONSTANTS
    p1 = p1
    p2 = p2
    Panels = {p1, p2}
    Versions <- TwoVersions
    Orders <- OneOrder
    Cooldown = 1
    Faults = {"download"}
    MaxFaults = 1
    MaxGen = 1
PROPERTIES
    ReportedBeforeCleared
