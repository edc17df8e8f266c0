SPECIFICATION Spec
CONSTANTS
    p1 = p1
    p2 = p2
    Panels = {p1}
    Versions <- AllVersions
    Orders <- AllOrders
    Cooldown = 1
    Faults = {"download", "exec", "probe", "restart"}
    MaxFaults = 3
    MaxGen = 3
INVARIANTS
    TypeOK
PROPERTIES
    NeverDowngrades
    ReportedBeforeCleared
