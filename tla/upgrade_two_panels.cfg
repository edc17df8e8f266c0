SPECIFICATION FairSpec
CONSTANTS
    p1 = p1
    p2 = p2
    Panels = {p1, p2}
    Versions <- TwoVersions
    Orders <- OneOrder
    Cooldown = 2
    Faults = {"download", "restart"}
    MaxFaults = 2
    MaxGen = 2
INVARIANTS
    OneUpgrade
PROPERTIES
    Throttled
    UpgradeHappens
    WatchAdopts
