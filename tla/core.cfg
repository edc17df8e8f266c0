SPECIFICATION Spec
CONSTANTS
    wg0 = wg0
    wg1 = wg1
    d1 = d1
    d2 = d2
    m1 = m1
    m2 = m2
    s0 = s0
    s1 = s1
    sx = sx
    eth0 = eth0
    eth1 = eth1
    px = px
    p1 = p1
    xx = xx
    x1 = x1
    DefaultNic = DefaultNic
    NoRoute = NoRoute
    Absent = Absent
    Bare = Bare
    Names <- MCNames
    Devs <- MCDevs
    Mtus <- MCMtus
    Sources <- MCSources
    Nics <- MCNics
    PolicyEntries <- MCPolicyEntries
    ExtraEntries <- MCExtraEntries
    Untabled = {}
    PolicyAlike = {}
    ExtraAlike = {}
    Configs <- AllConfigs
    System = TRUE
    Faults = {"null"}
    MaxFaults = 2
    MaxRev = 3
INVARIANTS
    TypeOK
    CommitMatchesPublished
    DatapathExact
    NATExact
    NoStalePolicy
    StaleExtraConfined
PROPERTIES
    KeepsWantedDevices
