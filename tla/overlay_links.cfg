SPECIFICATION Spec
CONSTANTS
    a = a
    b = b
    net1 = net1
    net2 = net2
    lan = lan
    wan = wan
    k1 = k1
    k12 = k12
    ip1 = ip1
    eth1 = eth1
    Names = {a, b}
    Plans <- AllPlans
    Attrs = {"id", "dev", "local"}
    Values = {k1, k12, ip1, eth1}
    Unset = Unset
    Within <- LookAlike
    Dests = {lan, wan}
    Addrs = {net1, net2}
    None = None
    Default = Default
    Faults = {"engine", "delete", "create", "flush", "addr", "route", "lose", "restart"}
    MaxFaults = 3
    MaxRev = 3
INVARIANTS
    TypeOK
    LinksExact
    LeftoversForgotten
PROPERTIES
    KeepsUnchanged
