SPECIFICATION Spec
CONSTANTS
    e1 = e1
    e2 = e2
    c1 = c1
    c2 = c2
    c3 = c3
    usrlocal = usrlocal
    opt = opt
    Engines = {e1, e2}
    Paths = {usrlocal, opt}
    Target = usrlocal
    RetryAfter = 1
    Nobody = Nobody
    Faults = {"install", "exit", "write", "restart"}
    MaxFaults = 2
    Configurations = {Empty, c1, c2, c3}
    Empty = Empty
    Kernel = Kernel
    Asks <- Changes
    OwnBinPath <- OwnPaths
    ConfigPath = Default
    Default = Default
    NodeID <- TwoNodes
    Pids = {1, 2, 3, 4, 5, 6, 7, 8}
    None = None
INVARIANTS
    TypeOK
    ChildTracked
    RunsOwn
PROPERTIES
    SharesAttempt
    ServesAsked
