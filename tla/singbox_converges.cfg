SPECIFICATION FairSpec
CONSTANTS
    e1 = e1
    e2 = e2
    c1 = c1
    c2 = c2
    c3 = c3
    usrlocal = usrlocal
    opt = opt
    Engines = {e1, e2}
    Paths = {usrlocal, opt}
    Target = usrlocal
    RetryAfter = 2
    Nobody = Nobody
    Faults = {"install", "uninstall", "exit", "start", "restart"}
    MaxFaults = 2
    Configurations = {Empty, c1, c2, c3}
    Empty = Empty
    Kernel = Kernel
    Asks <- Repeats
    OwnBinPath <- OwnPaths
    ConfigPath = Default
    Default = Default
    NodeID <- TwoNodes
    Pids = {1, 2, 3, 4, 5, 6, 7, 8}
    None = None
PROPERTIES
    NoticesExit
    Converges
