\* Every handler and every thread step is scheduled; a build may read the cell once.
SPECIFICATION FairSpec
CONSTANTS
    Server = {s1, s2}
    Ip = {a1}
    File = {f1}
    Friendly = {n1, n2}
    HostServer = s1
    HostIp = a1
    Thread = {t1}
    None = None
    Hoisted = TRUE
    MaxServers = 2
    MaxCells = 2
PROPERTIES
    ImplementsWatchList
    HandlerReturns
    BrokenConnectionEnds
    StoppedWatchEnds
