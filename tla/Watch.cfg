\* Rows of two servers; two threads, which can share a friendly name and a cell.
SPECIFICATION Spec
CONSTANTS
    Server = {s1, s2}
    Ip = {a1}
    File = {f1}
    Friendly = {n1, n2}
    HostServer = s1
    HostIp = a1
    Thread = {t1, t2}
    None = None
    Hoisted = TRUE
    MaxServers = 2
    MaxCells = 3
SYMMETRY Symmetric
INVARIANTS
    TypeOK
    RowIndexIsThreadIndex
    StatusMatchesState
    FriendlyNameIsKey
    KnownServerIp
    OrphanIsStopped
    AtMostOneLateNotice
PROPERTIES
    StopIsFinal
