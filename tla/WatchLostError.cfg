\* One watch, one crash.
SPECIFICATION Spec
CONSTANTS
    Server = {s1}
    Ip = {a1}
    File = {f1}
    Friendly = {n1}
    HostServer = s1
    HostIp = a1
    Thread = {t1, t2}
    None = None
    Hoisted = FALSE
    MaxServers = 1
    MaxCells = 2
INVARIANTS
    ActiveRowIsWatched
