\* A friendly name is used again after its server was removed.
SPECIFICATION Spec
CONSTANTS
    Server = {s1}
    Ip = {a1}
    File = {f1}
    Friendly = {n1}
    HostServer = s1
    HostIp = a1
    Thread = {t1, t2}
    None = None
    Hoisted = FALSE
    MaxServers = 1
    MaxCells = 2
PROPERTIES
    ErrorMarksOwnRow
