\* Two entries and one row; lines of the log longer than a buffer of three.
SPECIFICATION Spec
CONSTANTS
    a = a
    Open = Open
    Closed = Closed
    Char = {a, Open, Closed}
    Nl = Nl
    Nul = Nul
    Byte = {x, Nl, Nul}
    Sep = Sep
    Refused = Refused
    None = None
    BufLen = 3
    MaxBytes = 3
    Name <- MCName
    Ip <- MCIp
    HostName <- MCHost
    HostIp <- MCHost
    Lines = {0, 1, 2, Refused}
    File <- MCFile
    MaxServers = 2
    MaxRows = 1
INVARIANTS
    TypeOK
    RowDialsItsServer
    LogIsComplete
PROPERTIES
    ActsOnEntered
    LookingChangesNothing
    WaysToEnd
CHECK_DEADLOCK FALSE
