\* Two calls in a row on one connection, to a server of another version.
SPECIFICATION FairSpec
CONSTANTS
    Method <- Methods
    Offered <- OtherOffered
    Value = {v1, v2}
    None = None
    Thrown = Thrown
    ClientArgs <- Pargs
    ServerArgs <- OtherArgs
    ClientResult <- Presult
    ServerResult <- OtherResult
    MaxCalls = 2
INVARIANTS
    TypeOK
    InSync
PROPERTIES
    ImplementsRemoteCall
    CallEnds
CHECK_DEADLOCK FALSE
