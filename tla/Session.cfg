\* Two watches on two connections; instances run out at the third call.
SPECIFICATION FairSessionSpec
CONSTANTS
    Conn = {c1, c2}
    File = {f1}
    None = None
    Workers = 2
    MaxInotify = 2
    Watch = {w1, w2}
    Target <- MCTarget
INVARIANTS
    SessionTypeOK
    CallsMatch
PROPERTIES
    ImplementsAlarm
    CaughtWriteIsNoticed
