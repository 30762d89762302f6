\* One watch of one file, on a server that has all it needs.
SPECIFICATION FairSessionSpec
CONSTANTS
    Conn = {c1}
    File = {f1}
    None = None
    Workers = 2
    MaxInotify = 2
    Watch = {w1}
    Target <- MCTarget
PROPERTIES
    EveryWriteIsNoticed
