\* As many watches as workers, and one ping.
SPECIFICATION FairSpec
CONSTANTS
    Conn = {c1, c2, c3}
    File = {f1}
    None = None
    Workers = 2
    MaxInotify = 2
PROPERTIES
    PingIsAnswered
