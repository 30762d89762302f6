\* Three connections compete for two workers and two inotify instances.
SPECIFICATION FairSpec
CONSTANTS
    Conn = {c1, c2, c3}
    File = {f1}
    None = None
    Workers = 2
    MaxInotify = 2
INVARIANTS
    TypeOK
    PoolIsBounded
    EventIsOfThisCall
PROPERTIES
    WriteEndsCall
    WorkerComesBack
    QuickCallIsAnswered
    QueueIsFair
    ImplementsThreadPool
