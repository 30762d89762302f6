\* Two watches, one of which ends.
SPECIFICATION SessionSpec
CONSTANTS
    Conn = {c1, c2}
    File = {f1}
    None = None
    Workers = 2
    MaxInotify = 2
    Watch = {w1, w2}
    Target <- MCTarget
PROPERTIES
    EveryReportIsShown
