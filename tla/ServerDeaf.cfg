\* One connection that watches one file over and over.
SPECIFICATION Spec
CONSTANTS
    Conn = {c1}
    File = {f1}
    None = None
    Workers = 1
    MaxInotify = 2
INVARIANTS
    NotifierHasInstance
