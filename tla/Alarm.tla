------------------------------- MODULE Alarm --------------------------------
(***************************************************************************)
(* What a user of errifier may rely on.  A notice of a watch is of one of  *)
(* two kinds.  It stands for writes to the file of the watch that happened *)
(* since the watch was started and since its last such notice; or it says  *)
(* that the server went down, and then the connection of the watch has     *)
(* been lost and the watch has ended.  One notice may stand for several    *)
(* writes, and nothing is promised about writes, or losses, that are never *)
(* noticed.  A watch that does not run makes no notice.                    *)
(***************************************************************************)
EXTENDS Integers

CONSTANTS
    Watch,    \* the watches of a client
    File,     \* the files of a server, by their names
    Target    \* watch -> the file it watches

VARIABLES
    fresh,   \* watch -> 1 if its file has writes no notice or start accounts for
    line     \* watch -> its connection is "up" or "cut", the user is told that
             \* it is "down", or the watch is "off"

vars == <<fresh, line>>

Init ==
    /\ fresh = [w \in Watch |-> 0]
    /\ line = [w \in Watch |-> "off"]

Start(w) ==
    /\ line[w] = "off"
    /\ line' = [line EXCEPT ![w] = "up"]
    /\ fresh' = [fresh EXCEPT ![w] = 0]

Write(f) ==  \* to the file that has the name, or to one that had it
    /\ fresh' = [w \in Watch |-> IF Target[w] = f THEN 1 ELSE fresh[w]]
    /\ UNCHANGED line

Notice(w) ==  \* of a write
    /\ fresh[w] = 1 /\ line[w] \in {"up", "cut"}
    /\ fresh' = [fresh EXCEPT ![w] = @ - 1]
    /\ UNCHANGED line

Lose(some) ==
    /\ line' = [w \in Watch |-> IF w \in some /\ line[w] = "up" THEN "cut" ELSE line[w]]
    /\ UNCHANGED fresh

WentDown(w) ==  \* the other kind of notice
    /\ line[w] = "cut"
    /\ line' = [line EXCEPT ![w] = "down"]
    /\ UNCHANGED fresh

End(w) ==
    /\ line[w] # "off"
    /\ line' = [line EXCEPT ![w] = "off"]
    /\ UNCHANGED fresh

Next ==
    \/ \E w \in Watch : Start(w) \/ Notice(w) \/ WentDown(w) \/ End(w)
    \/ \E some \in SUBSET Watch : Lose(some)
    \/ \E f \in File : Write(f)

Spec == Init /\ [][Next]_vars
=============================================================================
