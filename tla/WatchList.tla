----------------------------- MODULE WatchList ------------------------------
(***************************************************************************)
(* What a user may rely on of the list of watches: each of the operations  *)
(* happens at once.  No two listed watches have a friendly name in common; *)
(* a switch acts on one listed watch; removing a server takes all of its   *)
(* watches and no other, and none of those runs again.                     *)
(***************************************************************************)
CONSTANTS
    Watch,             \* identities of watches, never used twice
    Server, Friendly   \* the names a user gives

VARIABLES
    listed,   \* the watches on the list
    switch    \* watch ever started -> what it was told last

listVars == <<listed, switch>>

Init == listed = {} /\ DOMAIN switch = {}

Add(c, s, n) ==
    /\ c \notin DOMAIN switch
    /\ \A w \in listed : w.friendly # n
    /\ listed' = listed \cup {[server |-> s, friendly |-> n, watch |-> c]}
    /\ switch' = [d \in DOMAIN switch \cup {c} |-> IF d = c THEN "RUN" ELSE switch[d]]

Remove(s) ==
    LET removed == {w \in listed : w.server = s}
    IN  /\ listed' = listed \ removed
        /\ switch' = [c \in DOMAIN switch |->
                         IF \E w \in removed : w.watch = c THEN "STOP" ELSE switch[c]]

Pause(w) ==
    /\ switch[w.watch] = "RUN"
    /\ switch' = [switch EXCEPT ![w.watch] = "LOCK"]
    /\ UNCHANGED listed

Resume(w) ==
    /\ switch[w.watch] # "STOP"
    /\ switch' = [switch EXCEPT ![w.watch] = "RUN"]
    /\ UNCHANGED listed

Next ==
    \/ \E c \in Watch, s \in Server, n \in Friendly : Add(c, s, n)
    \/ \E s \in Server : Remove(s)
    \/ \E w \in listed : Pause(w) \/ Resume(w)

Spec == Init /\ [][Next]_listVars
=============================================================================
