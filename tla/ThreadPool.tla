----------------------------- MODULE ThreadPool -----------------------------
(***************************************************************************)
(* What the clients may rely on of the TThreadPoolServer the server is     *)
(* built with: connections are taken in the order they were accepted, as   *)
(* long as a worker is free; a worker stays with its connection, leaves it *)
(* only between two calls, and is then free for another one.  A restart    *)
(* drops everything.                                                       *)
(***************************************************************************)
EXTENDS Naturals, Sequences, FiniteSets

CONSTANTS
    Conn,      \* connections that can exist at the same time
    Workers    \* size of the thread pool

VARIABLES
    waiting,   \* accepted connections no worker has taken yet, oldest first
    serving,   \* connections that have a worker
    calling    \* those of them whose worker is inside a call that may wait

poolVars == <<waiting, serving, calling>>

Init == waiting = <<>> /\ serving = {} /\ calling = {}

Accept(c) ==
    /\ c \notin serving
    /\ \A i \in DOMAIN waiting : waiting[i] # c
    /\ waiting' = Append(waiting, c)
    /\ UNCHANGED <<serving, calling>>

Take ==
    /\ waiting # <<>>
    /\ Cardinality(serving) < Workers
    /\ waiting' = Tail(waiting)
    /\ serving' = serving \cup {Head(waiting)}
    /\ UNCHANGED calling

Enter(c) ==
    /\ c \in serving \ calling
    /\ calling' = calling \cup {c}
    /\ UNCHANGED <<waiting, serving>>

Leave(c) ==
    /\ c \in calling
    /\ calling' = calling \ {c}
    /\ UNCHANGED <<waiting, serving>>

Release(c) ==
    /\ c \in serving \ calling
    /\ serving' = serving \ {c}
    /\ UNCHANGED <<waiting, calling>>

Restart == waiting' = <<>> /\ serving' = {} /\ calling' = {}

Next ==
    \/ Take \/ Restart
    \/ \E c \in Conn : Accept(c) \/ Enter(c) \/ Leave(c) \/ Release(c)

Spec == Init /\ [][Next]_poolVars
=============================================================================
