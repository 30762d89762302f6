------------------------------ MODULE Session -------------------------------
(***************************************************************************)
(* One client and one server together: the threads of WorkerThread, each   *)
(* in startWatch with a connection of its own, the server's handler and    *)
(* thread pool of LogServer, and the replies and breaks between them.  It  *)
(* answers what neither side shows alone: what a write to a watched file   *)
(* comes to, all the way to the notice on the screen.                      *)
(*                                                                         *)
(* The table of the window and the handlers' steps are in WatchTable; here *)
(* a user action is one step on the cell of a watch.  `fresh` is history,  *)
(* and so is the difference between "told" and "leave".                    *)
(*                                                                         *)
(* Definitions named Bug... are steps with one plausible mistake each: a   *)
(* property must fail when one of them takes the place of the definition   *)
(* that follows it.                                                        *)
(***************************************************************************)
EXTENDS LogServer, Integers

CONSTANTS
    Watch,      \* watches of the client: rows of its table
    Target      \* watch -> its file

ASSUME TargetAssumption == Target \in [Watch -> File]
ASSUME NoneAssumption == None \notin Conn \cup Request

VARIABLES
    threads,   \* watch -> what its thread does, its connection, its *runstate
    reply,     \* connection -> the server's 1 has arrived or is under way
    deaf,      \* lost connections whose loss the client has not been told of
    initted,   \* libnotify's notify_is_initted(), one for the whole process
    fresh      \* watch -> 1 if written since its start and its last notice of
               \* a write, which takes 1 away

client == <<threads, reply, deaf, initted>>
svars == <<vars, client, fresh>>

RunState == {"LOCK", "RUN", "STOP"}
ThreadPc == {"off", "init", "poll", "call", "leave", "told"}

\* Nobody reads the cell of a thread that has ended before it is set again.
Ended(at) == [at |-> at, conn |-> None, state |-> "STOP"]

Off == Ended("off")

SessionInit ==
    /\ Init
    /\ threads = [w \in Watch |-> Off]
    /\ reply = [c \in Conn |-> FALSE]
    /\ deaf = {}
    /\ initted = FALSE
    /\ fresh = [w \in Watch |-> 0]

Owns(w, c) == threads[w].conn = c
InCall(w) == threads[w].at = "call"
NotifierFor(w) == [op |-> "startNotifier", file |-> Target[w]]

-----------------------------------------------------------------------------
(***************************************************************************)
(* The user.                                                               *)
(***************************************************************************)

(***************************************************************************)
(* startNewThread, or startTimedoutThread for a row whose thread has       *)
(* ended: open a connection, set the cell to RUN, start the thread.  A     *)
(* connection is a new one: no thread holds it and no worker serves it.    *)
(***************************************************************************)
Start(w, c) ==
    /\ threads[w] = Off
    /\ \A v \in Watch : ~Owns(v, c)
    /\ Connect(c)
    /\ threads' = [threads EXCEPT ![w] = [at |-> "init", conn |-> c, state |-> "RUN"]]
    /\ fresh' = [fresh EXCEPT ![w] = 0]
    /\ UNCHANGED <<reply, deaf, initted>>

\* setThreadLock, setThreadRun, or removeServer
SetState(w, state) ==
    /\ threads[w].state # "STOP"
    /\ threads' = [threads EXCEPT ![w].state = state]
    /\ UNCHANGED <<vars, reply, deaf, initted, fresh>>

-----------------------------------------------------------------------------
(***************************************************************************)
(* A watch thread.                                                         *)
(***************************************************************************)
Goto(w, at) == threads' = [threads EXCEPT ![w].at = at]

Begin(w) ==  \* notify_init
    /\ threads[w].at = "init"
    /\ Goto(w, "poll")
    /\ initted' = TRUE
    /\ UNCHANGED <<vars, reply, deaf, fresh>>

Call(w) ==  \* startNotifier: over a lost connection nothing arrives
    /\ threads[w].at = "poll" /\ threads[w].state = "RUN"
    /\ Goto(w, "call")
    /\ \/ Send(threads[w].conn, NotifierFor(w))
       \/ ~link[threads[w].conn] /\ UNCHANGED vars
    /\ UNCHANGED <<reply, deaf, initted, fresh>>

BugReplyIgnored(w) ==
    /\ InCall(w) /\ reply[threads[w].conn]
    /\ Goto(w, "poll")
    /\ reply' = [reply EXCEPT ![threads[w].conn] = FALSE]
    /\ UNCHANGED <<vars, deaf, initted, fresh>>

(***************************************************************************)
(* The reply is read and a notice made of it; libnotify shows none unless  *)
(* it is initialized.                                                      *)
(***************************************************************************)
Notify(w) ==
    /\ InCall(w) /\ reply[threads[w].conn]
    /\ Goto(w, "poll")
    /\ reply' = [reply EXCEPT ![threads[w].conn] = FALSE]
    /\ fresh' = IF initted THEN [fresh EXCEPT ![w] = @ - 1] ELSE fresh
    /\ UNCHANGED <<vars, deaf, initted>>

BugThrowInLoop(w) ==
    /\ InCall(w)
    /\ ~link[threads[w].conn] /\ ~reply[threads[w].conn]
    /\ threads[w].conn \notin deaf
    /\ threads' = [threads EXCEPT ![w] = [@ EXCEPT !.at = "poll", !.conn = None]]
    /\ initted' = FALSE
    /\ UNCHANGED <<vars, reply, deaf, fresh>>

(***************************************************************************)
(* The read fails, once the client is told of the loss: the catch block up *)
(* to its notify_uninit.  Its notice that the server went down is shown,   *)
(* like any other, if libnotify is initialized ("told").                   *)
(***************************************************************************)
Throw(w) ==
    /\ InCall(w)
    /\ ~link[threads[w].conn] /\ ~reply[threads[w].conn]
    /\ threads[w].conn \notin deaf
    /\ threads' = [threads EXCEPT ![w] = Ended(IF initted THEN "told" ELSE "leave")]
    /\ initted' = FALSE
    /\ UNCHANGED <<vars, reply, deaf, fresh>>

Finish(w) ==  \* the loop ends, transport->close()
    /\ threads[w].at = "poll" /\ threads[w].state = "STOP"
    /\ threads' = [threads EXCEPT ![w] = Ended("leave")]
    /\ \/ Close(threads[w].conn)
       \/ ~link[threads[w].conn] /\ UNCHANGED vars
    /\ deaf' = deaf \ {threads[w].conn}
    /\ UNCHANGED <<reply, initted, fresh>>

Leave(w) ==  \* the notify_uninit every thread ends with
    /\ threads[w].at \in {"leave", "told"}
    /\ threads' = [threads EXCEPT ![w] = Off]
    /\ initted' = FALSE
    /\ UNCHANGED <<vars, reply, deaf, fresh>>

-----------------------------------------------------------------------------
(***************************************************************************)
(* The server; its 1 goes to the client if there still is one.  It need    *)
(* not be told either that a connection is lost.                           *)
(***************************************************************************)
SendReply(c) ==
    /\ Report(c)
    /\ reply' = [reply EXCEPT ![c] = link[c]]
    /\ UNCHANGED <<threads, deaf, initted, fresh>>

ServerRuns(c) == (InitFails(c) \/ Arm(c)) /\ UNCHANGED <<client, fresh>>

HangsUp(c) == HangUp(c) /\ UNCHANGED <<client, fresh>>

PoolRuns == Serve /\ UNCHANGED <<client, fresh>>

-----------------------------------------------------------------------------
(***************************************************************************)
(* The environment.  A connection may be lost while the server goes on,    *)
(* and all of them are when it dies; a reply under way may then be lost,   *)
(* too.  The client is told of it at once (Tell), much later or, if the    *)
(* network or the server's machine is gone, never: it sets no timeout and  *)
(* asks for no keep-alive.                                                 *)
(***************************************************************************)
Break(c) ==
    /\ Close(c)
    /\ reply' \in {reply, [reply EXCEPT ![c] = FALSE]}
    /\ deaf' = deaf \cup {c}
    /\ UNCHANGED <<threads, initted, fresh>>

ServerDies ==
    /\ Crash
    /\ \E lost \in SUBSET {c \in Conn : reply[c]} :
           reply' = [c \in Conn |-> reply[c] /\ c \notin lost]
    /\ deaf' = deaf \cup {c \in Conn : link[c]}
    /\ UNCHANGED <<threads, initted, fresh>>

Tell(c) ==
    /\ c \in deaf
    /\ deaf' = deaf \ {c}
    /\ UNCHANGED <<vars, threads, reply, initted, fresh>>

Written(f) ==
    /\ fresh' = [w \in Watch |-> IF Target[w] = f THEN 1 ELSE fresh[w]]
    /\ UNCHANGED client

Write(f) == (Modify(f) \/ ModifyOld(f)) /\ Written(f)

Rotate(f) == (Remove(f) \/ Create(f) \/ InodeGone(f)) /\ UNCHANGED <<client, fresh>>

-----------------------------------------------------------------------------
ThreadStep(w) ==
    Begin(w) \/ Call(w) \/ Notify(w) \/ Throw(w) \/ Finish(w) \/ Leave(w)

WorkerStep(c) == SendReply(c) \/ ServerRuns(c)

SessionNext ==
    \/ \E w \in Watch :
        \/ \E c \in Conn : Start(w, c)
        \/ \E state \in RunState : SetState(w, state)
        \/ ThreadStep(w)
    \/ \E c \in Conn :
        WorkerStep(c) \/ HangsUp(c) \/ Break(c) \/ Tell(c)
    \/ PoolRuns \/ ServerDies
    \/ \E f \in File : Write(f) \/ Rotate(f)

SessionSpec == SessionInit /\ [][SessionNext]_svars

\* Both programs are scheduled; user, network and files owe nothing, nor does
\* anyone tell the client or the server that a connection is lost.
SessionFairness ==
    /\ \A w \in Watch : WF_svars(ThreadStep(w))
    /\ \A c \in Conn : WF_svars(WorkerStep(c))
    /\ WF_svars(PoolRuns)

FairSessionSpec == SessionSpec /\ SessionFairness

-----------------------------------------------------------------------------
(***************************************************************************)
(* The values of the variables.  A thread holds a connection from its      *)
(* start to the end of its loop, and no two hold the same.                 *)
(***************************************************************************)
SessionTypeOK ==
    /\ threads \in [Watch -> [at : ThreadPc, conn : Conn \cup {None}, state : RunState]]
    /\ reply \in [Conn -> BOOLEAN]
    /\ deaf \in SUBSET Conn
    /\ initted \in BOOLEAN
    /\ fresh \in [Watch -> {0, 1}]
    /\ \A w \in Watch :
           threads[w].conn = None <=> threads[w].at \in {"off", "leave", "told"}
    /\ \A w, v \in Watch :
           threads[w].conn = threads[v].conn /\ threads[w].conn # None => w = v

(***************************************************************************)
(* Client and server agree on where a call is, across breaks, restarts and *)
(* connections whose client is gone: a request the server holds for an     *)
(* open connection, and a reply on its way, belong to a thread that waits  *)
(* in startNotifier for its own file, and never both at once.              *)
(***************************************************************************)
CallsMatch ==
    \A c \in Conn :
        /\ link[c] /\ req[c] # None =>
               \E w \in Watch : Owns(w, c) /\ InCall(w) /\ req[c] = NotifierFor(w)
        /\ reply[c] => req[c] = None /\ \E w \in Watch : Owns(w, c) /\ InCall(w)

(***************************************************************************)
(* No false alarm: every notice on the screen either stands for a write,   *)
(* to the file of that name or to one that had it, since the watch's last  *)
(* such notice and since its thread was started; or it says that the       *)
(* server went down, stands for a connection that is lost, and is the last *)
(* one of its thread.                                                      *)
(***************************************************************************)
Line ==
    [w \in Watch |-> CASE threads[w].at \in {"off", "leave"} -> "off"
                      [] threads[w].at = "told" -> "down"
                      [] OTHER -> IF link[threads[w].conn] THEN "up" ELSE "cut"]

Promise == INSTANCE Alarm WITH fresh <- fresh, line <- Line

ImplementsAlarm == Promise!Spec

(***************************************************************************)
(* A write that reaches the inotify instance of a running watch's call is  *)
(* noticed: the thread shows a notice made after it, unless the connection *)
(* is lost first (also silently), the user pauses or removes the watch, or *)
(* another thread has shut libnotify down.                                 *)
(***************************************************************************)
Running(w) == threads[w].state = "RUN"
Connected(w) == threads[w].conn # None /\ link[threads[w].conn]
Caught(w) == InCall(w) /\ Running(w) /\ event[threads[w].conn]

CaughtWriteIsNoticed ==
    \A w \in Watch :
        Caught(w) ~> fresh[w] = 0 \/ ~initted \/ ~Connected(w) \/ ~Running(w)

-----------------------------------------------------------------------------
(***************************************************************************)
(* What the documents say and the code does not do.                        *)
(***************************************************************************)

(***************************************************************************)
(* "get notified about the error as soon as it occurs" (README.md:9): a    *)
(* watch that is running on a connection that works, and whose calls watch *)
(* the file whenever they are on the server, gets to know of every write   *)
(* to it, also of one made before its first call has added the watch, or   *)
(* between a reply and the moment when the next call has.                  *)
(***************************************************************************)
OnWatch(w) ==
    /\ threads[w].at \in {"poll", "call"} /\ Running(w)
    /\ Connected(w) /\ initted /\ Target[w] \in exists
    /\ task[threads[w].conn] \notin {"old", "mute", "spin"}

EveryWriteIsNoticed ==
    \A w \in Watch : OnWatch(w) /\ fresh[w] = 1 ~> fresh[w] = 0 \/ ~OnWatch(w)

(***************************************************************************)
(* errifier makes "your job easy, by looking for errors and then by        *)
(* notifying you about it" (README.md:11): a report of the server that a   *)
(* thread reads is shown.                                                  *)
(***************************************************************************)
EveryReportIsShown == [][\A w \in Watch : Notify(w) => initted]_svars
=============================================================================
