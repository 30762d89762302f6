----------------------------- MODULE LogServer ------------------------------
(***************************************************************************)
(* The errifier server: a Thrift TThreadPoolServer whose workers each      *)
(* serve one connection until it closes, and the handler of the service    *)
(* workerHandler.  ping, getLog and isFileExist answer at once;            *)
(* startNotifier keeps its worker in read() on an inotify instance of its  *)
(* own until the watched file is modified.                                 *)
(*                                                                         *)
(* The clients are the environment: any of them may connect, send one      *)
(* request at a time and go away at any moment, also in the middle of a    *)
(* call.  So are the programs that write, remove and create the files.     *)
(*                                                                         *)
(* Definitions named Bug... are steps with one plausible mistake each: a   *)
(* property must fail when one of them takes the place of the definition   *)
(* that follows it.                                                        *)
(***************************************************************************)
EXTENDS Naturals, Sequences, FiniteSets

CONSTANTS
    Conn,         \* connections that can exist at the same time
    File,         \* paths on the server
    None,         \* no request
    Workers,      \* size of the thread pool, SERVER_THREAD
    MaxInotify    \* inotify instances the kernel grants to one user

ASSUME WorkersAssumption == Workers \in Nat \ {0}
ASSUME MaxInotifyAssumption == MaxInotify \in Nat

VARIABLES
    link,       \* is the client's end of the connection open
    req,        \* the request a client waits on, or None
    task,       \* what the server does for a connection
    queue,      \* accepted connections no worker has taken yet, oldest first
    event,      \* an IN_MODIFY event is queued on the connection's instance
    instances,  \* inotify instances the server process holds
    exists      \* files that exist

vars == <<link, req, task, queue, event, instances, exists>>

QuickOp == {"ping", "getLog", "isFileExist"}
Request == [op : QuickOp \cup {"startNotifier"}, file : File]

(***************************************************************************)
(* "ready": a worker waits for the next request of the connection.         *)
(* "armed": it reads an instance that watches the file.                    *)
(* "old"  : the file it watches has lost its name, and lives on while a    *)
(*          program still writes to it, or under another name.             *)
(* "mute" : it reads an instance that watches nothing (any more).          *)
(* "spin" : it reads the descriptor -1 for ever.                           *)
(***************************************************************************)
Alert == {"armed", "old"}
TaskPc == {"none", "queued", "ready", "mute", "spin"} \cup Alert

Busy == {c \in Conn : task[c] \notin {"none", "queued"}}
Watching(f) == {c \in Conn : task[c] = "armed" /\ req[c].file = f}
WatchingOld(f) == {c \in Conn : task[c] = "old" /\ req[c].file = f}

Init ==
    /\ link = [c \in Conn |-> FALSE]
    /\ req = [c \in Conn |-> None]
    /\ task = [c \in Conn |-> "none"]
    /\ queue = <<>>
    /\ event = [c \in Conn |-> FALSE]
    /\ instances = 0
    /\ exists \in SUBSET File

-----------------------------------------------------------------------------
(***************************************************************************)
(* Clients.                                                                *)
(***************************************************************************)
Connect(c) ==  \* accepted and added to the thread manager at once
    /\ ~link[c] /\ task[c] = "none"
    /\ link' = [link EXCEPT ![c] = TRUE]
    /\ task' = [task EXCEPT ![c] = "queued"]
    /\ queue' = Append(queue, c)
    /\ UNCHANGED <<req, event, instances, exists>>

Send(c, r) ==
    /\ link[c] /\ req[c] = None
    /\ req' = [req EXCEPT ![c] = r]
    /\ UNCHANGED <<link, task, queue, event, instances, exists>>

Close(c) ==  \* transport->close(), or the client process is gone
    /\ link[c]
    /\ link' = [link EXCEPT ![c] = FALSE]
    /\ UNCHANGED <<req, task, queue, event, instances, exists>>

-----------------------------------------------------------------------------
(***************************************************************************)
(* The thread pool.                                                        *)
(***************************************************************************)
BugPoolUnbounded ==
    /\ queue # <<>>
    /\ task' = [task EXCEPT ![Head(queue)] = "ready"]
    /\ queue' = Tail(queue)
    /\ UNCHANGED <<link, req, event, instances, exists>>

BugServeNewest ==
    /\ queue # <<>>
    /\ Cardinality(Busy) < Workers
    /\ task' = [task EXCEPT ![queue[Len(queue)]] = "ready"]
    /\ queue' = SubSeq(queue, 1, Len(queue) - 1)
    /\ UNCHANGED <<link, req, event, instances, exists>>

Serve ==  \* a free worker takes the oldest connection
    /\ queue # <<>>
    /\ Cardinality(Busy) < Workers
    /\ task' = [task EXCEPT ![Head(queue)] = "ready"]
    /\ queue' = Tail(queue)
    /\ UNCHANGED <<link, req, event, instances, exists>>

BugHangUpInCall(c) ==
    /\ c \in Busy /\ ~link[c]
    /\ task' = [task EXCEPT ![c] = "none"]
    /\ req' = [req EXCEPT ![c] = None]
    /\ event' = [event EXCEPT ![c] = FALSE]
    /\ UNCHANGED <<link, queue, instances, exists>>

HangUp(c) ==  \* the read of the next request, or the write of a reply, fails
    /\ task[c] = "ready" /\ ~link[c]
    /\ task' = [task EXCEPT ![c] = "none"]
    /\ req' = [req EXCEPT ![c] = None]
    /\ UNCHANGED <<link, queue, event, instances, exists>>

-----------------------------------------------------------------------------
(***************************************************************************)
(* The handler.                                                            *)
(***************************************************************************)
BugGetLogHasNoReply(c) ==
    /\ task[c] = "ready" /\ link[c]
    /\ req[c] # None /\ req[c].op \in QuickOp \ {"getLog"}
    /\ req' = [req EXCEPT ![c] = None]
    /\ UNCHANGED <<link, task, queue, event, instances, exists>>

Answer(c) ==  \* ping, getLog, isFileExist
    /\ task[c] = "ready" /\ link[c]
    /\ req[c] # None /\ req[c].op \in QuickOp
    /\ req' = [req EXCEPT ![c] = None]
    /\ UNCHANGED <<link, task, queue, event, instances, exists>>

(***************************************************************************)
(* startNotifier up to its first read().  Neither inotify_init nor         *)
(* inotify_add_watch stops it when they fail: it reads on without a watch, *)
(* or from the descriptor -1.                                              *)
(***************************************************************************)
Notifier(c) == task[c] = "ready" /\ req[c] # None /\ req[c].op = "startNotifier"

InitFails(c) ==
    /\ Notifier(c)
    /\ instances = MaxInotify
    /\ task' = [task EXCEPT ![c] = "spin"]
    /\ UNCHANGED <<link, req, queue, event, instances, exists>>

BugArmUnlimited(c) ==
    /\ Notifier(c)
    /\ instances' = instances + 1
    /\ task' = [task EXCEPT ![c] = IF req[c].file \in exists THEN "armed" ELSE "mute"]
    /\ UNCHANGED <<link, req, queue, event, exists>>

Arm(c) ==
    /\ Notifier(c)
    /\ instances < MaxInotify
    /\ instances' = instances + 1
    /\ task' = [task EXCEPT ![c] = IF req[c].file \in exists THEN "armed" ELSE "mute"]
    /\ UNCHANGED <<link, req, queue, event, exists>>

BugEventNotConsumed(c) ==
    /\ task[c] \in Alert /\ event[c]
    /\ req' = [req EXCEPT ![c] = None]
    /\ task' = [task EXCEPT ![c] = "ready"]
    /\ UNCHANGED <<link, queue, event, instances, exists>>

BugReportNeedsClient(c) ==
    /\ task[c] \in Alert /\ event[c] /\ link[c]
    /\ event' = [event EXCEPT ![c] = FALSE]
    /\ req' = [req EXCEPT ![c] = None]
    /\ task' = [task EXCEPT ![c] = "ready"]
    /\ UNCHANGED <<link, queue, instances, exists>>

BugReportKeepsReading(c) ==
    /\ task[c] \in Alert /\ event[c]
    /\ event' = [event EXCEPT ![c] = FALSE]
    /\ UNCHANGED <<link, req, task, queue, instances, exists>>

(***************************************************************************)
(* read() returns the IN_MODIFY event: return 1, without closing the       *)
(* instance.  The worker learns only now that its client went away.        *)
(***************************************************************************)
Report(c) ==
    /\ task[c] \in Alert /\ event[c]
    /\ event' = [event EXCEPT ![c] = FALSE]
    /\ req' = [req EXCEPT ![c] = None]
    /\ task' = [task EXCEPT ![c] = "ready"]
    /\ UNCHANGED <<link, queue, instances, exists>>

-----------------------------------------------------------------------------
(***************************************************************************)
(* Files.  A watch is on the inode that had the name when it was added.    *)
(* Removing a file also stands for renaming it; together with the creation *)
(* of the next one it is the rotation of a log.                            *)
(***************************************************************************)
Modify(f) ==
    /\ f \in exists
    /\ event' = [c \in Conn |-> event[c] \/ c \in Watching(f)]
    /\ UNCHANGED <<link, req, task, queue, instances, exists>>

Remove(f) ==
    /\ f \in exists
    /\ exists' = exists \ {f}
    /\ task' = [c \in Conn |-> IF c \in Watching(f) THEN "old" ELSE task[c]]
    /\ UNCHANGED <<link, req, queue, event, instances>>

(***************************************************************************)
(* A program that has not noticed writes on to a file that had the name,   *)
(* one of those that some calls still watch.                               *)
(***************************************************************************)
ModifyOld(f) ==
    \E some \in SUBSET WatchingOld(f) \ {{}} :
        /\ event' = [c \in Conn |-> event[c] \/ c \in some]
        /\ UNCHANGED <<link, req, task, queue, instances, exists>>

(***************************************************************************)
(* The last user of such a file closes it: IN_IGNORED wakes the reader,    *)
(* which goes back to read(), unless an IN_MODIFY is queued before it.     *)
(***************************************************************************)
InodeGone(f) ==
    \E some \in SUBSET WatchingOld(f) \ {{}} :
        /\ task' = [c \in Conn |-> IF c \in some /\ ~event[c] THEN "mute" ELSE task[c]]
        /\ UNCHANGED <<link, req, queue, event, instances, exists>>

Create(f) ==
    /\ f \notin exists
    /\ exists' = exists \cup {f}
    /\ UNCHANGED <<link, req, task, queue, event, instances>>

(***************************************************************************)
(* The server process dies and is started again: its connections break and *)
(* the kernel frees its instances.                                         *)
(***************************************************************************)
Crash ==
    /\ link' = [c \in Conn |-> FALSE]
    /\ req' = [c \in Conn |-> None]
    /\ task' = [c \in Conn |-> "none"]
    /\ queue' = <<>>
    /\ event' = [c \in Conn |-> FALSE]
    /\ instances' = 0
    /\ UNCHANGED exists

-----------------------------------------------------------------------------
ServerStep(c) == HangUp(c) \/ Answer(c) \/ InitFails(c) \/ Arm(c) \/ Report(c)

ClientStep(c) == Connect(c) \/ Close(c) \/ \E r \in Request : Send(c, r)

FileStep(f) ==
    Modify(f) \/ Remove(f) \/ Create(f) \/ ModifyOld(f) \/ InodeGone(f)

Next ==
    \/ Serve
    \/ \E c \in Conn : ServerStep(c) \/ ClientStep(c)
    \/ \E f \in File : FileStep(f)
    \/ Crash

Spec == Init /\ [][Next]_vars

\* Every worker is scheduled; clients, files and crashes owe nothing.
Fairness == WF_vars(Serve) /\ \A c \in Conn : WF_vars(ServerStep(c))

FairSpec == Spec /\ Fairness

-----------------------------------------------------------------------------
\* The values of the variables; a worker inside startNotifier has its request.
TypeOK ==
    /\ link \in [Conn -> BOOLEAN]
    /\ req \in [Conn -> Request \cup {None}]
    /\ task \in [Conn -> TaskPc]
    /\ queue \in Seq(Conn)
    /\ event \in [Conn -> BOOLEAN]
    /\ instances \in 0 .. MaxInotify
    /\ exists \in SUBSET File
    /\ \A c \in Conn : task[c] \in Alert \cup {"mute", "spin"} =>
           req[c] # None /\ req[c].op = "startNotifier"

(***************************************************************************)
(* The pool never serves more connections than it has workers, although a  *)
(* connection keeps its worker through all its calls and past its client's *)
(* end, and the queue holds each waiting connection exactly once, also     *)
(* across a restart.                                                       *)
(***************************************************************************)
PoolIsBounded ==
    /\ Cardinality(Busy) <= Workers
    /\ Cardinality({c \in Conn : task[c] = "queued"}) = Len(queue)
    /\ \A c \in Conn : task[c] = "queued" <=> \E i \in DOMAIN queue : queue[i] = c

(***************************************************************************)
(* The handler is served by a pool as ThreadPool promises it: whatever the *)
(* clients, the files and crashes do, connections are taken in order and a *)
(* worker leaves one only between calls, also when its client is gone.     *)
(***************************************************************************)
Waits == {c \in Conn : task[c] \in Alert \cup {"mute", "spin"}}

Pool == INSTANCE ThreadPool WITH waiting <- queue, serving <- Busy, calling <- Waits

ImplementsThreadPool == Pool!Spec

(***************************************************************************)
(* No report without a write of its own: an event waits only on the        *)
(* instance of the call that is being served, so that the write a call     *)
(* reported, or one before the call, is never reported by the next call.   *)
(***************************************************************************)
EventIsOfThisCall == \A c \in Conn : event[c] => task[c] \in Alert

(***************************************************************************)
(* A write to a watched file ends the call that watches it, whatever       *)
(* happens to the client or to the file afterwards.                        *)
(***************************************************************************)
WriteEndsCall == \A c \in Conn : event[c] ~> task[c] \notin Alert

(***************************************************************************)
(* A worker whose client has closed the connection comes back to the pool: *)
(* at once between calls and in a quick call, and after the next write to  *)
(* the file in a startNotifier.  (The server is told of a close; it may    *)
(* never be told of a machine that is gone.)                               *)
(***************************************************************************)
WorkerComesBack ==
    \A c \in Conn :
        ~link[c] /\ (event[c] \/ (task[c] = "ready" /\ ~Notifier(c)))
            ~> task[c] = "none"

(***************************************************************************)
(* A connection that waits for a worker is served if a worker is free time *)
(* and again, however many others come and go.  The client's UI thread     *)
(* waits behind it.                                                        *)
(***************************************************************************)
QueueIsFair ==
    []<>(Cardinality(Busy) < Workers) =>
        \A c \in Conn : task[c] = "queued" ~> task[c] # "queued"

(***************************************************************************)
(* Once a worker serves a connection, each of its quick calls is answered. *)
(***************************************************************************)
QuickCallIsAnswered ==
    \A c \in Conn :
        task[c] = "ready" /\ req[c] # None /\ req[c].op \in QuickOp
            ~> req[c] = None

-----------------------------------------------------------------------------
(***************************************************************************)
(* What the comments say and the code does not do.                         *)
(***************************************************************************)

(***************************************************************************)
(* startNotifier "Watches the file for any changes using inotify": a       *)
(* worker inside the call waits on an inotify instance.                    *)
(***************************************************************************)
NotifierHasInstance == \A c \in Conn : task[c] # "spin"

(***************************************************************************)
(* The ping button "tells you whether your server programming(i.e errifier *)
(* server is running or not": a ping to a running server is answered.      *)
(***************************************************************************)
PingIsAnswered ==
    \A c \in Conn :
        req[c] # None /\ req[c].op = "ping" ~> req[c] = None \/ ~link[c]
=============================================================================
