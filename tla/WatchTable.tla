----------------------------- MODULE WatchTable -----------------------------
(***************************************************************************)
(* The watches of an errifier client: the table of the main window, the    *)
(* ThreadWrap list behind it, and the boost threads that run               *)
(* WorkerThread::startWatch.  The UI thread and the watch threads share    *)
(* the QStandardItemModel and one int per watch (_runstate), with no lock. *)
(*                                                                         *)
(* A handler of the UI thread is a sequence of steps (`ui.at`), because    *)
(* the watch threads run between them; no other handler runs meanwhile     *)
(* (its dialogs are modal).  Attempts the code answers with a message box  *)
(* only, without changing any state, are stuttering steps.                 *)
(*                                                                         *)
(* Definitions named Bug... are steps with one plausible mistake each:     *)
(* no behaviour of Spec uses them, a property must fail when one of them   *)
(* takes the place of the definition that follows it.                      *)
(*                                                                         *)
(* SSL is off (sslaction unchecked); the text of the log viewer is not     *)
(* here.  Connecting ends by itself, if only with the kernel's time limit, *)
(* and is part of a step; waiting for an answer has no limit and is one    *)
(* of its own.                                                             *)
(***************************************************************************)
EXTENDS Naturals, Sequences, SequencesExt

CONSTANTS
    Server, Ip, File, Friendly,  \* what the user can type
    HostServer, HostIp,          \* the entry HOST(127.0.0.1) of the constructor
    Thread,                      \* operating system threads the client can run
    None,                        \* no value yet
    Hoisted,                     \* the build reads *_runstate once per call
    MaxServers, MaxCells         \* bounds: combo entries, watches ever started

ASSUME HostAssumption == HostServer \in Server /\ HostIp \in Ip
ASSUME NoneAssumption == None \notin Server \cup Ip \cup File \cup Friendly
ASSUME HoistedAssumption == Hoisted \in BOOLEAN
ASSUME BoundAssumption == MaxServers \in Nat /\ MaxCells \in Nat

VARIABLES
    serverlist,  \* the combo box: sequence of [server, ip]
    ipnamemap,   \* server name -> address of its first successful watch
    rows,        \* the table; `watch` is history: the cell the row was made for
    threadList,  \* vector<ThreadWrap>: sequence of [server, cell]
    runstate,    \* the `new int` of every ThreadWrap ever made, never freed
    threads,     \* Thread -> what it runs
    up,          \* addresses whose server accepts connections
    ui           \* the handler the UI thread is in

vars == <<serverlist, ipnamemap, rows, threadList, runstate, threads, up, ui>>

Status == {"Active", "Paused", "Connection Error"}
RunState == {"LOCK", "RUN", "STOP"}
Asking == {"ask", "view"}  \* the UI thread waits for a server's answer
HandlerPc == {"idle", "create", "append", "toggle", "label", "stop", "prune"} \cup Asking
ThreadPc == {"off", "poll", "spin", "call", "scan", "mark"}

Cell == DOMAIN runstate

Idle == [at |-> "idle", server |-> None, ip |-> None, file |-> None,
         friendly |-> None, row |-> 0, saw |-> "Active"]

Off == [at |-> "off", cell |-> 0, file |-> None, friendly |-> None, ip |-> None,
        live |-> FALSE, i |-> 0, n |-> 0, late |-> 0]

Running(t) == threads[t].at # "off"

-----------------------------------------------------------------------------
(***************************************************************************)
(* errifierui::errifierui: the combo box has one entry, nothing is watched. *)
(***************************************************************************)
Init ==
    /\ serverlist = <<[server |-> HostServer, ip |-> HostIp]>>
    /\ ipnamemap = [s \in Server |-> None]
    /\ rows = <<>>
    /\ threadList = <<>>
    /\ runstate = <<>>
    /\ threads = [t \in Thread |-> Off]
    /\ up \in SUBSET Ip
    /\ ui = Idle

-----------------------------------------------------------------------------
(***************************************************************************)
(* The UI thread: addServerHandler.  Nothing checks for a second entry of  *)
(* the same name.                                                          *)
(***************************************************************************)
AddServer(s, ip) ==
    /\ ui.at = "idle"
    /\ Len(serverlist) < MaxServers
    /\ serverlist' = Append(serverlist, [server |-> s, ip |-> ip])
    /\ UNCHANGED <<ipnamemap, rows, threadList, runstate, threads, up, ui>>

(***************************************************************************)
(* removeServerHandler: drop the current combo entry, then stop the        *)
(* threads of that server NAME, then remove its rows; one loop iteration   *)
(* per step.                                                               *)
(***************************************************************************)
RemoveServer(k) ==
    /\ ui.at = "idle"
    /\ serverlist' = RemoveAt(serverlist, k)
    /\ ui' = [Idle EXCEPT !.at = "stop", !.server = serverlist[k].server, !.row = 1]
    /\ UNCHANGED <<ipnamemap, rows, threadList, runstate, threads, up>>

BugStopWithoutState ==
    /\ ui.at = "stop"
    /\ ui.row <= Len(threadList)
    /\ threadList[ui.row].server = ui.server
    /\ threadList' = RemoveAt(threadList, ui.row)
    /\ UNCHANGED <<serverlist, ipnamemap, rows, runstate, threads, up, ui>>

BugStopWithoutErase ==
    /\ ui.at = "stop"
    /\ ui.row <= Len(threadList)
    /\ threadList[ui.row].server = ui.server
    /\ runstate' = [runstate EXCEPT ![threadList[ui.row].cell] = "STOP"]
    /\ ui' = [ui EXCEPT !.row = @ + 1]
    /\ UNCHANGED <<serverlist, ipnamemap, rows, threadList, threads, up>>

StopMatch ==
    /\ ui.at = "stop"
    /\ ui.row <= Len(threadList)
    /\ threadList[ui.row].server = ui.server
    /\ runstate' = [runstate EXCEPT ![threadList[ui.row].cell] = "STOP"]
    /\ threadList' = RemoveAt(threadList, ui.row)
    /\ UNCHANGED <<serverlist, ipnamemap, rows, threads, up, ui>>

StopSkip ==
    /\ ui.at = "stop"
    /\ ui.row <= Len(threadList)
    /\ threadList[ui.row].server # ui.server
    /\ ui' = [ui EXCEPT !.row = @ + 1]
    /\ UNCHANGED <<serverlist, ipnamemap, rows, threadList, runstate, threads, up>>

StopDone ==
    /\ ui.at = "stop"
    /\ ui.row > Len(threadList)
    /\ ui' = [ui EXCEPT !.at = "prune", !.row = 1]
    /\ UNCHANGED <<serverlist, ipnamemap, rows, threadList, runstate, threads, up>>

BugPruneAdvances ==
    /\ ui.at = "prune"
    /\ ui.row <= Len(rows)
    /\ rows[ui.row].server = ui.server
    /\ rows' = RemoveAt(rows, ui.row)
    /\ ui' = [ui EXCEPT !.row = @ + 1]
    /\ UNCHANGED <<serverlist, ipnamemap, threadList, runstate, threads, up>>

PruneMatch ==
    /\ ui.at = "prune"
    /\ ui.row <= Len(rows)
    /\ rows[ui.row].server = ui.server
    /\ rows' = RemoveAt(rows, ui.row)
    /\ UNCHANGED <<serverlist, ipnamemap, threadList, runstate, threads, up, ui>>

BugPruneStays ==
    /\ ui.at = "prune"
    /\ ui.row <= Len(rows)
    /\ rows[ui.row].server # ui.server
    /\ UNCHANGED vars

PruneSkip ==
    /\ ui.at = "prune"
    /\ ui.row <= Len(rows)
    /\ rows[ui.row].server # ui.server
    /\ ui' = [ui EXCEPT !.row = @ + 1]
    /\ UNCHANGED <<serverlist, ipnamemap, rows, threadList, runstate, threads, up>>

PruneDone ==
    /\ ui.at = "prune"
    /\ ui.row > Len(rows)
    /\ ui' = Idle
    /\ UNCHANGED <<serverlist, ipnamemap, rows, threadList, runstate, threads, up>>

-----------------------------------------------------------------------------
BugFriendlyPerServer(s, f, n, intact) ==
    \E i \in DOMAIN rows :
        /\ rows[i].server = s
        /\ rows[i].friendly = n \/ (intact /\ rows[i].file = f)

(***************************************************************************)
(* fileAlreadyMonitored.  Its three char pointers point into temporaries   *)
(* that are destroyed at the end of their own lines; the friendly name is  *)
(* compared before anything is allocated again, the server and file        *)
(* buffers may by then hold another text: `intact` says whether they do    *)
(* not.                                                                    *)
(***************************************************************************)
FileAlreadyMonitored(s, f, n, intact) ==
    \E i \in DOMAIN rows :
        \/ rows[i].friendly = n
        \/ intact /\ rows[i].server = s /\ rows[i].file = f

(***************************************************************************)
(* on_pushButton_clicked, for the combo entry k, up to isFileExist: its    *)
(* server is reachable and has been asked.                                 *)
(***************************************************************************)
StartWatch(k, f, n) ==
    /\ ui.at = "idle"
    /\ \E intact \in BOOLEAN :
           ~FileAlreadyMonitored(serverlist[k].server, f, n, intact)
    /\ serverlist[k].ip \in up
    /\ ui' = [Idle EXCEPT !.at = "ask", !.server = serverlist[k].server,
                          !.ip = serverlist[k].ip, !.file = f, !.friendly = n]
    /\ UNCHANGED <<serverlist, ipnamemap, rows, threadList, runstate, threads, up>>

FileIsThere ==  \* the answer is yes
    /\ ui.at = "ask"
    /\ ui' = [ui EXCEPT !.at = "create"]
    /\ UNCHANGED <<serverlist, ipnamemap, rows, threadList, runstate, threads, up>>

\* The answer is no, or the text of a log, or the connection breaks.
AskEnds ==
    /\ ui.at \in Asking
    /\ ui' = Idle
    /\ UNCHANGED <<serverlist, ipnamemap, rows, threadList, runstate, threads, up>>

BugSwappedPair == ipnamemap' = [ipnamemap EXCEPT ![ui.server] = ui.server]

BugOnlyForHost ==
    ipnamemap' = [ipnamemap EXCEPT ![HostServer] = IF @ = None THEN ui.ip ELSE @]

\* ipnamemap.insert: a std::map keeps the value it already has for a key.
RememberIp ==
    ipnamemap' = [ipnamemap EXCEPT ![ui.server] = IF @ = None THEN ui.ip ELSE @]

\* The boost::thread on startWatch, with an open client to ip.
Watching(c, f, n, ip) ==
    [at |-> "poll", cell |-> c, file |-> f, friendly |-> n, ip |-> ip,
     live |-> TRUE, i |-> 0, n |-> 0, late |-> 0]

(***************************************************************************)
(* startNewThread: connect, make the ThreadWrap in state RUN, start its    *)
(* thread, push it on threadList.  The thread runs from here on, before    *)
(* its row exists.                                                         *)
(***************************************************************************)
CreateWatch ==
    /\ ui.at = "create"
    /\ ui.ip \in up
    /\ Len(runstate) < MaxCells
    /\ RememberIp
    /\ runstate' = Append(runstate, "RUN")
    /\ \E t \in Thread :
        /\ ~Running(t)
        /\ threads' = [threads EXCEPT ![t] =
               Watching(Len(runstate) + 1, ui.file, ui.friendly, ui.ip)]
    /\ threadList' = Append(threadList,
                            [server |-> ui.server, cell |-> Len(runstate) + 1])
    /\ ui' = [ui EXCEPT !.at = "append"]
    /\ UNCHANGED <<serverlist, rows, up>>

\* startNewThread returns -100: the connection or the thread cannot be made.
CreateFails ==
    /\ ui.at = "create"
    /\ RememberIp
    /\ ui' = Idle
    /\ UNCHANGED <<serverlist, rows, threadList, runstate, threads, up>>

AppendRow ==
    /\ ui.at = "append"
    /\ rows' = Append(rows, [server |-> ui.server, file |-> ui.file,
                             friendly |-> ui.friendly, status |-> "Active",
                             watch |-> Len(runstate)])
    /\ ui' = Idle
    /\ UNCHANGED <<serverlist, ipnamemap, threadList, runstate, threads, up>>

-----------------------------------------------------------------------------
\* on_tableView_doubleClicked on the file of row i: ask for its log (getLog).
ViewLog(i) ==
    /\ ui.at = "idle"
    /\ ipnamemap[rows[i].server] \in up
    /\ ui' = [Idle EXCEPT !.at = "view"]
    /\ UNCHANGED <<serverlist, ipnamemap, rows, threadList, runstate, threads, up>>

(***************************************************************************)
(* on_tableView_doubleClicked on the status of row i: connect to the       *)
(* address ipnamemap has for the row's server, then read the status.       *)
(***************************************************************************)
DoubleClick(i) ==
    /\ ui.at = "idle"
    /\ ipnamemap[rows[i].server] \in up
    /\ ui' = [at |-> "toggle", server |-> rows[i].server,
              ip |-> ipnamemap[rows[i].server], file |-> rows[i].file,
              friendly |-> rows[i].friendly, row |-> i, saw |-> rows[i].status]
    /\ UNCHANGED <<serverlist, ipnamemap, rows, threadList, runstate, threads, up>>

\* threadList.at(rowid).setState(state)
SetState(state) ==
    runstate' = [runstate EXCEPT ![threadList[ui.row].cell] = state]

Pause ==  \* setThreadLock
    /\ ui.at = "toggle" /\ ui.saw = "Active"
    /\ SetState("LOCK")
    /\ ui' = [ui EXCEPT !.at = "label"]
    /\ UNCHANGED <<serverlist, ipnamemap, rows, threadList, threads, up>>

\* A thread's count of late notices starts again once its cell is on RUN.
RunAgain(fn) ==
    [t \in Thread |-> IF fn[t].cell = threadList[ui.row].cell
                      THEN [fn[t] EXCEPT !.late = 0] ELSE fn[t]]

Resume ==  \* setThreadRun
    /\ ui.at = "toggle" /\ ui.saw = "Paused"
    /\ SetState("RUN")
    /\ threads' = RunAgain(threads)
    /\ ui' = [ui EXCEPT !.at = "label"]
    /\ UNCHANGED <<serverlist, ipnamemap, rows, threadList, up>>

BugReconnectWithoutState ==
    /\ ui.at = "toggle" /\ ui.saw = "Connection Error"
    /\ ui.ip \in up
    /\ \E t \in Thread :
        /\ ~Running(t)
        /\ threads' = RunAgain([threads EXCEPT ![t] =
               Watching(threadList[ui.row].cell, ui.file, ui.friendly, ui.ip)])
    /\ ui' = [ui EXCEPT !.at = "label"]
    /\ UNCHANGED <<serverlist, ipnamemap, rows, threadList, runstate, up>>

(***************************************************************************)
(* startTimedoutThread: a second connection is opened, the row's cell goes *)
(* back to RUN and a new thread watches with that same cell.               *)
(***************************************************************************)
Reconnect ==
    /\ ui.at = "toggle" /\ ui.saw = "Connection Error"
    /\ ui.ip \in up
    /\ SetState("RUN")
    /\ \E t \in Thread :
        /\ ~Running(t)
        /\ threads' = RunAgain([threads EXCEPT ![t] =
               Watching(threadList[ui.row].cell, ui.file, ui.friendly, ui.ip)])
    /\ ui' = [ui EXCEPT !.at = "label"]
    /\ UNCHANGED <<serverlist, ipnamemap, rows, threadList, up>>

\* startTimedoutThread returns -100 because the server cannot be reached.
ReconnectRefused ==
    /\ ui.at = "toggle" /\ ui.saw = "Connection Error"
    /\ ui.ip \notin up
    /\ ui' = Idle
    /\ UNCHANGED <<serverlist, ipnamemap, rows, threadList, runstate, threads, up>>

\* It returns -100 because the thread cannot be made: the cell is already on RUN.
ReconnectFails ==
    /\ ui.at = "toggle" /\ ui.saw = "Connection Error"
    /\ ui.ip \in up
    /\ SetState("RUN")
    /\ threads' = RunAgain(threads)
    /\ ui' = Idle
    /\ UNCHANGED <<serverlist, ipnamemap, rows, threadList, up>>

\* setData on the status cell that was double-clicked.
Label ==
    /\ ui.at = "label"
    /\ rows' = [rows EXCEPT ![ui.row].status =
                    IF ui.saw = "Active" THEN "Paused" ELSE "Active"]
    /\ ui' = Idle
    /\ UNCHANGED <<serverlist, ipnamemap, threadList, runstate, threads, up>>

-----------------------------------------------------------------------------
(***************************************************************************)
(* A watch thread, WorkerThread::startWatch.  Its two reads of *runstate   *)
(* in one iteration are one step: only STOP changes what the first read    *)
(* decides, and STOP is final, so a STOP between the two is a STOP before  *)
(* the next iteration.                                                     *)
(***************************************************************************)
State(t) == runstate[threads[t].cell]

BugFinishOnLock(t) ==
    /\ threads[t].at = "poll" /\ State(t) = "LOCK"
    /\ threads' = [threads EXCEPT ![t] = Off]
    /\ UNCHANGED <<serverlist, ipnamemap, rows, threadList, runstate, up, ui>>

Finish(t) ==  \* the loop ends, transport->close()
    /\ threads[t].at = "poll" /\ State(t) = "STOP"
    /\ threads' = [threads EXCEPT ![t] = Off]
    /\ UNCHANGED <<serverlist, ipnamemap, rows, threadList, runstate, up, ui>>

BugCallWhilePaused(t) ==
    /\ threads[t].at = "poll" /\ State(t) # "STOP"
    /\ threads' = [threads EXCEPT ![t].at = "call"]
    /\ UNCHANGED <<serverlist, ipnamemap, rows, threadList, runstate, up, ui>>

Call(t) ==  \* client.startNotifier(filename): send, then wait for the reply
    /\ threads[t].at = "poll" /\ State(t) = "RUN"
    /\ threads' = [threads EXCEPT ![t].at = "call"]
    /\ UNCHANGED <<serverlist, ipnamemap, rows, threadList, runstate, up, ui>>

(***************************************************************************)
(* A paused thread loops without a call.  *runstate is a plain int that    *)
(* nothing in that loop writes, so an optimizing build keeps the value it  *)
(* read and never leaves the loop.                                         *)
(***************************************************************************)
Spin(t) ==
    /\ Hoisted
    /\ threads[t].at = "poll" /\ State(t) = "LOCK"
    /\ threads' = [threads EXCEPT ![t].at = "spin"]
    /\ UNCHANGED <<serverlist, ipnamemap, rows, threadList, runstate, up, ui>>

\* History: the notices a thread has shown since its cell left RUN; 2 is
\* two or more.
LateNotices(t) ==
    IF State(t) = "RUN" THEN 0 ELSE IF threads[t].late = 0 THEN 1 ELSE 2

\* The reply 1: show the notice whatever *runstate is by now.
Notify(t) ==
    /\ threads[t].at = "call" /\ threads[t].live
    /\ threads' = [threads EXCEPT ![t] =
           [@ EXCEPT !.at = "poll",
                     !.late = LateNotices(t)]]
    /\ UNCHANGED <<serverlist, ipnamemap, rows, threadList, runstate, up, ui>>

\* The connection is gone: catch, show "went down", take the row count.
Throw(t) ==
    /\ threads[t].at = "call" /\ ~threads[t].live
    /\ threads' = [threads EXCEPT ![t] =
           [@ EXCEPT !.at = "scan", !.i = 1, !.n = Len(rows)]]
    /\ UNCHANGED <<serverlist, ipnamemap, rows, threadList, runstate, up, ui>>

\* The text of column 2 of a row that is gone is "", which is no friendly name.
NamesRow(t) ==
    /\ threads[t].i \in DOMAIN rows
    /\ rows[threads[t].i].friendly = threads[t].friendly

ScanNext(t) ==
    /\ threads[t].at = "scan"
    /\ threads[t].i <= threads[t].n
    /\ ~NamesRow(t)
    /\ threads' = [threads EXCEPT ![t].i = @ + 1]
    /\ UNCHANGED <<serverlist, ipnamemap, rows, threadList, runstate, up, ui>>

BugScanPastEnd(t) ==
    /\ threads[t].at = "scan"
    /\ NamesRow(t)
    /\ threads' = [threads EXCEPT ![t].at = "mark"]
    /\ UNCHANGED <<serverlist, ipnamemap, rows, threadList, runstate, up, ui>>

ScanStop(t) ==
    /\ threads[t].at = "scan"
    /\ threads[t].i > threads[t].n \/ NamesRow(t)
    /\ threads' = [threads EXCEPT ![t].at = "mark"]
    /\ UNCHANGED <<serverlist, ipnamemap, rows, threadList, runstate, up, ui>>

\* setData on an index outside the table does nothing.
MarkRow(i) ==
    IF i \in DOMAIN rows THEN [rows EXCEPT ![i].status = "Connection Error"]
    ELSE rows

Mark(t) ==
    /\ threads[t].at = "mark"
    /\ rows' = MarkRow(threads[t].i)
    /\ threads' = [threads EXCEPT ![t] = Off]
    /\ UNCHANGED <<serverlist, ipnamemap, threadList, runstate, up, ui>>

-----------------------------------------------------------------------------
(***************************************************************************)
(* The servers, seen from the client.  A server process that dies closes   *)
(* its connections; a host that drops off the network only refuses new     *)
(* ones: its watches stay in their call.                                   *)
(***************************************************************************)
Crash(ip) ==
    /\ \/ ip \in up
       \/ \E t \in Thread : threads[t].live /\ threads[t].ip = ip
    /\ up' = up \ {ip}
    /\ threads' = [t \in Thread |-> IF threads[t].ip = ip
                                    THEN [threads[t] EXCEPT !.live = FALSE]
                                    ELSE threads[t]]
    /\ UNCHANGED <<serverlist, ipnamemap, rows, threadList, runstate, ui>>

Vanish(ip) ==
    /\ ip \in up
    /\ up' = up \ {ip}
    /\ UNCHANGED <<serverlist, ipnamemap, rows, threadList, runstate, threads, ui>>

Restart(ip) ==
    /\ ip \notin up
    /\ up' = up \cup {ip}
    /\ UNCHANGED <<serverlist, ipnamemap, rows, threadList, runstate, threads, ui>>

-----------------------------------------------------------------------------
UserStep ==
    \/ \E s \in Server, ip \in Ip : AddServer(s, ip)
    \/ \E k \in DOMAIN serverlist : RemoveServer(k)
    \/ \E k \in DOMAIN serverlist, f \in File, n \in Friendly : StartWatch(k, f, n)
    \/ \E i \in DOMAIN rows : DoubleClick(i) \/ ViewLog(i)

HandlerStep ==
    \/ StopMatch \/ StopSkip \/ StopDone
    \/ PruneMatch \/ PruneSkip \/ PruneDone
    \/ CreateWatch \/ CreateFails \/ AppendRow
    \/ Pause \/ Resume \/ Reconnect \/ ReconnectRefused \/ ReconnectFails \/ Label

AnswerStep == FileIsThere \/ AskEnds

GoesOn(t) ==
    \/ Finish(t) \/ Call(t) \/ Throw(t)
    \/ ScanNext(t) \/ ScanStop(t) \/ Mark(t)

ThreadStep(t) == GoesOn(t) \/ Spin(t)

EnvStep == \E ip \in Ip : Crash(ip) \/ Vanish(ip) \/ Restart(ip)

Next ==
    \/ UserStep
    \/ HandlerStep
    \/ AnswerStep
    \/ \E t \in Thread : ThreadStep(t) \/ Notify(t)
    \/ EnvStep

Spec == Init /\ [][Next]_vars

(***************************************************************************)
(* The UI thread goes on with the handler it is in and the scheduler runs  *)
(* every thread.  Nothing makes the user act, a server restart or answer,  *)
(* a watched file change, or a build hoist the read of *runstate.          *)
(***************************************************************************)
Fairness ==
    /\ WF_vars(HandlerStep)
    /\ \A t \in Thread : WF_vars(GoesOn(t))

FairSpec == Spec /\ Fairness

-----------------------------------------------------------------------------
Entry == [server : Server, ip : Ip]

Row == [server : Server, file : File, friendly : Friendly,
        status : Status, watch : Nat \ {0}]

Wrap == [server : Server, cell : Nat \ {0}]

ThreadRec == [at : ThreadPc, cell : Nat, file : File \cup {None},
              friendly : Friendly \cup {None}, ip : Ip \cup {None},
              live : BOOLEAN, i : Nat, n : Nat, late : 0 .. 2]

Handler == [at : HandlerPc, server : Server \cup {None}, ip : Ip \cup {None},
            file : File \cup {None}, friendly : Friendly \cup {None},
            row : Nat, saw : Status]

\* The values of the variables; a running thread has a cell and its arguments.
TypeOK ==
    /\ serverlist \in Seq(Entry)
    /\ ipnamemap \in [Server -> Ip \cup {None}]
    /\ rows \in Seq(Row)
    /\ threadList \in Seq(Wrap)
    /\ runstate \in Seq(RunState)
    /\ threads \in [Thread -> ThreadRec]
    /\ \A t \in Thread : Running(t) => threads[t].cell \in Cell
    /\ up \in SUBSET Ip
    /\ ui \in Handler

Removing == ui.at \in {"stop", "prune"}

(***************************************************************************)
(* "The row in a table matches to the index of the thread in threadList"   *)
(* (errifierui.cpp, on_tableView_doubleClicked), which pause, resume and   *)
(* reconnect index by: whenever the user can double-click, row i shows     *)
(* the watch whose ThreadWrap is at i, although rows and threads are       *)
(* added and removed by separate loops in separate classes.                *)
(***************************************************************************)
RowIndexIsThreadIndex ==
    ~Removing =>
        /\ Len(threadList) = Len(rows) + (IF ui.at = "append" THEN 1 ELSE 0)
        /\ \A i \in DOMAIN rows : /\ rows[i].watch = threadList[i].cell
                                  /\ rows[i].server = threadList[i].server

(***************************************************************************)
(* The status column does not lie about the pause switch: an Active row    *)
(* has its cell on RUN and a Paused one on LOCK, except the row a handler  *)
(* is about to relabel or remove; threads that write Connection Error in   *)
(* between, on whatever row, do not break it.                              *)
(***************************************************************************)
StatusMatchesState ==
    \A i \in DOMAIN rows :
        \/ ui.at = "label" /\ ui.row = i
        \/ Removing /\ rows[i].server = ui.server
        \/ /\ rows[i].status = "Active" => runstate[rows[i].watch] = "RUN"
           /\ rows[i].status = "Paused" => runstate[rows[i].watch] = "LOCK"

(***************************************************************************)
(* The friendly name "will distinguish your each watch, much like a        *)
(* primary key" (README.md:110): no two rows share one, nor a row and the  *)
(* watch that Start Watch is about to append.                              *)
(***************************************************************************)
FriendlyNameIsKey ==
    /\ \A i, j \in DOMAIN rows : rows[i].friendly = rows[j].friendly => i = j
    /\ ui.at \in {"ask", "create", "append"} =>
           \A i \in DOMAIN rows : rows[i].friendly # ui.friendly

(***************************************************************************)
(* on_tableView_doubleClicked dereferences ipnamemap.find(...) unchecked:  *)
(* every server of the table has an address there.                         *)
(***************************************************************************)
KnownServerIp ==
    \A i \in DOMAIN rows : ipnamemap[rows[i].server] # None

(***************************************************************************)
(* No runaway watch: a thread that is still running either has its         *)
(* ThreadWrap in threadList, so that a row can pause or stop it, or has    *)
(* been told to stop; removeServer erases no wrap it did not stop.         *)
(***************************************************************************)
OrphanIsStopped ==
    \A t \in Thread :
        Running(t) =>
            \/ State(t) = "STOP"
            \/ \E i \in DOMAIN threadList : threadList[i].cell = threads[t].cell

(***************************************************************************)
(* Pausing or removing a watch cannot interrupt the call its thread is in, *)
(* but lets at most one more notice out of each thread, whatever the       *)
(* interleaving, until the watch is resumed or reconnected.                *)
(***************************************************************************)
AtMostOneLateNotice == \A t \in Thread : threads[t].late <= 1

(***************************************************************************)
(* A stopped watch is never started again: no handler writes the cell of a *)
(* removed watch, although the cell outlives its ThreadWrap and its row    *)
(* index belongs to another watch by then.                                 *)
(***************************************************************************)
StopIsFinal ==
    [][\A c \in Cell : runstate[c] = "STOP" => runstate'[c] = "STOP"]_vars

-----------------------------------------------------------------------------
(***************************************************************************)
(* Table, wraps and cells together are one list, on which each handler     *)
(* acts at once although it works in loops, with threads in between:       *)
(* starting a watch takes effect when its thread starts, and removing a    *)
(* server with its first step.                                             *)
(***************************************************************************)
Listed ==
    {[server |-> rows[i].server, friendly |-> rows[i].friendly, watch |-> rows[i].watch] :
        i \in {j \in DOMAIN rows : ~(Removing /\ rows[j].server = ui.server)}}
    \cup (IF ui.at = "append"
          THEN {[server |-> ui.server, friendly |-> ui.friendly, watch |-> Len(runstate)]}
          ELSE {})

BeingStopped(c) ==
    /\ ui.at = "stop"
    /\ \E i \in DOMAIN threadList :
           threadList[i].cell = c /\ threadList[i].server = ui.server

Switches == [c \in Cell |-> IF BeingStopped(c) THEN "STOP" ELSE runstate[c]]

List == INSTANCE WatchList WITH Watch <- 1 .. MaxCells,
                                listed <- Listed, switch <- Switches

ImplementsWatchList == List!Spec

-----------------------------------------------------------------------------
(***************************************************************************)
(* A handler of the UI thread returns, if the servers it asks answer, or   *)
(* it learns that they are gone: its loops reach their ends although they  *)
(* erase what they walk over, whatever the threads do meanwhile.           *)
(***************************************************************************)
HandlerReturns ==
    []<>(ui.at \notin Asking) => (ui.at # "idle" ~> ui.at = "idle")

(***************************************************************************)
(* A watch thread whose call meets a broken connection ends, having tried  *)
(* to mark its row; the rows may be added and removed under its scan.      *)
(***************************************************************************)
BrokenConnectionEnds ==
    \A t \in Thread :
        threads[t].at = "call" /\ ~threads[t].live ~> ~Running(t)

(***************************************************************************)
(* A stopped watch thread ends, or stays in a call its server never        *)
(* answers (it is not interrupted), or it was paused before and its build  *)
(* never reads *runstate again.                                            *)
(***************************************************************************)
StoppedWatchEnds ==
    \A t \in Thread :
        Running(t) /\ State(t) = "STOP"
            ~> \/ ~Running(t)
               \/ threads[t].at = "call" /\ threads[t].live
               \/ threads[t].at = "spin"

-----------------------------------------------------------------------------
(***************************************************************************)
(* What the comments say and the code does not do.                         *)
(***************************************************************************)

(***************************************************************************)
(* "Write connection error in the status column for that thread": the row  *)
(* a dying thread marks is the row of its own watch.                       *)
(***************************************************************************)
ErrorMarksOwnRow ==
    [][\A t \in Thread :
          Mark(t) /\ threads[t].i \in DOMAIN rows
              => rows[threads[t].i].watch = threads[t].cell]_vars

(***************************************************************************)
(* The same comment, seen from the table: once the handlers and the        *)
(* threads are at rest, a row that says Active has a thread watching.      *)
(***************************************************************************)
ActiveRowIsWatched ==
    ui.at = "idle" =>
        \A i \in DOMAIN rows :
            rows[i].status = "Active" =>
                \E t \in Thread : Running(t) /\ threads[t].cell = rows[i].watch
=============================================================================
