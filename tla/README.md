# errifier in TLA+

errifier tells its user, with a desktop notification, that a log file on some
server was written to. A Qt client keeps a table of watches, one thread per
watch; a Thrift server on each host waits on the file with inotify. This
directory holds TLA+ models of both sides, the TLC configurations that check
them on small instances, and proofs that TLAPS checks.

## 1. Inventory

| Component | State it keeps | Operations | Where |
|---|---|---|---|
| Main window | combo box of servers, `ipnamemap`, the table model, `setting` | add/remove server, start watch, double click on a row (status or file), ping, log settings | `src/client/errifierui.cpp` |
| Watch threads | `threadList` (a `ThreadWrap` per watch), one `int` per watch (`_runstate`), the running `boost::thread`s | `startNewThread`, `startTimedoutThread`, `setThreadLock`, `setThreadRun`, `removeServer`, `startWatch` | `src/client/core/workerthread.cpp` |
| Dialogs | none between calls | add/remove a combo entry, choose the log setting, show the ping message | `src/client/dialog.cpp` |
| Thrift stubs | the message under way on a connection | `send_*`, `recv_*`, `dispatchCall`, `process_*`, `read`/`write` of arguments and results | `src/client/core/workerHandler.cpp`, `src/server/workerHandler.cpp` (generated, identical) |
| libnotify | one flag for the process: initialized or not | `notify_init`, `notify_uninit`, `notify_notification_show` | external |
| Server handler | inotify instances of the process | `ping`, `getLog`, `isFileExist`, `startNotifier` | `src/server/workerHandler-server.cpp` |
| Thread pool | a worker per connection being served, a queue | accept, serve, hang up | Thrift's `TThreadPoolServer`, set up in `main` |

How they interact. The UI thread calls `WorkerThread` directly; a watch thread
shares with it the table model and the `int` of its `ThreadWrap`, with no lock;
all watch threads share libnotify.
A watch thread owns one connection and calls `startNotifier` on it again and
again; UI handlers open short connections of their own. On the server a
connection keeps its worker until it closes, and `startNotifier` keeps that
worker in `read()` until the file is written to.

What is hard here: every watch thread runs between any two steps of a UI
handler; a pause or a removal finds the thread in a call that nothing
interrupts; a broken connection makes a thread search the table while rows come
and go; the table and `threadList` are two lists kept equal by hand; a
server's workers and inotify instances are bounded, and calls hold them.
`PROJECT.json` lists these hazards line by line, each with the properties that
cover it or the reason why none does.

What makes each part correct:

* *Window and threads*: the row index is the index of its thread; the status
  column agrees with the pause switch; a friendly name names one row; no
  thread escapes the table unless it was told to stop; a removed watch never
  runs again; a handler returns if the servers it asks answer; a thread whose
  connection broke ends.
* *Server*: the pool and its queue agree; an event belongs to the call being
  served; a write ends the call that watches the file; workers come back.
* *The whole window*: what the user typed for an entry survives its trip through
  the text of the combo box; a row dials its own server; the log that is shown is
  the file's; the client ends in a handful of known ways only.
* *Client and server together*: each side's idea of a call agrees with the
  other's; every notice stands for a write of its own or for a lost connection; a
  write that was caught is noticed, unless the watch is paused or cut off.
* *Stubs*: a reply is the reply of its call; a call is executed at most once
  and with its own arguments; a call ends if its handler does and the connection
  is not lost without a word.

## 2. Modules

| Module | Models | State and code |
|---|---|---|
| `WatchTable` | main window, dialogs, watch threads | `serverlist`: the combo box; `ipnamemap`; `rows`: the table; `threadList`; `runstate`: every `new int` ever made; `threads`: what each OS thread executes; `up`: which addresses accept connections; `ui`: the handler the UI thread is in and its locals |
| `WatchList` | the list of watches as the user sees it (abstract) | `listed`: the watches on the list; `switch`: for each watch ever started, what it was told last |
| `WatchTableMC` | symmetry set for TLC | |
| `WatchTableProofs`, `WatchSafetyProofs` | theorems about `WatchTable` | |
| `Window` | the main window and the dialogs around the watches: combo box, settings, ping, log viewer, exceptions and signals | `combo`: the texts; `current`; `ipnamemap`; `rows`; `setting`: checkbox and number of lines; `ssl`, `keys`; `ui`: the handler that is connecting; `shown`; `uncaught`; `entered` and `known` are history |
| `Address` | the text of a combo entry and what is parsed out of it | (functions) |
| `LogText` | the text `getLog` returns, and what a reader of it expects | (functions) |
| `Filter` | what a loop that removes elements one by one leaves of a sequence | (functions) |
| `LogTextProofs` | theorems about `LogText` | |
| `WindowMC` | names, addresses and files for TLC | |
| `WindowProofs` | theorems about `Address` and `Window` | |
| `ThreadPool` | what a client may rely on of the server's pool (abstract) | `waiting`: accepted connections in their order; `serving`: those with a worker; `calling`: those whose worker is in a call that may wait |
| `LogServer` | server handler and thread pool | `link`, `req`: the client's end of each connection; `task`: what the server does for it; `queue`; `event`: a queued IN_MODIFY; `instances`: inotify instances held; `exists` |
| `LogServerMC` | symmetry set for TLC | |
| `LogServerProofs` | theorems about `LogServer` | |
| `Alarm` | what the user may rely on (abstract) | `fresh`: writes no notice accounts for; `line`: up, cut, the user told that it is down, or no watch |
| `Session` | watch threads and server together; extends `LogServer` | `threads`: what each thread does, its connection and `*runstate`; `reply`: a 1 on its way; `deaf`: lost connections whose loss the client was not told of; `initted`: libnotify's flag; `fresh`: history, the variable of `Alarm` |
| `SessionMC` | an instance for TLC | |
| `SessionProofs` | theorems about `Session` | |
| `RemoteCall` | what a caller of the stubs may rely on (abstract) | `calls`: every call, with what became of it |
| `Rpc` | the generated stubs on both ends of one connection | `link`: open, closed, broken, or lost in silence; `client`: idle or in `recv_*`; `up`, `down`: frames under way; `worker`: reading, in the handler, or about to reply; `calls`: history, the variable of `RemoteCall` |
| `WorkerHandler` | the interface as each generated copy has it, structure by structure | (constants) |
| `RpcMC` | the interfaces of a client and of a server of another version | |
| `RpcProofs` | theorems about `Rpc` | |
| `SequenceLemmas` | what erasing, writing and filtering do to a sequence; induction and recursion over numbers and sequences | |

How they fit together. `WatchTable` takes the window's handlers apart, step by
step, with the watch threads between the steps, and knows a server only as
reachable or not. `Session` takes the thread's call apart instead, with the real
server of `LogServer` on the other end, and knows the window only as a user who
starts, pauses, resumes and removes. `Window` has no threads and all of the
window. `Rpc` is one connection below all of them: that a call is executed at
most once and its reply is its own is what lets `Session` and `LogServer` make a
call of two steps.

### WatchTable

A handler of the UI thread is split at each place where a watch thread can see
or change something in between; `ui.at` names the place:

| Handler | Steps |
|---|---|
| `addServerHandler` | `AddServer` |
| `removeServerHandler` | `RemoveServer`, then `StopMatch`/`StopSkip`/`StopDone` (the loop of `WorkerThread::removeServer`), then `PruneMatch`/`PruneSkip`/`PruneDone` (the loop over the rows) |
| `on_pushButton_clicked` | `StartWatch` (checks, short connection, the request of `isFileExist`), `FileIsThere` or `AskEnds` (the answer, or none), `CreateWatch` or `CreateFails` (`startNewThread`), `AppendRow` |
| `on_tableView_doubleClicked`, column 1 | `ViewLog` (connect, the request of `getLog`), `AskEnds` |
| `on_tableView_doubleClicked`, column 3 | `DoubleClick` (connect, read the status), `Pause`, `Resume`, `Reconnect`, `ReconnectRefused` or `ReconnectFails`, `Label` (write the status) |

Between `StartWatch` or `ViewLog` and the answer the UI thread waits in a call
without a timeout (`Asking`), for ever if need be. The set-up of a connection ends
by itself, with the kernel's limit if not earlier, and is part of a step; the
double click on a status makes no call. `ping` touches no watch and is in
`Window`.

`startWatch` is `Call`, `Notify`, `Finish`, and `Throw`, `ScanNext`,
`ScanStop`, `Mark` for its catch block, in which each look at a row is a step of
its own. `Crash`, `Vanish` and `Restart` are the servers as sockets show them:
a process that dies breaks its connections, a host that leaves the network does
not (the code sets no timeout and no keep-alive, so the read waits on).

Data races. `_runstate` is a plain `int`, read in a loop by one thread and
written by another. With `Hoisted = FALSE` every read sees the last write; with
`Hoisted = TRUE` a thread that polls while paused may also keep the value for
ever (`Spin`), which is what an optimizing build makes of that loop. The build
files set no optimization level, so `Watch` and `WatchLive` have `Hoisted = TRUE`,
in which every behaviour of `Hoisted = FALSE` is contained. Nothing makes a
thread hoist its read: `Spin` has no fairness. `fileAlreadyMonitored`
compares strings whose buffers were freed; `intact` chooses whether they still
hold their text.

History, used by properties only: `rows[i].watch` is the cell the row was made
for, `threads[t].late` counts the notices since the cell left RUN (0, 1, more).

`WatchList` is the same list without loops, threads and connections: `Add`,
`Remove` (all watches of a server), `Pause` and `Resume` happen at once. In
`ImplementsWatchList`, `listed` is the rows, without those of a server that is
being removed and with the watch whose row is still to come (`Listed`); `switch`
is the cells, with STOP for those the stop loop has yet to reach (`Switches`). So
a start takes effect when its thread starts (`CreateWatch`) and a removal with
its first step (`RemoveServer`); the loops and `AppendRow` are stutters.
`Reconnect` is a `Resume`, also when its thread cannot be made. The status texts
are not part of the list, as threads that die write them on whatever row they find.

### LogServer

A connection is queued when it is accepted (`Connect`) and served when a worker
is free (`Serve`). A quick call is one step (`Answer`). `startNotifier` is
`Arm` or `InitFails` up to its first `read()`, and `Report` when an IN_MODIFY
event is there. A watch is on the inode: when its file is removed or renamed
(`Remove`) it is `old`, and a program that goes on writing to the file still wakes
it (`ModifyOld`) until the last user of the file closes it (`InodeGone`). From then
on it is `mute`, as a watch on a file that never existed is; one without an
instance `spin`s. Clients close connections at any moment, also in the middle of
a call, and the server may die and start again.

`ThreadPool` knows connections and workers and nothing of requests, files or
inotify: `Accept`, `Take`, `Enter` and `Leave` a call that may wait, `Release`,
`Restart`. `ImplementsThreadPool` is its specification with `waiting` the queue,
`serving` the connections whose task is served (`Busy`) and `calling` those whose
task is inside `startNotifier` (`Waits`). A step that changes none of the three, as
a quick call, a request or a write, is a stutter of the pool.

### Session

A watch thread is `Begin` (`notify_init`), `Call`, `Notify`, `Throw` (the catch
block up to its `notify_uninit`), `Finish` and `Leave` (the `notify_uninit` at
the end, which a thread that threw reaches too). `Start` is `startNewThread` or
`startTimedoutThread`, `SetState` a pause, a resume or a removal. On the server's
side the actions of `LogServer` run unchanged; `SendReply` is `Report` with the
reply it puts on the connection. `Break` loses one connection, `ServerDies` all of
them; either may lose a reply under way. The client is told (`Tell`) soon, late or
never: until then the connection is in `deaf` and its thread waits on, and on the
server's side a worker keeps a lost connection until it reads or writes (`HangsUp`).
Nothing is fair about the two. `Write` is a write to a file, under its name or
after it lost it, `Rotate` its removal, its creation, or the end of its inode.

libnotify's flag is one `BOOLEAN` for the process: `notify_init` sets it,
`notify_uninit` clears it, and a notice is shown only while it is set. `fresh[w]`
is 1 if the file was written to since the last notice of a write and since the
start of `w`; such a notice takes 1 away, so that a notice without a write would
show as -1. The other notice is the one of the catch block, that the server went
down: `Throw` shows it if the flag is set (a thread is then `told`).

`Alarm` is the promise: `Notice` of a write while `fresh[w]`, which uses it up;
`WentDown` once for a watch whose connection is `cut`, which ends it; and no notice
of a watch that is off. `ImplementsAlarm` is its specification with the same
`fresh` and with `line` read off the threads and connections (`Line`).

### Window

`Click` is the click on ping or Start Watch, `DoubleClick` that on the file or
the status of a row; both work out the address and leave the UI thread in the
set-up of the transport and in the call. Then one of `SetUpThrows`, `CallThrows`,
`WriteSignals`, `Returns`, `StartsWatch`, `ShowsLog` ends the handler; key files may come and go
in between. An exception is a name and the set of its base classes (`IsA`), a
`try` the set of the classes its handlers name (`Catches`); the double click
sets SSL up outside its `try`. An uncaught exception leaves the event loop and
ends the program. So does SIGPIPE, which OpenSSL's `write()` raises on a connection
that was reset and which nothing in the client ignores (`WriteSignals`); without
SSL, Thrift's socket asks for no signal and throws instead.

A text is a sequence of characters of a small alphabet, among them the two
parentheses. `Item`, `NameOf` and `IpOf` are the concatenation of
`addServerHandler` and the loops of the other handlers. A log is a sequence of
bytes, among them newline and NUL; `PieceLen` is what `fgets` takes, `CString`
what `std::string(buffer)` keeps of it, and the separator is one character.

### Rpc

`Send` and `Recv` are the two halves of a client call, `RecvFails` the
`TTransportException` in between. A connection can break, which both ends learn, or
fall silent (`Silence`), which neither does: what is sent then reaches nobody
(`Sent`) and a read waits until the connection breaks after all, if it does. On the server `Dispatch` reads the arguments,
`HandlerReturns` or `HandlerThrows` is the handler with the frame the processor
makes of it, `Reply` the flush; `UnknownMethod` is the other branch of
`dispatchCall`. A structure is the set of its fields, a field a pair of number
and type: `ReadStruct` keeps the fields both sides declare, as the generated
loops do. `garbled` is what `recv_*` would return after it skipped a message
that is not the reply to its method; that it never happens is part of `TypeOK`.
Client and server each hold generated code of their own, and the two
interfaces are separate constants. `WorkerHandler` has the structures of this
repository's copies, each read from the `read` or `write` it comes from; that
the two agree (`StubsAgree`) is an `ASSUME` the run `Rpc` evaluates.

`RemoteCall` sees the calls only: `Issue`, `Execute`, `Finish`, `Break`.
`ImplementsRemoteCall` is its specification with the same `calls`.
LogServer's `Send` and `Answer` are these calls with the messages taken out.

## 3. Runs

Passing runs:

| Run | Instance | Shows |
|---|---|---|
| `Watch` | 2 servers, 2 friendly names, 3 cells, 2 live threads, hoisted reads | row index = thread index, status agrees with the switch, friendly names are unique, every row's server has an address, no thread escapes, at most one late notice per thread, STOP is final |
| `WatchLive` | 2 servers, 2 friendly names, 2 cells, 1 live thread, hoisted reads | handlers return if the servers they ask answer; threads end when their connection breaks, and when they are stopped unless they never reread `*runstate`; table, wraps and cells act as one list of watches |
| `Window` | names `a` and `a(a)`, two addresses, 2 entries, 1 row, files of up to 3 bytes, a buffer of 3 | the handlers act on what was typed, a row dials its server, the log is complete, the log dialog keeps its setting, a handler that connects ends the client in three ways only |
| `Server` | 3 connections, 2 workers, 2 inotify instances, 1 file | pool, events, and the progress of calls and of the queue; the handler is served as `ThreadPool` promises |
| `Session` | 2 watches of 1 file, 2 connections, 2 workers, 2 instances | both sides agree on calls; every notice stands for a write or a lost connection; a caught write is noticed unless the watch is paused or cut off |
| `Rpc` | 2 calls on one connection, 4 methods, 2 values; the server lacks one method and has fields of another type | replies match calls, at most one execution, with the call's arguments; calls end if handlers do and the connection is not silent for ever |

Violation runs. Each shows a comment or document that the code does not live up
to; `PROJECT.json` quotes it:

| Run | What happens |
|---|---|
| `WatchWrongRow` | remove the server, add it and its friendly name again, crash: the old thread marks the new row |
| `WatchLostError` | crash between `startNewThread` and `appendRow`: an Active row without a thread |
| `ServerDeaf` | two reports use up two instances; the third call reads the descriptor -1 |
| `ServerFull` | two watches hold both workers; the ping is never answered |
| `SessionMissed` | a write to the file of an active watch finds no inotify instance and is never noticed; in TLC's trace it comes before the watch's first call, and between a reply and the next call it goes the same way |
| `SessionSilent` | one watch is removed and its thread calls `notify_uninit`; the report of the other is read and not shown |

More facts about the code show in the passing runs, as exceptions that a property
names:

* A watch that is paused or removed while its thread waits in a call still shows
  the notice of that call, against workerthread.cpp:141 and 165:
  `AtMostOneLateNotice` is what is left of "paused". `CaughtWriteIsNoticed` asks
  for no notice of such a watch.
* In a build that reads `*runstate` once, a thread that was paused neither resumes
  (against workerthread.cpp:152, "Used to Resume the notification") nor stops.
  There is no property that a resume takes effect, and `StoppedWatchEnds` excepts
  the thread.
* A connection that is lost in silence leaves its thread, or the whole window, in a
  call for ever: `CallEnds`, `CaughtWriteIsNoticed`, `StoppedWatchEnds` and
  `HandlerReturns` each have it as a condition or an exception. On the server's
  side the worker waits on, too, in the call and then for the next request
  (`HangsUp` has no fairness).
* `fileAlreadyMonitored` compares freed strings, so that it may let a file be
  watched twice; `FriendlyNameIsKey`, and not the pair of server and file, is the
  key that holds.
* Two addresses under one name: a double click dials the first for ever
  (`RowDialsItsServer`).
* The client ends on an application error in answer to a ping, and with SSL on
  missing key files or SIGPIPE (`WaysToEnd`).

Bounds. `MaxCells` bounds the watches ever started and `MaxServers` the combo
entries. With two friendly names the table has at most two rows, so that a
removal takes the first of them, the last or both, and two servers make it
skip the other; what three rows and more would add is left to the proofs, which
hold for any number. Three cells let a third watch reuse the row and the name of a
removed one; one name can be in the combo box twice. Two threads are what
one watch needs to have an old and a new thread, or to share a name. On the
server, three connections on two workers are what it takes to queue one behind
a full pool, and two instances so that one leak is survived and two are not.
In `Session` two watches are what it takes to share libnotify and the server's
pool, and a connection that is given up can come back for another thread. In
`Window` a name with parentheses of its own tells the last from the first one;
three bytes and a buffer of three make pieces that end at a newline, at the end
of the buffer and at the end of the file; two addresses under one name are the
exception `RowDialsItsServer` names. Two calls
are what it takes for a reply to reach the wrong call; two values tell one
call's arguments and result from another's; the interfaces of `RpcMC` differ in
each way the read loops distinguish: a missing method, a field of another type,
a field only one side has, a result of another type.
Symmetry is used in safety runs only, over sets nothing orders or names.

Deadlock checking is off in `Rpc`, where client and worker may both be gone, or
all calls made, and in `Window`, where an uncaught exception ends the program;
in the other runs the user and the environment can always act.

## 4. Fairness

`WatchTable!FairSpec`: weak fairness of the UI handler's steps together, and of
each thread's own steps (`GoesOn`), i.e. the operating system schedules the
UI thread and every watch thread. There is none on `Notify` and `AnswerStep`
(nothing makes a file change or a server answer), on `Spin`, on the user, or on
servers coming and going. `HandlerReturns` therefore has its condition in its
statement: that the UI thread is again and again not waiting for an answer.
`LogServer!FairSpec`: weak fairness of `Serve` and of each connection's
server-side steps, i.e. the pool's threads are scheduled; none on clients,
files and crashes.
`QueueIsFair` has the condition it needs in its statement: that workers come
free again and again.
`Session!FairSessionSpec`: the two together, each thread's own steps and the
server's; none on the user, on files, on anything that breaks, or on either side
being told that it did (`Tell`, `HangsUp`).
`Window` has no fairness: its properties are safety.
`Rpc!FairSpec`: weak fairness of the client's receiving steps and of the
worker's own; none on handlers, which may wait for ever, nor on anything that
closes, breaks or silences the connection. `CallEnds` names as its conditions that
the handler returns and that the connection does not stay silent for ever.

## 5. Proofs

`WatchTableProofs` proves, for every value of the constants,

* `TypeCorrect`: `Spec => []TypeOK`;
* `RowsMatchThreads`: `Spec => []RowIndexIsThreadIndex`, the sentence of
  `on_tableView_doubleClicked` ("The row in a table matches to the index of the
  thread in threadList") that pause, resume and reconnect rely on.

`RowIndexIsThreadIndex` is not inductive: it says nothing of the two lists
during a removal, when they differ. `IndexInv` adds what the two loops rely on:
cells are handed out in increasing order, so both lists are sorted by cell
(`RowsSorted`, `WrapsSorted`); every row outside the removed server has a wrap
(`RowsHaveWraps`) and every wrap left has a row (`WrapsHaveRows`); wraps the
stop loop has passed are of other servers (`StoppedSoFar`); rows the prune loop
has passed sit at the index of their wrap (`AlignedSoFar`). The step that is
not obvious is `NextRowIsAligned`: a row that the prune loop keeps is already at
the index of its wrap, since a wrap in between would have no row. `HandlerInv`
keeps the handler's row number in range. Assumptions: the four named `ASSUME`s
of `WatchTable`, which every run evaluates.

`WatchSafetyProofs` proves the other safety properties of the run `Watch`:
`FriendlyNameDistinguishes`, `ServerIpIsKnown`, `NoRunawayWatch`,
`StatusIsTruthful`, `OneLateNotice` and `StoppedForGood`. Each has an invariant
of its own on top of `Inv`: no wrap in `threadList` has its cell on STOP
(`StoppedIsGone`); what a handler has read and not yet written is still true
(`SawIsTrue`), by which the step between `Pause` and `Label` can be crossed; a
new watch finds its server's address (`AppendKnowsIp`); and a thread that is in
a call has shown no late notice yet (`LateInv`), so that the one it may show is
its first.

`TableImplementsWatchList`: every step of `WatchTable` is one of `WatchList` or
leaves `Listed` and `Switches` alone. It rests on all of the above (`ListInv`). At
`RemoveServer` each row has its wrap, so the cells the loop will stop are those of
the rows that leave (`RowIndexIsThreadIndex`); the loops stop and drop nothing else
and leave nothing over (`StoppedSoFar`, `AlignedSoFar`); `Add` finds the name free
(`FriendlyNameIsKey`) and `Resume` the watch not stopped (`StoppedIsGone`). For
`Pause` to find the watch on RUN one more fact is needed: between the double click
and its write a dying thread may overwrite the status, and what the handler has read
before still says what the cell is (`SawTheSwitch`).

`LogServerProofs` proves `ServerTypes`, `ServerEvents` and `ServerPool`, for any
number of connections, workers and instances. The inductive invariant adds to the
three that the queue holds no connection twice (that the number of queued
connections is the length of the queue then follows) and that the busy
connections are a finite set, whatever `Conn` is. `ServerImplementsThreadPool`
is the refinement: each action of `LogServer` is one of `ThreadPool`'s or leaves
`queue`, `Busy` and `Waits` alone. The invariant is what makes it go through: a
connection that is accepted is in no place of the queue yet, and one that hangs up
is not in a call. Assumptions: there is at least
one worker, and the kernel's limit is a number.

`SessionProofs` proves `SessionTypes`, `SessionCalls` and
`SessionImplementsAlarm`, for any number of watches, connections and files. A step
of `Session` is a step of `LogServer` or leaves its variables alone
(`SessionServer`), so the server's invariant carries over, and a session is a
behaviour of `LogServer` and of `ThreadPool` (`SessionImplementsServer`). `CallsMatch` places a
reply with a thread in its call; it needs `LinkInv` (a connection without a task
is closed and has no request) and `OwnRequest` (what the server holds on a
thread's connection is that thread's request). The refinement needs in addition
that an event or a reply on its way stands for a write that is still `fresh`
(`FreshInv`), which is why a notice finds `fresh[w]`. That an event waits only on the instance of the
current call (`EventIsOfThisCall`) is what makes it so: a server that left the
event behind would raise a false alarm at the next call. For the notice that the
server went down, `Throw` finds its connection lost, and with it the line cut
(`ThreadRefines`); that no other thread's line moves with it is `LineStays`, since no
two threads have the same connection (`SessionTypeOK`).

`WindowProofs` proves `EntryRoundTrip` (any name comes back, parentheses
included, if the address has no "("), `ActsOnWhatWasTyped`,
`HowTheClientEnds` and `LogDialogKeepsSetting`. `ComboInv` keeps the history
`entered` in step with the texts. Assumptions: addresses have no "(", and what is
typed as a number of lines is a number or refused by `tail`. `SettingInv` says
that the entire log goes with 0 lines, without which the dialog, which does not
show the number then, could not give it back.

`WindowTypes` and `RowsDialTheirServers` rest on `WindowInv`. `RowDialsItsServer`
speaks of the handler that is connecting only; what it needs is that everything
the window stores was entered together at some time (`KnownInv`): each entry, each
name with its address in `ipnamemap`, and each row with its own. `known` is the
history that makes this a statement about one state, for the entry a row came from
may be gone when the row is clicked. A removal filters the rows with `Only`, and
`OnlyType` says that what is left is some of what was there.

`LogTextProofs` proves that `getLog` is complete, for any text without NUL and any
buffer of at least two bytes: `ReadingIsComplete` (without the separators the text
is the output) and `LinesKeepTheirEnds` (if the lines fit the buffer, each has one
separator, at its end). `ShownLogIsComplete` in `WindowProofs` is then `LogIsComplete`
for the specification: the log on the screen was read with the setting of now
(`ShownInv`), because every handler that may change the setting takes the log away
first.

The loop over `fgets` is a recursive function, and that such a function exists is
itself something to prove (`TotalBufDef`): each round takes at least one byte.
Induction is done with sets and functions in the place of operators:
`SetInduction` (a set of numbers with 0 and with all successors is `Nat`),
`NatRecursion`, `SizeRecursion` (recursion over anything whose size falls with each
call) and `SeqSetInduction` are lemmas of `SequenceLemmas`; a property becomes the set
of the numbers up to which it holds. Of `Separated`, the loop of the library's
`FlattenSeq` is followed chunk by chunk: up to the end of the first line it copies
(`SeparatingLine`), and from there on it does what it would do on the rest alone
(`SeparatingRest`), which is what one round of `getLog` does too if the line fits
(`FittingPiece`).

`RpcProofs` proves, for any two interfaces and any number of calls,

* `TypeCorrect` and `StaysInSync`: `Spec => []TypeOK` and `Spec => []InSync`;
* `RpcImplementsRemoteCall`: `Spec => ImplementsRemoteCall`.

All follow from `FlightInv` and `ClientInv`: the one frame under way is in one
of four places (`Requested`, `InHandler`, `Executed`, `Replied`), and in each it
agrees with what the history says of the last call, its arguments
(`IsRequest`) or its execution (`IsReply`). `InSync` alone is not inductive: it
says where a frame belongs and not what is in it, and `Outcome` depends on
that. `ReadWrite` is the lemma about the generated read and write loops: what
was written is read back in the fields both sides declare, and nothing in the
others; `ReplyOutcome` uses it to show that `recv_*` returns what the handler
did. Each step of `Rpc` is then one of `RemoteCall`'s, or leaves `calls` alone.
Assumptions: no two of the values, `None`, `Thrown` and the names of the other
answers are equal, and both sides declare the structures of their methods.

Only model-checked: all liveness (`WriteEndsCall`, `QueueIsFair`, `CallEnds` and
the others that use `~>`), since fairness and `ENABLED` are out of the prover's
reach. Every invariant, every action property and every refinement that a passing
run checks is also proved.

## 6. Not modelled

* The SSL handshake, and the set-up of SSL in the server's `main` and in the two
  functions that start a thread (the same code, inside a `try`).
* SIGPIPE in a watch thread or in the server. A write over SSL to a connection that
  was reset can end either program there, too; `WaysToEnd` speaks of the window's
  handlers.
* A file that is renamed back to a name it had while calls still watch it as `old`.
* `main` of the client, the form, the build files; the options of the server's
  `main`; `getThreadCount` (never called). The generated types and constants are empty.
* In the stubs: event handlers, of which none is installed, and malformed
  messages, which two stubs never send each other.
* A `popen` that fails, a log that grows while it is read, and what a desktop
  makes of a notification.
* Leaks of memory: a removed `ThreadWrap`'s `int` and thread object are never
  freed, which is what makes the stopped cell safe to read.

## 7. What is left

The joint behaviour of several clients of one server is in `LogServer` (any client
may do anything) and not in `Session`. `Session` and `WatchTable` meet in the user's
step only; a module with both the handlers' steps and the server's would be beyond
TLC at three watches. `RemoteCall` is shown of one connection with the generated
stubs on both ends; that `LogServer`'s calls are such calls is argued and not
proved.
