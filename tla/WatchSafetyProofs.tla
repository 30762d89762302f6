-------------------------- MODULE WatchSafetyProofs -------------------------
(***************************************************************************)
(* Proofs of the other safety properties of WatchTable, for every value of *)
(* its constants.  Inv of WatchTableProofs holds in every state; each      *)
(* property below is proved inductive together with it, once strengthened: *)
(*                                                                         *)
(*   StopIsFinal, OrphanIsStopped   no wrap is left whose cell is on STOP  *)
(*   StatusMatchesState             what a handler has read of its row is  *)
(*                                  still true when it writes              *)
(*   FriendlyNameIsKey              as it stands                           *)
(*   KnownServerIp                  Start Watch has filled the map before  *)
(*                                  it appends the row                     *)
(*   AtMostOneLateNotice            a thread enters a call only on RUN     *)
(*   ImplementsWatchList            what a double click has read of its    *)
(*                                  row's status is still the switch       *)
(***************************************************************************)
EXTENDS WatchTableProofs

\* Wraps of different places have different cells, and so have rows.
LEMMA CellsDistinct ==
    ASSUME Inv
    PROVE  /\ \A i, j \in DOMAIN threadList : threadList[i].cell = threadList[j].cell => i = j
           /\ \A i, j \in DOMAIN rows : rows[i].watch = rows[j].watch => i = j
<1>1. /\ \A i \in DOMAIN threadList : i \in Nat /\ threadList[i].cell \in Nat
      /\ \A i \in DOMAIN rows : i \in Nat /\ rows[i].watch \in Nat
  <2>1. /\ \A i \in DOMAIN threadList : i \in Nat /\ threadList[i] \in Wrap
        /\ \A i \in DOMAIN rows : i \in Nat /\ rows[i] \in Row
    BY DEF Inv, TypeOK
  <2>2. QED
    BY <2>1 DEF Wrap, Row
<1>2. WrapsSorted /\ RowsSorted
  BY DEF Inv, IndexInv
<1>3. ASSUME NEW i \in DOMAIN threadList, NEW j \in DOMAIN threadList, i # j
      PROVE  threadList[i].cell # threadList[j].cell
  <2>1. i < j \/ j < i
    BY <1>1, <1>3
  <2>2. \/ threadList[i].cell < threadList[j].cell
        \/ threadList[j].cell < threadList[i].cell
    BY <1>2, <2>1 DEF WrapsSorted
  <2>3. QED
    BY <1>1, <2>2
<1>4. ASSUME NEW i \in DOMAIN rows, NEW j \in DOMAIN rows, i # j
      PROVE  rows[i].watch # rows[j].watch
  <2>1. i < j \/ j < i
    BY <1>1, <1>4
  <2>2. rows[i].watch < rows[j].watch \/ rows[j].watch < rows[i].watch
    BY <1>2, <2>1 DEF RowsSorted
  <2>3. QED
    BY <1>1, <2>2
<1>5. QED
  BY <1>3, <1>4

\* A double click writes LOCK or RUN to the cell of the wrap of its row.
Switch ==
    /\ ui.at = "toggle" /\ ui.row \in DOMAIN threadList
    /\ \E state \in {"LOCK", "RUN"} : SetState(state)
    /\ threadList' = threadList

\* The steps of a double click that write a cell are of that kind.
LEMMA DoubleClickSwitches ==
    ASSUME Inv, Pause \/ Resume \/ Reconnect \/ ReconnectFails
    PROVE  Switch
<1>1. ui.at = "toggle" /\ threadList' = threadList
  BY DEF Pause, Resume, Reconnect, ReconnectFails
<1>2. ui.row \in DOMAIN threadList
  BY <1>1 DEF Inv, HandlerInv
<1>3. SetState("LOCK") \/ SetState("RUN")
  BY DEF Pause, Resume, Reconnect, ReconnectFails
<1>4. QED
  BY <1>1, <1>2, <1>3 DEF Switch

\* Only four kinds of step touch the cells or the list of wraps.
LEMMA CellSteps ==
    ASSUME Inv, [Next]_vars
    PROVE  \/ UNCHANGED <<threadList, runstate>>
           \/ Switch \/ StopMatch \/ CreateWatch
<1>1. CASE UNCHANGED vars
  BY <1>1 DEF vars
<1>2. CASE UserStep
  BY <1>2 DEF UserStep, AddServer, RemoveServer, StartWatch, DoubleClick, ViewLog
<1>3. CASE HandlerStep
  BY <1>3, DoubleClickSwitches DEF HandlerStep, StopSkip, StopDone, PruneMatch,
     PruneSkip, PruneDone, CreateFails, AppendRow, ReconnectRefused, Label
<1>4. ASSUME NEW t \in Thread, ThreadStep(t) \/ Notify(t)
      PROVE  UNCHANGED <<threadList, runstate>>
  BY <1>4 DEF ThreadStep, GoesOn, Finish, Call, Spin, Throw, ScanNext, ScanStop, Mark, Notify
<1>5. CASE EnvStep \/ AnswerStep
  BY <1>5 DEF EnvStep, Crash, Vanish, Restart, AnswerStep, FileIsThere, AskEnds
<1>6. QED
  BY <1>1, <1>2, <1>3, <1>4, <1>5 DEF Next

\* A switch writes one cell, and never STOP.
LEMMA SwitchCells ==
    ASSUME Inv, Switch
    PROVE  /\ threadList[ui.row].cell \in Cell
           /\ Cell' = Cell
           /\ \A c \in Cell : c # threadList[ui.row].cell => runstate'[c] = runstate[c]
           /\ runstate'[threadList[ui.row].cell] \in {"LOCK", "RUN"}
<1>1. threadList[ui.row].cell \in Cell
  BY DEF Switch, Inv, IndexInv, CellsExist
<1>2. PICK state \in {"LOCK", "RUN"} :
          runstate' = [runstate EXCEPT ![threadList[ui.row].cell] = state]
  BY DEF Switch, SetState
<1>3. runstate \in [Cell -> RunState]
  BY DEF Inv, TypeOK, Cell
<1>4. QED
  BY <1>1, <1>2, <1>3 DEF Cell

\* Stopping a watch writes STOP to its cell and drops its wrap, no other.
LEMMA StopMatchCells ==
    ASSUME Inv, StopMatch
    PROVE  /\ ui.row \in DOMAIN threadList
           /\ threadList[ui.row].cell \in Cell
           /\ Cell' = Cell
           /\ \A c \in Cell : c # threadList[ui.row].cell => runstate'[c] = runstate[c]
           /\ runstate'[threadList[ui.row].cell] = "STOP"
           /\ \A i \in DOMAIN threadList' : \E p \in DOMAIN threadList :
                  p # ui.row /\ threadList'[i] = threadList[p]
           /\ \A p \in DOMAIN threadList : p # ui.row =>
                  \E i \in DOMAIN threadList' : threadList'[i] = threadList[p]
<1>1. /\ threadList \in Seq(Wrap)
      /\ ui.row \in 1 .. Len(threadList) /\ ui.row \in DOMAIN threadList
      /\ threadList' = RemoveAt(threadList, ui.row)
  BY DEF StopMatch, Inv, TypeOK, HandlerInv, Removing
<1>2. threadList[ui.row].cell \in Cell
  BY <1>1 DEF Inv, IndexInv, CellsExist
<1>3. runstate' = [runstate EXCEPT ![threadList[ui.row].cell] = "STOP"]
  BY DEF StopMatch
<1>4. runstate \in [Cell -> RunState]
  BY DEF Inv, TypeOK, Cell
<1>5. /\ Cell' = Cell
      /\ \A c \in Cell : c # threadList[ui.row].cell => runstate'[c] = runstate[c]
      /\ runstate'[threadList[ui.row].cell] = "STOP"
  BY <1>2, <1>3, <1>4 DEF Cell
<1>6. QED
  BY <1>1, <1>2, <1>5, RemoveAtPlaces

\* Starting a watch makes a new cell on RUN, with a wrap of its own.
LEMMA CreateWatchCells ==
    ASSUME Inv, CreateWatch
    PROVE  /\ Len(runstate) + 1 \notin Cell
           /\ Cell' = Cell \cup {Len(runstate) + 1}
           /\ \A c \in Cell : runstate'[c] = runstate[c]
           /\ runstate'[Len(runstate) + 1] = "RUN"
           /\ DOMAIN threadList' = DOMAIN threadList \cup {Len(threadList) + 1}
           /\ \A i \in DOMAIN threadList : threadList'[i] = threadList[i]
           /\ threadList'[Len(threadList) + 1].cell = Len(runstate) + 1
<1>1. runstate \in Seq(RunState) /\ threadList \in Seq(Wrap)
  BY DEF Inv, TypeOK
<1>2. runstate' = Append(runstate, "RUN")
  BY DEF CreateWatch
<1>3. /\ Len(runstate) + 1 \notin Cell
      /\ Cell' = Cell \cup {Len(runstate) + 1}
      /\ \A c \in Cell : runstate'[c] = runstate[c]
      /\ runstate'[Len(runstate) + 1] = "RUN"
  BY <1>1, <1>2 DEF Cell
<1>4. threadList' = Append(threadList, [server |-> ui.server, cell |-> Len(runstate) + 1])
  BY DEF CreateWatch
<1>5. /\ DOMAIN threadList' = DOMAIN threadList \cup {Len(threadList) + 1}
      /\ \A i \in DOMAIN threadList : threadList'[i] = threadList[i]
      /\ threadList'[Len(threadList) + 1].cell = Len(runstate) + 1
  BY <1>1, <1>4
<1>6. QED
  BY <1>3, <1>5

-----------------------------------------------------------------------------
(***************************************************************************)
(* removeServer stops a watch and forgets its wrap in one go: no wrap that *)
(* a double click could reach has its cell on STOP.                        *)
(***************************************************************************)
StoppedIsGone ==
    \A i \in DOMAIN threadList : runstate[threadList[i].cell] # "STOP"

\* No step stops a cell and keeps its wrap, or writes to a cell without one.
LEMMA StoppedIsGoneStep ==
    ASSUME Inv, StoppedIsGone, [Next]_vars
    PROVE  StoppedIsGone'
<1>1. \A i \in DOMAIN threadList : threadList[i].cell \in Cell
  BY DEF Inv, IndexInv, CellsExist
<1>2. CASE UNCHANGED <<threadList, runstate>>
  BY <1>2 DEF StoppedIsGone
<1>3. CASE Switch
  <2>1. threadList' = threadList
    BY <1>3 DEF Switch
  <2>2. QED
    BY <1>1, <1>3, <2>1, SwitchCells DEF StoppedIsGone
<1>4. CASE StopMatch
  BY <1>1, <1>4, StopMatchCells, CellsDistinct DEF StoppedIsGone
<1>5. CASE CreateWatch
  BY <1>1, <1>5, CreateWatchCells DEF StoppedIsGone
<1>6. QED
  BY <1>2, <1>3, <1>4, <1>5, CellSteps

\* No step takes a cell off STOP.
LEMMA StopStays ==
    ASSUME Inv, StoppedIsGone, [Next]_vars, NEW c \in Cell, runstate[c] = "STOP"
    PROVE  runstate'[c] = "STOP"
<1>1. CASE UNCHANGED <<threadList, runstate>>
  BY <1>1
<1>2. CASE Switch
  <2>1. c # threadList[ui.row].cell
    BY <1>2 DEF Switch, StoppedIsGone
  <2>2. QED
    BY <1>2, <2>1, SwitchCells
<1>3. CASE StopMatch
  BY <1>3, StopMatchCells
<1>4. CASE CreateWatch
  BY <1>4, CreateWatchCells
<1>5. QED
  BY <1>1, <1>2, <1>3, <1>4, CellSteps

\* The invariant with StoppedIsGone is one of the specification.
LEMMA StoppedIsGoneInvariant == Spec => [](Inv /\ StoppedIsGone)
<1>1. Init => Inv /\ StoppedIsGone
  BY InvInit DEF Init, StoppedIsGone
<1>2. Inv /\ StoppedIsGone /\ [Next]_vars => (Inv /\ StoppedIsGone)'
  BY InvStep, StoppedIsGoneStep
<1>3. QED
  BY <1>1, <1>2, PTL DEF Spec

(***************************************************************************)
(* A stopped watch is never started again: whatever the user clicks later, *)
(* its cell, which a thread may still read, stays on STOP.                 *)
(***************************************************************************)
THEOREM StoppedForGood == Spec => StopIsFinal
<1>1. Inv /\ StoppedIsGone /\ [Next]_vars
          => [\A c \in Cell : runstate[c] = "STOP" => runstate'[c] = "STOP"]_vars
  BY StopStays
<1>2. QED
  BY <1>1, StoppedIsGoneInvariant, PTL DEF Spec, StopIsFinal

-----------------------------------------------------------------------------
\* A thread that runs after a step ran before, with the same cell, or has been
\* started on the cell of a new watch or of the row that is reconnected.
LEMMA RunningBefore ==
    ASSUME Inv, [Next]_vars, NEW t \in Thread, Running(t)'
    PROVE  \/ Running(t) /\ threads'[t].cell = threads[t].cell
           \/ CreateWatch /\ threads'[t].cell = Len(runstate) + 1
           \/ Switch /\ threads'[t].cell = threadList[ui.row].cell
<1> USE DEF Running
<1>1. threads \in [Thread -> ThreadRec]
  BY DEF Inv, TypeOK
<1>2. CASE UNCHANGED threads
  BY <1>2
<1>3. CASE UserStep \/ AnswerStep \/ UNCHANGED vars
  BY <1>2, <1>3 DEF AnswerStep, FileIsThere, AskEnds, UserStep, AddServer, RemoveServer, StartWatch, DoubleClick, ViewLog, vars
<1>4. CASE HandlerStep
  <2>1. CASE CreateWatch
    <3>1. PICK u \in Thread : threads' = [threads EXCEPT ![u] =
               Watching(Len(runstate) + 1, ui.file, ui.friendly, ui.ip)]
      BY <2>1 DEF CreateWatch
    <3>2. QED
      BY <1>1, <2>1, <3>1 DEF Watching
  <2>2. CASE Resume \/ ReconnectFails
    <3>1. threads' = RunAgain(threads)
      BY <2>2 DEF Resume, ReconnectFails
    <3>2. QED
      BY <1>1, <3>1, RunAgainType
  <2>3. CASE Reconnect
    <3>1. PICK u \in Thread : threads' = RunAgain([threads EXCEPT ![u] =
               Watching(threadList[ui.row].cell, ui.file, ui.friendly, ui.ip)])
      BY <2>3 DEF Reconnect
    <3>2. Switch
      BY <2>3, DoubleClickSwitches
    <3>3. /\ threadList[ui.row].cell \in Nat
          /\ ui.file \in File /\ ui.friendly \in Friendly /\ ui.ip \in Ip
      <4>1. threadList[ui.row] \in Wrap
        BY <3>2 DEF Switch, Inv, TypeOK
      <4>2. ui.file \in File /\ ui.friendly \in Friendly /\ ui.ip \in Ip
        BY <2>3 DEF Reconnect, Inv, HandlerInv
      <4>3. QED
        BY <4>1, <4>2 DEF Wrap
    <3>4. [threads EXCEPT ![u] =
               Watching(threadList[ui.row].cell, ui.file, ui.friendly, ui.ip)]
              \in [Thread -> ThreadRec]
      BY <1>1, <3>3, WatchingType
    <3>5. QED
      BY <1>1, <3>1, <3>2, <3>4, RunAgainType DEF Watching
  <2>4. QED
    BY <1>2, <1>4, <2>1, <2>2, <2>3 DEF HandlerStep, StopMatch, StopSkip, StopDone,
       PruneMatch, PruneSkip, PruneDone, CreateFails, AppendRow, Pause,
       ReconnectRefused, Label
<1>5. ASSUME NEW u \in Thread, ThreadStep(u) \/ Notify(u)
      PROVE  Running(t) /\ threads'[t].cell = threads[t].cell
  <2>1. threads[u].at # "off"
    BY <1>5 DEF ThreadStep, GoesOn, Finish, Call, Spin, Throw, ScanNext, ScanStop, Mark, Notify
  <2>2. CASE t # u
    BY <1>1, <1>5, <2>2 DEF ThreadStep, GoesOn, Finish, Call, Spin, Throw, ScanNext, ScanStop,
                            Mark, Notify
  <2>3. CASE t = u
    <3>1. ~Finish(t) /\ ~Mark(t)
      BY <1>1, OffType DEF Finish, Mark
    <3>2. threads[t] \in ThreadRec
      BY <1>1
    <3>3. threads'[t].cell = threads[t].cell
      BY <1>1, <1>5, <2>3, <3>1, <3>2 DEF ThreadStep, GoesOn, Call, Spin, Throw, ScanNext,
                                          ScanStop, Notify, ThreadRec
    <3>4. QED
      BY <2>1, <2>3, <3>3
  <2>4. QED
    BY <2>2, <2>3
<1>6. CASE EnvStep
  BY <1>1, <1>6 DEF EnvStep, Crash, Vanish, Restart, ThreadRec
<1>7. QED
  BY <1>3, <1>4, <1>5, <1>6 DEF Next

\* A thread that runs and is not on STOP keeps its wrap.
LEMMA OrphanStep ==
    ASSUME Inv, StoppedIsGone, OrphanIsStopped, [Next]_vars
    PROVE  OrphanIsStopped'
<1> SUFFICES ASSUME NEW t \in Thread, Running(t)', State(t)' # "STOP"
             PROVE  \E i \in DOMAIN threadList' : threadList'[i].cell = threads'[t].cell
  BY DEF OrphanIsStopped
<1>1. CASE Running(t) /\ threads'[t].cell = threads[t].cell
  <2>1. threads[t].cell \in Cell
    BY <1>1 DEF Inv, TypeOK
  <2>2. runstate[threads[t].cell] # "STOP"
    BY <1>1, <2>1, StopStays DEF State
  <2>3. PICK i \in DOMAIN threadList : threadList[i].cell = threads[t].cell
    BY <1>1, <2>2 DEF OrphanIsStopped, State
  <2>4. CASE UNCHANGED <<threadList, runstate>> \/ Switch
    BY <1>1, <2>3, <2>4 DEF Switch
  <2>5. CASE StopMatch
    <3>1. i # ui.row
      BY <1>1, <2>3, <2>5, StopMatchCells DEF State
    <3>2. QED
      BY <1>1, <2>3, <2>5, <3>1, StopMatchCells
  <2>6. CASE CreateWatch
    BY <1>1, <2>3, <2>6, CreateWatchCells
  <2>7. QED
    BY <2>4, <2>5, <2>6, CellSteps
<1>2. CASE CreateWatch /\ threads'[t].cell = Len(runstate) + 1
  BY <1>2, CreateWatchCells
<1>3. CASE Switch /\ threads'[t].cell = threadList[ui.row].cell
  BY <1>3 DEF Switch
<1>4. QED
  BY <1>1, <1>2, <1>3, RunningBefore

(***************************************************************************)
(* No runaway watch, for any number of threads, servers and removals: a    *)
(* thread that runs has its wrap, or has been told to stop.                *)
(***************************************************************************)
THEOREM NoRunawayWatch == Spec => []OrphanIsStopped
<1>1. Init => OrphanIsStopped
  BY DEF Init, OrphanIsStopped, Running, Off
<1>2. Inv /\ StoppedIsGone /\ OrphanIsStopped /\ [Next]_vars => OrphanIsStopped'
  BY OrphanStep
<1>3. QED
  BY <1>1, <1>2, StoppedIsGoneInvariant, PTL DEF Spec

-----------------------------------------------------------------------------
\* Five kinds of step touch the table, or none.
LEMMA RowSteps ==
    ASSUME [Next]_vars
    PROVE  rows' = rows \/ Label \/ (\E t \in Thread : Mark(t)) \/ PruneMatch \/ AppendRow
<1>1. CASE UNCHANGED vars
  BY <1>1 DEF vars
<1>2. CASE UserStep
  BY <1>2 DEF UserStep, AddServer, RemoveServer, StartWatch, DoubleClick, ViewLog
<1>3. CASE HandlerStep
  BY <1>3 DEF HandlerStep, StopMatch, StopSkip, StopDone, PruneSkip, PruneDone,
     CreateWatch, CreateFails, Pause, Resume, Reconnect, ReconnectRefused, ReconnectFails
<1>4. ASSUME NEW t \in Thread, ThreadStep(t) \/ Notify(t)
      PROVE  rows' = rows \/ Mark(t)
  BY <1>4 DEF ThreadStep, GoesOn, Finish, Call, Spin, Throw, ScanNext, ScanStop, Notify
<1>5. CASE EnvStep \/ AnswerStep
  BY <1>5 DEF EnvStep, Crash, Vanish, Restart, AnswerStep, FileIsThere, AskEnds
<1>6. QED
  BY <1>1, <1>2, <1>3, <1>4, <1>5 DEF Next

\* All columns of the rows but the status are as they were.
SameNames ==
    /\ DOMAIN rows' = DOMAIN rows
    /\ \A i \in DOMAIN rows : /\ rows'[i].server = rows[i].server
                              /\ rows'[i].friendly = rows[i].friendly
                              /\ rows'[i].watch = rows[i].watch

\* A status is written in place; a removed row is one of its server; the new
\* row comes last.
LEMMA RowStepNames ==
    ASSUME Inv, [Next]_vars
    PROVE  \/ SameNames
           \/ /\ PruneMatch
              /\ \A i, j \in DOMAIN rows' : i < j =>
                     \E p, q \in DOMAIN rows :
                         p < q /\ rows'[i] = rows[p] /\ rows'[j] = rows[q]
              /\ \A i \in DOMAIN rows' : \E p \in DOMAIN rows : rows'[i] = rows[p]
           \/ /\ AppendRow
              /\ DOMAIN rows' = DOMAIN rows \cup {Len(rows) + 1}
              /\ \A i \in DOMAIN rows : rows'[i] = rows[i]
              /\ rows'[Len(rows) + 1] =
                     [server |-> ui.server, file |-> ui.file, friendly |-> ui.friendly,
                      status |-> "Active", watch |-> Len(runstate)]
<1>0. rows \in Seq(Row) /\ TypeOK
  BY DEF Inv, TypeOK
<1>1. CASE rows' = rows
  BY <1>1 DEF SameNames
<1>2. CASE Label
  <2>1. PICK st \in Status : rows' = [rows EXCEPT ![ui.row].status = st]
    BY <1>2 DEF Label, Status
  <2>2. QED
    BY <1>0, <2>1, WriteStatus DEF SameNames
<1>3. ASSUME NEW t \in Thread, Mark(t)
      PROVE  SameNames
  <2>1. CASE rows' = rows
    BY <2>1 DEF SameNames
  <2>2. CASE rows' = [rows EXCEPT ![threads[t].i].status = "Connection Error"]
    <3>1. "Connection Error" \in Status
      BY DEF Status
    <3>2. QED
      BY <1>0, <2>2, <3>1, WriteStatus DEF SameNames
  <2>3. QED
    BY <1>3, <2>1, <2>2 DEF Mark, MarkRow
<1>4. CASE PruneMatch
  <2>1. ui.row \in 1 .. Len(rows) /\ rows' = RemoveAt(rows, ui.row)
    BY <1>0, <1>4 DEF PruneMatch, Inv, HandlerInv, Removing
  <2>2. /\ \A i, j \in DOMAIN rows' : i < j =>
               \E p, q \in DOMAIN rows : p < q /\ rows'[i] = rows[p] /\ rows'[j] = rows[q]
        /\ \A i \in DOMAIN rows' : \E p \in DOMAIN rows : rows'[i] = rows[p]
    <3>1. \A i, j \in DOMAIN RemoveAt(rows, ui.row) : i < j =>
              \E p, q \in DOMAIN rows : /\ p < q
                                        /\ RemoveAt(rows, ui.row)[i] = rows[p]
                                        /\ RemoveAt(rows, ui.row)[j] = rows[q]
      BY <1>0, <2>1, RemoveAtPlaces, Zenon
    <3>2. \A i \in DOMAIN RemoveAt(rows, ui.row) :
              \E p \in DOMAIN rows : RemoveAt(rows, ui.row)[i] = rows[p]
      BY <1>0, <2>1, RemoveAtPlaces
    <3>3. QED
      BY <2>1, <3>1, <3>2
  <2>3. QED
    BY <1>4, <2>2
<1>5. CASE AppendRow
  BY <1>0, <1>5 DEF AppendRow
<1>6. QED
  BY <1>1, <1>2, <1>3, <1>4, <1>5, RowSteps

\* Start Watch goes on with the server and the friendly name it began with.
LEMMA StartGoesOn ==
    ASSUME Inv, [Next]_vars, ui'.at \in {"ask", "create", "append"}
    PROVE  /\ SameNames
           /\ \/ \E k \in DOMAIN serverlist, f \in File, n \in Friendly : StartWatch(k, f, n)
              \/ /\ ui.at \in {"ask", "create", "append"}
                 /\ ui'.server = ui.server /\ ui'.friendly = ui.friendly
                 /\ ui'.at = "append" => ui.at = "append" \/ CreateWatch
<1>1. ui \in Handler
  BY DEF Inv, TypeOK
<1>2. ~PruneMatch /\ ~AppendRow
  BY IdleType DEF PruneMatch, AppendRow
<1>3. SameNames
  BY <1>2, RowStepNames
<1>4. CASE ui' = ui
  BY <1>3, <1>4
<1>5. CASE UserStep
  <2>1. ASSUME NEW k \in DOMAIN serverlist, RemoveServer(k)
        PROVE  FALSE
    BY <2>1 DEF RemoveServer, Idle
  <2>2. ASSUME NEW i \in DOMAIN rows, DoubleClick(i) \/ ViewLog(i)
        PROVE  FALSE
    BY <2>2 DEF DoubleClick, ViewLog, Idle
  <2>3. ASSUME NEW sv \in Server, NEW ip \in Ip, AddServer(sv, ip)
        PROVE  ui' = ui
    BY <2>3 DEF AddServer
  <2>4. QED
    BY <1>3, <1>4, <1>5, <2>1, <2>2, <2>3 DEF UserStep
<1>6. CASE HandlerStep
  <2>1. CASE CreateWatch
    BY <1>1, <1>3, <2>1 DEF CreateWatch, Handler
  <2>2. CASE StopSkip \/ StopDone \/ PruneSkip
    BY <1>1, <2>2 DEF StopSkip, StopDone, PruneSkip, Handler
  <2>3. CASE Pause \/ Resume \/ Reconnect
    BY <1>1, <2>3 DEF Pause, Resume, Reconnect, Handler
  <2>4. CASE PruneDone \/ CreateFails \/ ReconnectRefused \/ ReconnectFails \/ Label
    BY <2>4, IdleType DEF PruneDone, CreateFails, ReconnectRefused, ReconnectFails, Label
  <2>5. CASE StopMatch
    BY <1>3, <1>4, <2>5 DEF StopMatch
  <2>6. QED
    BY <1>2, <1>6, <2>1, <2>2, <2>3, <2>4, <2>5 DEF HandlerStep
<1>7. CASE (\E t \in Thread : ThreadStep(t) \/ Notify(t)) \/ EnvStep \/ UNCHANGED vars
  BY <1>3, <1>4, <1>7 DEF ThreadStep, GoesOn, Finish, Call, Spin, Throw, ScanNext, ScanStop, Mark,
     Notify, EnvStep, Crash, Vanish, Restart, vars
<1>8. CASE AnswerStep
  BY <1>1, <1>3, <1>8, IdleType DEF AnswerStep, FileIsThere, AskEnds, Handler
<1>9. QED
  BY <1>5, <1>6, <1>7, <1>8 DEF Next

\* fileAlreadyMonitored, whatever its pointers read, and one handler at a time.
LEMMA FriendlyStep ==
    ASSUME Inv, FriendlyNameIsKey, [Next]_vars
    PROVE  FriendlyNameIsKey'
<1>1. \A i \in DOMAIN rows' : i \in Nat
  BY InvStep DEF Inv, TypeOK
<1>2. ASSUME NEW i \in DOMAIN rows', NEW j \in DOMAIN rows', i < j
      PROVE  rows'[i].friendly # rows'[j].friendly
  <2>1. \A p, q \in DOMAIN rows : p < q => rows[p].friendly # rows[q].friendly
    BY DEF FriendlyNameIsKey, Inv, TypeOK
  <2>2. CASE SameNames
    BY <1>2, <2>1, <2>2 DEF SameNames
  <2>3. CASE PruneMatch
    <3>1. ~SameNames \/ SameNames
      OBVIOUS
    <3>2. ~AppendRow
      BY <2>3 DEF PruneMatch, AppendRow
    <3>3. QED
      BY <1>2, <2>1, <2>2, <3>1, <3>2, RowStepNames
  <2>4. CASE AppendRow
    <3>1. ~PruneMatch
      BY <2>4 DEF PruneMatch, AppendRow
    <3>2. \A p \in DOMAIN rows : rows[p].friendly # ui.friendly
      BY <2>4 DEF AppendRow, FriendlyNameIsKey
    <3>3. \A p \in DOMAIN rows : p < Len(rows) + 1
      BY DEF Inv, TypeOK
    <3>4. QED
      BY <1>1, <1>2, <2>1, <2>2, <3>1, <3>2, <3>3, RowStepNames
  <2>5. QED
    BY <2>2, <2>3, <2>4, RowStepNames
<1>3. \A i, j \in DOMAIN rows' : rows'[i].friendly = rows'[j].friendly => i = j
  BY <1>1, <1>2
<1>4. ASSUME ui'.at \in {"ask", "create", "append"}
      PROVE  \A i \in DOMAIN rows' : rows'[i].friendly # ui'.friendly
  <2>1. CASE \E k \in DOMAIN serverlist, f \in File, n \in Friendly : StartWatch(k, f, n)
    BY <1>4, <2>1 DEF StartWatch, FileAlreadyMonitored, Idle
  <2>2. CASE ui.at \in {"ask", "create", "append"} /\ ui'.friendly = ui.friendly
    BY <1>4, <2>2, StartGoesOn DEF SameNames, FriendlyNameIsKey
  <2>3. QED
    BY <1>4, <2>1, <2>2, StartGoesOn
<1>5. QED
  BY <1>3, <1>4 DEF FriendlyNameIsKey

(***************************************************************************)
(* The friendly name is "much like a primary key" (README.md:110): no two  *)
(* rows share one, although fileAlreadyMonitored compares through dangling *)
(* pointers.                                                               *)
(***************************************************************************)
THEOREM FriendlyNameDistinguishes == Spec => []FriendlyNameIsKey
<1>1. Init => FriendlyNameIsKey
  BY IdleType DEF Init, FriendlyNameIsKey
<1>2. Inv /\ FriendlyNameIsKey /\ [Next]_vars => FriendlyNameIsKey'
  BY FriendlyStep
<1>3. QED
  BY <1>1, <1>2, InvIsInvariant, PTL DEF Spec

-----------------------------------------------------------------------------
\* By the time the row is appended, startNewThread has inserted the address.
AppendKnowsIp == ui.at = "append" => ipnamemap[ui.server] # None

\* The map never forgets an address.
LEMMA IpIsKept ==
    ASSUME Inv, [Next]_vars, NEW sv \in Server, ipnamemap[sv] # None
    PROVE  ipnamemap'[sv] # None
<1>1. CASE ipnamemap' = ipnamemap
  BY <1>1
<1>2. CASE RememberIp
  BY <1>2 DEF RememberIp, Inv, TypeOK
<1>3. ipnamemap' = ipnamemap \/ RememberIp
  BY DEF Next, UserStep, AddServer, RemoveServer, StartWatch, DoubleClick, ViewLog,
     AnswerStep, FileIsThere, AskEnds,
     HandlerStep, StopMatch, StopSkip, StopDone, PruneMatch, PruneSkip, PruneDone,
     CreateWatch, CreateFails, AppendRow, Pause, Resume, Reconnect, ReconnectRefused,
     ReconnectFails, Label, ThreadStep, GoesOn, Finish, Call, Spin, Throw, ScanNext, ScanStop,
     Mark, Notify, EnvStep, Crash, Vanish, Restart, vars
<1>4. QED
  BY <1>1, <1>2, <1>3

\* Rows are of servers whose address is known, also the one to be appended.
LEMMA KnownIpStep ==
    ASSUME Inv, KnownServerIp, AppendKnowsIp, [Next]_vars
    PROVE  KnownServerIp' /\ AppendKnowsIp'
<1>1. \A i \in DOMAIN rows : rows[i].server \in Server
  <2>1. \A i \in DOMAIN rows : rows[i] \in Row
    BY DEF Inv, TypeOK
  <2>2. QED
    BY <2>1 DEF Row
<1>2. KnownServerIp'
  <2>1. CASE SameNames
    BY <1>1, <2>1, IpIsKept DEF KnownServerIp, SameNames
  <2>2. CASE PruneMatch /\ ~SameNames
    <3>1. ~AppendRow
      BY <2>2 DEF PruneMatch, AppendRow
    <3>2. \A i \in DOMAIN rows' : \E p \in DOMAIN rows : rows'[i] = rows[p]
      BY <2>2, <3>1, RowStepNames
    <3>3. QED
      BY <1>1, <3>2, IpIsKept DEF KnownServerIp
  <2>3. CASE AppendRow /\ ~SameNames
    <3>1. ~PruneMatch
      BY <2>3 DEF PruneMatch, AppendRow
    <3>2. /\ DOMAIN rows' = DOMAIN rows \cup {Len(rows) + 1}
          /\ \A i \in DOMAIN rows : rows'[i] = rows[i]
          /\ rows'[Len(rows) + 1].server = ui.server
      BY <2>3, <3>1, RowStepNames
    <3>3. ui.server \in Server /\ ipnamemap[ui.server] # None
      BY <2>3 DEF AppendRow, AppendKnowsIp, Inv, HandlerInv
    <3>4. QED
      BY <1>1, <3>2, <3>3, IpIsKept DEF KnownServerIp
  <2>4. QED
    BY <2>1, <2>2, <2>3, RowStepNames
<1>3. ASSUME ui'.at = "append"
      PROVE  ipnamemap'[ui'.server] # None
  <2>1. ui'.server \in Server
    BY <1>3, InvStep DEF Inv, HandlerInv
  <2>2. ~\E k \in DOMAIN serverlist, f \in File, n \in Friendly : StartWatch(k, f, n)
    BY <1>3 DEF StartWatch, Idle
  <2>3. ui'.server = ui.server /\ (ui.at = "append" \/ CreateWatch)
    BY <1>3, <2>2, StartGoesOn
  <2>4. CASE ui.at = "append"
    BY <2>1, <2>3, <2>4, IpIsKept DEF AppendKnowsIp
  <2>5. CASE CreateWatch
    <3>1. ui.ip \in Ip /\ ui.server \in Server
      BY <2>5 DEF CreateWatch, Inv, HandlerInv
    <3>2. ipnamemap'[ui.server] # None
      BY <2>5, <3>1, NoneAssumption DEF CreateWatch, RememberIp, Inv, TypeOK
    <3>3. QED
      BY <2>3, <3>2
  <2>6. QED
    BY <2>3, <2>4, <2>5
<1>4. QED
  BY <1>2, <1>3 DEF AppendKnowsIp

(***************************************************************************)
(* The unchecked ipnamemap.find of a double click finds an address, for    *)
(* any sequence of servers added, removed and watched.                     *)
(***************************************************************************)
THEOREM ServerIpIsKnown == Spec => []KnownServerIp
<1>1. Init => KnownServerIp /\ AppendKnowsIp
  BY IdleType DEF Init, KnownServerIp, AppendKnowsIp
<1>2. Inv /\ KnownServerIp /\ AppendKnowsIp /\ [Next]_vars
          => KnownServerIp' /\ AppendKnowsIp'
  BY KnownIpStep
<1>3. QED
  BY <1>1, <1>2, InvIsInvariant, PTL DEF Spec

-----------------------------------------------------------------------------
(***************************************************************************)
(* A paused or resumed cell is what the handler is about to write into the *)
(* status; a connection error it has seen is still there, because nobody   *)
(* else writes anything else; a new watch is still on RUN.                 *)
(***************************************************************************)
SawIsTrue ==
    /\ ui.at = "label" =>
           runstate[threadList[ui.row].cell] = IF ui.saw = "Active" THEN "LOCK" ELSE "RUN"
    /\ ui.at = "toggle" /\ ui.saw = "Connection Error" =>
           rows[ui.row].status = "Connection Error"
    /\ ui.at = "append" => runstate[Len(runstate)] = "RUN"

\* The status of row i is what its cell says.
Truthful(i) ==
    /\ rows[i].status = "Active" => runstate[rows[i].watch] = "RUN"
    /\ rows[i].status = "Paused" => runstate[rows[i].watch] = "LOCK"

\* The row that a double click works on is that of the wrap it writes to.
LEMMA ToggledRow ==
    ASSUME Inv, ui.at \in {"toggle", "label"}
    PROVE  /\ ui.row \in DOMAIN rows /\ ui.row \in DOMAIN threadList
           /\ rows[ui.row].watch = threadList[ui.row].cell
BY DEF Inv, HandlerInv, IndexInv, RowIndexIsThreadIndex, Removing

\* Writing the status of a row.
LEMMA StatusWritten ==
    ASSUME Inv, NEW k \in DOMAIN rows, NEW st, rows' = [rows EXCEPT ![k].status = st]
    PROVE  /\ rows'[k].status = st
           /\ \A i \in DOMAIN rows : i # k => rows'[i] = rows[i]
<1>1. rows[k] \in Row
  BY DEF Inv, TypeOK
<1>2. rows \in [DOMAIN rows -> Row]
  BY DEF Inv, TypeOK
<1>3. QED
  BY <1>1, <1>2 DEF Row

\* A watch thread writes Connection Error to some row, which says nothing
\* about the cell, or no status.
LEMMA MarkKeepsStatus ==
    ASSUME Inv, StatusMatchesState, SawIsTrue, NEW t \in Thread, Mark(t)
    PROVE  StatusMatchesState' /\ SawIsTrue'
<1>1. UNCHANGED <<threadList, runstate, ui>>
  BY DEF Mark
<1>2. CASE threads[t].i \in DOMAIN rows
  <2> DEFINE k == threads[t].i
  <2>1. rows' = [rows EXCEPT ![k].status = "Connection Error"]
    BY <1>2 DEF Mark, MarkRow
  <2>2. /\ DOMAIN rows' = DOMAIN rows
        /\ rows'[k].status = "Connection Error"
        /\ rows'[k].server = rows[k].server
        /\ \A i \in DOMAIN rows : i # k => rows'[i] = rows[i]
    <3>1. TypeOK /\ "Connection Error" \in Status
      BY DEF Inv, Status
    <3>2. QED
      BY <1>2, <2>1, <3>1, StatusWritten, WriteStatus
  <2>3. StatusMatchesState'
    BY <1>1, <2>2 DEF StatusMatchesState, Removing
  <2>4. SawIsTrue'
    BY <1>1, <2>2, ToggledRow DEF SawIsTrue
  <2>5. QED
    BY <2>3, <2>4
<1>3. CASE threads[t].i \notin DOMAIN rows
  <2>1. rows' = rows
    BY <1>3 DEF Mark, MarkRow
  <2>2. QED
    BY <1>1, <2>1 DEF StatusMatchesState, SawIsTrue, Removing
<1>4. QED
  BY <1>2, <1>3

\* A switch makes the row it works on the one that is relabelled, or leaves it
\* on Connection Error.
LEMMA SwitchKeepsStatus ==
    ASSUME Inv, StatusMatchesState, SawIsTrue,
           Pause \/ Resume \/ Reconnect \/ ReconnectFails
    PROVE  StatusMatchesState' /\ SawIsTrue'
<1> DEFINE k == ui.row
           c == threadList[ui.row].cell
<1>1. /\ Switch /\ rows' = rows /\ threadList' = threadList
      /\ ui.at = "toggle"
  BY DoubleClickSwitches DEF Pause, Resume, Reconnect, ReconnectFails
<1>2. /\ k \in DOMAIN rows /\ rows[k].watch = c
      /\ \A i \in DOMAIN rows : rows[i].watch \in Cell /\ (i # k => rows[i].watch # c)
  BY <1>1, ToggledRow, CellsDistinct DEF Inv, IndexInv, CellsExist
<1>3. \A i \in DOMAIN rows : i # k =>
          /\ rows[i].status = "Active" => runstate'[rows[i].watch] = "RUN"
          /\ rows[i].status = "Paused" => runstate'[rows[i].watch] = "LOCK"
  BY <1>1, <1>2, SwitchCells DEF StatusMatchesState, Removing
<1>4. ui \in Handler /\ runstate \in [Cell -> RunState] /\ c \in Cell
  BY <1>1, SwitchCells DEF Inv, TypeOK, Cell
<1>5. CASE Pause \/ Resume \/ Reconnect
  <2>1. ui'.at = "label" /\ ui'.row = k /\ ui'.saw = ui.saw
    BY <1>4, <1>5 DEF Pause, Resume, Reconnect, Handler
  <2>2. runstate'[c] = IF ui.saw = "Active" THEN "LOCK" ELSE "RUN"
    BY <1>4, <1>5 DEF Pause, Resume, Reconnect, SetState
  <2>3. StatusMatchesState'
    BY <1>1, <1>3, <2>1 DEF StatusMatchesState
  <2>4. SawIsTrue'
    BY <1>1, <2>1, <2>2 DEF SawIsTrue
  <2>5. QED
    BY <2>3, <2>4
<1>6. CASE ReconnectFails
  <2>1. ui'.at = "idle" /\ rows[k].status = "Connection Error"
    BY <1>6, IdleType DEF ReconnectFails, SawIsTrue
  <2>2. StatusMatchesState'
    BY <1>1, <1>3, <2>1 DEF StatusMatchesState
  <2>3. SawIsTrue'
    BY <2>1 DEF SawIsTrue
  <2>4. QED
    BY <2>2, <2>3
<1>7. QED
  BY <1>5, <1>6

\* The label says what the switch wrote.
LEMMA LabelKeepsStatus ==
    ASSUME Inv, StatusMatchesState, SawIsTrue, Label
    PROVE  StatusMatchesState' /\ SawIsTrue'
<1> DEFINE k == ui.row
           st == IF ui.saw = "Active" THEN "Paused" ELSE "Active"
<1>1. /\ ui.at = "label" /\ ui'.at = "idle" /\ runstate' = runstate
      /\ rows' = [rows EXCEPT ![k].status = st]
  BY IdleType DEF Label
<1>2. k \in DOMAIN rows /\ rows[k].watch = threadList[k].cell
  BY <1>1, ToggledRow
<1>3. /\ DOMAIN rows' = DOMAIN rows
      /\ rows'[k].status = st /\ rows'[k].watch = rows[k].watch
      /\ \A i \in DOMAIN rows : i # k => rows'[i] = rows[i]
  <2>1. TypeOK /\ st \in Status
    BY DEF Inv, Status
  <2>2. DOMAIN rows' = DOMAIN rows /\ rows'[k].watch = rows[k].watch
    BY <1>1, <1>2, <2>1, WriteStatus
  <2>3. rows'[k].status = st /\ \A i \in DOMAIN rows : i # k => rows'[i] = rows[i]
    BY <1>1, <1>2, StatusWritten
  <2>4. QED
    BY <2>2, <2>3
<1>4. StatusMatchesState'
  <2>1. \A i \in DOMAIN rows : i # k => Truthful(i)'
    BY <1>1, <1>3 DEF StatusMatchesState, Removing, Truthful
  <2>2. \A i \in DOMAIN rows : i = k => Truthful(i)'
    BY <1>1, <1>2, <1>3 DEF SawIsTrue, Truthful
  <2>3. QED
    BY <1>3, <2>1, <2>2 DEF StatusMatchesState, Truthful
<1>5. QED
  BY <1>1, <1>4 DEF SawIsTrue

\* Stopping the threads of a server touches the cells of its own rows only.
LEMMA StopMatchKeepsStatus ==
    ASSUME Inv, StatusMatchesState, StopMatch
    PROVE  StatusMatchesState' /\ SawIsTrue'
<1>1. /\ ui.at = "stop" /\ ui' = ui /\ rows' = rows
      /\ threadList[ui.row].server = ui.server
  BY DEF StopMatch
<1>2. PICK j \in DOMAIN rows : Matches(j, ui.row)
  BY <1>1, StopMatchCells DEF Inv, IndexInv, WrapsHaveRows, Removing
<1>3. ASSUME NEW i \in DOMAIN rows, rows[i].server # ui.server
      PROVE  Truthful(i)'
  <2>1. rows[i].watch \in Cell /\ rows[i].watch # threadList[ui.row].cell
    BY <1>1, <1>2, <1>3, CellsDistinct DEF Matches, Inv, IndexInv, CellsExist
  <2>2. Truthful(i)
    BY <1>1, <1>3 DEF StatusMatchesState, Truthful
  <2>3. QED
    BY <1>1, <2>1, <2>2, StopMatchCells DEF Truthful
<1>4. StatusMatchesState'
  BY <1>1, <1>3 DEF StatusMatchesState, Removing, Truthful
<1>5. QED
  BY <1>1, <1>4 DEF SawIsTrue

\* The other steps of a removal leave the cells alone, and no row of the server
\* is left at its end.
LEMMA RemovalKeepsStatus ==
    ASSUME Inv, StatusMatchesState,
           StopSkip \/ StopDone \/ PruneMatch \/ PruneSkip \/ PruneDone
    PROVE  StatusMatchesState' /\ SawIsTrue'
<1>1. Removing /\ runstate' = runstate /\ ui \in Handler
  BY DEF StopSkip, StopDone, PruneMatch, PruneSkip, PruneDone, Removing, Inv, TypeOK
<1>2. \A i \in DOMAIN rows : rows[i].server = ui.server \/ Truthful(i)
  BY <1>1 DEF StatusMatchesState, Removing, Truthful
<1>3. CASE StopSkip \/ StopDone \/ PruneSkip
  <2>1. rows' = rows /\ ui'.at \in {"stop", "prune"} /\ ui'.server = ui.server
    BY <1>1, <1>3 DEF StopSkip, StopDone, PruneSkip, Handler
  <2>2. QED
    BY <1>1, <1>2, <2>1 DEF StatusMatchesState, Removing, Truthful, SawIsTrue
<1>4. CASE PruneMatch
  <2>1. ui' = ui /\ ui.at = "prune"
    BY <1>4 DEF PruneMatch
  <2>2. \A i \in DOMAIN rows' : rows'[i].server = ui.server \/ Truthful(i)'
    <3>1. CASE SameNames
      BY <1>4, <2>1, <3>1, RemoveAtProperties DEF SameNames, PruneMatch, Inv, TypeOK,
         HandlerInv, Removing
    <3>2. CASE ~SameNames
      <4>1. [Next]_vars /\ ~AppendRow
        BY <1>4, <2>1 DEF Next, HandlerStep, AppendRow
      <4>2. \A i \in DOMAIN rows' : \E p \in DOMAIN rows : rows'[i] = rows[p]
        BY <3>2, <4>1, RowStepNames
      <4>3. QED
        BY <1>1, <1>2, <4>2 DEF Truthful
    <3>3. QED
      BY <3>1, <3>2
  <2>3. QED
    BY <2>1, <2>2 DEF StatusMatchesState, Removing, Truthful, SawIsTrue
<1>5. CASE PruneDone
  <2>1. /\ ui.at = "prune" /\ ui.row > Len(rows)
        /\ ui'.at = "idle" /\ rows' = rows
    BY <1>5, IdleType DEF PruneDone
  <2>2. \A i \in DOMAIN rows : i < ui.row
    BY <1>1, <2>1 DEF Inv, TypeOK, Handler
  <2>3. \A i \in DOMAIN rows : rows[i].server # ui.server
    BY <2>1, <2>2 DEF Inv, IndexInv, AlignedSoFar, StoppedSoFar, Matches
  <2>4. QED
    BY <1>1, <1>2, <2>1, <2>3 DEF StatusMatchesState, Truthful, SawIsTrue
<1>6. QED
  BY <1>3, <1>4, <1>5

\* A new watch is on RUN when its row is appended as Active.
LEMMA NewWatchKeepsStatus ==
    ASSUME Inv, StatusMatchesState, SawIsTrue, CreateWatch \/ AppendRow
    PROVE  StatusMatchesState' /\ SawIsTrue'
<1>1. \A i \in DOMAIN rows : rows[i].watch \in Cell /\ Truthful(i)
  BY DEF CreateWatch, AppendRow, StatusMatchesState, Removing, Truthful, Inv,
         IndexInv, CellsExist
<1>2. CASE CreateWatch
  <2>1. rows' = rows /\ ui'.at = "append"
    BY <1>2 DEF CreateWatch, Inv, TypeOK, Handler
  <2>2. runstate'[Len(runstate')] = "RUN"
    BY <1>2, AppendProperties DEF CreateWatch, Inv, TypeOK, RunState
  <2>3. \A i \in DOMAIN rows : Truthful(i)'
    BY <1>1, <1>2, <2>1, CreateWatchCells DEF Truthful
  <2>4. QED
    BY <2>1, <2>2, <2>3 DEF StatusMatchesState, Truthful, SawIsTrue
<1>3. CASE AppendRow
  <2>1. runstate' = runstate /\ ui.at = "append" /\ ui'.at = "idle"
    BY <1>3, IdleType DEF AppendRow
  <2>2. /\ DOMAIN rows' = DOMAIN rows \cup {Len(rows) + 1}
        /\ \A i \in DOMAIN rows : rows'[i] = rows[i]
        /\ rows'[Len(rows) + 1].status = "Active"
        /\ rows'[Len(rows) + 1].watch = Len(runstate)
    BY <1>3 DEF AppendRow, Inv, TypeOK
  <2>3. \A i \in DOMAIN rows' : i = Len(rows) + 1 => Truthful(i)'
    BY <2>1, <2>2 DEF SawIsTrue, Truthful
  <2>4. \A i \in DOMAIN rows : Truthful(i)'
    BY <1>1, <2>1, <2>2 DEF Truthful
  <2>5. QED
    BY <2>1, <2>2, <2>3, <2>4 DEF StatusMatchesState, Truthful, SawIsTrue
<1>4. QED
  BY <1>2, <1>3

\* The steps that write neither a status nor a cell; those that begin or end a
\* handler do so with no row excused.
LEMMA OtherStepsKeepStatus ==
    ASSUME Inv, StatusMatchesState, SawIsTrue, UNCHANGED <<rows, runstate, threadList>>,
           \/ ui' = ui
           \/ UserStep
           \/ CreateFails \/ ReconnectRefused \/ AnswerStep
    PROVE  StatusMatchesState' /\ SawIsTrue'
<1>1. CASE ui' = ui
  BY <1>1 DEF StatusMatchesState, SawIsTrue, Removing
<1>2. CASE UserStep /\ ui' # ui
  <2>1. ui.at = "idle"
    BY <1>2 DEF UserStep, AddServer, RemoveServer, StartWatch, DoubleClick, ViewLog
  <2>2. \A i \in DOMAIN rows : Truthful(i)'
    BY <2>1 DEF StatusMatchesState, Removing, Truthful
  <2>3. ASSUME NEW i \in DOMAIN rows, DoubleClick(i)
        PROVE  SawIsTrue'
    <3>1. ui'.at = "toggle" /\ ui'.row = i /\ ui'.saw = rows[i].status
      BY <2>3 DEF DoubleClick
    <3>2. QED
      BY <3>1 DEF SawIsTrue
  <2>4. ASSUME \/ \E k \in DOMAIN serverlist : RemoveServer(k)
               \/ \E k \in DOMAIN serverlist, f \in File, n \in Friendly :
                     StartWatch(k, f, n)
               \/ \E i \in DOMAIN rows : ViewLog(i)
        PROVE  SawIsTrue'
    <3>1. ui'.at \in {"stop", "ask", "view"}
      BY <2>4 DEF RemoveServer, StartWatch, ViewLog, Idle
    <3>2. QED
      BY <3>1 DEF SawIsTrue
  <2>5. SawIsTrue'
    BY <1>2, <2>3, <2>4 DEF UserStep, AddServer
  <2>6. QED
    BY <2>2, <2>5 DEF StatusMatchesState, Truthful
<1>3. CASE CreateFails \/ ReconnectRefused \/ AnswerStep
  <2>1. /\ ui.at \in {"ask", "view", "create", "toggle"}
        /\ ui'.at \in {"idle", "create"}
    <3>1. ui \in Handler
      BY DEF Inv, TypeOK
    <3>2. QED
      BY <1>3, <3>1, IdleType DEF CreateFails, ReconnectRefused, AnswerStep, FileIsThere,
                                  AskEnds, Asking, Handler
  <2>2. QED
    BY <2>1 DEF StatusMatchesState, SawIsTrue, Removing
<1>4. QED
  BY <1>1, <1>2, <1>3

\* Every step keeps the status column truthful.
LEMMA StatusStep ==
    ASSUME Inv, StatusMatchesState, SawIsTrue, [Next]_vars
    PROVE  StatusMatchesState' /\ SawIsTrue'
<1>1. CASE UserStep \/ UNCHANGED vars
  BY <1>1, OtherStepsKeepStatus DEF UserStep, AddServer, RemoveServer, StartWatch,
     DoubleClick, ViewLog, vars
<1>2. CASE HandlerStep
  BY <1>2, StopMatchKeepsStatus, RemovalKeepsStatus, NewWatchKeepsStatus,
     SwitchKeepsStatus, LabelKeepsStatus, OtherStepsKeepStatus
     DEF HandlerStep, CreateFails, ReconnectRefused
<1>3. ASSUME NEW t \in Thread, ThreadStep(t) \/ Notify(t)
      PROVE  StatusMatchesState' /\ SawIsTrue'
  BY <1>3, MarkKeepsStatus, OtherStepsKeepStatus DEF ThreadStep, GoesOn, Finish, Call, Spin,
     Throw, ScanNext, ScanStop, Notify
<1>4. CASE EnvStep \/ AnswerStep
  BY <1>4, OtherStepsKeepStatus DEF EnvStep, Crash, Vanish, Restart, AnswerStep,
     FileIsThere, AskEnds
<1>5. QED
  BY <1>1, <1>2, <1>3, <1>4 DEF Next

(***************************************************************************)
(* The status column is truthful about the pause switch in every state,    *)
(* whatever the threads write into it.                                     *)
(***************************************************************************)
THEOREM StatusIsTruthful == Spec => []StatusMatchesState
<1>1. Init => StatusMatchesState /\ SawIsTrue
  <2> SUFFICES ASSUME Init
               PROVE  StatusMatchesState /\ SawIsTrue
    OBVIOUS
  <2>1. DOMAIN rows = {} /\ ui.at = "idle"
    BY IdleType DEF Init
  <2>2. QED
    BY <2>1 DEF StatusMatchesState, SawIsTrue
<1>2. Inv /\ StatusMatchesState /\ SawIsTrue /\ [Next]_vars
          => StatusMatchesState' /\ SawIsTrue'
  BY StatusStep
<1>3. QED
  BY <1>1, <1>2, InvIsInvariant, PTL DEF Spec

-----------------------------------------------------------------------------
(***************************************************************************)
(* A thread enters a call on RUN only, with no late notice behind it, and  *)
(* its count starts again whenever its cell is put on RUN.                 *)
(***************************************************************************)
LateInv ==
    \A t \in Thread :
        /\ threads[t].late <= 1
        /\ Running(t) =>
               /\ State(t) = "RUN" => threads[t].late = 0
               /\ threads[t].at = "call" => threads[t].late = 0

\* A new thread has shown no notice, and RunAgain forgets those of its cell.
LEMMA RunAgainLate ==
    ASSUME NEW f \in [Thread -> ThreadRec], NEW t \in Thread
    PROVE  /\ RunAgain(f)[t].late \in {0, f[t].late}
           /\ f[t].cell = threadList[ui.row].cell => RunAgain(f)[t].late = 0
<1>1. f[t] \in ThreadRec
  OBVIOUS
<1>2. [f[t] EXCEPT !.late = 0].late = 0
  BY <1>1 DEF ThreadRec
<1>3. QED
  BY <1>2 DEF RunAgain

\* Steps that leave a thread as it is, or put its count to 0, and put no cell
\* on RUN.
LEMMA SameThreadKeepsLate ==
    ASSUME Inv, LateInv, NEW t \in Thread,
           threads'[t].at = threads[t].at, threads'[t].cell = threads[t].cell,
           threads'[t].late = threads[t].late,
           \A c \in Cell : runstate'[c] = "RUN" => runstate[c] = "RUN"
    PROVE  /\ threads'[t].late <= 1
           /\ Running(t)' =>
                  /\ State(t)' = "RUN" => threads'[t].late = 0
                  /\ threads'[t].at = "call" => threads'[t].late = 0
<1>1. Running(t) => threads[t].cell \in Cell
  BY DEF Inv, TypeOK
<1>2. Running(t)' <=> Running(t)
  BY DEF Running
<1>3. QED
  BY <1>1, <1>2 DEF LateInv, State

\* The switch: whoever has its cell put on RUN starts counting again.
LEMMA SwitchKeepsLate ==
    ASSUME Inv, LateInv, Resume \/ Reconnect \/ ReconnectFails
    PROVE  LateInv'
<1> DEFINE c == threadList[ui.row].cell
<1>1. Switch
  BY DoubleClickSwitches
<1>2. /\ c \in Cell /\ c \in Nat
      /\ \A d \in Cell : d # c => runstate'[d] = runstate[d]
  BY <1>1, SwitchCells DEF Cell, Inv, TypeOK
<1>3. PICK f \in [Thread -> ThreadRec] :
          /\ threads' = RunAgain(f)
          /\ \A t \in Thread :
                 \/ f[t] = threads[t]
                 \/ f[t].at = "poll" /\ f[t].late = 0 /\ f[t].cell = c
  <2>1. CASE Resume \/ ReconnectFails
    BY <2>1 DEF Resume, ReconnectFails, Inv, TypeOK
  <2>2. CASE Reconnect
    <3>1. PICK u \in Thread : threads' = RunAgain([threads EXCEPT ![u] =
               Watching(threadList[ui.row].cell, ui.file, ui.friendly, ui.ip)])
      BY <2>2 DEF Reconnect
    <3>2. ui.file \in File /\ ui.friendly \in Friendly /\ ui.ip \in Ip
      BY <2>2 DEF Reconnect, Inv, HandlerInv
    <3>3. Watching(c, ui.file, ui.friendly, ui.ip) \in ThreadRec
      BY <1>2, <3>2, WatchingType
    <3>4. [threads EXCEPT ![u] = Watching(c, ui.file, ui.friendly, ui.ip)]
              \in [Thread -> ThreadRec]
      BY <3>3 DEF Inv, TypeOK
    <3>5. QED
      BY <3>1, <3>4 DEF Watching, Inv, TypeOK
  <2>3. QED
    BY <2>1, <2>2
<1>4. ASSUME NEW t \in Thread
      PROVE  /\ threads'[t].late <= 1
             /\ Running(t)' =>
                    /\ State(t)' = "RUN" => threads'[t].late = 0
                    /\ threads'[t].at = "call" => threads'[t].late = 0
  <2>1. /\ threads'[t].at = f[t].at /\ threads'[t].cell = f[t].cell
        /\ threads'[t].late \in {0, f[t].late}
        /\ f[t].cell = c => threads'[t].late = 0
    BY <1>3, RunAgainType, RunAgainLate
  <2>2. CASE f[t].cell = c
    BY <2>1, <2>2
  <2>3. CASE f[t].cell # c
    <3>1. f[t] = threads[t]
      BY <1>3, <2>3
    <3>2. Running(t) => threads[t].cell \in Cell
      BY DEF Inv, TypeOK
    <3>3. Running(t) => State(t)' = State(t)
      BY <1>2, <2>1, <2>3, <3>1, <3>2 DEF State
    <3>4. Running(t)' <=> Running(t)
      BY <2>1, <3>1 DEF Running
    <3>5. QED
      BY <2>1, <3>1, <3>3, <3>4 DEF LateInv
  <2>4. QED
    BY <2>2, <2>3
<1>5. QED
  BY <1>4 DEF LateInv

\* Steps of the UI thread and of the servers that start no thread again.
LEMMA CalmKeepsLate ==
    ASSUME Inv, LateInv,
           \A t \in Thread : /\ threads'[t].at = threads[t].at
                             /\ threads'[t].cell = threads[t].cell
                             /\ threads'[t].late = threads[t].late,
           \A c \in Cell : runstate'[c] = "RUN" => runstate[c] = "RUN"
    PROVE  LateInv'
BY SameThreadKeepsLate DEF LateInv

\* A new watch has a cell of its own.
LEMMA CreateKeepsLate ==
    ASSUME Inv, LateInv, CreateWatch
    PROVE  LateInv'
<1>1. PICK u \in Thread : threads' = [threads EXCEPT ![u] =
           Watching(Len(runstate) + 1, ui.file, ui.friendly, ui.ip)]
  BY DEF CreateWatch
<1>2. threads \in [Thread -> ThreadRec]
  BY DEF Inv, TypeOK
<1>3. ASSUME NEW t \in Thread
      PROVE  /\ threads'[t].late <= 1
             /\ Running(t)' =>
                    /\ State(t)' = "RUN" => threads'[t].late = 0
                    /\ threads'[t].at = "call" => threads'[t].late = 0
  <2>1. CASE t = u
    BY <1>1, <1>2, <2>1 DEF Watching
  <2>2. CASE t # u
    <3>1. threads'[t] = threads[t]
      BY <1>1, <1>2, <2>2
    <3>2. QED
      BY <3>1, CreateWatchCells, SameThreadKeepsLate
  <2>3. QED
    BY <2>1, <2>2
<1>4. QED
  BY <1>3 DEF LateInv

\* A watch thread: it calls on RUN, and counts the notice of that call.
LEMMA ThreadKeepsLate ==
    ASSUME Inv, LateInv, NEW u \in Thread, ThreadStep(u) \/ Notify(u)
    PROVE  LateInv'
<1>1. threads \in [Thread -> ThreadRec] /\ runstate' = runstate
  BY DEF ThreadStep, GoesOn, Finish, Call, Spin, Throw, ScanNext, ScanStop, Mark, Notify,
         Inv, TypeOK
<1>2. ASSUME NEW t \in Thread
      PROVE  /\ threads'[t].late <= 1
             /\ Running(t)' =>
                    /\ State(t)' = "RUN" => threads'[t].late = 0
                    /\ threads'[t].at = "call" => threads'[t].late = 0
  <2>1. CASE t # u
    <3>1. threads'[t] = threads[t]
      BY <1>1, <2>1 DEF ThreadStep, GoesOn, Finish, Call, Spin, Throw, ScanNext, ScanStop, Mark,
                        Notify
    <3>2. QED
      BY <1>1, <3>1, SameThreadKeepsLate
  <2>2. CASE t = u /\ (Finish(u) \/ Mark(u))
    BY <1>1, <2>2 DEF Finish, Mark, Off, Running
  <2>3. CASE t = u /\ (Call(u) \/ Spin(u) \/ Throw(u) \/ ScanNext(u) \/ ScanStop(u))
    <3>1. /\ threads'[t].cell = threads[t].cell /\ threads'[t].late = threads[t].late
          /\ Running(t)
          /\ threads'[t].at = "call" => State(t) = "RUN"
      BY <1>1, <2>3 DEF Call, Spin, Throw, ScanNext, ScanStop, Running, ThreadRec
    <3>2. State(t)' = State(t)
      BY <1>1, <3>1 DEF State
    <3>3. QED
      BY <3>1, <3>2 DEF LateInv
  <2>4. CASE t = u /\ Notify(u)
    <3>1. threads[t].late = 0
      BY <2>4 DEF Notify, LateInv, Running
    <3>2. /\ threads'[t].late = LateNotices(t) /\ threads'[t].at = "poll"
          /\ threads'[t].cell = threads[t].cell
      BY <1>1, <2>4 DEF Notify, ThreadRec
    <3>3. State(t)' = State(t)
      BY <1>1, <3>2 DEF State
    <3>4. QED
      BY <3>1, <3>2, <3>3 DEF LateNotices
  <2>5. QED
    BY <2>1, <2>2, <2>3, <2>4 DEF ThreadStep, GoesOn
<1>3. QED
  BY <1>2 DEF LateInv

\* Every step keeps the count.
LEMMA LateStep ==
    ASSUME Inv, LateInv, [Next]_vars
    PROVE  LateInv'
<1>1. CASE UserStep \/ AnswerStep \/ UNCHANGED vars
  <2>1. threads' = threads /\ runstate' = runstate
    BY <1>1 DEF AnswerStep, FileIsThere, AskEnds, UserStep, AddServer, RemoveServer, StartWatch, DoubleClick, ViewLog, vars
  <2>2. QED
    BY <2>1, CalmKeepsLate
<1>2. CASE HandlerStep
  <2>1. CASE CreateWatch
    BY <2>1, CreateKeepsLate
  <2>2. CASE Resume \/ Reconnect \/ ReconnectFails
    BY <2>2, SwitchKeepsLate
  <2>3. CASE StopMatch
    <3>1. threads' = threads
      BY <2>3 DEF StopMatch
    <3>2. \A c \in Cell : runstate'[c] = "RUN" => runstate[c] = "RUN"
      BY <2>3, StopMatchCells
    <3>3. QED
      BY <3>1, <3>2, CalmKeepsLate
  <2>4. CASE Pause
    <3>1. threads' = threads /\ runstate' = [runstate EXCEPT ![threadList[ui.row].cell] = "LOCK"]
      BY <2>4 DEF Pause, SetState
    <3>2. \A c \in Cell : runstate'[c] = "RUN" => runstate[c] = "RUN"
      BY <3>1 DEF Cell, Inv, TypeOK
    <3>3. QED
      BY <3>1, <3>2, CalmKeepsLate
  <2>5. CASE threads' = threads /\ runstate' = runstate
    BY <2>5, CalmKeepsLate
  <2>6. QED
    BY <1>2, <2>1, <2>2, <2>3, <2>4, <2>5 DEF HandlerStep, StopSkip, StopDone,
       PruneMatch, PruneSkip, PruneDone, CreateFails, AppendRow, ReconnectRefused, Label
<1>3. ASSUME NEW t \in Thread, ThreadStep(t) \/ Notify(t)
      PROVE  LateInv'
  BY <1>3, ThreadKeepsLate
<1>4. CASE EnvStep
  <2>1. runstate' = runstate
    BY <1>4 DEF EnvStep, Crash, Vanish, Restart
  <2>2. \A t \in Thread : /\ threads'[t].at = threads[t].at
                          /\ threads'[t].cell = threads[t].cell
                          /\ threads'[t].late = threads[t].late
    BY <1>4 DEF EnvStep, Crash, Vanish, Restart, Inv, TypeOK, ThreadRec
  <2>3. QED
    BY <2>1, <2>2, CalmKeepsLate
<1>5. QED
  BY <1>1, <1>2, <1>3, <1>4 DEF Next

(***************************************************************************)
(* Pausing or removing a watch lets at most one more notice out of each    *)
(* thread, for any number of threads that share a cell and whatever the    *)
(* order of the user's clicks and the server's replies.                    *)
(***************************************************************************)
THEOREM OneLateNotice == Spec => []AtMostOneLateNotice
<1>1. Init => LateInv
  BY DEF Init, LateInv, Off, Running
<1>2. Inv /\ LateInv /\ [Next]_vars => LateInv'
  BY LateStep
<1>3. LateInv => AtMostOneLateNotice
  BY DEF LateInv, AtMostOneLateNotice
<1>4. QED
  BY <1>1, <1>2, <1>3, InvIsInvariant, PTL DEF Spec

-----------------------------------------------------------------------------
(***************************************************************************)
(* The list the user sees.  While a handler of a double click has not      *)
(* written yet, what it has read of the status still says what the cell    *)
(* is, although a thread may have overwritten the status.                  *)
(***************************************************************************)
SawTheSwitch ==
    ui.at = "toggle" =>
        /\ ui.saw = "Active" => runstate[threadList[ui.row].cell] = "RUN"
        /\ ui.saw = "Paused" => runstate[threadList[ui.row].cell] = "LOCK"

LEMMA SawTheSwitchStep ==
    ASSUME Inv, StatusMatchesState, [Next]_vars, SawTheSwitch
    PROVE  SawTheSwitch'
<1>1. CASE UNCHANGED <<ui, threadList, runstate>>
  BY <1>1 DEF SawTheSwitch
<1>2. ASSUME NEW i \in DOMAIN rows, DoubleClick(i)
      PROVE  SawTheSwitch'
  <2>1. /\ ui.at = "idle" /\ ui'.row = i /\ ui'.saw = rows[i].status
        /\ UNCHANGED <<rows, threadList, runstate>>
    BY <1>2 DEF DoubleClick
  <2>2. rows[i].watch = threadList[i].cell
    BY <2>1 DEF Inv, IndexInv, RowIndexIsThreadIndex, Removing
  <2>3. Truthful(i)
    BY <2>1 DEF StatusMatchesState, Removing, Truthful
  <2>4. QED
    BY <2>1, <2>2, <2>3 DEF SawTheSwitch, Truthful
<1>3. CASE UserStep /\ ~\E i \in DOMAIN rows : DoubleClick(i)
  BY <1>1, <1>3 DEF UserStep, AddServer, RemoveServer, StartWatch, ViewLog, Idle,
     SawTheSwitch
<1>4. CASE HandlerStep \/ AnswerStep
  <2>1. ui'.at # "toggle"
    <3>1. ui \in Handler
      BY DEF Inv, TypeOK
    <3>2. QED
      BY <1>4, <3>1, IdleType DEF HandlerStep, StopMatch, StopSkip, StopDone, PruneMatch,
         PruneSkip, PruneDone, CreateWatch, CreateFails, AppendRow, Pause, Resume,
         Reconnect, ReconnectRefused, ReconnectFails, Label, Handler, AnswerStep,
         FileIsThere, AskEnds
  <2>2. QED
    BY <2>1 DEF SawTheSwitch
<1>5. CASE (\E t \in Thread : ThreadStep(t) \/ Notify(t)) \/ EnvStep \/ UNCHANGED vars
  BY <1>1, <1>5 DEF ThreadStep, GoesOn, Finish, Call, Spin, Throw, ScanNext, ScanStop, Mark,
     Notify, EnvStep, Crash, Vanish, Restart, vars
<1>6. QED
  BY <1>2, <1>3, <1>4, <1>5 DEF Next

\* What the list of watches rests on.
ListInv == Inv /\ StoppedIsGone /\ StatusMatchesState /\ FriendlyNameIsKey /\ SawTheSwitch

LEMMA ListInvariant == Spec => []ListInv
<1>1. Init => SawTheSwitch
  BY IdleType DEF Init, SawTheSwitch
<1>2. Inv /\ StatusMatchesState /\ [Next]_vars /\ SawTheSwitch => SawTheSwitch'
  BY SawTheSwitchStep
<1>3. QED
  BY <1>1, <1>2, StoppedIsGoneInvariant, StatusIsTruthful, FriendlyNameDistinguishes, PTL
  DEF Spec, ListInv

\* The entry of a row.
EntryOf(i) ==
    [server |-> rows[i].server, friendly |-> rows[i].friendly, watch |-> rows[i].watch]

\* The entry of the watch whose thread runs and whose row is still to come.
NewEntry == [server |-> ui.server, friendly |-> ui.friendly, watch |-> Len(runstate)]

Leaving(s) == Removing /\ s = ui.server

LEMMA ListedMembers ==
    ASSUME NEW w
    PROVE  w \in Listed <=> \/ \E i \in DOMAIN rows : ~Leaving(rows[i].server) /\ w = EntryOf(i)
                            \/ ui.at = "append" /\ w = NewEntry
  BY DEF Listed, EntryOf, NewEntry, Leaving

LEMMA ListedMembersNext ==
    ASSUME NEW w
    PROVE  w \in Listed' <=>
               \/ \E i \in DOMAIN rows' : ~Leaving(rows[i].server)' /\ w = EntryOf(i)'
               \/ ui'.at = "append" /\ w = NewEntry'
  BY DEF Listed, EntryOf, NewEntry, Leaving

\* Steps that rename no row and neither begin nor end a removal or a start.
LEMMA SameListed ==
    ASSUME SameNames, \A s : Leaving(s)' <=> Leaving(s),
           ui.at # "append", ui'.at # "append"
    PROVE  Listed' = Listed
<1>1. /\ DOMAIN rows' = DOMAIN rows
      /\ \A i \in DOMAIN rows : EntryOf(i)' = EntryOf(i) /\ rows'[i].server = rows[i].server
  BY DEF SameNames, EntryOf
<1>2. \A w : w \in Listed' <=> w \in Listed
  BY <1>1, ListedMembers, ListedMembersNext
<1>3. QED
  BY <1>2

\* Steps that write no cell and move no wrap.
LEMMA SameSwitches ==
    ASSUME runstate' = runstate, \A c : BeingStopped(c)' <=> BeingStopped(c)
    PROVE  Switches' = Switches
  BY DEF Switches, Cell

ListUnchanged == UNCHANGED <<Listed, Switches>>

\* Steps of the user that only open a dialog or begin a handler.
LEMMA BeginKeepsList ==
    ASSUME UserStep, ~\E k \in DOMAIN serverlist : RemoveServer(k)
    PROVE  ListUnchanged
<1>1. /\ UNCHANGED <<rows, threadList, runstate>> /\ ui.at = "idle"
      /\ ui'.at \in {"idle", "ask", "view", "toggle"}
  <2>1. ASSUME NEW s \in Server, NEW ip \in Ip, AddServer(s, ip)
        PROVE  ui' = ui
    BY <2>1 DEF AddServer
  <2>2. ASSUME NEW k \in DOMAIN serverlist, NEW f \in File, NEW n \in Friendly,
               StartWatch(k, f, n)
        PROVE  ui'.at = "ask"
    BY <2>2 DEF StartWatch, Idle
  <2>3. ASSUME NEW i \in DOMAIN rows, DoubleClick(i) \/ ViewLog(i)
        PROVE  ui'.at \in {"toggle", "view"}
    BY <2>3 DEF DoubleClick, ViewLog, Idle
  <2>4. UNCHANGED <<rows, threadList, runstate>> /\ ui.at = "idle"
    BY DEF UserStep, AddServer, StartWatch, DoubleClick, ViewLog
  <2>5. QED
    BY <2>1, <2>2, <2>3, <2>4 DEF UserStep
<1>2. Listed' = Listed
  BY <1>1, SameListed DEF SameNames, Leaving, Removing
<1>3. Switches' = Switches
  BY <1>1, SameSwitches DEF BeingStopped
<1>4. QED
  BY <1>2, <1>3 DEF ListUnchanged

\* RemoveServer is the removal of all watches of its server: at that moment
\* every row has its wrap, so that the cells of both are the same.
LEMMA RemoveServerRemoves ==
    ASSUME Inv, NEW k \in DOMAIN serverlist, RemoveServer(k)
    PROVE  List!Remove(serverlist[k].server)
<1> DEFINE s == serverlist[k].server
           removed == {w \in Listed : w.server = s}
<1>1. /\ ui.at = "idle" /\ ui'.at = "stop" /\ ui'.server = s
      /\ UNCHANGED <<rows, threadList, runstate>>
  BY DEF RemoveServer, Idle
<1>2. /\ DOMAIN threadList = DOMAIN rows
      /\ \A i \in DOMAIN rows : rows[i].watch = threadList[i].cell
      /\ \A i \in DOMAIN rows : rows[i].server = threadList[i].server
  BY <1>1 DEF Inv, IndexInv, RowIndexIsThreadIndex, Removing, TypeOK
<1>3. \A w : w \in Listed <=> \E i \in DOMAIN rows : w = EntryOf(i)
  BY <1>1, ListedMembers DEF Leaving, Removing
<1>4. \A w : w \in Listed' <=> \E i \in DOMAIN rows : rows[i].server # s /\ w = EntryOf(i)
  <2>1. \A i : EntryOf(i)' = EntryOf(i)
    BY <1>1 DEF EntryOf
  <2>2. \A i : Leaving(rows[i].server)' <=> rows[i].server = s
    BY <1>1 DEF Leaving, Removing
  <2>3. QED
    BY <1>1, <2>1, <2>2, ListedMembersNext
<1>5. \A i : EntryOf(i).server = rows[i].server /\ EntryOf(i).watch = rows[i].watch
  BY DEF EntryOf
<1>6. Listed' = Listed \ removed
  BY <1>3, <1>4, <1>5
<1>7. ASSUME NEW c
      PROVE  BeingStopped(c)' <=> \E w \in removed : w.watch = c
  <2>1. BeingStopped(c)' <=> \E i \in DOMAIN rows : rows[i].watch = c /\ rows[i].server = s
    BY <1>1, <1>2 DEF BeingStopped
  <2>2. QED
    BY <1>3, <1>5, <2>1
<1>8. Switches = [c \in Cell |-> runstate[c]]
  BY <1>1 DEF Switches, BeingStopped
<1>9. Switches' = [c \in Cell |-> IF BeingStopped(c)' THEN "STOP" ELSE runstate[c]]
  BY <1>1 DEF Switches, Cell
<1> HIDE DEF removed
<1>10. Switches' = [c \in DOMAIN Switches |->
                       IF \E w \in removed : w.watch = c THEN "STOP" ELSE Switches[c]]
  BY <1>7, <1>8, <1>9
<1>11. QED
  BY <1>6, <1>10 DEF List!Remove, removed

\* The stop loop takes nothing from the list that the removal has not taken,
\* and stops no cell that the removal has not stopped.
LEMMA StopMatchKeepsList ==
    ASSUME Inv, StopMatch
    PROVE  ListUnchanged
<1> DEFINE d == threadList[ui.row].cell
<1>1. ui.at = "stop" /\ ui' = ui /\ rows' = rows /\ threadList[ui.row].server = ui.server
  BY DEF StopMatch
<1>2. Listed' = Listed
  BY <1>1, SameListed DEF SameNames, Leaving, Removing
<1>3. /\ ui.row \in DOMAIN threadList /\ d \in Cell /\ Cell' = Cell
      /\ \A c \in Cell : c # d => runstate'[c] = runstate[c]
      /\ runstate'[d] = "STOP"
  BY StopMatchCells
<1>4. BeingStopped(d)
  BY <1>1, <1>3 DEF BeingStopped
<1>5. ASSUME NEW c \in Cell, c # d
      PROVE  BeingStopped(c)' <=> BeingStopped(c)
  <2>1. /\ \A i \in DOMAIN threadList' : \E p \in DOMAIN threadList :
               threadList'[i] = threadList[p]
        /\ \A p \in DOMAIN threadList : p # ui.row =>
               \E i \in DOMAIN threadList' : threadList'[i] = threadList[p]
    BY StopMatchCells
  <2>2. QED
    BY <1>1, <1>5, <2>1 DEF BeingStopped
<1> HIDE DEF d
<1>6. Switches' = Switches
  <2>1. Switches' = [c \in Cell |-> IF BeingStopped(c)' THEN "STOP" ELSE runstate'[c]]
    BY <1>3 DEF Switches
  <2>2. \A c \in Cell : (IF BeingStopped(c)' THEN "STOP" ELSE runstate'[c])
                            = (IF BeingStopped(c) THEN "STOP" ELSE runstate[c])
    BY <1>3, <1>4, <1>5
  <2>3. QED
    BY <2>1, <2>2 DEF Switches
<1>7. QED
  BY <1>2, <1>6 DEF ListUnchanged

\* The loops go on, or the prune loop takes the row of a watch that has left.
LEMMA LoopsKeepList ==
    ASSUME Inv, [Next]_vars, StopSkip \/ StopDone \/ PruneMatch \/ PruneSkip
    PROVE  ListUnchanged
<1>1. /\ ui.at \in {"stop", "prune"} /\ ui'.at \in {"stop", "prune"}
      /\ ui'.server = ui.server /\ UNCHANGED <<threadList, runstate>>
  <2>1. ui \in Handler
    BY DEF Inv, TypeOK
  <2>2. QED
    BY <2>1 DEF StopSkip, StopDone, PruneMatch, PruneSkip, Handler
<1>2. \A s : Leaving(s)' <=> Leaving(s)
  BY <1>1 DEF Leaving, Removing
<1>3. Switches' = Switches
  <2>1. \A c : BeingStopped(c)' <=> BeingStopped(c)
    <3>1. CASE StopDone
      <4>1. \A i \in DOMAIN threadList : i < ui.row
        BY <3>1 DEF StopDone, Inv, TypeOK, Handler
      <4>2. \A i \in DOMAIN threadList : threadList[i].server # ui.server
        BY <3>1, <4>1 DEF StopDone, Inv, IndexInv, StoppedSoFar
      <4>3. QED
        BY <1>1, <4>2 DEF BeingStopped
    <3>2. CASE ui'.at = ui.at
      BY <1>1, <3>2 DEF BeingStopped
    <3>3. StopDone \/ ui'.at = ui.at
      <4>1. ui \in Handler
        BY DEF Inv, TypeOK
      <4>2. QED
        BY <4>1 DEF StopSkip, PruneMatch, PruneSkip, Handler
    <3>4. QED
      BY <3>1, <3>2, <3>3
  <2>2. QED
    BY <1>1, <2>1, SameSwitches
<1>4. Listed' = Listed
  <2>1. CASE PruneMatch
    <3>1. /\ rows \in Seq(Row) /\ ui.row \in 1 .. Len(rows)
          /\ rows' = RemoveAt(rows, ui.row) /\ Leaving(rows[ui.row].server)
      BY <2>1 DEF PruneMatch, Inv, TypeOK, HandlerInv, Removing, Leaving
    <3>2. /\ \A i \in DOMAIN rows' : \E p \in DOMAIN rows : rows'[i] = rows[p]
          /\ \A p \in DOMAIN rows : p # ui.row => \E i \in DOMAIN rows' : rows'[i] = rows[p]
      BY <3>1, RemoveAtPlaces
    <3>3. \A i, p : rows'[i] = rows[p] => EntryOf(i)' = EntryOf(p)
      BY DEF EntryOf
    <3>4. ASSUME NEW w
          PROVE  w \in Listed' <=> w \in Listed
      BY <1>1, <1>2, <3>1, <3>2, <3>3, ListedMembers, ListedMembersNext
    <3>5. QED
      BY <3>4
  <2>2. CASE rows' = rows
    BY <1>1, <1>2, <2>2, SameListed DEF SameNames
  <2>3. QED
    BY <2>1, <2>2 DEF StopSkip, StopDone, PruneSkip
<1>5. QED
  BY <1>3, <1>4 DEF ListUnchanged

\* When the handler returns no row of the removed server is left.
LEMMA PruneDoneKeepsList ==
    ASSUME Inv, PruneDone
    PROVE  ListUnchanged
<1>1. /\ ui.at = "prune" /\ ui.row > Len(rows) /\ ui'.at = "idle"
      /\ UNCHANGED <<rows, threadList, runstate>>
  BY IdleType DEF PruneDone
<1>2. \A i \in DOMAIN rows : i < ui.row
  BY <1>1 DEF Inv, TypeOK, Handler
<1>3. \A i \in DOMAIN rows : rows[i].server # ui.server
  BY <1>1, <1>2 DEF Inv, IndexInv, AlignedSoFar, StoppedSoFar, Matches
<1>4. \A i \in DOMAIN rows : /\ ~Leaving(rows[i].server) /\ ~Leaving(rows[i].server)'
                             /\ EntryOf(i)' = EntryOf(i)
  BY <1>1, <1>3 DEF Leaving, Removing, EntryOf
<1>5. ASSUME NEW w
      PROVE  w \in Listed' <=> w \in Listed
  BY <1>1, <1>4, ListedMembers, ListedMembersNext
<1>6. Listed' = Listed
  BY <1>5
<1>7. Switches' = Switches
  BY <1>1, SameSwitches DEF BeingStopped
<1>8. QED
  BY <1>6, <1>7 DEF ListUnchanged

\* Outside the stop loop a switch is the cell.
LEMMA SwitchIsCell ==
    /\ ui.at # "stop" => Switches = [c \in Cell |-> runstate[c]]
    /\ ui'.at # "stop" => Switches' = [c \in Cell' |-> runstate'[c]]
  BY DEF Switches, BeingStopped

\* CreateWatch puts the watch on the list: its cell is new, and its friendly
\* name still nobody else's.
LEMMA CreateWatchAdds ==
    ASSUME ListInv, CreateWatch
    PROVE  /\ Len(runstate) + 1 \in 1 .. MaxCells
           /\ ui.server \in Server /\ ui.friendly \in Friendly
           /\ List!Add(Len(runstate) + 1, ui.server, ui.friendly)
<1> DEFINE c == Len(runstate) + 1
           entry == [server |-> ui.server, friendly |-> ui.friendly, watch |-> c]
<1>0. Inv
  BY DEF ListInv
<1>1. /\ ui.at = "create" /\ ui'.at = "append" /\ rows' = rows
      /\ ui'.server = ui.server /\ ui'.friendly = ui.friendly
  BY <1>0 DEF CreateWatch, Inv, TypeOK, Handler
<1>2. ui.server \in Server /\ ui.friendly \in Friendly
  BY <1>0, <1>1 DEF Inv, HandlerInv
<1>3. c \in 1 .. MaxCells
  <2>1. Len(runstate) \in Nat /\ Len(runstate) < MaxCells
    BY <1>0 DEF Inv, TypeOK, CreateWatch
  <2>2. QED
    BY <2>1, BoundAssumption
<1>4. Len(runstate') = c
  BY <1>0 DEF CreateWatch, Inv, TypeOK
<1>5. NewEntry' = entry
  BY <1>1, <1>4 DEF NewEntry
<1>6. \A s : ~Leaving(s) /\ ~Leaving(s)'
  BY <1>1 DEF Leaving, Removing
<1>7. \A i : EntryOf(i)' = EntryOf(i) /\ rows'[i] = rows[i]
  BY <1>1 DEF EntryOf
<1> HIDE DEF entry, c
<1>8. \A w : w \in Listed' <=> w \in Listed \cup {entry}
  BY <1>1, <1>5, <1>6, <1>7, ListedMembers, ListedMembersNext
<1>9. \A w \in Listed : w.friendly # ui.friendly
  <2>1. \A i \in DOMAIN rows : rows[i].friendly # ui.friendly
    BY <1>1 DEF ListInv, FriendlyNameIsKey
  <2>2. \A i : EntryOf(i).friendly = rows[i].friendly
    BY DEF EntryOf
  <2>3. QED
    BY <1>1, <2>1, <2>2, ListedMembers
<1>10. /\ c \notin Cell /\ Cell' = Cell \cup {c}
       /\ \A d \in Cell : runstate'[d] = runstate[d]
       /\ runstate'[c] = "RUN"
  BY <1>0, CreateWatchCells DEF c
<1>11. Switches = [d \in Cell |-> runstate[d]] /\ Switches' = [d \in Cell' |-> runstate'[d]]
  BY <1>1, SwitchIsCell
<1>12. Switches' = [d \in DOMAIN Switches \cup {c} |-> IF d = c THEN "RUN" ELSE Switches[d]]
  BY <1>10, <1>11
<1>13. Listed' = Listed \cup {entry}
  BY <1>8
<1>14. DOMAIN Switches = Cell
  BY <1>11
<1>15. List!Add(c, ui.server, ui.friendly)
  BY <1>9, <1>10, <1>12, <1>13, <1>14 DEF List!Add, entry
<1>16. QED
  BY <1>2, <1>3, <1>15 DEF c

\* The row of a watch that is on the list already.
LEMMA AppendRowKeepsList ==
    ASSUME Inv, AppendRow
    PROVE  ListUnchanged
<1>1. /\ ui.at = "append" /\ ui'.at = "idle" /\ UNCHANGED <<threadList, runstate>>
  BY IdleType DEF AppendRow
<1>2. PICK last : last = Len(rows) + 1
  OBVIOUS
<1>3. /\ DOMAIN rows' = DOMAIN rows \cup {last}
      /\ \A i \in DOMAIN rows : rows'[i] = rows[i]
      /\ rows'[last] = [server |-> ui.server, file |-> ui.file, friendly |-> ui.friendly,
                        status |-> "Active", watch |-> Len(runstate)]
  BY <1>2 DEF AppendRow, Inv, TypeOK
<1>4. (\A i \in DOMAIN rows : EntryOf(i)' = EntryOf(i)) /\ EntryOf(last)' = NewEntry
  BY <1>3 DEF EntryOf, NewEntry
<1>5. \A w : w \in Listed' <=> w \in Listed
  <2>1. \A s : ~Leaving(s) /\ ~Leaving(s)'
    BY <1>1 DEF Leaving, Removing
  <2>2. \A i : i \in DOMAIN rows' <=> i \in DOMAIN rows \/ i = last
    BY <1>3
  <2>3. ASSUME NEW w
        PROVE  w \in Listed' <=> \E i \in DOMAIN rows' : w = EntryOf(i)'
    BY <1>1, <2>1, ListedMembersNext
  <2>4. ASSUME NEW w
        PROVE  w \in Listed <=> (\E i \in DOMAIN rows : w = EntryOf(i)) \/ w = NewEntry
    BY <1>1, <2>1, ListedMembers
  <2>5. QED
    BY <1>4, <2>2, <2>3, <2>4
<1>6. Switches' = Switches
  BY <1>1, SameSwitches DEF BeingStopped
<1>7. QED
  BY <1>5, <1>6 DEF ListUnchanged

\* A double click that writes its cell pauses or resumes the watch of its row,
\* and finds it as the list has it.
LEMMA DoubleClickActs ==
    ASSUME ListInv, Pause \/ Resume \/ Reconnect \/ ReconnectFails
    PROVE  \E w \in Listed : List!Pause(w) \/ List!Resume(w)
<1> DEFINE w == EntryOf(ui.row)
           c == threadList[ui.row].cell
<1>0. Inv
  BY DEF ListInv
<1>1. /\ ui.at = "toggle" /\ ui'.at \in {"label", "idle"}
      /\ rows' = rows /\ threadList' = threadList
  <2>1. CASE Pause \/ Resume \/ Reconnect
    BY <1>0, <2>1 DEF Pause, Resume, Reconnect, Inv, TypeOK, Handler
  <2>2. CASE ReconnectFails
    BY <2>2, IdleType DEF ReconnectFails
  <2>3. QED
    BY <2>1, <2>2
<1>2. /\ ui.row \in DOMAIN rows /\ ui.row \in DOMAIN threadList
      /\ w.watch = c /\ c \in Cell
  BY <1>0, <1>1, ToggledRow DEF EntryOf, Inv, IndexInv, CellsExist
<1>3. \A s : ~Leaving(s) /\ ~Leaving(s)'
  BY <1>1 DEF Leaving, Removing
<1>4. w \in Listed
  BY <1>2, <1>3, ListedMembers
<1>5. Listed' = Listed
  BY <1>1, <1>3, SameListed DEF SameNames
<1>6. /\ Switches = [d \in Cell |-> runstate[d]]
      /\ Switches' = [d \in Cell' |-> runstate'[d]]
  BY <1>1, SwitchIsCell
<1>7. runstate[c] # "STOP" /\ (ui.saw = "Active" => runstate[c] = "RUN")
  BY <1>1, <1>2 DEF ListInv, StoppedIsGone, SawTheSwitch
<1>8. \/ ui.saw = "Active" /\ SetState("LOCK")
      \/ SetState("RUN")
  BY DEF Pause, Resume, Reconnect, ReconnectFails
<1>9. runstate \in [Cell -> RunState]
  BY <1>0 DEF Inv, TypeOK, Cell
<1>10. \A st : SetState(st) =>
           Cell' = Cell /\ runstate' = [d \in Cell |-> IF d = c THEN st ELSE runstate[d]]
  BY <1>2, <1>9 DEF SetState, Cell
<1> HIDE DEF w, c
<1>11. \A st : SetState(st) => Switches' = [Switches EXCEPT ![w.watch] = st]
  BY <1>2, <1>6, <1>10
<1>12. Switches[w.watch] = runstate[c]
  BY <1>2, <1>6
<1>13. CASE ui.saw = "Active" /\ SetState("LOCK")
  <2>1. List!Pause(w)
    BY <1>5, <1>7, <1>11, <1>12, <1>13 DEF List!Pause
  <2>2. QED
    BY <1>4, <2>1
<1>14. CASE SetState("RUN")
  <2>1. List!Resume(w)
    BY <1>5, <1>7, <1>11, <1>12, <1>14 DEF List!Resume
  <2>2. QED
    BY <1>4, <2>1
<1>15. QED
  BY <1>8, <1>13, <1>14

\* A handler that ends without having acted, or that writes a status.
LEMMA ReturnKeepsList ==
    ASSUME Inv, [Next]_vars, CreateFails \/ ReconnectRefused \/ Label \/ AnswerStep
    PROVE  ListUnchanged
<1>1. /\ ui.at \in {"ask", "view", "create", "toggle", "label"}
      /\ ui'.at \in {"idle", "create"}
      /\ UNCHANGED <<threadList, runstate>>
  <2>1. ui \in Handler
    BY DEF Inv, TypeOK
  <2>2. QED
    BY <2>1, IdleType DEF CreateFails, ReconnectRefused, Label, AnswerStep, FileIsThere,
                          AskEnds, Asking, Handler
<1>2. SameNames
  BY <1>1, RowStepNames DEF PruneMatch, AppendRow
<1>3. Listed' = Listed
  BY <1>1, <1>2, SameListed DEF Leaving, Removing
<1>4. Switches' = Switches
  BY <1>1, SameSwitches DEF BeingStopped
<1>5. QED
  BY <1>3, <1>4 DEF ListUnchanged

\* Watch threads and servers change nothing of the list, whatever the handler
\* is in between.
LEMMA OthersKeepList ==
    ASSUME Inv,
           (\E t \in Thread : ThreadStep(t) \/ Notify(t)) \/ EnvStep \/ UNCHANGED vars
    PROVE  ListUnchanged
<1>1. UNCHANGED <<ui, threadList, runstate>>
  BY DEF ThreadStep, GoesOn, Finish, Call, Spin, Throw, ScanNext, ScanStop, Mark, Notify,
     EnvStep, Crash, Vanish, Restart, vars
<1>2. SameNames
  <2>1. ASSUME NEW t \in Thread, Mark(t), rows' # rows
        PROVE  SameNames
    <3>1. rows' = [rows EXCEPT ![threads[t].i].status = "Connection Error"]
      BY <2>1 DEF Mark, MarkRow
    <3>2. TypeOK /\ "Connection Error" \in Status
      BY DEF Inv, Status
    <3>3. QED
      BY <3>1, <3>2, WriteStatus DEF SameNames
  <2>2. rows' = rows \/ \E t \in Thread : Mark(t)
    BY DEF ThreadStep, GoesOn, Finish, Call, Spin, Throw, ScanNext, ScanStop, Notify,
       EnvStep, Crash, Vanish, Restart, vars
  <2>3. rows' = rows => SameNames
    BY DEF SameNames
  <2>4. QED
    BY <2>1, <2>2, <2>3
<1>3. /\ DOMAIN rows' = DOMAIN rows
      /\ \A i \in DOMAIN rows : EntryOf(i)' = EntryOf(i) /\ rows'[i].server = rows[i].server
  BY <1>2 DEF SameNames, EntryOf
<1>4. NewEntry' = NewEntry /\ \A s : Leaving(s)' <=> Leaving(s)
  BY <1>1 DEF NewEntry, Leaving, Removing
<1>5. \A w : w \in Listed' <=> w \in Listed
  BY <1>1, <1>3, <1>4, ListedMembers, ListedMembersNext
<1>6. Switches' = Switches
  BY <1>1, SameSwitches DEF BeingStopped
<1>7. QED
  BY <1>5, <1>6 DEF ListUnchanged

LEMMA ListInit == Init => List!Init
<1> SUFFICES ASSUME Init PROVE List!Init
  OBVIOUS
<1>1. rows = <<>> /\ runstate = <<>> /\ ui.at = "idle"
  BY IdleType DEF Init
<1>2. DOMAIN rows = {} /\ Cell = {}
  BY <1>1 DEF Cell
<1>3. \A w : w \notin Listed
  BY <1>1, <1>2, ListedMembers
<1>4. Listed = {}
  BY <1>3
<1>5. DOMAIN Switches = {}
  BY <1>2 DEF Switches
<1>6. QED
  BY <1>4, <1>5 DEF List!Init

\* Every step is one of the list, or none.
LEMMA ListStep ==
    ASSUME ListInv, [Next]_vars
    PROVE  [List!Next]_<<Listed, Switches>>
<1>0. Inv
  BY DEF ListInv
<1>1. ASSUME NEW k \in DOMAIN serverlist, RemoveServer(k)
      PROVE  List!Next
  <2>1. serverlist[k] \in Entry
    BY <1>0 DEF Inv, TypeOK
  <2>2. serverlist[k].server \in Server
    BY <2>1 DEF Entry
  <2>3. QED
    BY <1>0, <1>1, <2>2, RemoveServerRemoves DEF List!Next
<1>2. CASE UserStep /\ ~\E k \in DOMAIN serverlist : RemoveServer(k)
  BY <1>2, BeginKeepsList DEF ListUnchanged
<1>3. CASE CreateWatch
  BY <1>3, CreateWatchAdds DEF List!Next
<1>4. CASE Pause \/ Resume \/ Reconnect \/ ReconnectFails
  BY <1>4, DoubleClickActs DEF List!Next
<1>5. CASE StopMatch \/ PruneDone \/ AppendRow
  BY <1>0, <1>5, StopMatchKeepsList, PruneDoneKeepsList, AppendRowKeepsList DEF ListUnchanged
<1>6. CASE StopSkip \/ StopDone \/ PruneMatch \/ PruneSkip
  BY <1>0, <1>6, LoopsKeepList DEF ListUnchanged
<1>7. CASE CreateFails \/ ReconnectRefused \/ Label \/ AnswerStep
  BY <1>0, <1>7, ReturnKeepsList DEF ListUnchanged
<1>8. CASE (\E t \in Thread : ThreadStep(t) \/ Notify(t)) \/ EnvStep \/ UNCHANGED vars
  BY <1>0, <1>8, OthersKeepList DEF ListUnchanged
<1>9. QED
  <2>1. HandlerStep => [List!Next]_<<Listed, Switches>>
    BY <1>3, <1>4, <1>5, <1>6, <1>7 DEF HandlerStep
  <2>2. UserStep => [List!Next]_<<Listed, Switches>>
    BY <1>1, <1>2
  <2>3. QED
    BY <1>7, <1>8, <2>1, <2>2 DEF Next

(***************************************************************************)
(* The table, the wraps and the cells implement one list of watches.  What *)
(* the handlers do in loops over two lists, in two classes and with watch  *)
(* threads writing to the table in between, has for the user the effect of *)
(* one operation: a removal takes all watches of its server and no other,  *)
(* a double click switches the watch of its row and no other, no friendly  *)
(* name is on the list twice, and no watch comes back.                     *)
(***************************************************************************)
THEOREM TableImplementsWatchList == Spec => ImplementsWatchList
  BY ListInit, ListStep, ListInvariant, PTL DEF Spec, ImplementsWatchList, List!Spec, List!listVars
=============================================================================
