-------------------------- MODULE WatchTableProofs --------------------------
(***************************************************************************)
(* Proofs about WatchTable, for every value of its constants: the values   *)
(* of the variables (TypeCorrect), and that the index of a row is the      *)
(* index of its thread (RowsMatchThreads), which pause, resume and         *)
(* reconnect rely on.                                                      *)
(*                                                                         *)
(* While a removal is under way the two lists differ, so the second needs  *)
(* an invariant of its own: both lists are sorted by cell, every row has a *)
(* wrap, every wrap that is kept has a row, and the part of the table that *)
(* the prune loop has passed is aligned. Two sorted lists with the same    *)
(* cells are the same list, so that the loops leave them aligned again.    *)
(***************************************************************************)
EXTENDS WatchTable, SequenceLemmas

-----------------------------------------------------------------------------
(***************************************************************************)
(* What a handler knows of its own arguments while it is in progress.      *)
(***************************************************************************)
HandlerInv ==
    /\ Removing => ui.row \in Nat \ {0}
    /\ ui.at \in {"toggle", "label"} =>
           ui.row \in DOMAIN rows /\ ui.row \in DOMAIN threadList
    /\ ui.at \in {"ask", "create", "append"} => ui.server \in Server /\ ui.file \in File
    /\ ui.at \in {"ask", "create", "append"} => ui.ip \in Ip /\ ui.friendly \in Friendly
    /\ ui.at = "toggle" => ui.ip \in Ip /\ ui.file \in File /\ ui.friendly \in Friendly
    /\ ui.at = "append" => Len(runstate) # 0

\* The cells of the rows and of the wraps exist.
CellsExist ==
    /\ \A i \in DOMAIN rows : rows[i].watch \in Cell
    /\ \A i \in DOMAIN threadList : threadList[i].cell \in Cell

(***************************************************************************)
(* The strengthening that makes RowIndexIsThreadIndex inductive.  Rows and *)
(* wraps are both in the order of their cells, so that two of them that    *)
(* hold the same cells are aligned; while a server is removed, every wrap  *)
(* still has its row, and every row of another server its wrap.            *)
(***************************************************************************)
RowsSorted ==
    \A i, j \in DOMAIN rows : i < j => rows[i].watch < rows[j].watch

WrapsSorted ==
    \A i, j \in DOMAIN threadList : i < j => threadList[i].cell < threadList[j].cell

Matches(j, i) ==
    /\ rows[j].watch = threadList[i].cell
    /\ rows[j].server = threadList[i].server

NewestIsLast ==
    ui.at = "append" =>
        /\ threadList[Len(threadList)].server = ui.server
        /\ threadList[Len(threadList)].cell = Len(runstate)
        /\ \A i \in DOMAIN rows : rows[i].watch < Len(runstate)

WrapsHaveRows ==
    Removing => \A i \in DOMAIN threadList : \E j \in DOMAIN rows : Matches(j, i)

RowsHaveWraps ==
    Removing => \A j \in DOMAIN rows :
        rows[j].server # ui.server => \E i \in DOMAIN threadList : Matches(j, i)

StoppedSoFar ==
    /\ ui.at = "stop" => \A i \in DOMAIN threadList :
           i < ui.row => threadList[i].server # ui.server
    /\ ui.at = "prune" => \A i \in DOMAIN threadList :
           threadList[i].server # ui.server

AlignedSoFar ==
    ui.at = "prune" => \A j \in DOMAIN rows :
        j < ui.row => j \in DOMAIN threadList /\ Matches(j, j)

IndexInv ==
    /\ CellsExist
    /\ RowsSorted
    /\ WrapsSorted
    /\ RowIndexIsThreadIndex
    /\ NewestIsLast
    /\ WrapsHaveRows
    /\ RowsHaveWraps
    /\ StoppedSoFar
    /\ AlignedSoFar

\* A thread record that runs nothing is a thread record.
LEMMA OffType == Off \in ThreadRec /\ Off.at = "off"
BY DEF Off, ThreadRec, ThreadPc

\* A thread that startWatch has just been started on is a thread record.
LEMMA WatchingType ==
    ASSUME NEW c \in Nat, NEW f \in File, NEW n \in Friendly, NEW ip \in Ip
    PROVE  /\ Watching(c, f, n, ip) \in ThreadRec
           /\ Watching(c, f, n, ip).at = "poll"
           /\ Watching(c, f, n, ip).cell = c
BY DEF Watching, ThreadRec, ThreadPc

\* The state between two handlers of the UI thread is a handler record.
LEMMA IdleType == Idle \in Handler /\ Idle.at = "idle"
BY DEF Idle, Handler, HandlerPc, Asking, Status

\* Counting late notices anew changes neither what a thread does nor its cell.
LEMMA RunAgainType ==
    ASSUME NEW f \in [Thread -> ThreadRec]
    PROVE  /\ RunAgain(f) \in [Thread -> ThreadRec]
           /\ \A u \in Thread : /\ RunAgain(f)[u].at = f[u].at
                                /\ RunAgain(f)[u].cell = f[u].cell
<1>1. ASSUME NEW r \in ThreadRec
      PROVE  /\ [r EXCEPT !.late = 0] \in ThreadRec
             /\ [r EXCEPT !.late = 0].at = r.at
             /\ [r EXCEPT !.late = 0].cell = r.cell
  BY DEF ThreadRec
<1>2. QED
  BY <1>1 DEF RunAgain

\* The constructor's state is well typed.
LEMMA TypeInit == Init => TypeOK
<1> SUFFICES ASSUME Init PROVE TypeOK
  OBVIOUS
<1>1. serverlist \in Seq(Entry)
  BY HostAssumption DEF Init, Entry
<1>2. /\ rows \in Seq(Row) /\ threadList \in Seq(Wrap)
      /\ runstate \in Seq(RunState)
  BY DEF Init
<1>3. /\ threads \in [Thread -> ThreadRec]
      /\ \A t \in Thread : ~Running(t)
  BY OffType DEF Init, Running
<1>4. QED
  BY <1>1, <1>2, <1>3, IdleType DEF Init, TypeOK

\* No step of the UI thread, of a watch thread or of a server leaves the types;
\* a cell, once made, exists for ever.
LEMMA TypeStep ==
    TypeOK /\ HandlerInv /\ CellsExist /\ [Next]_vars => TypeOK'
<1> SUFFICES ASSUME TypeOK, HandlerInv, CellsExist, [Next]_vars
             PROVE  TypeOK'
  OBVIOUS
<1> USE DEF TypeOK
<1>1. CASE UNCHANGED vars
  BY <1>1 DEF vars, Running, Cell
<1>2. ASSUME NEW s \in Server, NEW ip \in Ip, AddServer(s, ip)
      PROVE  TypeOK'
  <2>1. serverlist' \in Seq(Entry)
    BY <1>2, AppendProperties DEF AddServer, Entry
  <2>2. QED
    BY <1>2, <2>1 DEF AddServer, Running, Cell
<1>3. ASSUME NEW k \in DOMAIN serverlist, RemoveServer(k)
      PROVE  TypeOK'
  <2>1. serverlist' \in Seq(Entry)
    BY <1>3, RemoveAtProperties DEF RemoveServer
  <2>2. ui' \in Handler
    <3>1. serverlist[k] \in Entry
      OBVIOUS
    <3>2. serverlist[k].server \in Server
      BY <3>1 DEF Entry
    <3>3. QED
      BY <1>3, <3>2 DEF RemoveServer, Idle, Handler, HandlerPc, Asking, Status
  <2>3. QED
    BY <1>3, <2>1, <2>2 DEF RemoveServer, Running, Cell
<1>4. CASE StopMatch
  <2>1. ui.row \in 1 .. Len(threadList)
    BY <1>4 DEF StopMatch, HandlerInv, Removing
  <2>2. threadList' \in Seq(Wrap)
    BY <1>4, <2>1, RemoveAtProperties DEF StopMatch
  <2>3. runstate' \in Seq(RunState) /\ DOMAIN runstate' = DOMAIN runstate
    BY <1>4, SeqWrite DEF StopMatch, RunState
  <2>4. QED
    BY <1>4, <2>2, <2>3 DEF StopMatch, Running, Cell
<1>5. CASE StopSkip \/ StopDone \/ PruneSkip \/ PruneDone
  <2>1. ui' \in Handler
    <3>1. CASE StopSkip \/ PruneSkip
      <4>1. ui' = [ui EXCEPT !.row = @ + 1]
        BY <3>1 DEF StopSkip, PruneSkip
      <4>2. ui.row + 1 \in Nat
        BY DEF Handler
      <4>3. QED
        BY <4>1, <4>2 DEF Handler
    <3>2. CASE StopDone
      BY <3>2 DEF StopDone, Handler, HandlerPc, Asking
    <3>3. CASE PruneDone
      BY <3>3, IdleType DEF PruneDone
    <3>4. QED
      BY <1>5, <3>1, <3>2, <3>3
  <2>2. UNCHANGED <<serverlist, ipnamemap, rows, threadList, runstate, threads, up>>
    BY <1>5 DEF StopSkip, StopDone, PruneSkip, PruneDone
  <2>3. QED
    BY <2>1, <2>2 DEF Running, Cell
<1>6. CASE PruneMatch
  <2>1. rows' \in Seq(Row)
    BY <1>6, RemoveAtProperties DEF PruneMatch, HandlerInv, Removing
  <2>2. QED
    BY <1>6, <2>1 DEF PruneMatch, Running, Cell
<1>7. ASSUME NEW k \in DOMAIN serverlist, NEW f \in File, NEW n \in Friendly,
             StartWatch(k, f, n)
      PROVE  TypeOK'
  <2>1. serverlist[k].server \in Server /\ serverlist[k].ip \in Ip
    <3>1. serverlist[k] \in Entry
      OBVIOUS
    <3>2. QED
      BY <3>1 DEF Entry
  <2>2. ui' \in Handler
    BY <1>7, <2>1 DEF StartWatch, Idle, Handler, HandlerPc, Asking, Status
  <2>3. QED
    BY <1>7, <2>2 DEF StartWatch, Running, Cell
<1>8. CASE CreateWatch
  <2>1. PICK t \in Thread :
          threads' = [threads EXCEPT ![t] =
              Watching(Len(runstate) + 1, ui.file, ui.friendly, ui.ip)]
    BY <1>8 DEF CreateWatch
  <2>2. /\ ui.server \in Server /\ ui.ip \in Ip
        /\ ui.file \in File /\ ui.friendly \in Friendly
    BY <1>8 DEF CreateWatch, HandlerInv
  <2>3. Watching(Len(runstate) + 1, ui.file, ui.friendly, ui.ip) \in ThreadRec
    BY <2>2, WatchingType
  <2>4. ipnamemap' \in [Server -> Ip \cup {None}]
    BY <1>8, <2>2 DEF CreateWatch, RememberIp
  <2>5. /\ runstate' \in Seq(RunState)
        /\ Len(runstate') = Len(runstate) + 1
    BY <1>8, AppendProperties DEF CreateWatch, RunState
  <2>6. [server |-> ui.server, cell |-> Len(runstate) + 1] \in Wrap
    BY <2>2 DEF Wrap
  <2>7. threadList' \in Seq(Wrap)
    BY <1>8, <2>6, AppendProperties DEF CreateWatch
  <2>8. threads' \in [Thread -> ThreadRec]
    BY <2>1, <2>3
  <2>9. ASSUME NEW u \in Thread, Running(u)' PROVE threads'[u].cell \in Cell'
    <3>1. CASE u = t
      BY <2>1, <2>2, <2>5, <3>1, WatchingType DEF Cell
    <3>2. CASE u # t
      BY <2>1, <2>5, <2>9, <3>2 DEF Running, Cell
    <3>3. QED
      BY <3>1, <3>2
  <2>10. QED
    BY <1>8, <2>4, <2>5, <2>7, <2>8, <2>9 DEF CreateWatch, Handler, HandlerPc, Asking
<1>9. CASE CreateFails
  <2>1. ipnamemap' \in [Server -> Ip \cup {None}]
    BY <1>9 DEF CreateFails, RememberIp, HandlerInv
  <2>2. QED
    BY <1>9, <2>1 DEF CreateFails, Idle, Handler, HandlerPc, Asking, Status, Running, Cell
<1>10. CASE AppendRow
  <2>1. [server |-> ui.server, file |-> ui.file, friendly |-> ui.friendly,
         status |-> "Active", watch |-> Len(runstate)] \in Row
    <3>1. /\ ui.server \in Server /\ ui.file \in File /\ ui.friendly \in Friendly
          /\ Len(runstate) \in Nat \ {0}
      BY <1>10 DEF AppendRow, HandlerInv
    <3>2. QED
      BY <3>1 DEF Row, Status
  <2>2. rows' \in Seq(Row)
    BY <1>10, <2>1, AppendProperties DEF AppendRow
  <2>3. QED
    BY <1>10, <2>2 DEF AppendRow, Idle, Handler, HandlerPc, Asking, Status, Running, Cell
<1>11. ASSUME NEW i \in DOMAIN rows, DoubleClick(i)
       PROVE  TypeOK'
  <2>1. rows[i] \in Row
    OBVIOUS
  <2>2. ui' \in Handler
    BY <1>11, <2>1 DEF DoubleClick, Handler, HandlerPc, Asking, Row
  <2>3. QED
    BY <1>11, <2>2 DEF DoubleClick, Running, Cell
<1>13. CASE AnswerStep \/ \E i \in DOMAIN rows : ViewLog(i)
  <2>1. ui' \in Handler
    <3>1. CASE FileIsThere
      BY <3>1 DEF FileIsThere, Handler, HandlerPc, Asking
    <3>2. CASE AskEnds
      BY <3>2, IdleType DEF AskEnds
    <3>3. CASE \E i \in DOMAIN rows : ViewLog(i)
      <4>1. ui' = [Idle EXCEPT !.at = "view"]
        BY <3>3 DEF ViewLog
      <4>2. QED
        BY <4>1, IdleType DEF Handler, HandlerPc, Asking
    <3>4. QED
      BY <1>13, <3>1, <3>2, <3>3 DEF AnswerStep
  <2>2. UNCHANGED <<serverlist, ipnamemap, rows, threadList, runstate, threads, up>>
    BY <1>13 DEF AnswerStep, FileIsThere, AskEnds, ViewLog
  <2>3. QED
    BY <2>1, <2>2 DEF Running, Cell
<1>12. ASSUME NEW state \in RunState, SetState(state)
       PROVE  runstate' \in Seq(RunState) /\ DOMAIN runstate' = DOMAIN runstate
  BY <1>12, SeqWrite DEF SetState
<1>14. CASE Pause
  BY <1>14, <1>12 DEF Pause, RunState, Handler, HandlerPc, Asking, Running, Cell
<1>15. CASE Resume \/ ReconnectFails
  <2>1. runstate' \in Seq(RunState) /\ DOMAIN runstate' = DOMAIN runstate
    BY <1>15, <1>12 DEF Resume, ReconnectFails, RunState
  <2>2. threads' = RunAgain(threads)
    BY <1>15 DEF Resume, ReconnectFails
  <2>3. /\ threads' \in [Thread -> ThreadRec]
        /\ \A u \in Thread : Running(u)' => threads'[u].cell \in Cell'
    BY RunAgainType, <2>1, <2>2 DEF Running, Cell
  <2>4. ui' \in Handler
    <3>1. CASE Resume
      BY <3>1 DEF Resume, Handler, HandlerPc, Asking
    <3>2. CASE ReconnectFails
      BY <3>2, IdleType DEF ReconnectFails
    <3>3. QED
      BY <1>15, <3>1, <3>2
  <2>5. QED
    BY <1>15, <2>1, <2>3, <2>4 DEF Resume, ReconnectFails
<1>16. CASE Reconnect
  <2>1. runstate' \in Seq(RunState) /\ DOMAIN runstate' = DOMAIN runstate
    BY <1>16, <1>12 DEF Reconnect, RunState
  <2> DEFINE c == threadList[ui.row].cell
             w == Watching(c, ui.file, ui.friendly, ui.ip)
  <2>2. PICK t \in Thread : threads' = RunAgain([threads EXCEPT ![t] = w])
    BY <1>16 DEF Reconnect
  <2>3. c \in Cell /\ c \in Nat
    <3>1. c \in DOMAIN runstate
      BY <1>16 DEF Reconnect, HandlerInv, CellsExist, Cell
    <3>2. QED
      BY <3>1 DEF Cell
  <2>4. w \in ThreadRec /\ w.cell = c
    <3>1. ui.ip \in Ip /\ ui.file \in File /\ ui.friendly \in Friendly
      BY <1>16 DEF Reconnect, HandlerInv
    <3>2. QED
      BY <2>3, <3>1, WatchingType
  <2> HIDE DEF c, w
  <2>5. [threads EXCEPT ![t] = w] \in [Thread -> ThreadRec]
    BY <2>4
  <2>6. threads' \in [Thread -> ThreadRec]
    BY RunAgainType, <2>2, <2>5
  <2>7. ASSUME NEW u \in Thread, Running(u)' PROVE threads'[u].cell \in Cell'
    <3>1. /\ threads'[u].at = [threads EXCEPT ![t] = w][u].at
          /\ threads'[u].cell = [threads EXCEPT ![t] = w][u].cell
      BY RunAgainType, <2>2, <2>5
    <3>2. CASE u = t
      BY <2>1, <2>3, <2>4, <3>1, <3>2 DEF Cell
    <3>3. CASE u # t
      BY <2>1, <2>7, <3>1, <3>3 DEF Running, Cell
    <3>4. QED
      BY <3>2, <3>3
  <2>8. QED
    BY <1>16, <2>1, <2>6, <2>7 DEF Reconnect, Handler, HandlerPc, Asking
<1>17. CASE ReconnectRefused
  BY <1>17 DEF ReconnectRefused, Idle, Handler, HandlerPc, Asking, Status, Running, Cell
<1>18. CASE Label
  <2>1. ui.row \in DOMAIN rows
    BY <1>18 DEF Label, HandlerInv
  <2>2. rows' \in Seq(Row)
    <3>1. ASSUME NEW r \in Row, NEW st \in Status
          PROVE  [r EXCEPT !.status = st] \in Row
      BY DEF Row
    <3>2. PICK st \in Status : rows' = [rows EXCEPT ![ui.row] = [rows[ui.row] EXCEPT !.status = st]]
      BY <1>18 DEF Label, Status
    <3>3. rows[ui.row] \in Row
      BY <2>1
    <3>4. QED
      BY <3>1, <3>2, <3>3, SeqWrite
  <2>3. QED
    BY <1>18, <2>2 DEF Label, Idle, Handler, HandlerPc, Asking, Status, Running, Cell
<1>19. ASSUME NEW t \in Thread, ThreadStep(t) \/ Notify(t)
       PROVE  TypeOK'
  <2>1. /\ threads' \in [Thread -> ThreadRec]
        /\ \A u \in Thread : Running(u)' => Running(u) /\ threads'[u].cell = threads[u].cell
    <3>1. CASE Finish(t) \/ Mark(t)
      <4>1. threads' = [threads EXCEPT ![t] = Off]
        BY <3>1 DEF Finish, Mark
      <4>2. QED
        BY <4>1, OffType DEF Running
    <3>2. ASSUME NEW r \in ThreadRec, r.cell = threads[t].cell, Running(t),
                 threads' = [threads EXCEPT ![t] = r]
          PROVE  /\ threads' \in [Thread -> ThreadRec]
                 /\ \A u \in Thread : Running(u)' => Running(u) /\ threads'[u].cell = threads[u].cell
      BY <3>2 DEF Running
    <3>3. CASE Call(t) \/ Spin(t) \/ ScanStop(t) \/ ScanNext(t) \/ Throw(t) \/ Notify(t)
      <4>1. Running(t)
        BY <3>3 DEF Call, Spin, ScanStop, ScanNext, Throw, Notify, Running
      <4>2. threads[t] \in ThreadRec
        OBVIOUS
      <4>3. \E r \in ThreadRec : /\ r.cell = threads[t].cell
                                /\ threads' = [threads EXCEPT ![t] = r]
        <5>1. ASSUME NEW a \in ThreadPc, threads' = [threads EXCEPT ![t].at = a]
              PROVE  \E r \in ThreadRec : /\ r.cell = threads[t].cell
                                        /\ threads' = [threads EXCEPT ![t] = r]
          <6>1. /\ [threads[t] EXCEPT !.at = a] \in ThreadRec
                /\ [threads[t] EXCEPT !.at = a].cell = threads[t].cell
            BY <4>2 DEF ThreadRec
          <6>2. QED
            BY <5>1, <6>1
        <5>2. CASE Call(t) \/ Spin(t) \/ ScanStop(t)
          BY <5>1, <5>2 DEF Call, Spin, ScanStop, ThreadPc
        <5>3. CASE ScanNext(t)
          <6> DEFINE r == [threads[t] EXCEPT !.i = threads[t].i + 1]
          <6>1. threads[t].i + 1 \in Nat
            BY <4>2 DEF ThreadRec
          <6>2. r \in ThreadRec /\ r.cell = threads[t].cell
            BY <4>2, <6>1 DEF ThreadRec
          <6>3. QED
            BY <5>3, <6>2 DEF ScanNext
        <5>4. CASE Throw(t)
          <6>1. Len(rows) \in Nat
            OBVIOUS
          <6> DEFINE r == [threads[t] EXCEPT !.at = "scan", !.i = 1, !.n = Len(rows)]
          <6>2. r \in ThreadRec /\ r.cell = threads[t].cell
            BY <4>2, <6>1 DEF ThreadRec, ThreadPc
          <6>3. QED
            BY <5>4, <6>2 DEF Throw
        <5>5. CASE Notify(t)
          <6> DEFINE r == [threads[t] EXCEPT !.at = "poll", !.late = LateNotices(t)]
          <6>1. LateNotices(t) \in 0 .. 2
            BY DEF LateNotices
          <6>2. r \in ThreadRec /\ r.cell = threads[t].cell
            BY <4>2, <6>1 DEF ThreadRec, ThreadPc
          <6>3. QED
            BY <5>5, <6>2 DEF Notify
        <5>6. QED
          BY <3>3, <5>2, <5>3, <5>4, <5>5
      <4>4. QED
        BY <3>2, <4>1, <4>3
    <3>4. QED
      BY <1>19, <3>1, <3>3 DEF ThreadStep, GoesOn
  <2>2. UNCHANGED <<serverlist, ipnamemap, threadList, runstate, up, ui>>
    BY <1>19 DEF ThreadStep, GoesOn, Finish, Call, Spin, Throw, ScanNext, ScanStop, Mark, Notify
  <2>3. rows' \in Seq(Row)
    <3>1. CASE Mark(t)
      <4>1. ASSUME NEW r \in Row
            PROVE  [r EXCEPT !.status = "Connection Error"] \in Row
        BY DEF Row, Status
      <4>2. CASE threads[t].i \in DOMAIN rows
        <5>1. rows[threads[t].i] \in Row
          BY <4>2
        <5>2. rows' = [rows EXCEPT ![threads[t].i] =
                          [rows[threads[t].i] EXCEPT !.status = "Connection Error"]]
          BY <3>1, <4>2 DEF Mark, MarkRow
        <5>3. QED
          BY <4>1, <5>1, <5>2, SeqWrite
      <4>3. CASE threads[t].i \notin DOMAIN rows
        BY <3>1, <4>3 DEF Mark, MarkRow
      <4>4. QED
        BY <4>2, <4>3
    <3>2. CASE ~Mark(t)
      BY <1>19, <3>2 DEF ThreadStep, GoesOn, Finish, Call, Spin, Throw, ScanNext, ScanStop, Notify
    <3>3. QED
      BY <3>1, <3>2
  <2>4. QED
    BY <2>1, <2>2, <2>3 DEF Cell
<1>20. ASSUME NEW ip \in Ip, Crash(ip) \/ Vanish(ip) \/ Restart(ip)
       PROVE  TypeOK'
  <2>1. CASE Crash(ip)
    <3>1. /\ threads' \in [Thread -> ThreadRec]
          /\ \A u \in Thread : /\ threads'[u].at = threads[u].at
                               /\ threads'[u].cell = threads[u].cell
      <4>1. ASSUME NEW r \in ThreadRec
            PROVE  /\ [r EXCEPT !.live = FALSE] \in ThreadRec
                   /\ [r EXCEPT !.live = FALSE].at = r.at
                   /\ [r EXCEPT !.live = FALSE].cell = r.cell
        BY DEF ThreadRec
      <4>2. QED
        BY <2>1, <4>1 DEF Crash
    <3>2. QED
      BY <2>1, <3>1 DEF Crash, Running, Cell
  <2>2. CASE Vanish(ip) \/ Restart(ip)
    BY <2>2 DEF Vanish, Restart, Running, Cell
  <2>3. QED
    BY <1>20, <2>1, <2>2
<1>21. QED
  BY <1>1, <1>2, <1>3, <1>4, <1>5, <1>6, <1>7, <1>8, <1>9, <1>10, <1>11, <1>13, <1>14,
     <1>15, <1>16, <1>17, <1>18, <1>19, <1>20
     DEF Next, UserStep, HandlerStep, EnvStep

-----------------------------------------------------------------------------
(***************************************************************************)
(* Steps that neither add nor remove a row or a wrap.                      *)
(***************************************************************************)
SameRows ==
    /\ DOMAIN rows' = DOMAIN rows
    /\ Len(rows') = Len(rows)
    /\ \A i \in DOMAIN rows : /\ rows'[i].watch = rows[i].watch
                              /\ rows'[i].server = rows[i].server
    /\ threadList' = threadList
    /\ Len(runstate') = Len(runstate)
    /\ DOMAIN runstate' = DOMAIN runstate

\* The UI thread is in a step that touches neither list.
Calm == ui.at \notin {"append", "stop", "prune"}

\* A step that neither adds nor removes a row or a wrap, and leaves the UI
\* thread in the same handler or between handlers that touch no list, keeps the
\* two lists as related as they were.
LEMMA SameRowsKeepsIndex ==
    ASSUME IndexInv, SameRows, ui' = ui \/ (Calm /\ Calm')
    PROVE  IndexInv'
<1> USE DEF SameRows
<1>1. CellsExist'
  BY DEF IndexInv, CellsExist, Cell
<1>2. RowsSorted' /\ WrapsSorted'
  BY DEF IndexInv, RowsSorted, WrapsSorted
<1>3. CASE ui' = ui
  <2>1. RowIndexIsThreadIndex' /\ NewestIsLast'
    BY <1>3 DEF IndexInv, RowIndexIsThreadIndex, NewestIsLast, Removing
  <2>2. WrapsHaveRows'
    BY <1>3 DEF IndexInv, WrapsHaveRows, Removing, Matches
  <2>3. RowsHaveWraps'
    BY <1>3 DEF IndexInv, RowsHaveWraps, Removing, Matches
  <2>4. StoppedSoFar' /\ AlignedSoFar'
    BY <1>3 DEF IndexInv, StoppedSoFar, AlignedSoFar, Matches
  <2>5. QED
    BY <1>1, <1>2, <2>1, <2>2, <2>3, <2>4 DEF IndexInv
<1>4. CASE Calm /\ Calm'
  <2>1. RowIndexIsThreadIndex'
    BY <1>4 DEF IndexInv, RowIndexIsThreadIndex, Removing, Calm
  <2>2. /\ NewestIsLast' /\ WrapsHaveRows' /\ RowsHaveWraps'
        /\ StoppedSoFar' /\ AlignedSoFar'
    BY <1>4 DEF NewestIsLast, WrapsHaveRows, RowsHaveWraps, StoppedSoFar,
                AlignedSoFar, Removing, Calm
  <2>3. QED
    BY <1>1, <1>2, <2>1, <2>2 DEF IndexInv
<1>5. QED
  BY <1>3, <1>4

\* setState makes and frees no cell.
LEMMA WriteState ==
    ASSUME TypeOK, NEW c, NEW state, runstate' = [runstate EXCEPT ![c] = state]
    PROVE  Len(runstate') = Len(runstate) /\ DOMAIN runstate' = DOMAIN runstate
<1>1. runstate \in Seq(RunState \cup {state}) /\ state \in RunState \cup {state}
  BY DEF TypeOK
<1>2. QED
  BY <1>1, SeqWrite

\* setData on the status column, on a row of the table or outside it, leaves
\* the rows and their other columns alone.
LEMMA WriteStatus ==
    ASSUME TypeOK, NEW i, NEW st \in Status, rows' = [rows EXCEPT ![i].status = st]
    PROVE  /\ DOMAIN rows' = DOMAIN rows
           /\ Len(rows') = Len(rows)
           /\ \A j \in DOMAIN rows : /\ rows'[j].watch = rows[j].watch
                                     /\ rows'[j].server = rows[j].server
                                     /\ rows'[j].friendly = rows[j].friendly
<1>1. ASSUME NEW r \in Row
      PROVE  /\ [r EXCEPT !.status = st] \in Row
             /\ [r EXCEPT !.status = st].watch = r.watch
             /\ [r EXCEPT !.status = st].server = r.server
             /\ [r EXCEPT !.status = st].friendly = r.friendly
  BY DEF Row
<1>2. CASE i \in DOMAIN rows
  <2>1. rows[i] \in Row
    BY <1>2 DEF TypeOK
  <2>2. rows' = [rows EXCEPT ![i] = [rows[i] EXCEPT !.status = st]]
    OBVIOUS
  <2>3. QED
    BY <1>1, <1>2, <2>1, <2>2, SeqWrite DEF TypeOK
<1>3. CASE i \notin DOMAIN rows
  BY <1>3 DEF TypeOK
<1>4. QED
  BY <1>2, <1>3

\* The steps of Next that leave rows and wraps where they are.
CalmStep ==
    \/ \E sv \in Server, ip \in Ip : AddServer(sv, ip)
    \/ \E k \in DOMAIN serverlist, f \in File, n \in Friendly : StartWatch(k, f, n)
    \/ CreateFails
    \/ \E i \in DOMAIN rows : DoubleClick(i) \/ ViewLog(i)
    \/ AnswerStep
    \/ Pause \/ Resume \/ Reconnect \/ ReconnectRefused \/ ReconnectFails \/ Label
    \/ \E t \in Thread : ThreadStep(t) \/ Notify(t)
    \/ EnvStep

\* Adding a server, Start Watch up to its thread, a double click with all its
\* steps, the watch threads and the servers: none of them adds or removes a row
\* or a wrap.
LEMMA CalmStepSameRows ==
    ASSUME TypeOK, CalmStep
    PROVE  SameRows /\ (ui' = ui \/ (Calm /\ Calm'))
<1>1. CASE \E sv \in Server, ip \in Ip : AddServer(sv, ip)
  BY <1>1 DEF AddServer, SameRows
<1>2. CASE \E k \in DOMAIN serverlist, f \in File, n \in Friendly : StartWatch(k, f, n)
  <2>1. SameRows /\ ui.at = "idle" /\ ui'.at = "ask"
    BY <1>2 DEF StartWatch, SameRows, Idle
  <2>2. QED
    BY <2>1 DEF Calm
<1>3. CASE CreateFails \/ ReconnectRefused
  <2>1. SameRows /\ ui.at \in {"create", "toggle"} /\ ui'.at = "idle"
    BY <1>3, IdleType DEF CreateFails, ReconnectRefused, SameRows
  <2>2. QED
    BY <2>1 DEF Calm
<1>4. CASE AnswerStep \/ \E i \in DOMAIN rows : DoubleClick(i) \/ ViewLog(i)
  <2>1. CASE \E i \in DOMAIN rows : DoubleClick(i) \/ ViewLog(i)
    BY <2>1 DEF DoubleClick, ViewLog, Idle, SameRows, Calm
  <2>2. CASE AnswerStep
    <3>1. SameRows /\ ui.at \in Asking /\ ui'.at \in {"create", "idle"}
      BY <2>2, IdleType DEF AnswerStep, FileIsThere, AskEnds, Asking, SameRows, TypeOK, Handler
    <3>2. QED
      BY <3>1 DEF Calm, Asking
  <2>3. QED
    BY <1>4, <2>1, <2>2
<1>5. CASE Pause \/ Resume \/ Reconnect \/ ReconnectFails
  <2>1. Len(runstate') = Len(runstate) /\ DOMAIN runstate' = DOMAIN runstate
    BY <1>5, WriteState DEF Pause, Resume, Reconnect, ReconnectFails, SetState
  <2>2. UNCHANGED <<rows, threadList>>
    BY <1>5 DEF Pause, Resume, Reconnect, ReconnectFails
  <2>3. ui.at = "toggle" /\ ui'.at \in {"label", "idle"}
    <3>1. CASE Pause \/ Resume \/ Reconnect
      BY <3>1 DEF Pause, Resume, Reconnect, TypeOK, Handler
    <3>2. CASE ReconnectFails
      BY <3>2, IdleType DEF ReconnectFails
    <3>3. QED
      BY <1>5, <3>1, <3>2
  <2>4. QED
    BY <2>1, <2>2, <2>3 DEF SameRows, Calm
<1>6. CASE Label
  <2>1. PICK st \in Status : rows' = [rows EXCEPT ![ui.row].status = st]
    BY <1>6 DEF Label, Status
  <2>2. ui.at = "label" /\ ui'.at = "idle"
    BY <1>6, IdleType DEF Label
  <2>3. UNCHANGED <<threadList, runstate>>
    BY <1>6 DEF Label
  <2>4. QED
    BY <2>1, <2>2, <2>3, WriteStatus DEF SameRows, Calm
<1>7. CASE \E t \in Thread : ThreadStep(t) \/ Notify(t)
  <2>1. PICK t \in Thread : ThreadStep(t) \/ Notify(t)
    BY <1>7
  <2>2. UNCHANGED <<threadList, runstate, ui>>
    BY <2>1 DEF ThreadStep, GoesOn, Finish, Call, Spin, Throw, ScanNext, ScanStop, Mark, Notify
  <2>3. \/ rows' = rows
        \/ rows' = [rows EXCEPT ![threads[t].i].status = "Connection Error"]
    BY <2>1 DEF ThreadStep, GoesOn, Finish, Call, Spin, Throw, ScanNext, ScanStop, Mark,
                MarkRow, Notify
  <2>4. "Connection Error" \in Status
    BY DEF Status
  <2>5. QED
    BY <2>2, <2>3, <2>4, WriteStatus DEF SameRows
<1>8. CASE EnvStep
  BY <1>8 DEF EnvStep, Crash, Vanish, Restart, SameRows
<1>9. QED
  BY <1>1, <1>2, <1>3, <1>4, <1>5, <1>6, <1>7, <1>8 DEF CalmStep

-----------------------------------------------------------------------------
\* A handler's row number stays where its later steps use it: at least 1 in the
\* removal loops, a row of the table in a double click.
LEMMA HandlerStepKeeps ==
    TypeOK /\ HandlerInv /\ IndexInv /\ [Next]_vars => HandlerInv'
<1> SUFFICES ASSUME TypeOK, HandlerInv, IndexInv, [Next]_vars
             PROVE  HandlerInv'
  OBVIOUS
<1>0. SameRows /\ ui' = ui => HandlerInv'
  BY DEF HandlerInv, SameRows, Removing
<1>1. ui'.at = "idle" => HandlerInv'
  BY DEF HandlerInv, Removing
<1>2. CASE UNCHANGED vars
  BY <1>2 DEF vars, HandlerInv, Removing
<1>3. CASE \/ \E sv \in Server, ip \in Ip : AddServer(sv, ip)
           \/ \E t \in Thread : ThreadStep(t) \/ Notify(t)
           \/ EnvStep
  <2>1. SameRows
    BY <1>3, CalmStepSameRows DEF CalmStep
  <2>2. ui' = ui
    BY <1>3 DEF AddServer, EnvStep, Crash, Vanish, Restart, ThreadStep, GoesOn, Finish, Call,
                Spin, Throw, ScanNext, ScanStop, Mark, Notify
  <2>3. QED
    BY <1>0, <2>1, <2>2
<1>4. CASE \/ PruneDone \/ CreateFails \/ AppendRow \/ ReconnectRefused
           \/ ReconnectFails \/ Label \/ AskEnds
  <2>1. ui' = Idle
    BY <1>4 DEF PruneDone, CreateFails, AppendRow, ReconnectRefused, ReconnectFails, Label,
                AskEnds
  <2>2. QED
    BY <1>1, <2>1, IdleType
<1>5. CASE \E k \in DOMAIN serverlist : RemoveServer(k)
  <2>1. ui'.at = "stop" /\ ui'.row = 1
    BY <1>5 DEF RemoveServer, Idle
  <2>2. QED
    BY <2>1 DEF HandlerInv, Removing
<1>6. CASE StopMatch \/ StopSkip \/ StopDone \/ PruneMatch \/ PruneSkip
  <2>1. ui'.at \in {"stop", "prune"} /\ ui'.row \in Nat \ {0}
    <3>1. ui \in Handler /\ ui.row \in Nat \ {0}
      BY <1>6 DEF TypeOK, HandlerInv, Removing, StopMatch, StopSkip, StopDone, PruneMatch, PruneSkip
    <3>2. CASE StopMatch \/ PruneMatch
      BY <3>1, <3>2 DEF StopMatch, PruneMatch
    <3>3. CASE StopSkip \/ PruneSkip
      BY <3>1, <3>3 DEF StopSkip, PruneSkip, Handler
    <3>4. CASE StopDone
      BY <3>1, <3>4 DEF StopDone, Handler
    <3>5. QED
      BY <1>6, <3>2, <3>3, <3>4
  <2>2. QED
    BY <2>1 DEF HandlerInv, Removing
<1>7. CASE \E k \in DOMAIN serverlist, f \in File, n \in Friendly : StartWatch(k, f, n)
  <2>1. PICK k \in DOMAIN serverlist, f \in File, n \in Friendly : StartWatch(k, f, n)
    BY <1>7
  <2>2. serverlist[k] \in Entry
    BY DEF TypeOK
  <2>3. /\ ui'.at = "ask" /\ ui'.server \in Server /\ ui'.ip \in Ip
        /\ ui'.file \in File /\ ui'.friendly \in Friendly
    BY <2>1, <2>2 DEF StartWatch, Idle, Entry
  <2>4. QED
    BY <2>3 DEF HandlerInv, Removing
<1>8. CASE CreateWatch
  <2>1. /\ ui'.at = "append" /\ ui'.server = ui.server /\ ui'.ip = ui.ip
        /\ ui'.file = ui.file /\ ui'.friendly = ui.friendly /\ ui.at = "create"
    BY <1>8 DEF CreateWatch, TypeOK, Handler
  <2>2. Len(runstate') = Len(runstate) + 1
    BY <1>8, AppendProperties DEF CreateWatch, TypeOK, RunState
  <2>3. QED
    BY <2>1, <2>2 DEF HandlerInv, Removing, TypeOK
<1>9. CASE \E i \in DOMAIN rows : DoubleClick(i)
  <2>1. PICK i \in DOMAIN rows : DoubleClick(i)
    BY <1>9
  <2>2. rows[i] \in Row
    BY DEF TypeOK
  <2>3. /\ ui'.at = "toggle" /\ ui'.row = i /\ ui'.file \in File
        /\ ui'.friendly \in Friendly /\ ui'.ip \in Ip
    BY <2>1, <2>2 DEF DoubleClick, Row, TypeOK
  <2>4. i \in DOMAIN threadList'
    BY <2>1 DEF DoubleClick, IndexInv, RowIndexIsThreadIndex, Removing, TypeOK
  <2>5. rows' = rows
    BY <2>1 DEF DoubleClick
  <2>6. QED
    BY <2>3, <2>4, <2>5 DEF HandlerInv, Removing
<1>10. CASE Pause \/ Resume \/ Reconnect
  <2>1. /\ ui'.at = "label" /\ ui'.row = ui.row /\ ui.at = "toggle"
    BY <1>10 DEF Pause, Resume, Reconnect, TypeOK, Handler
  <2>2. UNCHANGED <<rows, threadList>>
    BY <1>10 DEF Pause, Resume, Reconnect
  <2>3. QED
    BY <2>1, <2>2 DEF HandlerInv, Removing
<1>11. CASE FileIsThere
  <2>1. /\ ui'.at = "create" /\ ui.at = "ask" /\ ui'.server = ui.server
        /\ ui'.ip = ui.ip /\ ui'.file = ui.file /\ ui'.friendly = ui.friendly
    BY <1>11 DEF FileIsThere, TypeOK, Handler
  <2>2. QED
    BY <2>1 DEF HandlerInv, Removing
<1>12. CASE \E i \in DOMAIN rows : ViewLog(i)
  <2>1. ui'.at = "view"
    BY <1>12 DEF ViewLog, Idle
  <2>2. QED
    BY <2>1 DEF HandlerInv, Removing
<1>13. QED
  BY <1>2, <1>3, <1>4, <1>5, <1>6, <1>7, <1>8, <1>9, <1>10, <1>11, <1>12
     DEF Next, UserStep, HandlerStep, AnswerStep

-----------------------------------------------------------------------------
\* Dropping the combo entry starts the stop loop on aligned lists.
LEMMA RemoveServerKeepsIndex ==
    ASSUME TypeOK, IndexInv, NEW k \in DOMAIN serverlist, RemoveServer(k)
    PROVE  IndexInv'
<1>1. /\ ui.at = "idle" /\ ui'.at = "stop" /\ ui'.row = 1
      /\ UNCHANGED <<rows, threadList, runstate>>
  BY DEF RemoveServer, Idle
<1>2. /\ DOMAIN rows = DOMAIN threadList
      /\ \A i \in DOMAIN rows : Matches(i, i)
  BY <1>1 DEF TypeOK, IndexInv, RowIndexIsThreadIndex, Removing, Matches
<1>3. CellsExist' /\ RowsSorted' /\ WrapsSorted'
  BY <1>1 DEF IndexInv, CellsExist, RowsSorted, WrapsSorted, Cell
<1>4. RowIndexIsThreadIndex' /\ NewestIsLast' /\ AlignedSoFar'
  BY <1>1 DEF RowIndexIsThreadIndex, NewestIsLast, AlignedSoFar, Removing
<1>5. WrapsHaveRows' /\ RowsHaveWraps'
  BY <1>1, <1>2 DEF WrapsHaveRows, RowsHaveWraps, Matches
<1>6. StoppedSoFar'
  BY <1>1 DEF StoppedSoFar, TypeOK
<1>7. QED
  BY <1>3, <1>4, <1>5, <1>6 DEF IndexInv

\* Erasing a wrap of the removed server keeps the lists sorted, and every row
\* that is not of that server keeps its wrap.
LEMMA StopMatchKeepsIndex ==
    ASSUME TypeOK, HandlerInv, IndexInv, StopMatch
    PROVE  IndexInv'
<1> DEFINE r == ui.row
<1>1. r \in 1 .. Len(threadList) /\ threadList \in Seq(Wrap)
  BY DEF TypeOK, StopMatch, HandlerInv, Removing
<1>2. /\ ui.at = "stop" /\ ui' = ui /\ rows' = rows
      /\ threadList' = RemoveAt(threadList, r)
      /\ threadList[r].server = ui.server
  BY DEF StopMatch
<1>3. DOMAIN runstate' = DOMAIN runstate
  BY WriteState DEF StopMatch
<1>4. /\ \A i, j \in DOMAIN threadList' : i < j =>
            \E p, q \in DOMAIN threadList :
               p < q /\ threadList'[i] = threadList[p] /\ threadList'[j] = threadList[q]
      /\ \A i \in DOMAIN threadList' :
            \E p \in DOMAIN threadList : p # r /\ threadList'[i] = threadList[p]
      /\ \A p \in DOMAIN threadList : p # r =>
            \E i \in DOMAIN threadList' : threadList'[i] = threadList[p]
      /\ \A i \in DOMAIN threadList' :
            i < r => i \in DOMAIN threadList /\ threadList'[i] = threadList[i]
  BY <1>1, <1>2, RemoveAtPlaces
<1> HIDE DEF r
<1>5. CellsExist'
  BY <1>2, <1>3, <1>4 DEF IndexInv, CellsExist, Cell
<1>6. RowsSorted' /\ WrapsSorted'
  <2>1. RowsSorted'
    BY <1>2 DEF IndexInv, RowsSorted
  <2>2. ASSUME NEW i \in DOMAIN threadList', NEW j \in DOMAIN threadList', i < j
        PROVE  threadList'[i].cell < threadList'[j].cell
    <3>1. PICK p, q \in DOMAIN threadList :
             p < q /\ threadList'[i] = threadList[p] /\ threadList'[j] = threadList[q]
      BY <1>4, <2>2
    <3>2. QED
      BY <3>1 DEF IndexInv, WrapsSorted
  <2>3. QED
    BY <2>1, <2>2 DEF WrapsSorted
<1>7. RowIndexIsThreadIndex' /\ NewestIsLast' /\ AlignedSoFar'
  BY <1>2 DEF RowIndexIsThreadIndex, NewestIsLast, AlignedSoFar, Removing
<1>8. WrapsHaveRows'
  BY <1>2, <1>4 DEF IndexInv, WrapsHaveRows, Removing, Matches
<1>9. RowsHaveWraps'
  <2>1. ASSUME NEW j \in DOMAIN rows, rows[j].server # ui.server
        PROVE  \E i \in DOMAIN threadList' : Matches(j, i)'
    <3>1. PICK p \in DOMAIN threadList : Matches(j, p)
      BY <1>2, <2>1 DEF IndexInv, RowsHaveWraps, Removing
    <3>2. p # r
      BY <1>2, <2>1, <3>1 DEF Matches
    <3>3. QED
      BY <1>2, <1>4, <3>1, <3>2 DEF Matches
  <2>2. QED
    BY <1>2, <2>1 DEF RowsHaveWraps
<1>10. StoppedSoFar'
  BY <1>2, <1>4 DEF IndexInv, StoppedSoFar, r
<1>11. QED
  BY <1>5, <1>6, <1>7, <1>8, <1>9, <1>10 DEF IndexInv

\* Passing a wrap of another server, or reaching the end of threadList, which
\* leaves no wrap of the removed server.
LEMMA StopLoopKeepsIndex ==
    ASSUME TypeOK, HandlerInv, IndexInv, StopSkip \/ StopDone
    PROVE  IndexInv'
<1>1. /\ ui.at = "stop" /\ ui'.at \in {"stop", "prune"} /\ ui'.server = ui.server
      /\ UNCHANGED <<rows, threadList, runstate>>
  BY DEF StopSkip, StopDone, TypeOK, Handler
<1>2. CellsExist' /\ RowsSorted' /\ WrapsSorted'
  BY <1>1 DEF IndexInv, CellsExist, RowsSorted, WrapsSorted, Cell
<1>3. RowIndexIsThreadIndex' /\ NewestIsLast'
  BY <1>1 DEF RowIndexIsThreadIndex, NewestIsLast, Removing
<1>4. WrapsHaveRows' /\ RowsHaveWraps'
  BY <1>1 DEF IndexInv, WrapsHaveRows, RowsHaveWraps, Removing, Matches
<1>5. ui.row \in Nat /\ \A i \in DOMAIN threadList : i \in Nat
  BY DEF TypeOK, Handler
<1>6. StoppedSoFar' /\ AlignedSoFar'
  <2>1. CASE StopSkip
    <3>1. ui'.at = "stop" /\ ui'.row = ui.row + 1 /\ threadList[ui.row].server # ui.server
      BY <2>1 DEF StopSkip, TypeOK, Handler
    <3>2. \A i \in DOMAIN threadList : i < ui'.row => i < ui.row \/ i = ui.row
      BY <1>5, <3>1
    <3>3. QED
      BY <1>1, <3>1, <3>2 DEF IndexInv, StoppedSoFar, AlignedSoFar
  <2>2. CASE StopDone
    <3>1. ui'.at = "prune" /\ ui'.row = 1 /\ ui.row > Len(threadList)
      BY <2>2 DEF StopDone, TypeOK, Handler
    <3>2. \A i \in DOMAIN threadList : i < ui.row
      BY <1>5, <3>1 DEF TypeOK
    <3>3. StoppedSoFar'
      BY <1>1, <3>1, <3>2 DEF IndexInv, StoppedSoFar
    <3>4. AlignedSoFar'
      BY <1>1, <3>1 DEF AlignedSoFar, TypeOK
    <3>5. QED
      BY <3>3, <3>4
  <2>3. QED
    BY <2>1, <2>2
<1>7. QED
  BY <1>2, <1>3, <1>4, <1>6 DEF IndexInv

\* Removing a row of the removed server: it is no row of a wrap that is left.
LEMMA PruneMatchKeepsIndex ==
    ASSUME TypeOK, HandlerInv, IndexInv, PruneMatch
    PROVE  IndexInv'
<1> DEFINE r == ui.row
<1>1. r \in 1 .. Len(rows) /\ rows \in Seq(Row)
  BY DEF TypeOK, PruneMatch, HandlerInv, Removing
<1>2. /\ ui.at = "prune" /\ ui' = ui /\ UNCHANGED <<threadList, runstate>>
      /\ rows' = RemoveAt(rows, r)
      /\ rows[r].server = ui.server
  BY DEF PruneMatch
<1>3. /\ \A i, j \in DOMAIN rows' : i < j =>
            \E p, q \in DOMAIN rows :
               p < q /\ rows'[i] = rows[p] /\ rows'[j] = rows[q]
      /\ \A i \in DOMAIN rows' :
            \E p \in DOMAIN rows : p # r /\ rows'[i] = rows[p]
      /\ \A p \in DOMAIN rows : p # r =>
            \E i \in DOMAIN rows' : rows'[i] = rows[p]
      /\ \A i \in DOMAIN rows' :
            i < r => i \in DOMAIN rows /\ rows'[i] = rows[i]
  BY <1>1, <1>2, RemoveAtPlaces
<1> HIDE DEF r
<1>4. CellsExist'
  BY <1>2, <1>3 DEF IndexInv, CellsExist, Cell
<1>5. RowsSorted' /\ WrapsSorted'
  <2>1. WrapsSorted'
    BY <1>2 DEF IndexInv, WrapsSorted
  <2>2. ASSUME NEW i \in DOMAIN rows', NEW j \in DOMAIN rows', i < j
        PROVE  rows'[i].watch < rows'[j].watch
    <3>1. PICK p, q \in DOMAIN rows :
             p < q /\ rows'[i] = rows[p] /\ rows'[j] = rows[q]
      BY <1>3, <2>2
    <3>2. QED
      BY <3>1 DEF IndexInv, RowsSorted
  <2>3. QED
    BY <2>1, <2>2 DEF RowsSorted
<1>6. RowIndexIsThreadIndex' /\ NewestIsLast'
  BY <1>2 DEF RowIndexIsThreadIndex, NewestIsLast, Removing
<1>7. WrapsHaveRows'
  <2>1. ASSUME NEW i \in DOMAIN threadList
        PROVE  \E j \in DOMAIN rows' : Matches(j, i)'
    <3>1. PICK p \in DOMAIN rows : Matches(p, i)
      BY <1>2 DEF IndexInv, WrapsHaveRows, Removing
    <3>2. p # r
      BY <1>2, <3>1 DEF IndexInv, StoppedSoFar, Matches
    <3>3. QED
      BY <1>2, <1>3, <3>1, <3>2 DEF Matches
  <2>2. QED
    BY <1>2, <2>1 DEF WrapsHaveRows
<1>8. RowsHaveWraps'
  <2>1. ASSUME NEW j \in DOMAIN rows', rows'[j].server # ui.server
        PROVE  \E i \in DOMAIN threadList : Matches(j, i)'
    <3>1. PICK p \in DOMAIN rows : rows'[j] = rows[p]
      BY <1>3
    <3>2. QED
      BY <1>2, <2>1, <3>1 DEF IndexInv, RowsHaveWraps, Removing, Matches
  <2>2. QED
    BY <1>2, <2>1 DEF RowsHaveWraps
<1>9. StoppedSoFar'
  BY <1>2 DEF IndexInv, StoppedSoFar
<1>10. AlignedSoFar'
  BY <1>2, <1>3 DEF IndexInv, AlignedSoFar, Matches, r
<1>11. QED
  BY <1>4, <1>5, <1>6, <1>7, <1>8, <1>9, <1>10 DEF IndexInv

(***************************************************************************)
(* The row that stays is the row of the wrap at its index: its wrap cannot *)
(* be before it, where the rows are aligned, nor behind it, since the wrap *)
(* in between would have no row.                                           *)
(***************************************************************************)
LEMMA NextRowIsAligned ==
    ASSUME TypeOK, IndexInv, ui.at = "prune", ui.row \in DOMAIN rows,
           rows[ui.row].server # ui.server
    PROVE  ui.row \in DOMAIN threadList /\ Matches(ui.row, ui.row)
<1> DEFINE r == ui.row
<1>1. /\ \A j \in DOMAIN rows : j \in Nat /\ rows[j].watch \in Nat
      /\ \A i \in DOMAIN threadList : i \in Nat /\ threadList[i].cell \in Nat
      /\ r \in Nat \ {0}
      /\ \A i \in DOMAIN threadList : \A j \in 1 .. i : j \in DOMAIN threadList
  <2>1. /\ \A j \in DOMAIN rows : j \in Nat \ {0} /\ rows[j] \in Row
        /\ \A i \in DOMAIN threadList : i \in Nat /\ threadList[i] \in Wrap
        /\ \A i \in DOMAIN threadList : \A j \in 1 .. i : j \in DOMAIN threadList
    BY DEF TypeOK
  <2>2. /\ \A w \in Row : w.watch \in Nat
        /\ \A w \in Wrap : w.cell \in Nat
    BY DEF Row, Wrap
  <2>3. QED
    BY <2>1, <2>2
<1>2. PICK i \in DOMAIN threadList : Matches(r, i)
  BY DEF IndexInv, RowsHaveWraps, Removing
<1>3. ~(i < r)
  <2>1. SUFFICES ASSUME i < r PROVE FALSE
    OBVIOUS
  <2>2. i \in DOMAIN rows
    BY <1>1, <2>1 DEF TypeOK
  <2>3. Matches(i, i)
    BY <2>1, <2>2 DEF IndexInv, AlignedSoFar
  <2>4. rows[i].watch < rows[r].watch
    BY <2>1, <2>2 DEF IndexInv, RowsSorted
  <2>5. QED
    BY <1>1, <1>2, <2>2, <2>3, <2>4 DEF Matches
<1>4. ~(i > r)
  <2>1. SUFFICES ASSUME i > r PROVE FALSE
    OBVIOUS
  <2>2. r \in DOMAIN threadList
    BY <1>1, <2>1
  <2>3. threadList[r].cell < threadList[i].cell
    BY <2>1, <2>2 DEF IndexInv, WrapsSorted
  <2>4. PICK j \in DOMAIN rows : Matches(j, r)
    BY <2>2 DEF IndexInv, WrapsHaveRows, Removing
  <2>5. rows[j].watch < rows[r].watch
    BY <1>1, <1>2, <2>3, <2>4 DEF Matches
  <2>6. j < r
    <3>1. CASE j = r
      BY <1>1, <2>5, <3>1
    <3>2. CASE j > r
      <4>1. rows[r].watch < rows[j].watch
        BY <3>2 DEF IndexInv, RowsSorted
      <4>2. QED
        BY <1>1, <2>5, <4>1
    <3>3. QED
      BY <1>1, <3>1, <3>2
  <2>7. j \in DOMAIN threadList /\ Matches(j, j)
    BY <2>6 DEF IndexInv, AlignedSoFar
  <2>8. threadList[j].cell < threadList[r].cell
    BY <2>2, <2>6, <2>7 DEF IndexInv, WrapsSorted
  <2>9. QED
    BY <1>1, <2>2, <2>4, <2>7, <2>8 DEF Matches
<1>5. i = r
  BY <1>1, <1>3, <1>4
<1>6. QED
  BY <1>2, <1>5

\* Passing a row of another server extends the aligned part by one.
LEMMA PruneSkipKeepsIndex ==
    ASSUME TypeOK, HandlerInv, IndexInv, PruneSkip
    PROVE  IndexInv'
<1>1. /\ ui.at = "prune" /\ ui'.at = "prune" /\ ui'.server = ui.server
      /\ ui'.row = ui.row + 1 /\ rows[ui.row].server # ui.server
      /\ UNCHANGED <<rows, threadList, runstate>>
  BY DEF PruneSkip, TypeOK, Handler
<1>2. ui.row \in DOMAIN rows /\ ui.row \in Nat
  BY DEF PruneSkip, TypeOK, HandlerInv, Removing
<1>3. ui.row \in DOMAIN threadList /\ Matches(ui.row, ui.row)
  BY <1>1, <1>2, NextRowIsAligned
<1>4. CellsExist' /\ RowsSorted' /\ WrapsSorted'
  BY <1>1 DEF IndexInv, CellsExist, RowsSorted, WrapsSorted, Cell
<1>5. RowIndexIsThreadIndex' /\ NewestIsLast'
  BY <1>1 DEF RowIndexIsThreadIndex, NewestIsLast, Removing
<1>6. WrapsHaveRows' /\ RowsHaveWraps' /\ StoppedSoFar'
  BY <1>1 DEF IndexInv, WrapsHaveRows, RowsHaveWraps, StoppedSoFar, Removing, Matches
<1>7. AlignedSoFar'
  <2>1. \A j \in DOMAIN rows : j < ui'.row => j < ui.row \/ j = ui.row
    BY <1>1, <1>2 DEF TypeOK
  <2>2. QED
    BY <1>1, <1>3, <2>1 DEF IndexInv, AlignedSoFar, Matches
<1>8. QED
  BY <1>4, <1>5, <1>6, <1>7 DEF IndexInv

\* At the end of the table all of it is aligned, and no wrap is left over.
LEMMA PruneDoneKeepsIndex ==
    ASSUME TypeOK, HandlerInv, IndexInv, PruneDone
    PROVE  IndexInv'
<1>1. /\ ui.at = "prune" /\ ui'.at = "idle" /\ ui.row > Len(rows)
      /\ UNCHANGED <<rows, threadList, runstate>>
  BY IdleType DEF PruneDone
<1>2. /\ rows \in Seq(Row) /\ threadList \in Seq(Wrap) /\ ui.row \in Nat
      /\ DOMAIN rows = 1 .. Len(rows) /\ DOMAIN threadList = 1 .. Len(threadList)
      /\ Len(rows) \in Nat /\ Len(threadList) \in Nat
  BY DEF TypeOK, Handler
<1>3. \A j \in DOMAIN rows : j \in DOMAIN threadList /\ Matches(j, j)
  BY <1>1, <1>2 DEF IndexInv, AlignedSoFar
<1>4. Len(rows) <= Len(threadList)
  BY <1>2, <1>3
<1>5. ~(Len(rows) < Len(threadList))
  <2> DEFINE i == Len(rows) + 1
  <2>1. SUFFICES ASSUME Len(rows) < Len(threadList) PROVE FALSE
    OBVIOUS
  <2>2. i \in DOMAIN threadList
    BY <1>2, <2>1
  <2>3. PICK j \in DOMAIN rows : Matches(j, i)
    BY <1>1, <2>2 DEF IndexInv, WrapsHaveRows, Removing
  <2>4. j < i /\ j \in DOMAIN threadList /\ Matches(j, j)
    BY <1>2, <1>3
  <2>5. threadList[j].cell < threadList[i].cell
    BY <2>2, <2>4 DEF IndexInv, WrapsSorted
  <2>6. threadList[i] \in Wrap
    BY <1>2, <2>2
  <2>7. threadList[i].cell \in Nat
    BY <2>6 DEF Wrap
  <2>8. QED
    BY <2>3, <2>4, <2>5, <2>7 DEF Matches
<1>6. RowIndexIsThreadIndex'
  <2>1. \A a, b \in Nat : a <= b /\ ~(a < b) => b = a + 0
    OBVIOUS
  <2>2. Len(threadList) = Len(rows) + 0
    BY <1>2, <1>4, <1>5, <2>1
  <2>3. QED
    BY <1>1, <1>3, <2>2 DEF RowIndexIsThreadIndex, Matches
<1>7. CellsExist' /\ RowsSorted' /\ WrapsSorted'
  BY <1>1 DEF IndexInv, CellsExist, RowsSorted, WrapsSorted, Cell
<1>8. /\ NewestIsLast' /\ WrapsHaveRows' /\ RowsHaveWraps'
      /\ StoppedSoFar' /\ AlignedSoFar'
  BY <1>1 DEF NewestIsLast, WrapsHaveRows, RowsHaveWraps, StoppedSoFar,
              AlignedSoFar, Removing
<1>9. QED
  BY <1>6, <1>7, <1>8 DEF IndexInv

\* The new ThreadWrap is the last of threadList and has the newest cell; its
\* row is the one about to be appended.
LEMMA CreateWatchKeepsIndex ==
    ASSUME TypeOK, HandlerInv, IndexInv, CreateWatch
    PROVE  IndexInv'
<1> DEFINE new == [server |-> ui.server, cell |-> Len(runstate) + 1]
           m == Len(threadList)
<1>1. /\ ui.at = "create" /\ ui'.at = "append" /\ ui'.server = ui.server
      /\ rows' = rows /\ threadList' = Append(threadList, new)
      /\ runstate' = Append(runstate, "RUN")
  BY DEF CreateWatch, TypeOK, Handler
<1>2. new \in Wrap /\ new.cell = Len(runstate) + 1 /\ new.server = ui.server
  BY <1>1 DEF HandlerInv, TypeOK, Wrap
<1> HIDE DEF new
<1>3. /\ DOMAIN threadList' = 1 .. m + 1 /\ Len(threadList') = m + 1
      /\ DOMAIN threadList = 1 .. m
      /\ \A i \in 1 .. m : threadList'[i] = threadList[i]
      /\ threadList'[m + 1] = new /\ m \in Nat
  BY <1>1, <1>2, AppendProperties DEF TypeOK
<1>4. Len(runstate') = Len(runstate) + 1 /\ Cell = 1 .. Len(runstate)
      /\ Cell' = 1 .. Len(runstate) + 1 /\ Len(runstate) \in Nat
  BY <1>1, AppendProperties DEF TypeOK, Cell, RunState
<1>5. DOMAIN rows = 1 .. m
  BY <1>1, <1>3 DEF TypeOK, IndexInv, RowIndexIsThreadIndex, Removing
<1>6. CellsExist'
  BY <1>1, <1>2, <1>3, <1>4 DEF IndexInv, CellsExist
<1>7. RowsSorted'
  BY <1>1 DEF IndexInv, RowsSorted
<1>8. WrapsSorted'
  <2>1. ASSUME NEW i \in 1 .. m + 1, NEW j \in 1 .. m + 1, i < j
        PROVE  threadList'[i].cell < threadList'[j].cell
    <3>1. i \in 1 .. m
      BY <1>3, <2>1
    <3>2. CASE j \in 1 .. m
      BY <1>3, <2>1, <3>1, <3>2 DEF IndexInv, WrapsSorted
    <3>3. CASE j = m + 1
      <4>1. threadList[i].cell \in 1 .. Len(runstate)
        BY <1>3, <1>4, <3>1 DEF IndexInv, CellsExist
      <4>2. QED
        BY <1>2, <1>3, <1>4, <3>1, <3>3, <4>1
    <3>4. QED
      BY <1>3, <3>2, <3>3
  <2>2. QED
    BY <1>3, <2>1 DEF WrapsSorted
<1>9. RowIndexIsThreadIndex'
  <2>1. Len(threadList') = Len(rows') + 1
    BY <1>1, <1>3 DEF TypeOK, IndexInv, RowIndexIsThreadIndex, Removing
  <2>2. \A i \in DOMAIN rows : /\ rows[i].watch = threadList[i].cell
                              /\ rows[i].server = threadList[i].server
    BY <1>1 DEF IndexInv, RowIndexIsThreadIndex, Removing
  <2>3. QED
    BY <1>1, <1>3, <1>5, <2>1, <2>2 DEF RowIndexIsThreadIndex
<1>10. NewestIsLast'
  <2>1. \A i \in DOMAIN rows : rows[i].watch \in 1 .. Len(runstate)
    BY <1>4 DEF IndexInv, CellsExist
  <2>2. QED
    BY <1>1, <1>2, <1>3, <1>4, <2>1 DEF NewestIsLast
<1>11. WrapsHaveRows' /\ RowsHaveWraps' /\ StoppedSoFar' /\ AlignedSoFar'
  BY <1>1 DEF WrapsHaveRows, RowsHaveWraps, StoppedSoFar, AlignedSoFar, Removing
<1>12. QED
  BY <1>6, <1>7, <1>8, <1>9, <1>10, <1>11 DEF IndexInv

\* The row of the new watch comes last, where its ThreadWrap is.
LEMMA AppendRowKeepsIndex ==
    ASSUME TypeOK, HandlerInv, IndexInv, AppendRow
    PROVE  IndexInv'
<1> DEFINE new == [server |-> ui.server, file |-> ui.file, friendly |-> ui.friendly,
                   status |-> "Active", watch |-> Len(runstate)]
           m == Len(rows)
<1>1. /\ ui.at = "append" /\ ui'.at = "idle"
      /\ UNCHANGED <<threadList, runstate>> /\ rows' = Append(rows, new)
  BY IdleType DEF AppendRow
<1>2. new \in Row /\ new.watch = Len(runstate) /\ new.server = ui.server
  <2>1. /\ ui.server \in Server /\ ui.file \in File /\ ui.friendly \in Friendly
        /\ Len(runstate) \in Nat \ {0}
    BY <1>1 DEF HandlerInv, TypeOK
  <2>2. QED
    BY <2>1 DEF Row, Status
<1> HIDE DEF new
<1>3. /\ DOMAIN rows' = 1 .. m + 1 /\ Len(rows') = m + 1
      /\ DOMAIN rows = 1 .. m
      /\ \A i \in 1 .. m : rows'[i] = rows[i]
      /\ rows'[m + 1] = new /\ m \in Nat
  BY <1>1, <1>2, AppendProperties DEF TypeOK
<1>4. /\ Len(runstate) \in Nat \ {0} /\ Len(runstate) \in Cell /\ Cell' = Cell
  BY <1>1 DEF HandlerInv, TypeOK, Cell
<1>5. /\ Len(threadList) = m + 1
      /\ \A i \in DOMAIN rows : /\ rows[i].watch = threadList[i].cell
                                /\ rows[i].server = threadList[i].server
  BY <1>1 DEF IndexInv, RowIndexIsThreadIndex, Removing
<1>6. CellsExist'
  BY <1>1, <1>2, <1>3, <1>4 DEF IndexInv, CellsExist
<1>7. RowsSorted' /\ WrapsSorted'
  <2>1. ASSUME NEW i \in 1 .. m + 1, NEW j \in 1 .. m + 1, i < j
        PROVE  rows'[i].watch < rows'[j].watch
    <3>1. i \in 1 .. m
      BY <1>3, <2>1
    <3>2. CASE j \in 1 .. m
      BY <1>3, <2>1, <3>1, <3>2 DEF IndexInv, RowsSorted
    <3>3. CASE j = m + 1
      BY <1>1, <1>2, <1>3, <3>1, <3>3 DEF IndexInv, NewestIsLast
    <3>4. QED
      BY <1>3, <3>2, <3>3
  <2>2. QED
    BY <1>1, <1>3, <2>1 DEF IndexInv, RowsSorted, WrapsSorted
<1>8. RowIndexIsThreadIndex'
  <2>1. Len(threadList') = Len(rows') + 0
    BY <1>1, <1>3, <1>5
  <2>2. ASSUME NEW i \in 1 .. m + 1
        PROVE  /\ rows'[i].watch = threadList[i].cell
               /\ rows'[i].server = threadList[i].server
    <3>1. CASE i \in 1 .. m
      BY <1>3, <1>5, <3>1
    <3>2. CASE i = m + 1
      BY <1>1, <1>2, <1>3, <1>5, <3>2 DEF IndexInv, NewestIsLast
    <3>3. QED
      BY <1>3, <3>1, <3>2
  <2>3. QED
    BY <1>1, <1>3, <2>1, <2>2 DEF RowIndexIsThreadIndex
<1>9. /\ NewestIsLast' /\ WrapsHaveRows' /\ RowsHaveWraps'
      /\ StoppedSoFar' /\ AlignedSoFar'
  BY <1>1 DEF NewestIsLast, WrapsHaveRows, RowsHaveWraps, StoppedSoFar,
              AlignedSoFar, Removing
<1>10. QED
  BY <1>6, <1>7, <1>8, <1>9 DEF IndexInv

-----------------------------------------------------------------------------
\* Every step keeps the relation between the two lists.
LEMMA IndexStep ==
    TypeOK /\ HandlerInv /\ IndexInv /\ [Next]_vars => IndexInv'
<1> SUFFICES ASSUME TypeOK, HandlerInv, IndexInv, [Next]_vars
             PROVE  IndexInv'
  OBVIOUS
<1>1. CASE UNCHANGED vars
  BY <1>1, SameRowsKeepsIndex DEF vars, SameRows
<1>2. CASE CalmStep
  BY <1>2, CalmStepSameRows, SameRowsKeepsIndex
<1>3. CASE \E k \in DOMAIN serverlist : RemoveServer(k)
  BY <1>3, RemoveServerKeepsIndex
<1>4. CASE StopMatch
  BY <1>4, StopMatchKeepsIndex
<1>5. CASE StopSkip \/ StopDone
  BY <1>5, StopLoopKeepsIndex
<1>6. CASE PruneMatch
  BY <1>6, PruneMatchKeepsIndex
<1>7. CASE PruneSkip
  BY <1>7, PruneSkipKeepsIndex
<1>8. CASE PruneDone
  BY <1>8, PruneDoneKeepsIndex
<1>9. CASE CreateWatch
  BY <1>9, CreateWatchKeepsIndex
<1>10. CASE AppendRow
  BY <1>10, AppendRowKeepsIndex
<1>11. QED
  BY <1>1, <1>2, <1>3, <1>4, <1>5, <1>6, <1>7, <1>8, <1>9, <1>10
     DEF Next, UserStep, HandlerStep, CalmStep

\* The inductive invariant.
Inv == TypeOK /\ HandlerInv /\ IndexInv

\* The empty table satisfies the inductive invariant.
LEMMA InvInit == Init => Inv
<1> SUFFICES ASSUME Init PROVE Inv
  OBVIOUS
<1>1. ui.at = "idle" /\ rows = <<>> /\ threadList = <<>>
  BY IdleType DEF Init
<1>2. HandlerInv
  BY <1>1 DEF HandlerInv, Removing
<1>3. IndexInv
  BY <1>1 DEF IndexInv, CellsExist, RowsSorted, WrapsSorted, RowIndexIsThreadIndex,
              NewestIsLast, WrapsHaveRows, RowsHaveWraps, StoppedSoFar, AlignedSoFar,
              Removing
<1>4. QED
  BY <1>2, <1>3, TypeInit DEF Inv

\* Every step keeps the inductive invariant.
LEMMA InvStep == Inv /\ [Next]_vars => Inv'
BY TypeStep, HandlerStepKeeps, IndexStep DEF Inv, IndexInv

(***************************************************************************)
(* The inductive invariant holds in every state, whatever the interleaving *)
(* of the UI thread, the watch threads and the servers.                    *)
(***************************************************************************)
THEOREM InvIsInvariant == Spec => []Inv
BY InvInit, InvStep, PTL DEF Spec

(***************************************************************************)
(* Every state is well typed and a running thread's cell exists: the int   *)
(* that a watch thread reads through its pointer has been allocated.       *)
(***************************************************************************)
THEOREM TypeCorrect == Spec => []TypeOK
BY InvIsInvariant, PTL DEF Inv

(***************************************************************************)
(* "The row in a table matches to the index of the thread in threadList"   *)
(* (errifierui.cpp, on_tableView_doubleClicked): whenever a row can be     *)
(* double-clicked, threadList.at(row) is the ThreadWrap of that row's      *)
(* watch, for any number of servers, watches, threads and removals.        *)
(***************************************************************************)
THEOREM RowsMatchThreads == Spec => []RowIndexIsThreadIndex
<1>1. Inv => RowIndexIsThreadIndex
  BY DEF Inv, IndexInv
<1>2. QED
  BY <1>1, InvIsInvariant, PTL
=============================================================================
