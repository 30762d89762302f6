-------------------------- MODULE LogServerProofs ---------------------------
(***************************************************************************)
(* Proofs about LogServer, for any number of connections, files, workers   *)
(* and inotify instances: the values of the variables, an event is only    *)
(* ever pending for the call that is being served, and the pool stays      *)
(* within its bounds.                                                      *)
(*                                                                         *)
(* ServerInv is inductive.  What it adds to the three properties is that   *)
(* the queue holds no connection twice, and that the busy connections are  *)
(* a finite set, without which their number means nothing.                 *)
(***************************************************************************)
EXTENDS LogServer, FiniteSetTheorems, FunctionTheorems, SequenceTheorems, TLAPS

QueueInv ==
    /\ \A i \in 1 .. Len(queue) : task[queue[i]] = "queued"
    /\ \A i, j \in 1 .. Len(queue) : queue[i] = queue[j] => i = j
    /\ \A c \in Conn : task[c] = "queued" => \E i \in 1 .. Len(queue) : queue[i] = c

PoolInv == IsFiniteSet(Busy) /\ Cardinality(Busy) <= Workers

ServerInv == TypeOK /\ EventIsOfThisCall /\ QueueInv /\ PoolInv

-----------------------------------------------------------------------------
\* While the queue stays as it is, and with it who is queued, so does QueueInv.
LEMMA QueueUnchanged ==
    ASSUME TypeOK, QueueInv, queue' = queue,
           \A c \in Conn : task'[c] = "queued" <=> task[c] = "queued"
    PROVE  QueueInv'
<1>1. \A i \in 1 .. Len(queue) : queue[i] \in Conn
  BY ElementOfSeq DEF TypeOK
<1>2. QED
  BY <1>1 DEF QueueInv

\* Nobody becomes busy: the pool stays within its bounds.
LEMMA NobodyBusier ==
    ASSUME PoolInv, Busy' \subseteq Busy
    PROVE  PoolInv'
<1>1. IsFiniteSet(Busy') /\ Cardinality(Busy') <= Cardinality(Busy)
  BY FS_Subset DEF PoolInv
<1>2. Cardinality(Busy') \in Nat /\ Cardinality(Busy) \in Nat
  BY <1>1, FS_CardinalityType DEF PoolInv
<1>3. QED
  BY <1>1, <1>2, WorkersAssumption DEF PoolInv

\* Accepting a connection puts it at the end of the queue.
LEMMA ConnectQueues ==
    ASSUME TypeOK, QueueInv, NEW c \in Conn, Connect(c)
    PROVE  QueueInv'
<1>1. queue \in Seq(Conn) /\ Len(queue) \in Nat
  BY DEF TypeOK
<1>2. \A i \in 1 .. Len(queue) : queue[i] \in Conn /\ queue[i] # c
  BY <1>1, ElementOfSeq DEF QueueInv, Connect
<1>3. /\ Len(queue') = Len(queue) + 1
      /\ \A i \in 1 .. Len(queue) : queue'[i] = queue[i]
      /\ queue'[Len(queue) + 1] = c
  BY <1>1 DEF Connect
<1>4. \A d \in Conn : task'[d] = IF d = c THEN "queued" ELSE task[d]
  BY DEF Connect, TypeOK
<1>5. \A i \in 1 .. Len(queue) + 1 : i \in 1 .. Len(queue) \/ i = Len(queue) + 1
  BY <1>1
<1>6. \A i \in 1 .. Len(queue') : task'[queue'[i]] = "queued"
  BY <1>1, <1>2, <1>3, <1>4, <1>5 DEF QueueInv
<1>7. \A i, j \in 1 .. Len(queue') : queue'[i] = queue'[j] => i = j
  BY <1>1, <1>2, <1>3, <1>5 DEF QueueInv
<1>8. \A d \in Conn : task'[d] = "queued" => \E i \in 1 .. Len(queue') : queue'[i] = d
  BY <1>1, <1>3, <1>4 DEF QueueInv
<1>9. QED
  BY <1>6, <1>7, <1>8 DEF QueueInv

\* Serving takes the oldest connection out of the queue.
LEMMA ServeDequeues ==
    ASSUME TypeOK, QueueInv, Serve
    PROVE  QueueInv'
<1>1. queue \in Seq(Conn) /\ queue # <<>> /\ Len(queue) \in Nat \ {0}
  BY EmptySeq DEF TypeOK, Serve
<1>2. /\ Len(queue') = Len(queue) - 1
      /\ \A i \in 1 .. Len(queue') : queue'[i] = queue[i + 1]
  BY <1>1, HeadTailProperties DEF Serve
<1>3. Head(queue) = queue[1] /\ 1 \in 1 .. Len(queue)
  BY <1>1
<1>4. \A i \in 1 .. Len(queue) : queue[i] \in Conn
  BY <1>1, ElementOfSeq
<1>5. \A d \in Conn : task'[d] = IF d = queue[1] THEN "ready" ELSE task[d]
  BY <1>3 DEF Serve, TypeOK
<1>6. \A i \in 1 .. Len(queue') : i + 1 \in 1 .. Len(queue) /\ queue[i + 1] # queue[1]
  BY <1>1, <1>2, <1>3 DEF QueueInv
<1>7. \A i \in 1 .. Len(queue') : task'[queue'[i]] = "queued"
  BY <1>2, <1>4, <1>5, <1>6 DEF QueueInv
<1>8. \A i, j \in 1 .. Len(queue') : queue'[i] = queue'[j] => i = j
  BY <1>1, <1>2, <1>6 DEF QueueInv
<1>9. ASSUME NEW d \in Conn, task'[d] = "queued"
      PROVE  \E i \in 1 .. Len(queue') : queue'[i] = d
  <2>1. task[d] = "queued" /\ d # queue[1]
    BY <1>5, <1>9
  <2>2. PICK k \in 1 .. Len(queue) : queue[k] = d
    BY <2>1 DEF QueueInv
  <2>3. k - 1 \in 1 .. Len(queue') /\ queue'[k - 1] = d
    BY <1>1, <1>2, <2>1, <2>2
  <2>4. QED
    BY <2>3
<1>10. QED
  BY <1>7, <1>8, <1>9 DEF QueueInv

\* Serving makes one connection busy, and only while a worker is free.
LEMMA ServeBoundsPool ==
    ASSUME TypeOK, PoolInv, Serve
    PROVE  PoolInv'
<1>1. Head(queue) \in Conn
  BY HeadTailProperties DEF TypeOK, Serve
<1>2. Busy' = Busy \cup {Head(queue)}
  BY <1>1 DEF Busy, Serve, TypeOK
<1>3. Cardinality(Busy) \in Nat
  BY FS_CardinalityType DEF PoolInv
<1>4. /\ IsFiniteSet(Busy')
      /\ Cardinality(Busy') \in {Cardinality(Busy), Cardinality(Busy) + 1}
  BY <1>2, FS_AddElement DEF PoolInv
<1>5. QED
  BY <1>3, <1>4, WorkersAssumption DEF Serve, PoolInv

-----------------------------------------------------------------------------
\* A client's step changes link, req or the end of the queue only.
LEMMA ClientStepPreserves ==
    ASSUME ServerInv, NEW c \in Conn, ClientStep(c)
    PROVE  ServerInv'
<1> USE DEF ServerInv
<1>1. CASE Connect(c)
  <2>1. TypeOK' /\ EventIsOfThisCall'
    BY <1>1 DEF Connect, TaskPc, Alert, TypeOK, EventIsOfThisCall
  <2>2. Busy' \subseteq Busy
    BY <1>1 DEF Connect, Busy, TypeOK
  <2>3. QED
    BY <1>1, <2>1, <2>2, ConnectQueues, NobodyBusier
<1>2. CASE Close(c)
  <2>1. TypeOK' /\ EventIsOfThisCall'
    BY <1>2 DEF Close, TypeOK, EventIsOfThisCall
  <2>2. Busy' = Busy /\ task' = task /\ queue' = queue
    BY <1>2 DEF Close, Busy
  <2>3. QED
    BY <2>1, <2>2, QueueUnchanged, NobodyBusier
<1>3. ASSUME NEW r \in Request, Send(c, r)
      PROVE  ServerInv'
  <2>1. TypeOK' /\ EventIsOfThisCall'
    BY <1>3 DEF Send, TypeOK, EventIsOfThisCall
  <2>2. Busy' = Busy /\ task' = task /\ queue' = queue
    BY <1>3 DEF Send, Busy
  <2>3. QED
    BY <2>1, <2>2, QueueUnchanged, NobodyBusier
<1>4. QED
  BY <1>1, <1>2, <1>3 DEF ClientStep

\* The steps of a worker: a report takes its event along.
LEMMA WorkerStepPreserves ==
    ASSUME ServerInv, NEW c \in Conn, ServerStep(c)
    PROVE  ServerInv'
<1> USE DEF ServerInv
<1>1. TypeOK' /\ EventIsOfThisCall'
  <2> USE DEF TypeOK, EventIsOfThisCall, TaskPc, Alert
  <2>1. CASE HangUp(c)
    BY <2>1 DEF HangUp
  <2>2. CASE Answer(c)
    BY <2>2 DEF Answer
  <2>3. CASE InitFails(c)
    BY <2>3 DEF InitFails, Notifier
  <2>4. CASE Arm(c)
    <3>1. instances' \in 0 .. MaxInotify
      BY <2>4, MaxInotifyAssumption DEF Arm
    <3>2. QED
      BY <2>4, <3>1 DEF Arm, Notifier
  <2>5. CASE Report(c)
    BY <2>5 DEF Report
  <2>6. QED
    BY <2>1, <2>2, <2>3, <2>4, <2>5 DEF ServerStep
<1>2. /\ queue' = queue
      /\ \A d \in Conn : task'[d] = "queued" <=> task[d] = "queued"
      /\ Busy' \subseteq Busy
  BY DEF ServerStep, HangUp, Answer, InitFails, Arm, Notifier, Report, Busy, TypeOK, Alert
<1>3. QED
  BY <1>1, <1>2, QueueUnchanged, NobodyBusier

\* A write sets events of watching connections only, and a connection whose
\* event is pending goes on watching.
LEMMA FileStepPreserves ==
    ASSUME ServerInv, NEW f \in File, FileStep(f)
    PROVE  ServerInv'
<1> USE DEF ServerInv
<1>1. TypeOK' /\ EventIsOfThisCall'
  <2> USE DEF TypeOK, EventIsOfThisCall, Alert
  <2>1. CASE Modify(f)
    BY <2>1 DEF Modify, Watching
  <2>2. CASE Remove(f)
    BY <2>2 DEF Remove, Watching, TaskPc
  <2>3. CASE Create(f)
    BY <2>3 DEF Create
  <2>4. CASE ModifyOld(f)
    BY <2>4 DEF ModifyOld, WatchingOld
  <2>5. CASE InodeGone(f)
    BY <2>5 DEF InodeGone, WatchingOld, TaskPc
  <2>6. QED
    BY <2>1, <2>2, <2>3, <2>4, <2>5 DEF FileStep
<1>2. /\ queue' = queue
      /\ \A d \in Conn : task'[d] = "queued" <=> task[d] = "queued"
      /\ Busy' \subseteq Busy
  BY DEF FileStep, Modify, Remove, Create, ModifyOld, InodeGone, Watching, WatchingOld,
         Busy, TypeOK
<1>3. QED
  BY <1>1, <1>2, QueueUnchanged, NobodyBusier

\* The pool takes the oldest connection; it had no worker and no event.
LEMMA ServePreserves ==
    ASSUME ServerInv, Serve
    PROVE  ServerInv'
<1> USE DEF ServerInv
<1>1. queue \in Seq(Conn) /\ queue # <<>>
  BY DEF Serve, TypeOK
<1>2. Head(queue) \in Conn /\ queue' \in Seq(Conn)
  BY <1>1, HeadTailProperties DEF Serve
<1>3. task[Head(queue)] = "queued"
  BY <1>1, EmptySeq DEF QueueInv
<1>4. task' \in [Conn -> TaskPc]
  BY <1>2 DEF Serve, TypeOK, TaskPc
<1>5. \A c \in Conn : c # Head(queue) => task'[c] = task[c]
  BY <1>2 DEF Serve, TypeOK
<1>6. task'[Head(queue)] = "ready"
  BY <1>2 DEF Serve, TypeOK
<1>7. TypeOK'
  BY <1>2, <1>4, <1>5, <1>6 DEF Serve, TypeOK, Alert
<1>8. EventIsOfThisCall'
  BY <1>2, <1>3, <1>5 DEF Serve, TypeOK, EventIsOfThisCall, Alert
<1>9. QED
  BY <1>7, <1>8, ServeDequeues, ServeBoundsPool

\* After a restart the server serves nobody.
LEMMA CrashPreserves ==
    ASSUME ServerInv, Crash
    PROVE  ServerInv'
<1>1. TypeOK' /\ EventIsOfThisCall'
  BY MaxInotifyAssumption DEF ServerInv, TypeOK, EventIsOfThisCall, TaskPc, Alert, Crash
<1>2. QueueInv'
  BY DEF QueueInv, Crash
<1>3. Busy' = {}
  BY DEF Busy, Crash
<1>4. PoolInv'
  BY <1>3, NobodyBusier DEF ServerInv
<1>5. QED
  BY <1>1, <1>2, <1>4 DEF ServerInv

\* The invariant holds at the start.
LEMMA ServerInit == Init => ServerInv
<1>1. Init => TypeOK /\ EventIsOfThisCall
  BY MaxInotifyAssumption DEF Init, TypeOK, EventIsOfThisCall, TaskPc, Alert
<1>2. Init => QueueInv
  BY DEF Init, QueueInv
<1>3. Init => Busy = {}
  BY DEF Init, Busy
<1>4. Init => PoolInv
  BY <1>3, FS_EmptySet, WorkersAssumption DEF PoolInv
<1>5. QED
  BY <1>1, <1>2, <1>4 DEF ServerInv

\* Every step preserves the invariant.
LEMMA ServerNext == ServerInv /\ [Next]_vars => ServerInv'
<1>1. CASE UNCHANGED vars
  BY <1>1 DEF vars, ServerInv, TypeOK, EventIsOfThisCall, QueueInv, PoolInv, Busy
<1>2. QED
  BY <1>1, ServePreserves, CrashPreserves, WorkerStepPreserves,
     ClientStepPreserves, FileStepPreserves DEF Next

\* The invariant is one of the specification.
LEMMA ServerInvariant == Spec => []ServerInv
  BY ServerInit, ServerNext, PTL DEF Spec

-----------------------------------------------------------------------------
\* The variables keep their values, and a worker inside startNotifier has
\* its request.
THEOREM ServerTypes == Spec => []TypeOK
  BY ServerInvariant, PTL DEF ServerInv

\* No call of startNotifier reports a write that an earlier call reported or
\* that came before the call: an event waits on the instance being read only.
THEOREM ServerEvents == Spec => []EventIsOfThisCall
  BY ServerInvariant, PTL DEF ServerInv

\* The pool never serves more connections than it has workers, and the queue
\* holds each waiting connection exactly once, also across a restart.
THEOREM ServerPool == Spec => []PoolIsBounded
<1>1. ASSUME ServerInv
      PROVE  PoolIsBounded
  <2> DEFINE Queued == {c \in Conn : task[c] = "queued"}
  <2>1. queue \in [1 .. Len(queue) -> Conn] /\ Len(queue) \in Nat
    BY <1>1, LenProperties DEF ServerInv, TypeOK
  <2>2. queue \in Injection(1 .. Len(queue), Queued)
    BY <1>1, <2>1 DEF ServerInv, QueueInv, Injection, IsInjective
  <2>3. queue \in Surjection(1 .. Len(queue), Queued)
    BY <1>1, <2>1 DEF ServerInv, QueueInv, Surjection
  <2>4. Cardinality(Queued) = Len(queue)
    BY <2>1, <2>2, <2>3, FS_CountingElements DEF Bijection, ExistsBijection
  <2>5. \A c \in Conn : task[c] = "queued" <=> \E i \in DOMAIN queue : queue[i] = c
    BY <1>1, <2>1 DEF ServerInv, QueueInv
  <2>6. QED
    BY <1>1, <2>4, <2>5 DEF PoolIsBounded, ServerInv, PoolInv
<1>2. QED
  BY <1>1, ServerInvariant, PTL

-----------------------------------------------------------------------------
(***************************************************************************)
(* The refinement of ThreadPool, step by step.                             *)
(***************************************************************************)
\* What a step changes of the pool: a worker's connection c goes from one
\* place to another.
LEMMA PoolOfTask ==
    ASSUME TypeOK, NEW c \in Conn, NEW pc \in TaskPc,
           task' = [task EXCEPT ![c] = pc]
    PROVE  /\ Busy' = IF pc \in {"none", "queued"} THEN Busy \ {c} ELSE Busy \cup {c}
           /\ Waits' = IF pc \in Alert \cup {"mute", "spin"} THEN Waits \cup {c}
                       ELSE Waits \ {c}
  BY DEF TypeOK, TaskPc, Alert, Busy, Waits

\* A connection has a worker, and is in a call, as its task says.
LEMMA PoolOfConnection ==
    ASSUME NEW c \in Conn
    PROVE  /\ c \in Busy <=> task[c] \notin {"none", "queued"}
           /\ c \in Waits <=> task[c] \in Alert \cup {"mute", "spin"}
  BY DEF Busy, Waits

\* The pool starts empty.
LEMMA PoolInit == Init => Pool!Init
  BY DEF Init, Pool!Init, Busy, Waits, Alert

\* The server's own steps on a connection.
LEMMA ServerStepOfPool ==
    ASSUME TypeOK, NEW c \in Conn, ServerStep(c)
    PROVE  [Pool!Next]_<<queue, Busy, Waits>>
<1>1. CASE HangUp(c)
  <2>1. Busy' = Busy \ {c} /\ Waits' = Waits \ {c}
    BY <1>1, PoolOfTask DEF HangUp, TaskPc, Alert
  <2>2. c \in Busy /\ c \notin Waits /\ queue' = queue
    BY <1>1, PoolOfConnection DEF HangUp, Alert
  <2>3. Pool!Release(c)
    BY <2>1, <2>2 DEF Pool!Release
  <2>4. QED
    BY <2>3 DEF Pool!Next
<1>2. CASE Answer(c)
  BY <1>2 DEF Answer, Busy, Waits
<1>3. CASE InitFails(c) \/ Arm(c)
  <2>1. \E pc \in Alert \cup {"mute", "spin"} : task' = [task EXCEPT ![c] = pc]
    BY <1>3 DEF InitFails, Arm, Alert
  <2>2. Busy' = Busy \cup {c} /\ Waits' = Waits \cup {c}
    BY <2>1, PoolOfTask DEF TaskPc, Alert
  <2>3. c \in Busy /\ c \notin Waits /\ queue' = queue
    BY <1>3, PoolOfConnection DEF InitFails, Arm, Notifier, Alert
  <2>4. Pool!Enter(c)
    BY <2>2, <2>3 DEF Pool!Enter
  <2>5. QED
    BY <2>4 DEF Pool!Next
<1>4. CASE Report(c)
  <2>1. Busy' = Busy \cup {c} /\ Waits' = Waits \ {c}
    <3>1. "ready" \in TaskPc /\ "ready" \notin Alert \cup {"mute", "spin"}
      BY DEF TaskPc, Alert
    <3>2. task' = [task EXCEPT ![c] = "ready"]
      BY <1>4 DEF Report
    <3>3. QED
      BY <3>1, <3>2, PoolOfTask
  <2>2. c \in Busy /\ c \in Waits /\ queue' = queue
    BY <1>4, PoolOfConnection DEF Report, Alert
  <2>3. Pool!Leave(c)
    BY <2>1, <2>2 DEF Pool!Leave
  <2>4. QED
    BY <2>3 DEF Pool!Next
<1>5. QED
  BY <1>1, <1>2, <1>3, <1>4 DEF ServerStep

\* The clients': an accepted connection goes to the end of the queue.
LEMMA ClientStepOfPool ==
    ASSUME ServerInv, NEW c \in Conn, ClientStep(c)
    PROVE  [Pool!Next]_<<queue, Busy, Waits>>
<1>1. CASE Connect(c)
  <2>1. Busy' = Busy \ {c} /\ Waits' = Waits \ {c}
    BY <1>1, PoolOfTask DEF Connect, TaskPc, ServerInv, Alert
  <2>2. c \notin Busy /\ c \notin Waits /\ queue' = Append(queue, c)
    BY <1>1, PoolOfConnection DEF Connect, Alert
  <2>3. \A i \in DOMAIN queue : queue[i] # c
    BY <1>1 DEF Connect, ServerInv, QueueInv, TypeOK
  <2>4. Pool!Accept(c)
    BY <2>1, <2>2, <2>3 DEF Pool!Accept
  <2>5. QED
    BY <2>4 DEF Pool!Next
<1>2. CASE Close(c) \/ \E r \in Request : Send(c, r)
  BY <1>2 DEF Close, Send, Busy, Waits
<1>3. QED
  BY <1>1, <1>2 DEF ClientStep

\* A worker takes the oldest connection.
LEMMA ServeOfPool ==
    ASSUME ServerInv, Serve
    PROVE  Pool!Next
<1> DEFINE c == Head(queue)
<1>1. c \in Conn /\ task[c] = "queued"
  <2>1. 1 \in 1 .. Len(queue) /\ c = queue[1]
    BY DEF Serve, ServerInv, TypeOK
  <2>2. QED
    BY <2>1 DEF ServerInv, TypeOK, QueueInv
<1>2. Busy' = Busy \cup {c} /\ Waits' = Waits \ {c}
  <2>1. "ready" \in TaskPc /\ "ready" \notin Alert \cup {"mute", "spin"}
    BY DEF TaskPc, Alert
  <2>2. task' = [task EXCEPT ![c] = "ready"]
    BY DEF Serve
  <2>3. QED
    BY <1>1, <2>1, <2>2, PoolOfTask DEF ServerInv
<1>3. c \notin Waits
  BY <1>1, PoolOfConnection DEF Alert
<1>4. Pool!Take
  <2>1. Waits' = Waits
    BY <1>2, <1>3
  <2>2. queue # <<>> /\ Cardinality(Busy) < Workers /\ queue' = Tail(queue)
    BY DEF Serve
  <2>3. Busy' = Busy \cup {Head(queue)}
    BY <1>2
  <2>4. QED
    BY <2>1, <2>2, <2>3 DEF Pool!Take, Pool!Cardinality, Cardinality
<1>5. QED
  BY <1>4 DEF Pool!Next

\* Every step is one of the pool, or leaves the pool alone.
LEMMA PoolStep ==
    ServerInv /\ [Next]_vars => [Pool!Next]_<<queue, Busy, Waits>>
<1> SUFFICES ASSUME ServerInv, [Next]_vars
             PROVE  [Pool!Next]_<<queue, Busy, Waits>>
  OBVIOUS
<1>1. CASE UNCHANGED vars
  BY <1>1 DEF vars, Busy, Waits
<1>2. ASSUME NEW f \in File, FileStep(f)
      PROVE  [Pool!Next]_<<queue, Busy, Waits>>
  <2>1. queue' = queue /\ task' \in [Conn -> TaskPc]
    BY <1>2 DEF FileStep, Modify, Remove, Create, ModifyOld, InodeGone, WatchingOld,
                ServerInv, TypeOK, TaskPc, Alert
  <2>2. \A c \in Conn : \/ task'[c] = task[c]
                        \/ task[c] \in Alert /\ task'[c] \in {"old", "mute"}
    BY <1>2 DEF FileStep, Modify, Remove, Create, ModifyOld, InodeGone, Watching, WatchingOld,
         ServerInv, TypeOK, Alert
  <2>3. Busy' = Busy /\ Waits' = Waits
    BY <2>2 DEF Busy, Waits, Alert
  <2>4. QED
    BY <2>1, <2>3
<1>3. CASE Crash
  <2>1. Busy' = {} /\ Waits' = {} /\ queue' = <<>>
    BY <1>3 DEF Crash, Busy, Waits, Alert
  <2>2. QED
    BY <2>1 DEF Pool!Next, Pool!Restart
<1>4. QED
  BY <1>1, <1>2, <1>3, ServeOfPool, ServerStepOfPool, ClientStepOfPool
  DEF Next, ServerInv

(***************************************************************************)
(* Whatever the clients do, and across crashes, the handler is served by a *)
(* pool that keeps the order of its queue, its size, and a worker on its   *)
(* connection until a call is over.                                        *)
(***************************************************************************)
THEOREM ServerImplementsThreadPool == Spec => ImplementsThreadPool
  BY PoolInit, PoolStep, ServerInvariant, PTL
  DEF Spec, ImplementsThreadPool, Pool!Spec, Pool!poolVars
=============================================================================
