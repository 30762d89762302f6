---------------------------- MODULE SessionProofs ---------------------------
(***************************************************************************)
(* Proofs about Session, for any number of watches, connections, files and *)
(* workers: client and server agree on every call, and what the user sees  *)
(* implements Alarm.                                                       *)
(*                                                                         *)
(* Every step of a session is a step of LogServer or leaves its variables  *)
(* alone, so the server's invariant comes for free.  What has to be added  *)
(* to it: a connection without a worker has no request left over, a        *)
(* request on a thread's connection is the thread's own, and an event or a *)
(* reply for a thread means that its file was written since it last knew.  *)
(***************************************************************************)
EXTENDS Session, LogServerProofs

\* A connection nobody serves is closed and has no request.
LinkInv == \A c \in Conn : task[c] = "none" => ~link[c] /\ req[c] = None

\* A request on a thread's connection is that of the call the thread is in.
OwnRequest ==
    \A w \in Watch : \A c \in Conn :
        Owns(w, c) /\ req[c] # None => InCall(w) /\ req[c] = NotifierFor(w)

\* An event or a reply that a thread will see stands for a fresh write.
FreshInv ==
    \A w \in Watch : \A c \in Conn :
        Owns(w, c) /\ (event[c] \/ reply[c]) => fresh[w] = 1

ClientInv == SessionTypeOK /\ CallsMatch /\ OwnRequest /\ FreshInv

SessionInv == ServerInv /\ LinkInv /\ ClientInv

-----------------------------------------------------------------------------
\* Every step of a session is one of the server's, or none.
LEMMA SessionStepIsServerStep ==
    ASSUME SessionTypeOK, SessionNext
    PROVE  [Next]_vars
<1>1. ASSUME NEW w \in Watch, NEW c \in Conn, Start(w, c)
      PROVE  [Next]_vars
  BY <1>1 DEF Start, Next, ClientStep
<1>2. ASSUME NEW w \in Watch, NEW state \in RunState, SetState(w, state)
      PROVE  [Next]_vars
  BY <1>2 DEF SetState
<1>3. ASSUME NEW w \in Watch, ThreadStep(w)
      PROVE  [Next]_vars
  <2> DEFINE c == threads[w].conn
  <2>1. threads[w].at = "poll" => c \in Conn
    BY DEF SessionTypeOK
  <2>2. NotifierFor(w) \in Request
    BY TargetAssumption DEF NotifierFor, Request
  <2>3. CASE Call(w)
    BY <2>1, <2>2, <2>3 DEF Call, Next, ClientStep
  <2>4. CASE Finish(w)
    BY <2>1, <2>4 DEF Finish, Next, ClientStep
  <2>5. QED
    BY <1>3, <2>3, <2>4 DEF ThreadStep, Begin, Notify, Throw, Leave
<1>4. ASSUME NEW c \in Conn, WorkerStep(c)
      PROVE  [Next]_vars
  BY <1>4 DEF WorkerStep, SendReply, ServerRuns, Next, ServerStep
<1>5. ASSUME NEW c \in Conn, HangsUp(c) \/ Break(c) \/ Tell(c)
      PROVE  [Next]_vars
  BY <1>5 DEF HangsUp, Break, Tell, Next, ServerStep, ClientStep
<1>6. ASSUME NEW f \in File, Write(f) \/ Rotate(f)
      PROVE  [Next]_vars
  BY <1>6 DEF Write, Rotate, Next, FileStep
<1>7. CASE PoolRuns \/ ServerDies
  BY <1>7 DEF PoolRuns, ServerDies, Next
<1>8. QED
  BY <1>1, <1>2, <1>3, <1>4, <1>5, <1>6, <1>7 DEF SessionNext

\* A worker leaves a connection only when it is closed, and takes the request
\* along; only a client that has a worker, or waits for one, sends.
LEMMA LinkPreserved ==
    ASSUME TypeOK, LinkInv, [Next]_vars
    PROVE  LinkInv'
<1> USE DEF TypeOK, LinkInv
<1>1. CASE UNCHANGED vars
  BY <1>1 DEF vars
<1>2. CASE Serve
  BY <1>2 DEF Serve
<1>3. ASSUME NEW c \in Conn, ServerStep(c)
      PROVE  LinkInv'
  BY <1>3 DEF ServerStep, HangUp, Answer, InitFails, Arm, Notifier, Report
<1>4. ASSUME NEW c \in Conn, ClientStep(c)
      PROVE  LinkInv'
  BY <1>4 DEF ClientStep, Connect, Close, Send
<1>5. ASSUME NEW f \in File, FileStep(f)
      PROVE  LinkInv'
  BY <1>5 DEF FileStep, Modify, Remove, Create, ModifyOld, InodeGone, Watching, WatchingOld
<1>6. CASE Crash
  BY <1>6 DEF Crash
<1>7. QED
  BY <1>1, <1>2, <1>3, <1>4, <1>5, <1>6 DEF Next

-----------------------------------------------------------------------------
\* A thread starts with a connection nobody used before: no request, event or
\* reply is left on it.
LEMMA StartPreserves ==
    ASSUME SessionInv, NEW w \in Watch, NEW c \in Conn, Start(w, c)
    PROVE  ClientInv'
<1> USE DEF SessionInv, ServerInv, ClientInv, Owns, InCall
<1>1. /\ task[c] = "none" /\ ~link[c] /\ req[c] = None /\ ~event[c]
      /\ \A v \in Watch : threads[v].conn # c
      /\ ~reply[c]
  BY DEF Start, Connect, LinkInv, EventIsOfThisCall, Alert, CallsMatch
<1>2. /\ threads' = [threads EXCEPT ![w] = [at |-> "init", conn |-> c, state |-> "RUN"]]
      /\ \A v \in Watch : threads'[v] =
             IF v = w THEN [at |-> "init", conn |-> c, state |-> "RUN"] ELSE threads[v]
      /\ \A v \in Watch : v # w => fresh'[v] = fresh[v]
      /\ \A d \in Conn : link'[d] = IF d = c THEN TRUE ELSE link[d]
      /\ req' = req /\ event' = event /\ reply' = reply /\ deaf' = deaf
      /\ threads[w] = Off
  BY DEF Start, Connect, SessionTypeOK, TypeOK
<1>3. SessionTypeOK'
  <2>1. threads' \in [Watch -> [at : ThreadPc, conn : Conn \cup {None}, state : RunState]]
    BY <1>2 DEF SessionTypeOK, ThreadPc, RunState
  <2>2. \A v \in Watch : threads'[v].conn = None <=> threads'[v].at \in {"off", "leave", "told"}
    BY <1>2, NoneAssumption DEF SessionTypeOK
  <2>3. \A u, v \in Watch :
            threads'[u].conn = threads'[v].conn /\ threads'[u].conn # None => u = v
    BY <1>1, <1>2 DEF SessionTypeOK
  <2>4. QED
    BY <1>2, <2>1, <2>2, <2>3 DEF SessionTypeOK, Start
<1>4. CallsMatch'
  <2>1. \A v \in Watch : threads[v].at = "call" => threads'[v] = threads[v]
    BY <1>2 DEF Off, Ended
  <2>2. ASSUME NEW d \in Conn, link'[d], req'[d] # None
        PROVE  \E v \in Watch : Owns(v, d)' /\ InCall(v)' /\ req'[d] = NotifierFor(v)
    <3>1. link[d] /\ req[d] # None
      BY <1>1, <1>2, <2>2
    <3>2. QED
      BY <1>2, <2>1, <3>1 DEF CallsMatch
  <2>3. ASSUME NEW d \in Conn, reply'[d]
        PROVE  req'[d] = None /\ \E v \in Watch : Owns(v, d)' /\ InCall(v)'
    BY <1>2, <2>1, <2>3 DEF CallsMatch
  <2>4. QED
    BY <2>2, <2>3 DEF CallsMatch
<1>5. OwnRequest'
  BY <1>1, <1>2, NoneAssumption DEF OwnRequest
<1>6. FreshInv'
  BY <1>1, <1>2, NoneAssumption DEF FreshInv
<1>7. QED
  BY <1>3, <1>4, <1>5, <1>6

\* The cell decides nothing about the calls.
LEMMA SetStatePreserves ==
    ASSUME SessionInv, NEW w \in Watch, NEW state \in RunState, SetState(w, state)
    PROVE  ClientInv'
<1> USE DEF SessionInv, ServerInv, TypeOK, ClientInv, SessionTypeOK
<1> USE DEF SetState, vars
<1>1. SessionTypeOK'
  <2>1. threads' \in [Watch -> [at : ThreadPc, conn : Conn \cup {None}, state : RunState]]
    BY DEF ThreadPc, RunState
  <2>2. QED
    BY <2>1
<1>2. CallsMatch'
  BY <1>1 DEF CallsMatch, OwnRequest, Owns, InCall, NotifierFor
<1>3. OwnRequest'
  BY <1>1, NoneAssumption DEF OwnRequest, CallsMatch, Owns, InCall, NotifierFor
<1>4. FreshInv'
  BY <1>1 DEF FreshInv, Owns, CallsMatch, EventIsOfThisCall, InCall
<1>5. QED
  BY <1>1, <1>2, <1>3, <1>4

\* A thread initializes libnotify.
LEMMA BeginPreserves ==
    ASSUME SessionInv, NEW w \in Watch, Begin(w)
    PROVE  ClientInv'
<1> USE DEF SessionInv, ServerInv, TypeOK, ClientInv, SessionTypeOK
<1> USE DEF Begin, Goto, vars
<1>1. SessionTypeOK'
  <2>1. threads' \in [Watch -> [at : ThreadPc, conn : Conn \cup {None}, state : RunState]]
    BY DEF ThreadPc, RunState
  <2>2. QED
    BY <2>1
<1>2. CallsMatch'
  BY <1>1 DEF CallsMatch, OwnRequest, Owns, InCall, NotifierFor
<1>3. OwnRequest'
  BY <1>1, NoneAssumption DEF OwnRequest, CallsMatch, Owns, InCall, NotifierFor
<1>4. FreshInv'
  BY <1>1 DEF FreshInv, Owns, CallsMatch, EventIsOfThisCall, InCall
<1>5. QED
  BY <1>1, <1>2, <1>3, <1>4

\* A thread calls, on a connection that works or not.
LEMMA CallPreserves ==
    ASSUME SessionInv, NEW w \in Watch, Call(w)
    PROVE  ClientInv'
<1> USE DEF SessionInv, ServerInv, ClientInv, Owns, InCall
<1> DEFINE c == threads[w].conn
<1>1. /\ c \in Conn
      /\ \A v \in Watch : threads[v].conn = c => v = w
      /\ threads[w].at = "poll"
      /\ ~reply[c]
  BY DEF Call, SessionTypeOK, CallsMatch
<1>2. /\ threads' \in [Watch -> [at : ThreadPc, conn : Conn \cup {None}, state : RunState]]
      /\ \A v \in Watch : /\ threads'[v].conn = threads[v].conn
                          /\ threads'[v].at = IF v = w THEN "call" ELSE threads[v].at
      /\ \A d \in Conn : d # c => req'[d] = req[d]
      /\ \/ req'[c] = req[c] /\ ~link[c]
         \/ req'[c] = NotifierFor(w)
      /\ link' = link /\ event' = event /\ reply' = reply
      /\ fresh' = fresh /\ initted' = initted /\ deaf' = deaf
  BY <1>1 DEF Call, Goto, Send, SessionTypeOK, TypeOK, ThreadPc, vars
<1>3. SessionTypeOK'
  BY <1>1, <1>2 DEF SessionTypeOK
<1>4. CallsMatch'
  <2>1. \A v \in Watch : threads[v].at = "call" => threads'[v].at = "call"
    BY <1>2
  <2>2. ASSUME NEW d \in Conn, link'[d], req'[d] # None
        PROVE  \E v \in Watch : Owns(v, d)' /\ InCall(v)' /\ req'[d] = NotifierFor(v)
    <3>1. CASE d = c
      BY <1>1, <1>2, <2>2, <3>1
    <3>2. CASE d # c
      BY <1>2, <2>1, <2>2, <3>2 DEF CallsMatch
    <3>3. QED
      BY <3>1, <3>2
  <2>3. ASSUME NEW d \in Conn, reply'[d]
        PROVE  req'[d] = None /\ \E v \in Watch : Owns(v, d)' /\ InCall(v)'
    BY <1>1, <1>2, <2>1, <2>3 DEF CallsMatch
  <2>4. QED
    BY <2>2, <2>3 DEF CallsMatch
<1>5. OwnRequest'
  BY <1>1, <1>2 DEF OwnRequest
<1>6. FreshInv'
  BY <1>2 DEF FreshInv
<1>7. QED
  BY <1>3, <1>4, <1>5, <1>6

\* A thread takes the reply to its call, which leaves no request behind.
LEMMA NotifyPreserves ==
    ASSUME SessionInv, NEW w \in Watch, Notify(w)
    PROVE  ClientInv'
<1> USE DEF SessionInv, ServerInv, ClientInv, Owns, InCall
<1> DEFINE c == threads[w].conn
<1>1. /\ c \in Conn
      /\ \A v \in Watch : threads[v].conn = c => v = w
      /\ threads[w].at = "call"
      /\ reply[c]
  BY DEF Notify, SessionTypeOK, TypeOK
<1>2. req[c] = None /\ ~event[c]
  BY <1>1 DEF CallsMatch, EventIsOfThisCall, TypeOK
<1>3. /\ threads' \in [Watch -> [at : ThreadPc, conn : Conn \cup {None}, state : RunState]]
      /\ \A v \in Watch : /\ threads'[v].conn = threads[v].conn
                          /\ threads'[v].at = IF v = w THEN "poll" ELSE threads[v].at
      /\ reply' \in [Conn -> BOOLEAN] /\ ~reply'[c]
      /\ \A d \in Conn : d # c => reply'[d] = reply[d]
      /\ link' = link /\ event' = event /\ req' = req /\ initted' = initted
      /\ deaf' = deaf
  BY <1>1 DEF Notify, Goto, SessionTypeOK, ThreadPc, vars
<1>4. /\ fresh' \in [Watch -> {0, 1}]
      /\ \A v \in Watch : v # w => fresh'[v] = fresh[v]
  <2>1. fresh \in [Watch -> {0, 1}] /\ fresh[w] = 1
    BY <1>1 DEF SessionTypeOK, FreshInv
  <2>2. fresh' = fresh \/ fresh' = [fresh EXCEPT ![w] = 0]
    BY <2>1 DEF Notify
  <2>3. QED
    BY <2>1, <2>2
<1>5. SessionTypeOK'
  <2>1. \A v \in Watch : threads'[v].conn = None <=> threads'[v].at \in {"off", "leave", "told"}
    BY <1>1, <1>3 DEF SessionTypeOK
  <2>2. \A u, v \in Watch :
            threads'[u].conn = threads'[v].conn /\ threads'[u].conn # None => u = v
    BY <1>3 DEF SessionTypeOK
  <2>3. QED
    BY <1>3, <1>4, <2>1, <2>2 DEF SessionTypeOK
<1>6. CallsMatch'
  BY <1>1, <1>2, <1>3 DEF CallsMatch
<1>7. OwnRequest'
  BY <1>1, <1>2, <1>3 DEF OwnRequest
<1>8. FreshInv'
  BY <1>1, <1>2, <1>3, <1>4 DEF FreshInv
<1>9. QED
  BY <1>5, <1>6, <1>7, <1>8

\* A thread gives its connection up when that is closed, or closes it itself.
LEMMA EndsPreserve ==
    ASSUME SessionInv, NEW w \in Watch, Throw(w) \/ Finish(w) \/ Leave(w)
    PROVE  ClientInv'
<1> USE DEF SessionInv, ServerInv, ClientInv, Owns, InCall
<1>1. /\ \A v \in Watch : v # w => threads'[v] = threads[v]
      /\ threads'[w] \in {Off, Ended("leave"), Ended("told")}
  BY DEF Throw, Finish, Leave, SessionTypeOK
<1>2. /\ req' = req /\ event' = event /\ reply' = reply
      /\ fresh' = fresh /\ initted' \in BOOLEAN
  BY DEF Throw, Finish, Leave, Close, SessionTypeOK, vars
<1>3. ASSUME NEW c \in Conn
      PROVE  /\ link'[c] => link[c] /\ ~Owns(w, c)
             /\ reply[c] => ~Owns(w, c)
  <2>1. CASE Throw(w)
    BY <2>1, NoneAssumption DEF Throw, Ended, CallsMatch, SessionTypeOK, vars, TypeOK
  <2>2. CASE Finish(w)
    <3>1. link'[c] => link[c] /\ ~Owns(w, c)
      BY <2>2 DEF Finish, Close, vars, TypeOK
    <3>2. reply[c] => ~Owns(w, c)
      BY <2>2 DEF Finish, CallsMatch, SessionTypeOK
    <3>3. QED
      BY <3>1, <3>2
  <2>3. CASE Leave(w)
    BY <2>3, NoneAssumption DEF Leave, SessionTypeOK, vars
  <2>4. QED
    BY <2>1, <2>2, <2>3
<1>4. SessionTypeOK'
  <2>1. threads' \in [Watch -> [at : ThreadPc, conn : Conn \cup {None}, state : RunState]]
    BY DEF Throw, Finish, Leave, SessionTypeOK, Off, Ended, ThreadPc, RunState
  <2>2. \A v \in Watch : threads'[v].conn = None <=> threads'[v].at \in {"off", "leave", "told"}
    BY <1>1 DEF SessionTypeOK, Off, Ended
  <2>3. \A u, v \in Watch :
            threads'[u].conn = threads'[v].conn /\ threads'[u].conn # None => u = v
    BY <1>1 DEF SessionTypeOK, Off, Ended
  <2>4. deaf' \in SUBSET Conn
    BY DEF Throw, Finish, Leave, SessionTypeOK
  <2>5. QED
    BY <1>2, <2>1, <2>2, <2>3, <2>4 DEF SessionTypeOK
<1>5. CallsMatch'
  BY <1>1, <1>2, <1>3 DEF CallsMatch
<1>6. OwnRequest'
  BY <1>1, <1>2, NoneAssumption DEF OwnRequest, Off, Ended
<1>7. FreshInv'
  BY <1>1, <1>2, NoneAssumption DEF FreshInv, Off, Ended
<1>8. QED
  BY <1>4, <1>5, <1>6, <1>7

\* The server reports to a thread that waits for it, or to nobody.
LEMMA SendReplyPreserves ==
    ASSUME SessionInv, NEW c \in Conn, SendReply(c)
    PROVE  ClientInv'
<1> USE DEF SessionInv, ServerInv, ClientInv, Owns, InCall
<1>1. /\ event[c] /\ req[c] # None
      /\ link' = link /\ threads' = threads /\ initted' = initted
      /\ fresh' = fresh /\ deaf' = deaf
      /\ reply' \in [Conn -> BOOLEAN]
  BY DEF SendReply, Report, TypeOK, SessionTypeOK
<1>2. \A d \in Conn : /\ req'[d] = IF d = c THEN None ELSE req[d]
                      /\ event'[d] => event[d]
                      /\ reply'[d] = IF d = c THEN link[d] ELSE reply[d]
  BY DEF SendReply, Report, TypeOK, SessionTypeOK
<1>3. SessionTypeOK'
  BY <1>1 DEF SessionTypeOK
<1>4. CallsMatch'
  BY <1>1, <1>2 DEF CallsMatch
<1>5. OwnRequest'
  BY <1>1, <1>2 DEF OwnRequest
<1>6. FreshInv'
  BY <1>1, <1>2 DEF FreshInv
<1>7. QED
  BY <1>3, <1>4, <1>5, <1>6

\* The other steps of a worker end requests of closed connections only.
LEMMA ServerRunsPreserves ==
    ASSUME SessionInv, PoolRuns \/ \E c \in Conn : ServerRuns(c) \/ HangsUp(c)
    PROVE  ClientInv'
<1> USE DEF SessionInv, ServerInv, ClientInv, Owns, InCall
<1>1. /\ link' = link /\ event' = event
      /\ threads' = threads /\ reply' = reply /\ initted' = initted
      /\ fresh' = fresh /\ deaf' = deaf
  BY DEF ServerRuns, PoolRuns, HangsUp, HangUp, InitFails, Arm, Serve, client
<1>2. \A d \in Conn : req'[d] = req[d] \/ req'[d] = None
  BY DEF ServerRuns, PoolRuns, HangsUp, HangUp, InitFails, Arm, Serve, TypeOK
<1>3. SessionTypeOK'
  BY <1>1 DEF SessionTypeOK
<1>4. CallsMatch'
  BY <1>1, <1>2 DEF CallsMatch
<1>5. OwnRequest'
  BY <1>1, <1>2 DEF OwnRequest
<1>6. FreshInv'
  BY <1>1 DEF FreshInv
<1>7. QED
  BY <1>3, <1>4, <1>5, <1>6

\* A connection breaks, and its reply may be lost.
LEMMA BreakPreserves ==
    ASSUME SessionInv, NEW c \in Conn, Break(c)
    PROVE  ClientInv'
<1> USE DEF SessionInv, ServerInv, ClientInv, Owns, InCall
<1>1. /\ req' = req /\ event' = event
      /\ threads' = threads /\ initted' = initted /\ fresh' = fresh
      /\ reply' \in [Conn -> BOOLEAN] /\ deaf' \in SUBSET Conn
      /\ \A d \in Conn : (link'[d] => link[d]) /\ (reply'[d] => reply[d])
  BY DEF Break, Close, TypeOK, SessionTypeOK
<1>2. SessionTypeOK'
  BY <1>1 DEF SessionTypeOK
<1>3. CallsMatch'
  BY <1>1 DEF CallsMatch
<1>4. OwnRequest' /\ FreshInv'
  BY <1>1 DEF OwnRequest, FreshInv
<1>5. QED
  BY <1>2, <1>3, <1>4

\* Nothing depends on who has been told.
LEMMA TellPreserves ==
    ASSUME SessionInv, NEW c \in Conn, Tell(c)
    PROVE  ClientInv'
<1>1. /\ UNCHANGED <<link, req, event, threads, reply, initted, fresh>>
      /\ SessionTypeOK /\ deaf' \in SUBSET deaf
  BY DEF Tell, vars, SessionInv, ClientInv
<1>2. SessionTypeOK'
  BY <1>1 DEF SessionTypeOK
<1>3. QED
  BY <1>1, <1>2 DEF SessionInv, ClientInv, CallsMatch, OwnRequest, FreshInv, Owns, InCall

\* All connections break.
LEMMA ServerDiesPreserves ==
    ASSUME SessionInv, ServerDies
    PROVE  ClientInv'
<1> USE DEF SessionInv, ServerInv, ClientInv, Owns, InCall
<1>1. /\ threads' = threads /\ initted' = initted /\ fresh' = fresh
      /\ reply' \in [Conn -> BOOLEAN] /\ deaf' \in SUBSET Conn
      /\ \A d \in Conn : /\ ~link'[d] /\ ~event'[d] /\ req'[d] = None
                         /\ reply'[d] => reply[d]
  BY DEF ServerDies, Crash, TypeOK, SessionTypeOK
<1>2. SessionTypeOK'
  BY <1>1 DEF SessionTypeOK
<1>3. CallsMatch'
  BY <1>1 DEF CallsMatch
<1>4. OwnRequest' /\ FreshInv'
  BY <1>1 DEF OwnRequest, FreshInv
<1>5. QED
  BY <1>2, <1>3, <1>4

\* A write reaches the calls that watch the file, or the one that had its name:
\* their threads' own file.
LEMMA WritePreserves ==
    ASSUME SessionInv, NEW f \in File, Write(f)
    PROVE  ClientInv'
<1> USE DEF SessionInv, ServerInv, ClientInv, Owns, InCall
<1>1. /\ link' = link /\ req' = req /\ deaf' = deaf
      /\ threads' = threads /\ reply' = reply /\ initted' = initted
  BY DEF Write, Written, Modify, ModifyOld, client
<1>2. /\ fresh' \in [Watch -> {0, 1}]
      /\ \A w \in Watch : fresh'[w] = IF Target[w] = f THEN 1 ELSE fresh[w]
  BY DEF Write, Written, SessionTypeOK
<1>3. \A c \in Conn : event'[c] => event[c] \/ c \in Watching(f) \/ c \in WatchingOld(f)
  BY DEF Write, Modify, ModifyOld
<1>4. SessionTypeOK'
  BY <1>1, <1>2 DEF SessionTypeOK
<1>5. CallsMatch'
  BY <1>1 DEF CallsMatch
<1>6. OwnRequest'
  BY <1>1 DEF OwnRequest
<1>7. ASSUME NEW w \in Watch, NEW c \in Conn, Owns(w, c),
             c \in Watching(f) \/ c \in WatchingOld(f)
      PROVE  Target[w] = f
  <2>1. task[c] \in Alert /\ req[c].file = f
    BY <1>7 DEF Watching, WatchingOld, Alert
  <2>2. req[c] # None
    BY <2>1 DEF TypeOK
  <2>3. req[c] = NotifierFor(w)
    BY <1>7, <2>2 DEF OwnRequest
  <2>4. QED
    BY <2>1, <2>3 DEF NotifierFor
<1>8. FreshInv'
  BY <1>1, <1>2, <1>3, <1>7 DEF FreshInv
<1>9. QED
  BY <1>4, <1>5, <1>6, <1>8

\* A rotation leaves the calls as they are.
LEMMA RotatePreserves ==
    ASSUME SessionInv, NEW f \in File, Rotate(f)
    PROVE  ClientInv'
<1> USE DEF SessionInv, ServerInv, ClientInv, Owns, InCall
<1>1. /\ link' = link /\ req' = req /\ event' = event
      /\ threads' = threads /\ reply' = reply /\ initted' = initted
      /\ fresh' = fresh /\ deaf' = deaf
  BY DEF Rotate, Remove, Create, InodeGone, client
<1>2. SessionTypeOK' /\ CallsMatch' /\ OwnRequest' /\ FreshInv'
  BY <1>1 DEF SessionTypeOK, CallsMatch, OwnRequest, FreshInv
<1>3. QED
  BY <1>2

-----------------------------------------------------------------------------
\* The invariant holds at the start.
LEMMA SessionStart == SessionInit => SessionInv
<1> SUFFICES ASSUME SessionInit
             PROVE  SessionInv
  OBVIOUS
<1>1. ServerInv
  BY ServerInit DEF SessionInit
<1>2. LinkInv
  BY DEF SessionInit, Init, LinkInv
<1>3. SessionTypeOK
  BY DEF SessionInit, SessionTypeOK, Off, Ended, ThreadPc, RunState
<1>4. CallsMatch /\ OwnRequest /\ FreshInv
  BY DEF SessionInit, Init, CallsMatch, OwnRequest, FreshInv
<1>5. QED
  BY <1>1, <1>2, <1>3, <1>4 DEF SessionInv, ClientInv

\* Every step preserves the invariant.
LEMMA SessionStep ==
    ASSUME SessionInv, [SessionNext]_svars
    PROVE  SessionInv'
<1>1. CASE UNCHANGED svars
  <2>1. UNCHANGED vars
    BY <1>1 DEF svars
  <2>2. ServerInv' /\ LinkInv'
    BY <2>1, ServerNext, LinkPreserved DEF SessionInv, ServerInv
  <2>3. ClientInv'
    BY <1>1 DEF svars, vars, client, SessionInv, ClientInv, SessionTypeOK,
                CallsMatch, OwnRequest, FreshInv, Owns, InCall
  <2>4. QED
    BY <2>2, <2>3 DEF SessionInv
<1>2. CASE SessionNext
  <2>1. [Next]_vars
    BY <1>2, SessionStepIsServerStep DEF SessionInv, ClientInv
  <2>2. ServerInv' /\ LinkInv'
    BY <2>1, ServerNext, LinkPreserved DEF SessionInv, ServerInv
  <2>3. ClientInv'
    BY <1>2, StartPreserves, SetStatePreserves, BeginPreserves, CallPreserves,
       NotifyPreserves, EndsPreserve, SendReplyPreserves, ServerRunsPreserves,
       BreakPreserves, TellPreserves, ServerDiesPreserves, WritePreserves, RotatePreserves
       DEF SessionNext, ThreadStep, WorkerStep
  <2>4. QED
    BY <2>2, <2>3 DEF SessionInv
<1>3. QED
  BY <1>1, <1>2

\* The invariant is one of the specification.
LEMMA SessionInvariant == SessionSpec => []SessionInv
  BY SessionStart, SessionStep, PTL DEF SessionSpec

-----------------------------------------------------------------------------
\* The variables keep their values, a thread holds a connection from its
\* start to the end of its loop, and no two threads hold the same.
THEOREM SessionTypes == SessionSpec => []SessionTypeOK
  BY SessionInvariant, PTL DEF SessionInv, ClientInv

\* Client and server agree on where each call is, across breaks, restarts and
\* connections whose client is gone.
THEOREM SessionCalls == SessionSpec => []CallsMatch
  BY SessionInvariant, PTL DEF SessionInv, ClientInv

\* What the server's own invariant says holds in the composition too: no call
\* reports the write of another.
THEOREM SessionServer == SessionSpec => [](TypeOK /\ EventIsOfThisCall)
  BY SessionInvariant, PTL DEF SessionInv, ServerInv

\* A loss of connections is one for the watches on them.
LEMMA LossIsLose ==
    ASSUME SessionTypeOK, threads' = threads, fresh' = fresh,
           \A c \in Conn : link'[c] => link[c]
    PROVE  Promise!Next
<1> DEFINE some == {w \in Watch : threads[w].conn # None /\ ~link'[threads[w].conn]}
<1>1. Line' = [w \in Watch |-> IF w \in some /\ Line[w] = "up" THEN "cut" ELSE Line[w]]
  <2>1. ASSUME NEW w \in Watch
        PROVE  Line'[w] = IF w \in some /\ Line[w] = "up" THEN "cut" ELSE Line[w]
    <3>1. threads[w].at \notin {"off", "leave", "told"} =>
              threads[w].conn \in Conn /\ threads[w].conn # None
      BY DEF SessionTypeOK
    <3>2. QED
      BY <3>1 DEF Line
  <2>2. QED
    BY <2>1 DEF Line
<1>2. Promise!Lose(some)
  BY <1>1 DEF Promise!Lose
<1>3. QED
  BY <1>2 DEF Promise!Next

\* A step of one thread, on a connection that no other thread has, changes
\* the line of its own watch only.
LEMMA LineOfOne ==
    ASSUME SessionTypeOK, NEW w \in Watch, NEW now,
           \A v \in Watch : v # w => threads'[v] = threads[v],
           \A c \in Conn : (\E v \in Watch : v # w /\ Owns(v, c)) => link'[c] = link[c],
           Line'[w] = now
    PROVE  Line' = [Line EXCEPT ![w] = now]
<1>1. ASSUME NEW v \in Watch, v # w
      PROVE  Line'[v] = Line[v]
  <2>1. threads[v].at \notin {"off", "leave", "told"} => threads[v].conn \in Conn
    BY DEF SessionTypeOK
  <2>2. threads'[v] = threads[v]
    BY <1>1
  <2>3. threads[v].conn \in Conn => link'[threads[v].conn] = link[threads[v].conn]
    BY <1>1 DEF Owns
  <2>4. QED
    BY <2>1, <2>2, <2>3 DEF Line
<1>2. QED
  BY <1>1 DEF Line

\* The lines stay if no thread starts or ends and no connection is lost.
LEMMA LineStays ==
    ASSUME SessionTypeOK, link' = link,
           \A v \in Watch :
               \/ threads'[v] = threads[v]
               \/ /\ {threads[v].at, threads'[v].at} \subseteq {"init", "poll", "call"}
                  /\ threads'[v].conn = threads[v].conn
               \/ {threads[v].at, threads'[v].at} \subseteq {"off", "leave"}
    PROVE  Line' = Line
<1>1. ASSUME NEW v \in Watch
      PROVE  Line'[v] = Line[v]
  BY DEF Line
<1>2. QED
  BY <1>1 DEF Line

\* A step of a thread is what Alarm allows: only Notify shows a notice of a
\* write, and the reply it reads stands for a fresh one; only Throw shows the
\* other kind.
LEMMA ThreadRefines ==
    ASSUME SessionInv, NEW w \in Watch, ThreadStep(w)
    PROVE  [Promise!Next]_Promise!vars
<1> USE DEF Promise!vars
<1> SUFFICES ASSUME SessionTypeOK
             PROVE  [Promise!Next]_Promise!vars
  BY DEF SessionInv, ClientInv
<1>1. CASE Begin(w) \/ Call(w)
  <2>1. link' = link /\ fresh' = fresh
    BY <1>1 DEF Begin, Call, Send, vars
  <2>2. /\ \A v \in Watch : v # w => threads'[v] = threads[v]
        /\ threads'[w].conn = threads[w].conn
        /\ {threads[w].at, threads'[w].at} \subseteq {"init", "poll", "call"}
    BY <1>1 DEF Begin, Call, Goto, SessionTypeOK
  <2>3. Line' = Line
    BY <2>1, <2>2, LineStays
  <2>4. QED
    BY <2>1, <2>3
<1>2. CASE Notify(w)
  <2>1. /\ link' = link
        /\ fresh' = [fresh EXCEPT ![w] = @ - 1] \/ fresh' = fresh
        /\ fresh[w] = 1
        /\ threads[w].at = "call" /\ threads[w].conn \in Conn
    BY <1>2 DEF Notify, InCall, vars, SessionInv, ClientInv, SessionTypeOK, FreshInv, Owns
  <2>2. /\ \A v \in Watch : v # w => threads'[v] = threads[v]
        /\ threads'[w].conn = threads[w].conn
        /\ {threads[w].at, threads'[w].at} \subseteq {"init", "poll", "call"}
    BY <1>2 DEF Notify, InCall, Goto, SessionTypeOK
  <2>3. Line' = Line
    BY <2>1, <2>2, LineStays
  <2>4. Line[w] \in {"up", "cut"}
    BY <2>1 DEF Line
  <2>5. QED
    BY <2>1, <2>3, <2>4 DEF Promise!Next, Promise!Notice
<1>3. CASE Throw(w)
  <2>1. /\ link' = link /\ fresh' = fresh
        /\ \A v \in Watch : v # w => threads'[v] = threads[v]
        /\ threads'[w].at \in {"told", "leave"}
    BY <1>3 DEF Throw, vars, SessionTypeOK, Ended
  <2>2. Line[w] = "cut"
    BY <1>3 DEF Throw, InCall, Line
  <2>3. Line'[w] \in {"down", "off"}
    BY <2>1 DEF Line
  <2>4. Line' = [Line EXCEPT ![w] = Line'[w]]
    BY <2>1, LineOfOne
  <2>5. QED
    BY <2>1, <2>2, <2>3, <2>4 DEF Promise!Next, Promise!WentDown, Promise!End
<1>4. CASE Finish(w)
  <2>1. /\ fresh' = fresh
        /\ \A v \in Watch : v # w => threads'[v] = threads[v]
        /\ threads'[w].at = "leave"
        /\ threads[w].at = "poll"
    BY <1>4 DEF Finish, SessionTypeOK, Ended
  <2>2. \A c \in Conn : (\E v \in Watch : v # w /\ Owns(v, c)) => link'[c] = link[c]
    <3>1. ASSUME NEW c \in Conn, NEW v \in Watch, v # w, Owns(v, c)
          PROVE  link'[c] = link[c]
      <4>1. c # threads[w].conn
        BY <3>1, NoneAssumption DEF SessionTypeOK, Owns
      <4>2. link \in [Conn -> BOOLEAN]
        BY DEF SessionInv, ServerInv, TypeOK
      <4>3. QED
        BY <1>4, <4>1, <4>2 DEF Finish, Close, vars
    <3>2. QED
      BY <3>1
  <2>3. Line[w] # "off" /\ Line'[w] = "off"
    BY <2>1 DEF Line
  <2>4. Line' = [Line EXCEPT ![w] = "off"]
    BY <2>1, <2>2, <2>3, LineOfOne
  <2>5. QED
    BY <2>1, <2>3, <2>4 DEF Promise!Next, Promise!End
<1>5. CASE Leave(w)
  <2>1. /\ link' = link /\ fresh' = fresh
        /\ \A v \in Watch : v # w => threads'[v] = threads[v]
        /\ threads[w].at \in {"leave", "told"} /\ threads'[w].at = "off"
    BY <1>5 DEF Leave, vars, SessionTypeOK, Off, Ended
  <2>2. CASE threads[w].at = "leave"
    <3>1. Line' = Line
      BY <2>1, <2>2, LineStays
    <3>2. QED
      BY <2>1, <3>1
  <2>3. CASE threads[w].at = "told"
    <3>1. Line[w] # "off" /\ Line'[w] = "off"
      BY <2>1, <2>3 DEF Line
    <3>2. Line' = [Line EXCEPT ![w] = "off"]
      BY <2>1, <3>1, LineOfOne
    <3>3. QED
      BY <2>1, <3>1, <3>2 DEF Promise!Next, Promise!End
  <2>4. QED
    BY <2>1, <2>2, <2>3
<1>6. QED
  BY <1>1, <1>2, <1>3, <1>4, <1>5 DEF ThreadStep

\* Every other step is what Alarm allows, too.
LEMMA SessionRefines ==
    ASSUME SessionInv, [SessionNext]_svars
    PROVE  [Promise!Next]_Promise!vars
<1> USE DEF Promise!vars
<1> SUFFICES ASSUME SessionTypeOK, TypeOK
             PROVE  [Promise!Next]_Promise!vars
  BY DEF SessionInv, ClientInv, ServerInv
<1>1. CASE fresh' = fresh /\ threads' = threads /\ link' = link
  <2>1. Line' = Line
    BY <1>1, LineStays
  <2>2. QED
    BY <1>1, <2>1
<1>2. ASSUME NEW w \in Watch, NEW c \in Conn, Start(w, c)
      PROVE  Promise!Next
  <2>1. /\ \A v \in Watch : v # w => threads'[v] = threads[v]
        /\ fresh' = [fresh EXCEPT ![w] = 0]
        /\ threads[w].at = "off"
        /\ threads'[w].at = "init" /\ threads'[w].conn = c
    BY <1>2 DEF Start, SessionTypeOK, Off, Ended
  <2>2. /\ link'[c]
        /\ \A d \in Conn : (\E v \in Watch : v # w /\ Owns(v, d)) => link'[d] = link[d]
    BY <1>2 DEF Start, Connect, TypeOK, Owns
  <2>3. Line[w] = "off" /\ Line'[w] = "up"
    BY <2>1, <2>2 DEF Line
  <2>4. Line' = [Line EXCEPT ![w] = "up"]
    BY <2>1, <2>2, <2>3, LineOfOne
  <2>5. QED
    BY <2>1, <2>3, <2>4 DEF Promise!Next, Promise!Start
<1>3. ASSUME NEW w \in Watch, NEW state \in RunState, SetState(w, state)
      PROVE  UNCHANGED Promise!vars
  <2>1. /\ link' = link /\ fresh' = fresh
        /\ \A v \in Watch : /\ threads'[v].at = threads[v].at
                            /\ threads'[v].conn = threads[v].conn
    BY <1>3 DEF SetState, vars, SessionTypeOK
  <2>2. Line' = Line
    BY <2>1 DEF Line
  <2>3. QED
    BY <2>1, <2>2
<1>4. ASSUME NEW w \in Watch, ThreadStep(w)
      PROVE  [Promise!Next]_Promise!vars
  BY <1>4, ThreadRefines
<1>5. ASSUME NEW c \in Conn, WorkerStep(c) \/ HangsUp(c) \/ Tell(c)
      PROVE  [Promise!Next]_Promise!vars
  BY <1>1, <1>5 DEF WorkerStep, SendReply, Report, ServerRuns, InitFails, Arm, HangsUp,
                    HangUp, Tell, client, vars
<1>6. ASSUME NEW c \in Conn, Break(c)
      PROVE  Promise!Next
  <2>1. /\ threads' = threads /\ fresh' = fresh
        /\ \A d \in Conn : link'[d] => link[d]
    BY <1>6 DEF Break, Close, TypeOK
  <2>2. QED
    BY <2>1, LossIsLose
<1>7. CASE ServerDies
  <2>1. /\ threads' = threads /\ fresh' = fresh
        /\ \A d \in Conn : link'[d] => link[d]
    BY <1>7 DEF ServerDies, Crash
  <2>2. QED
    BY <2>1, LossIsLose
<1>8. CASE PoolRuns
  BY <1>1, <1>8 DEF PoolRuns, Serve, client
<1>9. ASSUME NEW f \in File, Write(f)
      PROVE  Promise!Next
  <2>1. /\ threads' = threads /\ link' = link
        /\ fresh' = [w \in Watch |-> IF Target[w] = f THEN 1 ELSE fresh[w]]
    BY <1>9 DEF Write, Written, Modify, ModifyOld, client
  <2>2. Line' = Line
    BY <2>1, LineStays
  <2>3. QED
    BY <2>1, <2>2 DEF Promise!Next, Promise!Write
<1>10. ASSUME NEW f \in File, Rotate(f)
       PROVE  [Promise!Next]_Promise!vars
  BY <1>1, <1>10 DEF Rotate, Remove, Create, InodeGone, client
<1>11. CASE UNCHANGED svars
  BY <1>1, <1>11 DEF svars, vars, client
<1>12. QED
  BY <1>2, <1>3, <1>4, <1>5, <1>6, <1>7, <1>8, <1>9, <1>10, <1>11 DEF SessionNext

(***************************************************************************)
(* No false alarm: client, server and network together implement Alarm.    *)
(* Every notice stands for a write to the watched file, or to one that had *)
(* its name, since the last such notice and since the thread was started;  *)
(* or it says that the server went down, and the connection is lost.       *)
(***************************************************************************)
THEOREM SessionImplementsAlarm == SessionSpec => ImplementsAlarm
<1>1. SessionInit => Promise!Init
  BY DEF SessionInit, Promise!Init, Line, Off, Ended
<1>2. QED
  BY <1>1, SessionInvariant, SessionRefines, PTL
  DEF SessionSpec, ImplementsAlarm, Promise!Spec

(***************************************************************************)
(* The server the client talks to is the one of LogServer, with the        *)
(* client's threads in the place of its environment: nothing that is true  *)
(* of every behaviour of the server can fail in a session, and its thread  *)
(* pool keeps what ThreadPool promises there too.                          *)
(***************************************************************************)
THEOREM SessionImplementsServer == SessionSpec => Spec /\ ImplementsThreadPool
<1>1. SessionInit => Init
  BY DEF SessionInit
<1>2. SessionTypeOK /\ [SessionNext]_svars => [Next]_vars
  <2>1. ASSUME SessionTypeOK, SessionNext
        PROVE  [Next]_vars
    BY <2>1, SessionStepIsServerStep
  <2>2. UNCHANGED svars => UNCHANGED vars
    BY DEF svars
  <2>3. QED
    BY <2>1, <2>2
<1>3. SessionSpec => Spec
  BY <1>1, <1>2, SessionTypes, PTL DEF SessionSpec, Spec
<1>4. QED
  BY <1>3, ServerImplementsThreadPool, PTL
=============================================================================
