----------------------------- MODULE RpcProofs ------------------------------
(***************************************************************************)
(* Proofs about Rpc, for every interface of the client and of the server   *)
(* and any number of calls: the exchange of messages stays in step         *)
(* (StaysInSync) and implements the remote call of RemoteCall              *)
(* (RpcImplementsRemoteCall).                                              *)
(*                                                                         *)
(* Both follow from what is under way at any moment: at most one frame, in *)
(* one of three places, which says of the last call what the history says. *)
(***************************************************************************)
EXTENDS Rpc, SequenceTheorems, TLAPS

-----------------------------------------------------------------------------
\* Reading back what was written gives the fields that both sides declare.
LEMMA ReadWrite ==
    ASSUME NEW declared, NEW D, NEW fields \in [D -> Value]
    PROVE  ReadStruct(declared, WriteStruct(fields)) =
             [f \in declared |-> IF f \in D THEN fields[f] ELSE None]
<1> DEFINE body == WriteStruct(fields)
<1>1. ASSUME NEW f \in declared
      PROVE  (IF \E e \in body : e.field = f
              THEN (CHOOSE e \in body : e.field = f).value ELSE None)
             = IF f \in D THEN fields[f] ELSE None
  <2>1. CASE f \in D
    <3>1. [field |-> f, value |-> fields[f]] \in body
      BY <2>1 DEF WriteStruct
    <3>2. \A e \in body : e.field = f => e = [field |-> f, value |-> fields[f]]
      BY DEF WriteStruct
    <3>3. (CHOOSE e \in body : e.field = f) = [field |-> f, value |-> fields[f]]
      BY <3>1, <3>2
    <3>4. \E e \in body : e.field = f
      BY <3>1
    <3>5. ([field |-> f, value |-> fields[f]]).value = fields[f]
      OBVIOUS
    <3> HIDE DEF body
    <3>6. QED
      BY <2>1, <3>3, <3>4, <3>5
  <2>2. CASE f \notin D
    <3>1. ~ \E e \in body : e.field = f
      BY <2>2 DEF WriteStruct
    <3>2. QED
      BY <2>2, <3>1
  <2>3. QED
    BY <2>1, <2>2
<1>2. QED
  BY <1>1 DEF ReadStruct
-----------------------------------------------------------------------------
Last == calls[Len(calls)]

\* f carries the last call, which has not been executed.
IsRequest(f) ==
    /\ f.kind = "call" /\ f.call = Len(calls) /\ f.name = Last.method
    /\ f.body = WriteStruct(Last.args)
    /\ Last.value = None

\* f carries what became of the execution of the last call.
IsReply(f) ==
    /\ f.call = Len(calls) /\ f.name = Last.method
    /\ IF Last.method \notin Offered \/ Last.value = Thrown
       THEN f.kind = "exception"
       ELSE /\ f.kind = "reply"
            /\ Last.value \in Value
            /\ f.body = WriteStruct([g \in {ServerResult[f.name]} |-> Last.value])
    /\ Last.method \in Offered => Last.value # None

Nothing == up = <<>> /\ down = <<>> /\ worker.at \in {"read", "gone"}

\* The places where the one frame can be.
Requested == /\ Len(up) = 1 /\ down = <<>> /\ worker.at \in {"read", "gone"}
             /\ IsRequest(up[1])

InHandler == /\ up = <<>> /\ down = <<>> /\ worker.at = "run"
             /\ worker.frame.name \in Offered
             /\ IsRequest(worker.frame)
             /\ worker.given = Abstract!Agreed(Last.method, Last.args)

Executed == up = <<>> /\ down = <<>> /\ worker.at = "write" /\ IsReply(worker.frame)

Replied == /\ up = <<>> /\ Len(down) = 1 /\ worker.at \in {"read", "gone"}
           /\ IsReply(down[1])

FlightInv ==
    /\ Nothing \/ (calls # <<>> /\ (Requested \/ InHandler \/ Executed \/ Replied))
    /\ calls # <<>> => Last.args \in Arguments(Last.method)
    /\ worker.at \in {"run", "write"} => worker.frame \in FrameRec

ClientInv ==
    /\ client.at = "idle" =>
          Nothing /\ (calls # <<>> => Last.answer \notin {"pending", "transport"})
    /\ client.at = "recv" =>
          calls # <<>> /\ Last.answer = "pending" /\ Last.method = client.method

IInv == TypeOK /\ FlightInv /\ ClientInv
-----------------------------------------------------------------------------
\* Changing the last call keeps the number of calls.
LEMMA UpdateLast ==
    ASSUME calls \in Seq(CallRec), calls # <<>>, NEW r \in CallRec,
           calls' = [calls EXCEPT ![Len(calls)] = r]
    PROVE  /\ calls' \in Seq(CallRec) /\ calls' # <<>>
           /\ Len(calls') = Len(calls) /\ Last' = r
<1>1. Len(calls) \in 1 .. Len(calls)
  OBVIOUS
<1>2. /\ calls' \in Seq(CallRec) /\ Len(calls') = Len(calls)
      /\ calls'[Len(calls)] = r
  BY <1>1, ExceptSeq
<1>3. QED
  BY <1>1, <1>2 DEF Last

\* What a structure is read into has a value or nothing in each field.
LEMMA ReadType ==
    ASSUME NEW m \in Offered, NEW body \in SUBSET [field : Field, value : Value]
    PROVE  ReadStruct(ServerArgs[m], body) \in Given
<1>1. ASSUME NEW f, \E e \in body : e.field = f
      PROVE  (CHOOSE e \in body : e.field = f).value \in Value
  <2>1. (CHOOSE e \in body : e.field = f) \in body
    BY <1>1
  <2>2. QED
    BY <2>1
<1>2. ReadStruct(ServerArgs[m], body) \in [ServerArgs[m] -> Value \cup {None}]
  BY <1>1 DEF ReadStruct
<1>3. QED
  BY <1>2 DEF Given

\* A structure is written as a set of fields with their values.
LEMMA WriteType ==
    ASSUME NEW D \in SUBSET Field, NEW fields \in [D -> Value]
    PROVE  WriteStruct(fields) \in SUBSET [field : Field, value : Value]
BY DEF WriteStruct

(***************************************************************************)
(* recv_... makes of the reply what the call's execution made of it: it    *)
(* takes a value only from a reply to its own method with a result of the  *)
(* type it expects.                                                        *)
(***************************************************************************)
LEMMA ReplyOutcome ==
    ASSUME NEW f, IsReply(f), Last.method \in Method
    PROVE  /\ Outcome(f, Last.method) = Abstract!Ending(Last.method, Last.value)
           /\ Outcome(f, Last.method) \in Value \cup {"application", "missing"}
<1> DEFINE m == Last.method
           v == Last.value
<1>1. CASE m \notin Offered \/ v = Thrown
  BY <1>1 DEF IsReply, Outcome, Abstract!Ending
<1>2. CASE m \in Offered /\ v # Thrown
  <2>1. /\ f.kind = "reply" /\ f.name = m /\ v \in Value
        /\ f.body = WriteStruct([g \in {ServerResult[m]} |-> v])
    BY <1>2 DEF IsReply
  <2> DEFINE result == ReadStruct({ClientResult[m]}, f.body)
             written == [g \in {ServerResult[m]} |-> v]
  <2>2. written \in [{ServerResult[m]} -> Value]
    BY <2>1
  <2>3. result = [g \in {ClientResult[m]} |->
                     IF g \in {ServerResult[m]} THEN written[g] ELSE None]
    BY <2>1, <2>2, ReadWrite
  <2>4. result[ClientResult[m]] =
           IF ServerResult[m] = ClientResult[m] THEN v ELSE None
    BY <2>3
  <2>5. v # None
    BY <2>1, NoneAssumption
  <2>6. Abstract!Ending(m, v) =
           IF ServerResult[m] = ClientResult[m] THEN v ELSE "missing"
    BY <1>2 DEF Abstract!Ending
  <2>7. Outcome(f, m) = IF result[ClientResult[m]] = None THEN "missing"
                        ELSE result[ClientResult[m]]
    BY <2>1 DEF Outcome
  <2> HIDE DEF result
  <2>8. QED
    BY <2>1, <2>4, <2>5, <2>6, <2>7
<1>3. QED
  BY <1>1, <1>2
-----------------------------------------------------------------------------
\* An idle client finds the connection empty and puts one request on it, or
\* none if nothing gets through any more.
LEMMA SendKeeps ==
    ASSUME IInv, NEW m \in Method, NEW args \in Arguments(m), Send(m, args)
    PROVE  IInv'
<1> DEFINE f == Frame("call", m, WriteStruct(args), Len(calls) + 1)
           c == [method |-> m, args |-> args, given |-> None, value |-> None,
                 answer |-> "pending"]
<1>1. /\ client.at = "idle" /\ up' = Sent(up, f) /\ calls' = Append(calls, c)
      /\ client' = [at |-> "recv", method |-> m]
      /\ UNCHANGED <<link, down, worker>> /\ Len(calls) < MaxCalls
  BY DEF Send
<1>2. Nothing
  BY <1>1 DEF IInv, ClientInv
<1>3. c \in CallRec
  BY DEF CallRec
<1>4. f \in FrameRec
  <2>1. WriteStruct(args) \in SUBSET [field : Field, value : Value]
    BY WriteType DEF Arguments, Field
  <2>2. Len(calls) + 1 \in 1 .. MaxCalls
    BY <1>1, MaxCallsAssumption DEF IInv, TypeOK
  <2>3. QED
    BY <2>1, <2>2 DEF Frame, FrameRec
<1> HIDE DEF c, f
<1>5. /\ calls' \in Seq(CallRec) /\ calls' # <<>>
      /\ Len(calls') = Len(calls) + 1 /\ Last' = c
  <2>1. calls \in Seq(CallRec) /\ Len(calls) \in Nat
    BY DEF IInv, TypeOK
  <2>2. /\ calls' \in Seq(CallRec) /\ Len(calls') = Len(calls) + 1
        /\ calls'[Len(calls) + 1] = c
    BY <1>1, <1>3, <2>1, AppendProperties
  <2>3. QED
    BY <2>1, <2>2 DEF Last
<1>6. /\ up' \in Seq(FrameRec)
      /\ up' = <<>> \/ (Len(up') = 1 /\ up'[1] = f)
  BY <1>1, <1>2, <1>4 DEF Nothing, Sent
<1>7. TypeOK'
  BY <1>1, <1>5, <1>6 DEF IInv, TypeOK
<1>8. up' # <<>> => IsRequest(up[1])'
  BY <1>5, <1>6 DEF IsRequest, Frame, c, f
<1>9. FlightInv'
  <2>1. Nothing' \/ Requested'
    BY <1>1, <1>2, <1>6, <1>8 DEF Nothing, Requested
  <2>2. Last'.args \in Arguments(Last'.method)
    BY <1>5 DEF c
  <2>3. worker'.at \notin {"run", "write"}
    BY <1>1, <1>2 DEF Nothing
  <2>4. QED
    BY <1>5, <2>1, <2>2, <2>3 DEF FlightInv
<1>10. ClientInv'
  BY <1>1, <1>5 DEF ClientInv, c
<1>11. QED
  BY <1>7, <1>9, <1>10 DEF IInv

\* The client takes the reply, which leaves the connection empty.
LEMMA RecvKeeps ==
    ASSUME IInv, Recv
    PROVE  /\ IInv'
           /\ Last.answer = "pending"
           /\ Last.method \in Offered => Last.value # None
           /\ calls' = [calls EXCEPT ![Len(calls)].answer =
                            Abstract!Ending(Last.method, Last.value)]
<1> DEFINE a == Outcome(down[1], client.method)
           c == [Last EXCEPT !.answer = a]
<1>1. /\ client.at = "recv" /\ down # <<>> /\ down' = Tail(down)
      /\ client' = [client EXCEPT !.at = "idle"]
      /\ calls' = [calls EXCEPT ![Len(calls)].answer = a]
      /\ UNCHANGED <<link, up, worker>>
  BY DEF Recv, Answer
<1>2. /\ calls # <<>> /\ Last.answer = "pending" /\ Last.method = client.method
      /\ calls \in Seq(CallRec) /\ Last \in CallRec
  BY <1>1 DEF IInv, ClientInv, TypeOK, Last
<1>3. Replied
  BY <1>1 DEF IInv, FlightInv, Nothing, Requested, InHandler, Executed
<1>4. /\ a = Abstract!Ending(Last.method, Last.value)
      /\ a \in Value \cup {"application", "missing"}
  BY <1>2, <1>3, ReplyOutcome DEF Replied, CallRec
<1> HIDE DEF a
<1>5. c \in CallRec
  BY <1>2, <1>4 DEF CallRec
<1>6. calls' = [calls EXCEPT ![Len(calls)] = c]
  BY <1>1 DEF Last
<1>7. /\ c.method = Last.method /\ c.args = Last.args /\ c.answer = a
      /\ c.value = Last.value
  BY <1>2 DEF CallRec
<1> HIDE DEF c
<1>8. /\ calls' \in Seq(CallRec) /\ calls' # <<>>
      /\ Len(calls') = Len(calls) /\ Last' = c
  BY <1>2, <1>5, <1>6, UpdateLast
<1>9. Nothing'
  BY <1>1, <1>3 DEF Replied, Nothing, IInv, TypeOK
<1>10. client' \in [at : {"idle", "recv", "gone"}, method : Method \cup {None}]
       /\ client'.at = "idle"
  BY <1>1 DEF IInv, TypeOK
<1>11. TypeOK'
  BY <1>1, <1>8, <1>9, <1>10 DEF IInv, TypeOK, Nothing
<1>12. FlightInv'
  BY <1>1, <1>7, <1>8, <1>9 DEF IInv, FlightInv
<1>13. ClientInv'
  BY <1>4, <1>7, <1>8, <1>9, <1>10, AnswerAssumption DEF ClientInv
<1>14. QED
  BY <1>1, <1>2, <1>3, <1>4, <1>11, <1>12, <1>13 DEF IInv, Replied, IsReply

\* A broken transport leaves no call to be waited for.
LEMMA RecvFailsKeeps ==
    ASSUME IInv, RecvFails
    PROVE  /\ IInv'
           /\ Last.answer = "pending"
           /\ calls' = [calls EXCEPT ![Len(calls)].answer = "transport"]
<1> DEFINE c == [Last EXCEPT !.answer = "transport"]
<1>1. /\ client.at = "recv" /\ client' = [client EXCEPT !.at = "gone"]
      /\ calls' = [calls EXCEPT ![Len(calls)].answer = "transport"]
      /\ UNCHANGED <<link, up, down, worker>>
  BY DEF RecvFails, Answer
<1>2. /\ calls # <<>> /\ Last.answer = "pending"
      /\ calls \in Seq(CallRec) /\ Last \in CallRec
  BY <1>1 DEF IInv, ClientInv, TypeOK, Last
<1>3. c \in CallRec
  BY <1>2 DEF CallRec
<1>4. calls' = [calls EXCEPT ![Len(calls)] = c]
  BY <1>1 DEF Last
<1>5. c.method = Last.method /\ c.args = Last.args /\ c.value = Last.value
  BY <1>2 DEF CallRec
<1> HIDE DEF c
<1>6. /\ calls' \in Seq(CallRec) /\ calls' # <<>>
      /\ Len(calls') = Len(calls) /\ Last' = c
  BY <1>2, <1>3, <1>4, UpdateLast
<1>7. /\ client' \in [at : {"idle", "recv", "gone"}, method : Method \cup {None}]
      /\ client'.at = "gone"
  BY <1>1 DEF IInv, TypeOK
<1>8. TypeOK'
  BY <1>1, <1>6, <1>7 DEF IInv, TypeOK
<1>9. ClientInv'
  BY <1>7 DEF ClientInv
<1>10. /\ Nothing' = Nothing
       /\ \A f : IsRequest(f)' = IsRequest(f)
       /\ \A f : IsReply(f)' = IsReply(f)
  BY <1>1, <1>5, <1>6 DEF Nothing, IsRequest, IsReply
<1>11. FlightInv'
  BY <1>1, <1>5, <1>6, <1>10
     DEF IInv, FlightInv, Requested, InHandler, Executed, Replied
<1>12. QED
  BY <1>1, <1>2, <1>8, <1>9, <1>11 DEF IInv

\* Whoever goes away, or loses frames, adds none.
LEMMA LossKeeps ==
    ASSUME IInv, calls' = calls,
           up' \in {up, <<>>}, down' \in {down, <<>>},
           worker' \in {worker, [Waiting EXCEPT !.at = "gone"]},
           link' \in {"open", "closed", "broken", "silent"},
           client' = client \/ client' = [client EXCEPT !.at = "gone"]
    PROVE  IInv'
<1>1. /\ up' \in Seq(FrameRec) /\ down' \in Seq(FrameRec)
      /\ client' \in [at : {"idle", "recv", "gone"}, method : Method \cup {None}]
  <2>1. client \in [at : {"idle", "recv", "gone"}, method : Method \cup {None}]
    BY DEF IInv, TypeOK
  <2>2. [client EXCEPT !.at = "gone"] \in
           [at : {"idle", "recv", "gone"}, method : Method \cup {None}]
    BY <2>1
  <2>3. up \in Seq(FrameRec) /\ down \in Seq(FrameRec) /\ <<>> \in Seq(FrameRec)
    BY DEF IInv, TypeOK
  <2>4. client' = client \/ client' = [client EXCEPT !.at = "gone"]
    OBVIOUS
  <2>5. client' \in [at : {"idle", "recv", "gone"}, method : Method \cup {None}]
    BY <2>1, <2>2, <2>4
  <2>6. up' = up \/ up' = <<>>
    OBVIOUS
  <2>7. down' = down \/ down' = <<>>
    OBVIOUS
  <2>8. up' \in Seq(FrameRec)
    BY <2>3, <2>6
  <2>9. down' \in Seq(FrameRec)
    BY <2>3, <2>7
  <2>10. QED
    BY <2>5, <2>8, <2>9
<1>2. /\ [Waiting EXCEPT !.at = "gone"].at = "gone"
      /\ [Waiting EXCEPT !.at = "gone"].frame = None
      /\ [Waiting EXCEPT !.at = "gone"] \in
            [at : {"read", "run", "write", "gone"},
             frame : FrameRec \cup {None}, given : Given \cup {None}]
  BY DEF Waiting
<1>3. TypeOK'
  BY <1>1, <1>2 DEF IInv, TypeOK
<1>4. Last' = Last
  BY DEF Last
<1>5. Nothing => Nothing'
  BY <1>2 DEF Nothing
<1>6. ClientInv'
  <2>1. client' = client \/ client'.at = "gone"
    BY DEF IInv, TypeOK
  <2>2. QED
    BY <1>4, <1>5, <2>1 DEF IInv, ClientInv
<1>8. /\ \A f : IsRequest(f) => IsRequest(f)'
      /\ \A f : IsReply(f) => IsReply(f)'
  BY <1>4 DEF IsRequest, IsReply
<1>10. Requested => Nothing' \/ Requested'
  BY <1>2, <1>8 DEF Requested, Nothing
<1>11. InHandler => Nothing' \/ InHandler'
  BY <1>2, <1>4, <1>8 DEF InHandler, Nothing
<1>12. Executed => Nothing' \/ Executed'
  BY <1>2, <1>8 DEF Executed, Nothing
<1>13. Replied => Nothing' \/ Replied'
  BY <1>2, <1>8 DEF Replied, Nothing
<1>14. FlightInv'
  BY <1>2, <1>4, <1>5, <1>10, <1>11, <1>12, <1>13 DEF IInv, FlightInv
<1>15. QED
  BY <1>3, <1>6, <1>14 DEF IInv

\* The worker takes the request, whose method the server has.
LEMMA DispatchKeeps ==
    ASSUME IInv, Dispatch
    PROVE  IInv'
<1> DEFINE f == up[1]
           given == ReadStruct(ServerArgs[f.name], f.body)
<1>1. /\ worker.at = "read" /\ up # <<>> /\ f.name \in Offered
      /\ worker' = [at |-> "run", frame |-> f, given |-> given]
      /\ up' = Tail(up) /\ UNCHANGED <<link, client, down, calls>>
  BY DEF Dispatch
<1>2. Requested /\ calls # <<>> /\ f \in FrameRec
  <2>1. Requested /\ calls # <<>>
    BY <1>1 DEF IInv, FlightInv, Nothing, InHandler, Executed, Replied
  <2>2. f \in FrameRec
    BY <1>1, <2>1 DEF IInv, TypeOK, Requested
  <2>3. QED
    BY <2>1, <2>2
<1>3. given = Abstract!Agreed(Last.method, Last.args)
  <2>1. f.name = Last.method /\ f.body = WriteStruct(Last.args)
    BY <1>2 DEF Requested, IsRequest
  <2>2. Last.args \in [ClientArgs[Last.method] -> Value]
    BY <1>2 DEF IInv, FlightInv, Arguments
  <2>3. given = [g \in ServerArgs[Last.method] |->
                   IF g \in ClientArgs[Last.method] THEN Last.args[g] ELSE None]
    BY <2>1, <2>2, ReadWrite
  <2>4. QED
    BY <2>3 DEF Abstract!Agreed
<1>4. given \in Given
  BY <1>1, <1>2, ReadType DEF FrameRec
<1> HIDE DEF given
<1>5. up' = <<>> /\ down' = <<>>
  BY <1>1, <1>2 DEF Requested, IInv, TypeOK
<1>6. TypeOK'
  BY <1>1, <1>2, <1>4, <1>5 DEF IInv, TypeOK
<1>7. Last' = Last
  BY <1>1 DEF Last
<1>8. IsRequest(worker.frame)'
  BY <1>1, <1>2, <1>7 DEF Requested, IsRequest
<1>9. InHandler'
  BY <1>1, <1>3, <1>5, <1>7, <1>8 DEF InHandler
<1>10. FlightInv'
  BY <1>1, <1>2, <1>7, <1>9 DEF IInv, FlightInv
<1>11. ClientInv'
  BY <1>1, <1>2, <1>7 DEF IInv, ClientInv, Nothing, Requested
<1>12. QED
  BY <1>6, <1>10, <1>11 DEF IInv

(***************************************************************************)
(* The worker answers a request for a method it does not have with an      *)
(* exception.                                                              *)
(***************************************************************************)
LEMMA UnknownMethodKeeps ==
    ASSUME IInv, UnknownMethod
    PROVE  IInv'
<1> DEFINE f == up[1]
           g == Frame("exception", f.name, {}, f.call)
           w == [at |-> "write", given |-> None, frame |-> g]
<1>1. /\ worker.at = "read" /\ up # <<>> /\ f.name \notin Offered
      /\ worker' = w
      /\ up' = Tail(up) /\ UNCHANGED <<link, client, down, calls>>
  BY DEF UnknownMethod
<1>2. Requested /\ calls # <<>> /\ f \in FrameRec
  <2>1. Requested /\ calls # <<>>
    BY <1>1 DEF IInv, FlightInv, Nothing, InHandler, Executed, Replied
  <2>2. f \in FrameRec
    BY <1>1, <2>1 DEF IInv, TypeOK, Requested
  <2>3. QED
    BY <2>1, <2>2
<1>3. /\ g \in FrameRec /\ g.kind = "exception" /\ g.call = f.call /\ g.name = f.name
  BY <1>2 DEF Frame, FrameRec
<1> HIDE DEF g
<1>4. /\ w.at = "write" /\ w.frame = g
      /\ w \in [at : {"read", "run", "write", "gone"},
                frame : FrameRec \cup {None}, given : Given \cup {None}]
  BY <1>3
<1> HIDE DEF w
<1>5. up' = <<>> /\ down' = <<>>
  BY <1>1, <1>2 DEF Requested, IInv, TypeOK
<1>6. TypeOK'
  BY <1>1, <1>4, <1>5 DEF IInv, TypeOK
<1>7. Last' = Last
  BY <1>1 DEF Last
<1>8. IsReply(worker.frame)'
  BY <1>1, <1>2, <1>3, <1>4, <1>7 DEF Requested, IsRequest, IsReply
<1>9. Executed'
  BY <1>1, <1>4, <1>5, <1>8 DEF Executed
<1>10. FlightInv'
  BY <1>1, <1>2, <1>3, <1>4, <1>7, <1>9 DEF IInv, FlightInv
<1>11. ClientInv'
  BY <1>1, <1>2, <1>7 DEF IInv, ClientInv, Nothing, Requested
<1>12. QED
  BY <1>6, <1>10, <1>11 DEF IInv

(***************************************************************************)
(* Whatever the handler does, the worker holds the frame that says so, and *)
(* this is the one execution of the last call.                             *)
(***************************************************************************)
LEMMA HandlerKeeps ==
    ASSUME IInv, worker.at = "run",
           NEW v \in Value \cup {Thrown}, NEW g \in FrameRec,
           g.call = worker.frame.call, g.name = worker.frame.name,
           v = Thrown => g.kind = "exception",
           v # Thrown =>
              /\ g.kind = "reply"
              /\ g.body = WriteStruct([r \in {ServerResult[g.name]} |-> v]),
           Ran(v), worker' = [worker EXCEPT !.at = "write", !.frame = g],
           UNCHANGED <<link, client, up, down>>
    PROVE  IInv' /\ Abstract!Execute(Len(calls)) /\ calls # <<>>
<1> DEFINE c == [Last EXCEPT !.value = v, !.given = worker.given]
<1>1. InHandler /\ calls # <<>>
  BY DEF IInv, FlightInv, Nothing, Requested, Executed, Replied
<1>2. /\ calls \in Seq(CallRec) /\ Last \in CallRec
      /\ Last.method \in Offered /\ Last.value = None
      /\ worker.frame.call = Len(calls) /\ worker.frame.name = Last.method
      /\ worker.given = Abstract!Agreed(Last.method, Last.args)
  BY <1>1 DEF IInv, TypeOK, InHandler, IsRequest, Last
<1>3. worker.given \in Given \cup {None}
  BY DEF IInv, TypeOK
<1>4. c \in CallRec
  BY <1>2, <1>3 DEF CallRec
<1>5. calls' = [calls EXCEPT ![Len(calls)] = c]
  BY <1>2 DEF Ran, Last
<1>6. Abstract!Execute(Len(calls))
  BY <1>2, <1>5 DEF Abstract!Execute, Last
<1>7. /\ c.method = Last.method /\ c.args = Last.args /\ c.answer = Last.answer
      /\ c.value = v
  BY <1>2 DEF CallRec
<1> HIDE DEF c
<1>8. /\ calls' \in Seq(CallRec) /\ calls' # <<>>
      /\ Len(calls') = Len(calls) /\ Last' = c
  BY <1>1, <1>2, <1>4, <1>5, UpdateLast
<1>9. /\ worker'.at = "write" /\ worker'.frame = g
      /\ worker' \in [at : {"read", "run", "write", "gone"},
                      frame : FrameRec \cup {None}, given : Given \cup {None}]
  BY DEF IInv, TypeOK
<1>10. TypeOK'
  BY <1>8, <1>9 DEF IInv, TypeOK
<1>11. v # None
  BY NoneAssumption
<1>12. IsReply(worker.frame)'
  BY <1>2, <1>7, <1>8, <1>9, <1>11 DEF IsReply
<1>13. Executed'
  BY <1>1, <1>9, <1>12 DEF InHandler, Executed
<1>14. FlightInv'
  BY <1>1, <1>7, <1>8, <1>9, <1>13 DEF IInv, FlightInv
<1>15. ClientInv'
  BY <1>1, <1>7, <1>8 DEF IInv, ClientInv, Nothing, InHandler
<1>16. QED
  BY <1>1, <1>6, <1>10, <1>14, <1>15 DEF IInv

\* A handler that returns or throws is one execution of the last call.
LEMMA HandlerStepKeeps ==
    ASSUME IInv, HandlerStep
    PROVE  IInv' /\ Abstract!Execute(Len(calls)) /\ calls # <<>>
<1>1. CASE HandlerThrows
  <2> DEFINE g == Frame("exception", worker.frame.name, {}, worker.frame.call)
  <2>1. worker.at = "run" /\ worker.frame \in FrameRec
    <3>1. worker.at = "run"
      BY <1>1 DEF HandlerThrows
    <3>2. InHandler /\ calls # <<>>
      BY <3>1 DEF IInv, FlightInv, Nothing, Requested, Executed, Replied
    <3>3. worker.frame \in FrameRec
      BY <3>1 DEF IInv, FlightInv
    <3>4. QED
      BY <3>1, <3>3
  <2>2. /\ g \in FrameRec /\ g.kind = "exception"
        /\ g.call = worker.frame.call /\ g.name = worker.frame.name
    BY <2>1 DEF Frame, FrameRec
  <2>3. /\ Ran(Thrown) /\ worker' = [worker EXCEPT !.at = "write", !.frame = g]
        /\ UNCHANGED <<link, client, up, down>>
    BY <1>1 DEF HandlerThrows
  <2> HIDE DEF g
  <2>4. QED
    BY <2>1, <2>2, <2>3, HandlerKeeps
<1>2. ASSUME NEW v \in Value, HandlerReturns(v)
      PROVE  IInv' /\ Abstract!Execute(Len(calls)) /\ calls # <<>>
  <2> DEFINE fields == [r \in {ServerResult[worker.frame.name]} |-> v]
             g == Frame("reply", worker.frame.name, WriteStruct(fields),
                        worker.frame.call)
  <2>1. worker.at = "run" /\ worker.frame \in FrameRec /\ worker.frame.name \in Offered
    <3>1. worker.at = "run"
      BY <1>2 DEF HandlerReturns
    <3>2. InHandler /\ calls # <<>>
      BY <3>1 DEF IInv, FlightInv, Nothing, Requested, Executed, Replied
    <3>3. worker.frame \in FrameRec
      BY <3>1 DEF IInv, FlightInv
    <3>4. QED
      BY <3>1, <3>2, <3>3 DEF InHandler
  <2>2. WriteStruct(fields) \in SUBSET [field : Field, value : Value]
    <3>1. {ServerResult[worker.frame.name]} \in SUBSET Field
      <4>1. ServerResult[worker.frame.name] \in {ServerResult[m] : m \in Offered}
        BY <2>1
      <4>2. QED
        BY <4>1 DEF Field
    <3>2. fields \in [{ServerResult[worker.frame.name]} -> Value]
      OBVIOUS
    <3>3. QED
      BY <3>1, <3>2, WriteType
  <2>3. /\ g \in FrameRec /\ g.kind = "reply"
        /\ g.call = worker.frame.call /\ g.name = worker.frame.name
        /\ g.body = WriteStruct([r \in {ServerResult[g.name]} |-> v])
    BY <2>1, <2>2 DEF Frame, FrameRec
  <2>4. /\ Ran(v) /\ worker' = [worker EXCEPT !.at = "write", !.frame = g]
        /\ UNCHANGED <<link, client, up, down>>
    BY <1>2 DEF HandlerReturns
  <2>5. v # Thrown
    BY ThrownAssumption
  <2> HIDE DEF g
  <2>6. QED
    BY <2>1, <2>3, <2>4, <2>5, HandlerKeeps
<1>3. QED
  BY <1>1, <1>2 DEF HandlerStep

\* The worker's frame goes to the client, or nowhere.
LEMMA ReplyKeeps ==
    ASSUME IInv, Reply
    PROVE  IInv'
<1> DEFINE f == worker.frame
<1>1. /\ worker.at = "write" /\ down' = Sent(down, f) /\ worker' = Waiting
      /\ UNCHANGED <<link, client, up, calls>>
  BY DEF Reply
<1>2. Executed /\ calls # <<>>
  BY <1>1 DEF IInv, FlightInv, Nothing, Requested, InHandler, Replied
<1>3. f \in FrameRec
  BY <1>1 DEF IInv, FlightInv
<1>4. /\ down' \in Seq(FrameRec)
      /\ down' = <<>> \/ (Len(down') = 1 /\ down'[1] = f)
  BY <1>1, <1>2, <1>3 DEF Executed, Sent
<1>5. /\ Waiting.at = "read"
      /\ Waiting \in [at : {"read", "run", "write", "gone"},
                      frame : FrameRec \cup {None}, given : Given \cup {None}]
  BY DEF Waiting
<1>6. TypeOK'
  BY <1>1, <1>4, <1>5 DEF IInv, TypeOK
<1>7. Last' = Last
  BY <1>1 DEF Last
<1>8. down' # <<>> => IsReply(down[1])'
  BY <1>1, <1>2, <1>4, <1>7 DEF Executed, IsReply
<1>9. Nothing' \/ Replied'
  BY <1>1, <1>2, <1>4, <1>5, <1>8 DEF Executed, Nothing, Replied
<1>10. FlightInv'
  BY <1>1, <1>2, <1>5, <1>7, <1>9 DEF IInv, FlightInv
<1>11. ClientInv'
  BY <1>1, <1>2, <1>7 DEF IInv, ClientInv, Nothing, Executed
<1>12. QED
  BY <1>6, <1>10, <1>11 DEF IInv

-----------------------------------------------------------------------------
\* Nothing has been called on a new connection.
LEMMA InvInit == Init => IInv
<1> SUFFICES ASSUME Init PROVE IInv
  OBVIOUS
<1>1. /\ worker.at = "read" /\ client.at = "idle" /\ link = "open"
      /\ up = <<>> /\ down = <<>> /\ calls = <<>>
  BY DEF Init, Waiting
<1>2. TypeOK
  <2>1. worker \in [at : {"read", "run", "write", "gone"},
                    frame : FrameRec \cup {None}, given : Given \cup {None}]
    BY DEF Init, Waiting
  <2>2. client \in [at : {"idle", "recv", "gone"}, method : Method \cup {None}]
    BY DEF Init
  <2>3. QED
    BY <1>1, <2>1, <2>2 DEF TypeOK
<1>3. FlightInv
  BY <1>1 DEF FlightInv, Nothing
<1>4. ClientInv
  BY <1>1 DEF ClientInv, Nothing
<1>5. QED
  BY <1>2, <1>3, <1>4 DEF IInv

\* The client, the worker or the network that goes away.
LEMMA EndsKeep ==
    ASSUME IInv, Close \/ WorkerEnds \/ Break \/ Silence
    PROVE  IInv' /\ calls' = calls
<1>1. CASE Close
  BY <1>1, LossKeeps DEF Close
<1>2. CASE WorkerEnds
  <2>1. link' \in {"open", "closed", "broken", "silent"}
    BY <1>2 DEF WorkerEnds, IInv, TypeOK
  <2>2. QED
    BY <1>2, <2>1, LossKeeps DEF WorkerEnds
<1>3. CASE Break \/ Silence
  BY <1>3, LossKeeps DEF Break, Silence, Lost
<1>4. QED
  BY <1>1, <1>2, <1>3

\* Every step keeps what is known of the frame under way.
LEMMA InvStep == IInv /\ [Next]_vars => IInv'
<1> SUFFICES ASSUME IInv, [Next]_vars
             PROVE  IInv'
  OBVIOUS
<1>1. ASSUME NEW m \in Method, NEW args \in Arguments(m), Send(m, args)
      PROVE  IInv'
  BY <1>1, SendKeeps
<1>2. CASE ClientStep
  BY <1>2, RecvKeeps, RecvFailsKeeps DEF ClientStep
<1>3. CASE Close \/ WorkerEnds \/ Break \/ Silence
  BY <1>3, EndsKeep
<1>4. CASE Dispatch \/ UnknownMethod \/ Reply
  BY <1>4, DispatchKeeps, UnknownMethodKeeps, ReplyKeeps
<1>5. CASE HandlerStep
  BY <1>5, HandlerStepKeeps
<1>6. CASE UNCHANGED vars
  BY <1>6 DEF vars, IInv, TypeOK, FlightInv, ClientInv, Nothing, Requested,
              InHandler, Executed, Replied, IsRequest, IsReply, Last
<1>7. QED
  BY <1>1, <1>2, <1>3, <1>4, <1>5, <1>6 DEF Next, WorkerStep

\* A sequence of one element.
LEMMA SingletonSeq ==
    ASSUME NEW S, NEW s \in Seq(S), Len(s) = 1
    PROVE  s[1] \in S /\ s = <<s[1]>>
<1>1. s[1] \in S
  BY ElementOfSeq
<1>2. <<s[1]>> \in Seq(S) /\ Len(<<s[1]>>) = Len(s)
  BY <1>1
<1>3. \A i \in 1 .. Len(s) : s[i] = <<s[1]>>[i]
  OBVIOUS
<1>4. QED
  BY <1>1, <1>2, <1>3, SeqEqual

\* One frame in one place is one message in the buffers and the worker.
LEMMA InvInSync == IInv => InSync
<1> SUFFICES ASSUME IInv PROVE InSync
  OBVIOUS
<1>1. up \in Seq(FrameRec) /\ down \in Seq(FrameRec)
  BY DEF IInv, TypeOK
<1>2. CASE Nothing
  <2>1. InFlight = <<>>
    BY <1>2 DEF Nothing, InFlight
  <2>2. QED
    BY <2>1 DEF InSync
<1>3. ASSUME NEW f \in FrameRec, f.call = Len(calls), InFlight = <<f>>, ~Nothing
      PROVE  InSync
  BY <1>3 DEF InSync, IInv, ClientInv
<1>4. CASE ~Nothing
  <2>1. CASE Requested
    <3>1. up = <<up[1]>> /\ up[1] \in FrameRec
      BY <1>1, <2>1, SingletonSeq DEF Requested
    <3>2. InFlight = (<<up[1]>> \o <<>>) \o <<>>
      BY <2>1, <3>1 DEF Requested, InFlight
    <3>3. InFlight = <<up[1]>>
      BY <3>1, <3>2
    <3>4. QED
      BY <1>3, <1>4, <2>1, <3>1, <3>3 DEF Requested, IsRequest
  <2>2. CASE InHandler
    <3>1. InFlight = <<worker.frame>> /\ worker.frame \in FrameRec
      BY <1>1, <2>2 DEF InHandler, InFlight, IInv, FlightInv
    <3>2. QED
      BY <1>3, <1>4, <2>2, <3>1 DEF InHandler, IsRequest
  <2>3. CASE Executed
    <3>1. InFlight = <<worker.frame>> /\ worker.frame \in FrameRec
      BY <1>1, <2>3 DEF Executed, InFlight, IInv, FlightInv
    <3>2. QED
      BY <1>3, <1>4, <2>3, <3>1 DEF Executed, IsReply
  <2>4. CASE Replied
    <3>1. down = <<down[1]>> /\ down[1] \in FrameRec
      BY <1>1, <2>4, SingletonSeq DEF Replied
    <3>2. InFlight = (<<>> \o <<down[1]>>) \o <<>>
      BY <2>4, <3>1 DEF Replied, InFlight
    <3>3. InFlight = <<down[1]>>
      BY <3>1, <3>2
    <3>4. QED
      BY <1>3, <1>4, <2>4, <3>1, <3>3 DEF Replied, IsReply
  <2>5. QED
    BY <1>4, <2>1, <2>2, <2>3, <2>4 DEF IInv, FlightInv
<1>5. QED
  BY <1>2, <1>4

\* A new connection is a new history of calls.
LEMMA AbstractInit == Init => Abstract!Init
BY DEF Init, Abstract!Init

(***************************************************************************)
(* Every step of the stubs, the processor or the network is a step of the  *)
(* remote call, or none that its caller could tell.                        *)
(***************************************************************************)
LEMMA AbstractStep == IInv /\ [Next]_vars => [Abstract!Next]_calls
<1> SUFFICES ASSUME IInv, [Next]_vars
             PROVE  Abstract!Next \/ calls' = calls
  OBVIOUS
<1>1. calls # <<>> => Len(calls) \in DOMAIN calls
  BY DEF IInv, TypeOK
<1>2. ASSUME NEW m \in Method, NEW args \in Arguments(m), Send(m, args)
      PROVE  Abstract!Next
  <2>1. client.at = "idle"
    BY <1>2 DEF Send
  <2>2. calls # <<>> => calls[Len(calls)].answer \notin {"pending", "transport"}
    BY <2>1 DEF IInv, ClientInv, Last
  <2>3. calls' = Append(calls, [method |-> m, args |-> args, given |-> None,
                                value |-> None, answer |-> "pending"])
    BY <1>2 DEF Send
  <2>4. Abstract!Issue
    BY <2>2, <2>3 DEF Abstract!Issue, Abstract!Arguments, Arguments
  <2>5. QED
    BY <2>4 DEF Abstract!Next
<1>3. CASE Recv
  <2>1. Abstract!Finish(Len(calls))
    BY <1>3, RecvKeeps DEF Abstract!Finish, Last
  <2>2. calls # <<>>
    BY <1>3 DEF Recv, IInv, ClientInv
  <2>3. QED
    BY <1>1, <2>1, <2>2 DEF Abstract!Next
<1>4. CASE RecvFails
  <2>1. Abstract!Break(Len(calls))
    BY <1>4, RecvFailsKeeps DEF Abstract!Break, Last
  <2>2. calls # <<>>
    BY <1>4 DEF RecvFails, IInv, ClientInv
  <2>3. QED
    BY <1>1, <2>1, <2>2 DEF Abstract!Next
<1>5. CASE HandlerStep
  <2>1. Abstract!Execute(Len(calls)) /\ calls # <<>>
    BY <1>5, HandlerStepKeeps
  <2>2. QED
    BY <1>1, <2>1 DEF Abstract!Next
<1>6. CASE Close \/ WorkerEnds \/ Break \/ Silence
  BY <1>6, EndsKeep
<1>7. CASE Dispatch \/ UnknownMethod \/ Reply
  BY <1>7 DEF Dispatch, UnknownMethod, Reply
<1>8. CASE UNCHANGED vars
  BY <1>8 DEF vars
<1>9. QED
  BY <1>2, <1>3, <1>4, <1>5, <1>6, <1>7, <1>8 DEF Next, ClientStep, WorkerStep
-----------------------------------------------------------------------------
\* The variables have the values TypeOK names; no answer is "garbled".
THEOREM TypeCorrect == Spec => []TypeOK
<1>1. Init => IInv
  BY InvInit
<1>2. IInv /\ [Next]_vars => IInv'
  BY InvStep
<1>3. IInv => TypeOK
  BY DEF IInv
<1>4. QED
  BY <1>1, <1>2, <1>3, PTL DEF Spec

(***************************************************************************)
(* Whatever is under way belongs to the last call, there is at most one of *)
(* it, and none when the client may call again.                            *)
(***************************************************************************)
THEOREM StaysInSync == Spec => []InSync
<1>1. Init => IInv
  BY InvInit
<1>2. IInv /\ [Next]_vars => IInv'
  BY InvStep
<1>3. IInv => InSync
  BY InvInSync
<1>4. QED
  BY <1>1, <1>2, <1>3, PTL DEF Spec

(***************************************************************************)
(* The stubs and the processor implement the remote call: a call is        *)
(* executed at most once, with the arguments both sides declare, and ends  *)
(* with what this execution made of it or with a broken transport.         *)
(***************************************************************************)
THEOREM RpcImplementsRemoteCall == Spec => ImplementsRemoteCall
<1>1. Init => IInv
  BY InvInit
<1>2. IInv /\ [Next]_vars => IInv'
  BY InvStep
<1>3. Init => Abstract!Init
  BY AbstractInit
<1>4. IInv /\ [Next]_vars => [Abstract!Next]_calls
  BY AbstractStep
<1>5. QED
  BY <1>1, <1>2, <1>3, <1>4, PTL DEF Spec, ImplementsRemoteCall, Abstract!Spec
=============================================================================
