-------------------------------- MODULE Rpc ---------------------------------
(***************************************************************************)
(* One connection between a workerHandlerClient and the server worker that *)
(* runs workerHandlerProcessor for it: the code Thrift generated from      *)
(* workercontroller.thrift, over a framed transport.  Requests and replies *)
(* carry the name of the method and the sequence number 0; nothing else    *)
(* ties a reply to its call.                                               *)
(*                                                                         *)
(* `call` in a frame, and `calls`, are history: they say which call a      *)
(* frame belongs to and what became of each call.                          *)
(*                                                                         *)
(* Definitions named Bug... are steps with one plausible mistake each: a   *)
(* property must fail when one of them takes the place of the definition   *)
(* that follows it.                                                        *)
(***************************************************************************)
EXTENDS Naturals, Sequences

CONSTANTS
    Method, Value, None, Thrown,
    ClientArgs, ServerArgs, ClientResult, ServerResult, Offered,
    MaxCalls                      \* bound: calls on the connection

ASSUME MaxCallsAssumption == MaxCalls \in Nat
ASSUME OfferedAssumption == Offered \subseteq Method
ASSUME NoneAssumption == None \notin Value \cup {Thrown}
ASSUME ThrownAssumption == Thrown \notin Value
ASSUME AnswerAssumption ==
    {"pending", "transport", "application", "missing", "garbled"}
        \cap (Value \cup {None, Thrown}) = {}
ASSUME FieldAssumption ==
    /\ DOMAIN ClientArgs = Method /\ DOMAIN ClientResult = Method
    /\ Offered \subseteq DOMAIN ServerArgs /\ Offered \subseteq DOMAIN ServerResult

VARIABLES
    link,      \* "open", "closed" by the client, "broken", or "silent"
    client,    \* what the client does with the connection
    up, down,  \* frames under way to the server and to the client
    worker,    \* the server's worker for this connection
    calls      \* history: every call, in order

vars == <<link, client, up, down, worker, calls>>

Arguments(m) == [ClientArgs[m] -> Value]

Waiting == [at |-> "read", frame |-> None, given |-> None]

Init ==
    /\ link = "open"
    /\ client = [at |-> "idle", method |-> None]
    /\ up = <<>> /\ down = <<>>
    /\ worker = Waiting
    /\ calls = <<>>

-----------------------------------------------------------------------------
(***************************************************************************)
(* read and write of the argument and result structures.                   *)
(***************************************************************************)

\* The fields are written one after the other: the body of the message.
WriteStruct(fields) ==
    {[field |-> f, value |-> fields[f]] : f \in DOMAIN fields}

BugIgnoreType(declared, body) ==
    [f \in declared |->
        IF \E e \in body : e.field[1] = f[1]
        THEN (CHOOSE e \in body : e.field[1] = f[1]).value ELSE None]

(***************************************************************************)
(* The loop over the fields of a body: a number and a type that are        *)
(* declared are read, anything else is skipped, and what is not there      *)
(* keeps the value of the constructor.                                     *)
(***************************************************************************)
ReadStruct(declared, body) ==
    [f \in declared |->
        IF \E e \in body : e.field = f
        THEN (CHOOSE e \in body : e.field = f).value ELSE None]

\* writeMessageBegin ... flush
Frame(kind, name, body, call) ==
    [kind |-> kind, name |-> name, body |-> body, call |-> call]

-----------------------------------------------------------------------------
(***************************************************************************)
(* The client.                                                             *)
(***************************************************************************)
\* A write to a connection that has gone silent succeeds and reaches nobody.
Sent(frames, frame) == IF link = "open" THEN Append(frames, frame) ELSE frames

Send(m, args) ==
    /\ client.at = "idle" /\ link \in {"open", "silent"}
    /\ Len(calls) < MaxCalls
    /\ up' = Sent(up, Frame("call", m, WriteStruct(args), Len(calls) + 1))
    /\ client' = [at |-> "recv", method |-> m]
    /\ calls' = Append(calls, [method |-> m, args |-> args, given |-> None,
                               value |-> None, answer |-> "pending"])
    /\ UNCHANGED <<link, down, worker>>

(***************************************************************************)
(* What recv_... makes of a frame.  After a message of another kind or     *)
(* name it skips to the end and then reads a result where the next message *)
(* begins: "garbled".                                                      *)
(***************************************************************************)
Outcome(frame, m) ==
    CASE frame.kind = "exception" -> "application"
      [] frame.kind = "call" -> "garbled"
      [] frame.kind = "reply" ->
            IF frame.name # m THEN "garbled"
            ELSE LET result == ReadStruct({ClientResult[m]}, frame.body)
                 IN  IF result[ClientResult[m]] = None THEN "missing"
                     ELSE result[ClientResult[m]]

Answer(answer) == calls' = [calls EXCEPT ![Len(calls)].answer = answer]

Recv ==
    /\ client.at = "recv" /\ down # <<>>
    /\ Answer(Outcome(Head(down), client.method))
    /\ down' = Tail(down)
    /\ client' = [client EXCEPT !.at = "idle"]
    /\ UNCHANGED <<link, up, worker>>

RecvFails ==  \* TTransportException
    /\ client.at = "recv" /\ down = <<>> /\ link = "broken"
    /\ Answer("transport")
    /\ client' = [client EXCEPT !.at = "gone"]
    /\ UNCHANGED <<link, up, down, worker>>

(***************************************************************************)
(* transport->close(), or the client program ends, perhaps in a call.  The *)
(* server does not learn of it over a connection that has gone silent.     *)
(***************************************************************************)
Close ==
    /\ client.at \in {"idle", "recv"} /\ link \in {"open", "silent"}
    /\ link' = IF link = "open" THEN "closed" ELSE link
    /\ client' = [client EXCEPT !.at = "gone"]
    /\ UNCHANGED <<up, down, worker, calls>>

-----------------------------------------------------------------------------
(***************************************************************************)
(* The server.                                                             *)
(***************************************************************************)
Dispatch ==
    /\ worker.at = "read" /\ up # <<>>
    /\ Head(up).name \in Offered
    /\ worker' = [at |-> "run", frame |-> Head(up),
                  given |-> ReadStruct(ServerArgs[Head(up).name], Head(up).body)]
    /\ up' = Tail(up)
    /\ UNCHANGED <<link, client, down, calls>>

BugUnknownMethodIsSilent ==
    /\ worker.at = "read" /\ up # <<>>
    /\ Head(up).name \notin Offered
    /\ up' = Tail(up)
    /\ UNCHANGED <<link, client, down, worker, calls>>

UnknownMethod ==
    /\ worker.at = "read" /\ up # <<>>
    /\ Head(up).name \notin Offered
    /\ worker' = [at |-> "write", given |-> None,
                  frame |-> Frame("exception", Head(up).name, {}, Head(up).call)]
    /\ up' = Tail(up)
    /\ UNCHANGED <<link, client, down, calls>>

\* The handler has run, and what it was given and made of it.
Ran(v) ==
    calls' = [calls EXCEPT ![worker.frame.call] =
                 [@ EXCEPT !.value = v, !.given = worker.given]]

HandlerReturns(v) ==
    /\ worker.at = "run"
    /\ Ran(v)
    /\ worker' = [worker EXCEPT !.at = "write",
          !.frame = Frame("reply", worker.frame.name,
                          WriteStruct([f \in {ServerResult[worker.frame.name]} |-> v]),
                          worker.frame.call)]
    /\ UNCHANGED <<link, client, up, down>>

HandlerThrows ==
    /\ worker.at = "run"
    /\ Ran(Thrown)
    /\ worker' = [worker EXCEPT !.at = "write",
          !.frame = Frame("exception", worker.frame.name, {}, worker.frame.call)]
    /\ UNCHANGED <<link, client, up, down>>

BugReplyTwice ==
    /\ worker.at = "write" /\ link \in {"open", "silent"}
    /\ down' = down \o <<worker.frame, worker.frame>>
    /\ worker' = Waiting
    /\ UNCHANGED <<link, client, up, calls>>

Reply ==
    /\ worker.at = "write" /\ link \in {"open", "silent"}
    /\ down' = Sent(down, worker.frame)
    /\ worker' = Waiting
    /\ UNCHANGED <<link, client, up, calls>>

\* The write of a reply, or the read of the next request, meets the end.
WorkerEnds ==
    /\ link \in {"closed", "broken"}
    /\ worker.at = "write" \/ (worker.at = "read" /\ up = <<>>)
    /\ worker' = [Waiting EXCEPT !.at = "gone"]
    /\ UNCHANGED <<link, client, up, down, calls>>

-----------------------------------------------------------------------------
(***************************************************************************)
(* The connection is lost; what had arrived may still be read.  A server   *)
(* that dies takes its worker along.                                       *)
(***************************************************************************)
Lost(to) ==
    /\ link' = to
    /\ up' \in {up, <<>>} /\ down' \in {down, <<>>}
    /\ worker' \in {worker, [Waiting EXCEPT !.at = "gone"]}
    /\ UNCHANGED <<client, calls>>

\* The operating systems tell both ends.
Break == link \in {"open", "silent"} /\ Lost("broken")

(***************************************************************************)
(* Nobody is told: the other machine or the way to it is gone.  A write    *)
(* may be told later (Break), but a read waits on: neither side sets a     *)
(* timeout or asks for keep-alive.                                         *)
(***************************************************************************)
Silence == link = "open" /\ Lost("silent")

-----------------------------------------------------------------------------
ClientStep == Recv \/ RecvFails

HandlerStep == HandlerThrows \/ \E v \in Value : HandlerReturns(v)

WorkerStep == Dispatch \/ UnknownMethod \/ Reply \/ WorkerEnds

Next ==
    \/ \E m \in Method : \E args \in Arguments(m) : Send(m, args)
    \/ ClientStep \/ Close
    \/ WorkerStep \/ HandlerStep
    \/ Break \/ Silence

Spec == Init /\ [][Next]_vars

\* Both programs run.  A handler may wait for ever (startNotifier does), and
\* nothing tells of a connection that has gone silent.
FairSpec == Spec /\ WF_vars(ClientStep) /\ WF_vars(WorkerStep)
-----------------------------------------------------------------------------
Field == (UNION {ClientArgs[m] : m \in Method}) \cup {ServerResult[m] : m \in Offered}

FrameRec == [kind : {"call", "reply", "exception"}, name : Method,
             body : SUBSET [field : Field, value : Value], call : 1 .. MaxCalls]

Given == UNION {[ServerArgs[m] -> Value \cup {None}] : m \in Offered}

CallRec == [method : Method, args : UNION {Arguments(m) : m \in Method},
            given : Given \cup {None}, value : Value \cup {None, Thrown},
            answer : Value \cup {"pending", "transport", "application", "missing"}]

(***************************************************************************)
(* The values of the variables.  No answer is "garbled": although nothing  *)
(* in a message but the method's name is checked, recv_... never skips a   *)
(* message of another call.                                                *)
(***************************************************************************)
TypeOK ==
    /\ link \in {"open", "closed", "broken", "silent"}
    /\ client \in [at : {"idle", "recv", "gone"}, method : Method \cup {None}]
    /\ up \in Seq(FrameRec) /\ down \in Seq(FrameRec)
    /\ worker \in [at : {"read", "run", "write", "gone"},
                   frame : FrameRec \cup {None}, given : Given \cup {None}]
    /\ calls \in Seq(CallRec)

(***************************************************************************)
(* One message at a time: whatever is under way, in a buffer or in the     *)
(* worker, belongs to the last call, there is at most one of it, and none  *)
(* when the client may call again.  The stub relies on it: it never looks  *)
(* at the sequence number.                                                 *)
(***************************************************************************)
InFlight ==
    up \o down \o (IF worker.at \in {"run", "write"} THEN <<worker.frame>> ELSE <<>>)

InSync ==
    /\ Len(InFlight) <= 1
    /\ \A i \in DOMAIN InFlight : InFlight[i].call = Len(calls)
    /\ client.at = "idle" => InFlight = <<>>

(***************************************************************************)
(* The stubs and the processor implement the remote call of RemoteCall: at *)
(* most one execution, with the arguments both sides declare, and an       *)
(* answer that is the one of this execution.                               *)
(***************************************************************************)
Abstract == INSTANCE RemoteCall WITH calls <- calls

ImplementsRemoteCall == Abstract!Spec

(***************************************************************************)
(* If the handler always returns, and the connection is not silently lost  *)
(* for ever, every call ends, also one of a method the server does not     *)
(* have.  Without either condition recv_... may wait for ever.             *)
(***************************************************************************)
CallEnds ==
    ([]<>(worker.at # "run") /\ []<>(link # "silent"))
        => (client.at = "recv" ~> client.at # "recv")
=============================================================================
