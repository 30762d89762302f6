----------------------------- MODULE RemoteCall -----------------------------
(***************************************************************************)
(* What a caller of workerHandlerClient may rely on, however messages      *)
(* travel: a call is executed at most once and with the arguments it was   *)
(* given, and it ends with the value that this execution returned, with an *)
(* application error, or with a broken transport, in which case it may     *)
(* have been executed, or be executed yet.  Calls follow one another, and  *)
(* a broken transport ends the connection.                                 *)
(*                                                                         *)
(* The client and the server are separate programs, each generated from    *)
(* its own copy of workercontroller.thrift.  A field is a pair of a number *)
(* and a type.                                                             *)
(***************************************************************************)
EXTENDS Naturals, Sequences

CONSTANTS
    Method,        \* the methods the client can call
    Value,         \* values of arguments and results
    None,          \* no value
    Thrown,        \* the handler threw an exception
    ClientArgs,    \* method -> fields the client declares as its arguments
    ServerArgs,    \* method -> the same for the server
    ClientResult,  \* method -> field the client declares as its result
    ServerResult,  \* method -> the same for the server
    Offered        \* the methods of the server

VARIABLE calls

Arguments(m) == [ClientArgs[m] -> Value]

\* A field both sides declare arrives as given; any other one is empty.
Agreed(m, args) ==
    [f \in ServerArgs[m] |-> IF f \in ClientArgs[m] THEN args[f] ELSE None]

\* How a call of m that was executed with result v may end.
Ending(m, v) ==
    CASE m \notin Offered -> "application"
      [] m \in Offered /\ v = Thrown -> "application"
      [] OTHER -> IF ServerResult[m] = ClientResult[m] THEN v ELSE "missing"

Init == calls = <<>>

Issue ==
    /\ calls # <<>> => calls[Len(calls)].answer \notin {"pending", "transport"}
    /\ \E m \in Method : \E args \in Arguments(m) :
        calls' = Append(calls, [method |-> m, args |-> args, given |-> None,
                                value |-> None, answer |-> "pending"])

Execute(c) ==
    /\ calls[c].method \in Offered
    /\ calls[c].value = None
    /\ \E v \in Value \cup {Thrown} :
        calls' = [calls EXCEPT ![c] =
            [@ EXCEPT !.value = v,
                      !.given = Agreed(calls[c].method, calls[c].args)]]

Finish(c) ==
    /\ calls[c].answer = "pending"
    /\ calls[c].method \in Offered => calls[c].value # None
    /\ calls' = [calls EXCEPT ![c].answer = Ending(calls[c].method, calls[c].value)]

Break(c) ==
    /\ calls[c].answer = "pending"
    /\ calls' = [calls EXCEPT ![c].answer = "transport"]

Next == Issue \/ \E c \in DOMAIN calls : Execute(c) \/ Finish(c) \/ Break(c)

Spec == Init /\ [][Next]_calls
=============================================================================
