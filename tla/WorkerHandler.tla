--------------------------- MODULE WorkerHandler ----------------------------
(***************************************************************************)
(* The interface of the service as the two generated copies of the stubs   *)
(* have it: the structures they write and read.  A field is its number and *)
(* its type.  The client writes the ..._pargs and reads the ..._presult    *)
(* structures, the server reads the ..._args and writes the ..._result     *)
(* structures; each is code of its own.                                    *)
(***************************************************************************)
Methods == {"ping", "getLog", "isFileExist", "startNotifier"}

ProcessMap == {"ping", "getLog", "isFileExist", "startNotifier"}

-----------------------------------------------------------------------------
(***************************************************************************)
(* The client: write of the arguments, read of the result.                 *)
(***************************************************************************)
PingPargs == {}
GetLogPargs == {<<1, "string">>, <<2, "i32">>, <<3, "string">>}
IsFileExistPargs == {<<1, "string">>}
StartNotifierPargs == {<<1, "string">>}

PingPresult == <<0, "i32">>
GetLogPresult == <<0, "string">>
IsFileExistPresult == <<0, "i32">>
StartNotifierPresult == <<0, "i32">>

-----------------------------------------------------------------------------
(***************************************************************************)
(* The server: read of the arguments, write of the result.                 *)
(***************************************************************************)
PingArgs == {}
GetLogArgs == {<<1, "string">>, <<2, "i32">>, <<3, "string">>}
IsFileExistArgs == {<<1, "string">>}
StartNotifierArgs == {<<1, "string">>}

PingResult == <<0, "i32">>
GetLogResult == <<0, "string">>
IsFileExistResult == <<0, "i32">>
StartNotifierResult == <<0, "i32">>

-----------------------------------------------------------------------------
Stub(ping, getLog, isFileExist, startNotifier) ==
    [m \in Methods |->
        CASE m = "ping" -> ping
          [] m = "getLog" -> getLog
          [] m = "isFileExist" -> isFileExist
          [] m = "startNotifier" -> startNotifier]

Pargs == Stub(PingPargs, GetLogPargs, IsFileExistPargs, StartNotifierPargs)
Presult ==
    Stub(PingPresult, GetLogPresult, IsFileExistPresult, StartNotifierPresult)
Args == Stub(PingArgs, GetLogArgs, IsFileExistArgs, StartNotifierArgs)
Result == Stub(PingResult, GetLogResult, IsFileExistResult, StartNotifierResult)

\* A client and a server of this repository are of the same version.
ASSUME StubsAgree == ProcessMap = Methods /\ Pargs = Args /\ Presult = Result
=============================================================================
