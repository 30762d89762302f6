------------------------------- MODULE RpcMC --------------------------------
(***************************************************************************)
(* Rpc on a small instance for TLC.  The client is the stub of this        *)
(* repository; the server is another version of it: it has no isFileExist, *)
(* a ping with a result of another type, and a startNotifier whose first   *)
(* field is of another type and which has a second field.                  *)
(***************************************************************************)
EXTENDS Rpc, WorkerHandler

OtherOffered == ProcessMap \ {"isFileExist"}

OtherArgs == [Args EXCEPT !["startNotifier"] = {<<1, "binary">>, <<2, "i32">>}]

OtherResult == [Result EXCEPT !["ping"] = <<0, "string">>]
=============================================================================
