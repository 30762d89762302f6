---------------------------- MODULE LogServerMC -----------------------------
(***************************************************************************)
(* LogServer on small instances for TLC.                                   *)
(***************************************************************************)
EXTENDS LogServer, TLC

\* Connections and files are interchangeable.  Safety runs only.
Symmetric == Permutations(Conn) \cup Permutations(File)
=============================================================================
