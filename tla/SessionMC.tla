------------------------------ MODULE SessionMC -----------------------------
(***************************************************************************)
(* Session on small instances for TLC: all watches are on one file.        *)
(***************************************************************************)
EXTENDS Session, TLC

MCTarget == [w \in Watch |-> CHOOSE f \in File : TRUE]
=============================================================================
