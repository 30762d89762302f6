------------------------------ MODULE WindowMC ------------------------------
(***************************************************************************)
(* Window on a small instance for TLC: names with and without parentheses  *)
(* of their own, two addresses, and files of up to MaxBytes bytes.         *)
(***************************************************************************)
EXTENDS Window

CONSTANTS a, MaxBytes

MCName == {<<a>>, <<a, Open, a, Closed>>}
MCHost == <<a>>
MCIp == {<<a>>, <<a, a>>}
MCFile == UNION {[1 .. n -> Byte] : n \in 0 .. MaxBytes}
=============================================================================
