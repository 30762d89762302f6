---------------------------- MODULE WatchTableMC ----------------------------
(***************************************************************************)
(* WatchTable on small instances for TLC.                                  *)
(***************************************************************************)
EXTENDS WatchTable

\* Nothing orders or names these values: permuting them maps behaviours to
\* behaviours.  Used by the runs that check safety only.
Symmetric ==
    Permutations(Thread) \cup Permutations(Friendly) \cup Permutations(File)
=============================================================================
