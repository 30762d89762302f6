------------------------------- MODULE Filter -------------------------------
(***************************************************************************)
(* The elements of a sequence that are in a set, in their order: what is   *)
(* left when a loop over the sequence removes the others one by one.       *)
(***************************************************************************)
EXTENDS Naturals, Sequences

Only(s, T) ==
    LET only[i \in 0 .. Len(s)] ==
            IF i = 0 THEN <<>>
            ELSE IF s[i] \in T THEN Append(only[i - 1], s[i]) ELSE only[i - 1]
    IN  only[Len(s)]
=============================================================================
