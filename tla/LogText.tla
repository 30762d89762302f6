------------------------------ MODULE LogText -------------------------------
(***************************************************************************)
(* What getLog returns for a file: the output of cat or tail, read in      *)
(* pieces by fgets, each cut at its first NUL and followed by the          *)
(* separator "\n\r\n\r", here one character Sep.                           *)
(*                                                                         *)
(* BugStripsLast has one plausible mistake: a property must fail when it   *)
(* takes the place of the definition that follows it.                      *)
(***************************************************************************)
EXTENDS Naturals, Sequences, FiniteSets, SequencesExt

CONSTANTS
    Byte,        \* the bytes of a file
    Nl, Nul,     \* two of them: newline and NUL
    Sep,         \* the separator
    Refused,     \* a number of lines that tail does not take
    BufLen       \* size of getLog's buffer, 2048

ASSUME ByteAssumption == Nl \in Byte /\ Nul \in Byte /\ Sep \notin Byte
ASSUME BufLenAssumption == BufLen \in Nat /\ BufLen > 1

Least(S) == CHOOSE i \in S : \A j \in S : i <= j

Positions(t, b) == {i \in DOMAIN t : t[i] = b}

\* tail -n k: the text after the newline that k lines follow.
Tailed(t, k) ==
    LET starts == {1} \cup {i + 1 : i \in Positions(t, Nl)}
        begins(i) == Cardinality({j \in starts : i <= j /\ j <= Len(t)})
    IN  SubSeq(t, Least({i \in starts \cup {Len(t) + 1} : begins(i) <= k}), Len(t))

Output(t, type, lines) ==
    CASE type # 0 -> t
      [] type = 0 /\ lines = Refused -> <<>>
      [] OTHER -> Tailed(t, lines)

\* fgets: up to a newline, and not more than the buffer holds.
PieceLen(t) == Least({BufLen - 1, Len(t)} \cup Positions(t, Nl))

BugStripsLast(p) == SubSeq(p, 1, Len(p) - 1)

\* std::string(buffer)
CString(p) ==
    IF Positions(p, Nul) = {} THEN p
    ELSE SubSeq(p, 1, Least(Positions(p, Nul)) - 1)

\* The while loop over fgets, by what is left to read.
TotalBuf[t \in Seq(Byte)] ==
    IF t = <<>> THEN <<>>
    ELSE CString(SubSeq(t, 1, PieceLen(t))) \o <<Sep>>
            \o TotalBuf[SubSeq(t, PieceLen(t) + 1, Len(t))]

GetLog(t, type, lines) == TotalBuf[Output(t, type, lines)]

-----------------------------------------------------------------------------
(***************************************************************************)
(* What a reader of the log expects: a separator at the end of each line,  *)
(* if the lines fit the buffer.                                            *)
(***************************************************************************)
Separated(t) ==
    FlattenSeq([i \in DOMAIN t |-> IF t[i] = Nl \/ i = Len(t) THEN <<t[i], Sep>>
                                   ELSE <<t[i]>>])

LinesFit(t) ==
    \A i, j \in 0 .. Len(t) :
        i < j /\ (\A p \in i + 1 .. j - 1 : t[p] # Nl) => j - i < BufLen
=============================================================================
