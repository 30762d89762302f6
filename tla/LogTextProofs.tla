--------------------------- MODULE LogTextProofs ----------------------------
(***************************************************************************)
(* Proofs about getLog: for any file and any size of its buffer, reading   *)
(* in pieces loses, doubles and reorders no byte of an output without NUL, *)
(* and when the lines fit the buffer each gets one separator, at its end.  *)
(*                                                                         *)
(* The loop is a recursive function of what is left to read.  That such a  *)
(* function exists has to be proved first (TotalBufDef): each round takes  *)
(* at least one byte.                                                      *)
(***************************************************************************)
EXTENDS LogText, SequenceLemmas, FiniteSetTheorems

\* A set of numbers has a least one.
LEMMA LeastProperties ==
    ASSUME NEW S \in SUBSET Nat, S # {}
    PROVE  Least(S) \in S /\ \A j \in S : Least(S) <= j
<1> DEFINE R == {p \in Nat \X Nat : p[1] < p[2]}
<1>1. IsWellFoundedOn(R, Nat)
  <2>1. IsWellFoundedOn(OpToRel(<, Nat), Nat)
    BY NatLessThanWellFounded
  <2>2. R = OpToRel(<, Nat)
    BY DEF OpToRel
  <2>3. QED
    BY <2>1, <2>2
<1>2. PICK m \in S : \A y \in S : ~(<<y, m>> \in R)
  <2>1. S \subseteq Nat
    OBVIOUS
  <2> HIDE DEF R
  <2>2. QED
    BY <1>1, <2>1, WFMin, Zenon
<1>3. \A y \in S : m <= y
  <2>1. ASSUME NEW y \in S
        PROVE  ~(y < m)
    BY <1>2
  <2>2. QED
    BY <2>1
<1>4. QED
  BY <1>2, <1>3 DEF Least

\* The positions of a byte are places of the text.
LEMMA PositionsType ==
    ASSUME NEW t \in Seq(Byte), NEW b
    PROVE  Positions(t, b) \subseteq 1 .. Len(t)
  BY DEF Positions

\* A piece ends with the text, with the buffer or with the first newline.
LEMMA PieceLenProperties ==
    ASSUME NEW t \in Seq(Byte)
    PROVE  LET n == PieceLen(t) IN
           /\ n \in 0 .. Len(t)
           /\ t # <<>> => n > 0
           /\ \A i \in 1 .. n - 1 : t[i] # Nl
           /\ n = Len(t) \/ n = BufLen - 1 \/ (n \in 1 .. Len(t) /\ t[n] = Nl)
<1> DEFINE S == {BufLen - 1, Len(t)} \cup Positions(t, Nl)
           n == PieceLen(t)
<1>1. Len(t) \in Nat /\ BufLen - 1 \in Nat /\ BufLen - 1 > 0
  BY BufLenAssumption
<1>2. S \in SUBSET Nat /\ S # {}
  BY <1>1, PositionsType
<1>3. n \in S /\ \A j \in S : n <= j
  <2> HIDE DEF S
  <2>1. n = Least(S)
    BY DEF PieceLen, S
  <2>2. QED
    BY <1>2, <2>1, LeastProperties
<1>4. \A i \in 1 .. Len(t) : t[i] = Nl <=> i \in Positions(t, Nl)
  BY DEF Positions
<1> HIDE DEF n
<1>5. n \in 0 .. Len(t)
  BY <1>1, <1>2, <1>3
<1>6. t # <<>> => n > 0
  <2>1. t # <<>> => Len(t) > 0
    OBVIOUS
  <2>2. QED
    BY <1>1, <1>3, <2>1, PositionsType
<1>7. \A i \in 1 .. n - 1 : t[i] # Nl
  BY <1>1, <1>3, <1>4, <1>5
<1>8. n = Len(t) \/ n = BufLen - 1 \/ (n \in 1 .. Len(t) /\ t[n] = Nl)
  BY <1>3, <1>4, PositionsType
<1>9. QED
  BY <1>5, <1>6, <1>7, <1>8 DEF n

\* std::string(buffer) is a text; without a NUL it is the buffer.
LEMMA CStringProperties ==
    ASSUME NEW p \in Seq(Byte)
    PROVE  /\ CString(p) \in Seq(Byte)
           /\ Positions(p, Nul) = {} => CString(p) = p
<1>1. CASE Positions(p, Nul) = {}
  BY <1>1 DEF CString
<1>2. CASE Positions(p, Nul) # {}
  <2> DEFINE k == Least(Positions(p, Nul))
  <2>1. k \in 1 .. Len(p)
    BY <1>2, PositionsType, LeastProperties
  <2>2. CString(p) = SubSeq(p, 1, k - 1)
    BY <1>2 DEF CString
  <2> HIDE DEF k
  <2>3. QED
    BY <1>2, <2>1, <2>2
<1>3. QED
  BY <1>1, <1>2

\* A text is cut into a piece and what is left to read.
Piece(t) == SubSeq(t, 1, PieceLen(t))
Left(t) == SubSeq(t, PieceLen(t) + 1, Len(t))

LEMMA CutProperties ==
    ASSUME NEW t \in Seq(Byte), NEW n \in 0 .. Len(t)
    PROVE  LET p == SubSeq(t, 1, n)
               r == SubSeq(t, n + 1, Len(t))
           IN  /\ p \in Seq(Byte) /\ Len(p) = n
               /\ \A i \in 1 .. n : p[i] = t[i]
               /\ r \in Seq(Byte) /\ Len(r) = Len(t) - n
               /\ \A i \in 1 .. Len(t) - n : r[i] = t[n + i]
               /\ p \o r = t
<1> DEFINE p == SubSeq(t, 1, n)
           r == SubSeq(t, n + 1, Len(t))
<1>1. Len(t) \in Nat /\ n \in Nat
  OBVIOUS
<1>2. /\ p \in Seq(Byte) /\ Len(p) = n
      /\ \A i \in 1 .. n : p[i] = t[i]
  OBVIOUS
<1>3. /\ r \in Seq(Byte) /\ Len(r) = Len(t) - n
      /\ \A i \in 1 .. Len(t) - n : r[i] = t[n + i]
  OBVIOUS
<1> HIDE DEF p, r
<1>4. /\ p \o r \in Seq(Byte) /\ Len(p \o r) = Len(p) + Len(r)
      /\ \A i \in 1 .. Len(p) + Len(r) :
            (p \o r)[i] = IF i <= Len(p) THEN p[i] ELSE r[i - Len(p)]
  BY <1>2, <1>3, ConcatProperties
<1>5. Len(p \o r) = Len(t)
  BY <1>1, <1>2, <1>3, <1>4
<1>6. ASSUME NEW i \in 1 .. Len(t)
      PROVE  (p \o r)[i] = t[i]
  <2>1. CASE i <= n
    BY <1>1, <1>2, <1>3, <1>4, <2>1
  <2>2. CASE ~(i <= n)
    <3>1. i - n \in 1 .. Len(t) - n /\ n + (i - n) = i
      BY <1>1, <2>2
    <3>2. QED
      BY <1>1, <1>2, <1>3, <1>4, <2>2, <3>1
  <2>3. QED
    BY <2>1, <2>2
<1>7. p \o r = t
  BY <1>4, <1>5, <1>6, SeqEqual
<1>8. QED
  BY <1>2, <1>3, <1>7 DEF p, r

-----------------------------------------------------------------------------
Text == Seq(Byte \cup {Sep})

\* One round of the loop: the piece, its separator, and what the others give.
Joined(t, v) == CString(Piece(t)) \o <<Sep>> \o v

\* Every round takes a byte, and gives a text.
LEMMA RoundProperties ==
    ASSUME NEW t \in Seq(Byte)
    PROVE  /\ Piece(t) \in Seq(Byte) /\ Left(t) \in Seq(Byte)
           /\ Len(Left(t)) = Len(t) - PieceLen(t) /\ Len(t) \in Nat
           /\ t # <<>> => Len(Left(t)) < Len(t)
           /\ \A v \in Text : Joined(t, v) \in Text
<1>1. PieceLen(t) \in 0 .. Len(t) /\ (t # <<>> => PieceLen(t) > 0) /\ Len(t) \in Nat
  BY PieceLenProperties
<1>2. /\ Piece(t) \in Seq(Byte) /\ Left(t) \in Seq(Byte)
      /\ Len(Left(t)) = Len(t) - PieceLen(t)
  BY <1>1, CutProperties DEF Piece, Left
<1>3. ASSUME NEW v \in Text
      PROVE  Joined(t, v) \in Text
  <2> DEFINE c == CString(Piece(t))
  <2>1. c \in Seq(Byte)
    BY <1>2, CStringProperties
  <2> HIDE DEF c
  <2>2. c \in Text /\ <<Sep>> \in Text
    BY <2>1 DEF Text
  <2>3. c \o <<Sep>> \in Text
    BY <2>2 DEF Text
  <2>4. (c \o <<Sep>>) \o v \in Text
    BY <2>3 DEF Text
  <2>5. QED
    BY <2>4 DEF Joined, c
<1>4. t # <<>> => Len(Left(t)) < Len(t)
  BY <1>1, <1>2
<1>5. QED
  BY <1>1, <1>2, <1>3, <1>4

\* The loop ends for every text, and TotalBuf is what it computes.
LEMMA TotalBufDef ==
    /\ TotalBuf \in [Seq(Byte) -> Text]
    /\ \A t \in Seq(Byte) :
          TotalBuf[t] = IF t = <<>> THEN <<>> ELSE Joined(t, TotalBuf[Left(t)])
<1> DEFINE IsLoop(f) == f = [t \in Seq(Byte) |->
                IF t = <<>> THEN <<>>
                ELSE CString(SubSeq(t, 1, PieceLen(t))) \o <<Sep>>
                        \o f[SubSeq(t, PieceLen(t) + 1, Len(t))]]
           S == Seq(Byte)
           size == [t \in S |-> Len(t)]
           rest == [t \in S |-> Left(t)]
           base == [t \in S |-> <<>>]
           join == [t \in S |-> [v \in Text |-> Joined(t, v)]]
<1>1. size \in [S -> Nat] /\ rest \in [S -> S]
  BY RoundProperties
<1>2. base \in [S -> Text]
  BY DEF Text
<1>3. join \in [S -> [Text -> Text]]
  BY RoundProperties
<1>4. \A t \in S : size[t] # 0 => size[rest[t]] < size[t]
  <2>1. ASSUME NEW t \in S, Len(t) # 0
        PROVE  Len(Left(t)) < Len(t) /\ Left(t) \in S
    BY <2>1, RoundProperties
  <2>2. QED
    BY <2>1
<1>5. PICK f : IsRecursion(f, S, Text, size, rest, base, join)
  <2> HIDE DEF S, size, rest, base, join
  <2>1. QED
    BY <1>1, <1>2, <1>3, <1>4, SizeRecursion
<1>6. f \in [S -> Text] /\ \A t \in S :
          f[t] = IF t = <<>> THEN <<>> ELSE Joined(t, f[Left(t)])
  <2>1. f \in [S -> Text] /\ \A t \in S :
          f[t] = IF size[t] = 0 THEN base[t] ELSE join[t][f[rest[t]]]
    <3> HIDE DEF S, size, rest, base, join
    <3>1. QED
      BY <1>5 DEF IsRecursion
  <2>2. ASSUME NEW t \in S
        PROVE  f[t] = IF t = <<>> THEN <<>> ELSE Joined(t, f[Left(t)])
    <3>1. size[t] = 0 <=> t = <<>>
      OBVIOUS
    <3>2. base[t] = <<>> /\ rest[t] = Left(t) /\ Left(t) \in S
      BY RoundProperties
    <3>3. f[Left(t)] \in Text
      BY <2>1, <3>2
    <3>4. join[t][f[Left(t)]] = Joined(t, f[Left(t)])
      BY <3>3
    <3> HIDE DEF S, size, rest, base, join
    <3>5. QED
      BY <2>1, <3>1, <3>2, <3>4
  <2>3. QED
    BY <2>1, <2>2
<1>7. IsLoop(f)
  <2>1. \A t \in Seq(Byte) : Joined(t, f[Left(t)]) =
            CString(SubSeq(t, 1, PieceLen(t))) \o <<Sep>>
                \o f[SubSeq(t, PieceLen(t) + 1, Len(t))]
    BY DEF Joined, Piece, Left
  <2>2. QED
    BY <1>6, <2>1
<1>8. IsLoop(TotalBuf)
  <2>1. TotalBuf = CHOOSE g : IsLoop(g)
    BY DEF TotalBuf
  <2> HIDE DEF IsLoop
  <2>2. QED
    BY <1>7, <2>1
<1>9. \A t \in Seq(Byte) :
          TotalBuf[t] = IF t = <<>> THEN <<>> ELSE Joined(t, TotalBuf[Left(t)])
  BY <1>8 DEF Joined, Piece, Left
<1>10. ASSUME NEW t \in Seq(Byte)
       PROVE  TotalBuf[t] = f[t]
  <2> DEFINE N == {n \in Nat : \A q \in Seq(Byte) : Len(q) <= n => TotalBuf[q] = f[q]}
  <2>1. 0 \in N
    <3>1. <<>> \in Seq(Byte) /\ \A q \in Seq(Byte) : Len(q) <= 0 => q = <<>>
      OBVIOUS
    <3>2. TotalBuf[<<>>] = f[<<>>]
      BY <1>6, <1>9, <3>1
    <3>3. QED
      BY <3>1, <3>2
  <2>2. ASSUME NEW n \in N
        PROVE  n + 1 \in N
    <3>1. ASSUME NEW q \in Seq(Byte), Len(q) <= n + 1, q # <<>>
          PROVE  TotalBuf[q] = f[q]
      <4>1. Left(q) \in Seq(Byte) /\ Len(Left(q)) <= n
        <5>1. /\ Left(q) \in Seq(Byte) /\ Len(Left(q)) \in Nat /\ Len(q) \in Nat
              /\ Len(Left(q)) < Len(q)
          BY <3>1, RoundProperties
        <5>2. QED
          BY <3>1, <5>1
      <4>2. TotalBuf[Left(q)] = f[Left(q)]
        BY <4>1
      <4>3. QED
        BY <1>6, <1>9, <3>1, <4>2
    <3>2. ASSUME NEW q \in Seq(Byte), q = <<>>
          PROVE  TotalBuf[q] = f[q]
      BY <1>6, <1>9, <3>2
    <3>3. QED
      BY <3>1, <3>2
  <2> HIDE DEF N
  <2>3. N \in SUBSET Nat
    BY DEF N
  <2>4. N = Nat
    BY <2>1, <2>2, <2>3, SetInduction
  <2>5. Len(t) \in Nat
    OBVIOUS
  <2>6. QED
    BY <2>4, <2>5 DEF N
<1>11. TotalBuf \in [Seq(Byte) -> Text]
  <2>1. DOMAIN TotalBuf = Seq(Byte) /\ TotalBuf = [t \in Seq(Byte) |-> TotalBuf[t]]
    BY <1>8
  <2>2. \A t \in Seq(Byte) : TotalBuf[t] \in Text
    BY <1>6, <1>10
  <2>3. QED
    BY <2>1, <2>2
<1>12. QED
  BY <1>9, <1>11

-----------------------------------------------------------------------------
\* Only the separator goes when a text is stripped of what is no byte.
LEMMA StripSep == Only(<<Sep>>, Byte) = <<>>
<1>1. <<Sep>> = Append(<<>>, Sep) /\ <<>> \in Seq({Sep}) /\ Sep \in {Sep}
  OBVIOUS
<1>2. Only(Append(<<>>, Sep), Byte) = Only(<<>>, Byte)
  BY <1>1, OnlyAppend, ByteAssumption
<1>3. QED
  BY <1>1, <1>2, OnlyEmpty

\* Two texts are stripped one after the other.
LEMMA StripText ==
    ASSUME NEW s \in Text, NEW t \in Text
    PROVE  Only(s \o t, Byte) = Only(s, Byte) \o Only(t, Byte)
<1> DEFINE S == Byte \cup {Sep}
<1>1. s \in Seq(S) /\ t \in Seq(S)
  BY DEF Text
<1> HIDE DEF S
<1>2. QED
  BY <1>1, OnlyConcat

\* What a piece and the rest have not, the text has not.
LEMMA CutKeepsNulFree ==
    ASSUME NEW t \in Seq(Byte), Positions(t, Nul) = {}
    PROVE  Positions(Piece(t), Nul) = {} /\ Positions(Left(t), Nul) = {}
<1> DEFINE n == PieceLen(t)
<1>1. n \in 0 .. Len(t) /\ Len(t) \in Nat
  BY PieceLenProperties
<1>2. /\ Piece(t) \in Seq(Byte) /\ Len(Piece(t)) = n
      /\ \A i \in 1 .. n : Piece(t)[i] = t[i]
      /\ Left(t) \in Seq(Byte) /\ Len(Left(t)) = Len(t) - n
      /\ \A i \in 1 .. Len(t) - n : Left(t)[i] = t[n + i]
  BY <1>1, CutProperties DEF Piece, Left
<1>3. \A i \in 1 .. Len(t) : t[i] # Nul
  BY DEF Positions
<1> HIDE DEF n
<1>4. \A i \in 1 .. n : Piece(t)[i] # Nul
  BY <1>1, <1>2, <1>3
<1>5. \A i \in 1 .. Len(t) - n : Left(t)[i] # Nul
  <2>1. \A i \in 1 .. Len(t) - n : n + i \in 1 .. Len(t)
    BY <1>1
  <2>2. QED
    BY <1>2, <1>3, <2>1
<1>6. DOMAIN Piece(t) = 1 .. n /\ DOMAIN Left(t) = 1 .. Len(t) - n
  BY <1>2
<1>7. QED
  BY <1>4, <1>5, <1>6 DEF Positions

\* One round on an output without NUL: the piece is what was read.
LEMMA NulFreeRound ==
    ASSUME NEW t \in Seq(Byte), Positions(t, Nul) = {}, t # <<>>
    PROVE  /\ TotalBuf[t] = (Piece(t) \o <<Sep>>) \o TotalBuf[Left(t)]
           /\ Piece(t) \o Left(t) = t
           /\ Piece(t) \in Seq(Byte) /\ Left(t) \in Seq(Byte)
           /\ Len(Left(t)) < Len(t) /\ Len(Left(t)) \in Nat
           /\ TotalBuf[Left(t)] \in Text
<1>1. CString(Piece(t)) = Piece(t)
  BY RoundProperties, CStringProperties, CutKeepsNulFree
<1>2. TotalBuf[t] = Joined(t, TotalBuf[Left(t)])
  BY TotalBufDef
<1>3. Joined(t, TotalBuf[Left(t)]) = (Piece(t) \o <<Sep>>) \o TotalBuf[Left(t)]
  BY <1>1 DEF Joined
<1>4. Piece(t) \o Left(t) = t
  <2>1. PieceLen(t) \in 0 .. Len(t)
    BY PieceLenProperties
  <2>2. QED
    BY <2>1, CutProperties DEF Piece, Left
<1>5. QED
  BY <1>2, <1>3, <1>4, RoundProperties, TotalBufDef

(***************************************************************************)
(* Nothing is lost, doubled or reordered: without the separators the text  *)
(* is the output of the command, whatever the size of the buffer, if the   *)
(* output has no NUL.                                                      *)
(***************************************************************************)
THEOREM ReadingIsComplete ==
    ASSUME NEW t \in Seq(Byte), Positions(t, Nul) = {}
    PROVE  Only(TotalBuf[t], Byte) = t
<1> DEFINE N == {n \in Nat : \A q \in Seq(Byte) :
                    Len(q) <= n /\ Positions(q, Nul) = {} => Only(TotalBuf[q], Byte) = q}
<1>1. 0 \in N
  <2>1. <<>> \in Seq(Byte) /\ \A q \in Seq(Byte) : Len(q) <= 0 => q = <<>>
    OBVIOUS
  <2>2. Only(TotalBuf[<<>>], Byte) = <<>>
    BY <2>1, TotalBufDef, OnlyEmpty
  <2>3. QED
    BY <2>1, <2>2
<1>2. ASSUME NEW n \in N
      PROVE  n + 1 \in N
  <2>1. ASSUME NEW q \in Seq(Byte), Len(q) <= n + 1, Positions(q, Nul) = {}, q # <<>>
        PROVE  Only(TotalBuf[q], Byte) = q
    <3> DEFINE p == Piece(q)
               r == Left(q)
               v == TotalBuf[r]
    <3>1. /\ TotalBuf[q] = (p \o <<Sep>>) \o v /\ p \o r = q
          /\ p \in Seq(Byte) /\ r \in Seq(Byte) /\ v \in Text
          /\ Len(r) < Len(q) /\ Len(r) \in Nat /\ Len(q) \in Nat
      <4>1. Len(q) \in Nat
        OBVIOUS
      <4> HIDE DEF p, r, v
      <4>2. QED
        BY <2>1, <4>1, NulFreeRound DEF p, r, v
    <3>2. Positions(r, Nul) = {}
      BY <2>1, CutKeepsNulFree
    <3>3. Only(v, Byte) = r
      <4>1. Len(r) <= n
        BY <2>1, <3>1
      <4>2. QED
        BY <3>1, <3>2, <4>1
    <3> HIDE DEF p, r, v
    <3>4. p \in Text /\ <<Sep>> \in Text /\ p \o <<Sep>> \in Text
      BY <3>1 DEF Text
    <3>5. Only((p \o <<Sep>>) \o v, Byte) = Only(p \o <<Sep>>, Byte) \o Only(v, Byte)
      BY <3>1, <3>4, StripText
    <3>6. Only(p \o <<Sep>>, Byte) = Only(p, Byte) \o Only(<<Sep>>, Byte)
      BY <3>4, StripText
    <3>7. Only(p, Byte) = p
      BY <3>1, OnlyAll
    <3>8. p \o <<>> = p
      BY <3>1
    <3>9. QED
      BY <3>1, <3>3, <3>5, <3>6, <3>7, <3>8, StripSep
  <2>2. ASSUME NEW q \in Seq(Byte), q = <<>>
        PROVE  Only(TotalBuf[q], Byte) = q
    BY <2>2, TotalBufDef, OnlyEmpty
  <2>3. QED
    BY <2>1, <2>2
<1> HIDE DEF N
<1>3. N \in SUBSET Nat
  BY DEF N
<1>4. N = Nat
  BY <1>1, <1>2, <1>3, SetInduction
<1>5. Len(t) \in Nat
  OBVIOUS
<1>6. QED
  BY <1>4, <1>5 DEF N

-----------------------------------------------------------------------------
(***************************************************************************)
(* The separators.  IsSeparating is the loop of Separated over a text, one *)
(* byte a round.                                                           *)
(***************************************************************************)
Chunk(t, i) == IF t[i] = Nl \/ i = Len(t) THEN <<t[i], Sep>> ELSE <<t[i]>>

IsSeparating(f, t) ==
    /\ f[1] = Chunk(t, 1)
    /\ \A i \in 2 .. Len(t) : f[i] = f[i - 1] \o Chunk(t, i)
    /\ \A i \in 1 .. Len(t) : f[i] \in Text

LEMMA SeparatedLoop ==
    ASSUME NEW t \in Seq(Byte), t # <<>>
    PROVE  \E f : IsSeparating(f, t) /\ Separated(t) = f[Len(t)]
<1> DEFINE s == [i \in DOMAIN t |-> Chunk(t, i)]
           n == Len(t)
           S == Byte \cup {Sep}
<1>1. n \in Nat \ {0} /\ DOMAIN t = 1 .. n
  OBVIOUS
<1>2. Len(s) = n /\ \A i \in 1 .. n : s[i] = Chunk(t, i)
  BY <1>1
<1>3. s # <<>>
  <2>1. DOMAIN s = 1 .. n /\ 1 \in 1 .. n
    BY <1>1
  <2>2. QED
    BY <2>1
<1>4. \A i \in 1 .. n : Chunk(t, i) \in Seq(S)
  <2>1. \A i \in 1 .. n : t[i] \in S /\ Sep \in S
    BY <1>1
  <2> HIDE DEF S
  <2>2. \A b, c \in S : <<b, c>> \in Seq(S) /\ <<b>> \in Seq(S)
    OBVIOUS
  <2>3. QED
    BY <2>1, <2>2 DEF Chunk
<1>5. Separated(t) = FlattenSeq(s)
  BY DEF Separated, Chunk
<1> HIDE DEF s, n, S
<1>6. \A i \in 1 .. Len(s) : s[i] \in Seq(S)
  BY <1>2, <1>4
<1>7. PICK f : /\ IsFlatten(f, s) /\ FlattenSeq(s) = f[Len(s)]
               /\ \A i \in 1 .. Len(s) : f[i] \in Seq(S)
  BY <1>1, <1>2, <1>3, <1>6, FlattenExists
<1>8. f[1] = Chunk(t, 1) /\ \A i \in 2 .. n : f[i] = f[i - 1] \o Chunk(t, i)
  <2>1. \A i \in 1 .. n : f[i] = IF i = 1 THEN s[i] ELSE f[i - 1] \o s[i]
    BY <1>2, <1>7 DEF IsFlatten
  <2>2. 1 \in 1 .. n /\ \A i \in 2 .. n : i \in 1 .. n /\ i # 1
    BY <1>1
  <2>3. QED
    BY <1>2, <2>1, <2>2
<1>9. IsSeparating(f, t)
  BY <1>2, <1>7, <1>8 DEF IsSeparating, Text, n, S
<1>10. QED
  BY <1>2, <1>5, <1>7, <1>9 DEF n

\* A text up to the next byte.
LEMMA SubSeqNext ==
    ASSUME NEW t \in Seq(Byte), NEW i \in 0 .. Len(t) - 1
    PROVE  SubSeq(t, 1, i + 1) = SubSeq(t, 1, i) \o <<t[i + 1]>>
<1> DEFINE a == SubSeq(t, 1, i + 1)
           b == SubSeq(t, 1, i)
           c == b \o <<t[i + 1]>>
<1>1. i \in Nat /\ Len(t) \in Nat /\ i + 1 <= Len(t) /\ t[i + 1] \in Byte
  OBVIOUS
<1>2. a \in Seq(Byte) /\ Len(a) = i + 1 /\ \A j \in 1 .. i + 1 : a[j] = t[j]
  BY <1>1
<1>3. b \in Seq(Byte) /\ Len(b) = i /\ \A j \in 1 .. i : b[j] = t[j]
  BY <1>1
<1> HIDE DEF a, b
<1>4. c \in Seq(Byte) /\ Len(c) = i + 1 /\ (\A j \in 1 .. i : c[j] = b[j]) /\ c[i + 1] = t[i + 1]
  BY <1>1, <1>3
<1> HIDE DEF c
<1>5. \A j \in 1 .. i + 1 : a[j] = c[j]
  <2>1. \A j \in 1 .. i + 1 : j \in 1 .. i \/ j = i + 1
    BY <1>1
  <2>2. QED
    BY <1>2, <1>3, <1>4, <2>1
<1>6. a = c
  BY <1>2, <1>4, <1>5, SeqEqual
<1>7. QED
  BY <1>6 DEF a, b, c

LEMMA SubSeqFirst ==
    ASSUME NEW t \in Seq(Byte), Len(t) > 0
    PROVE  SubSeq(t, 1, 1) = <<t[1]>>
<1> DEFINE a == SubSeq(t, 1, 1)
           b == <<t[1]>>
<1>1. a \in Seq(Byte) /\ Len(a) = 1 /\ a[1] = t[1]
  OBVIOUS
<1>2. b \in Seq(Byte) /\ Len(b) = 1 /\ b[1] = t[1]
  OBVIOUS
<1> HIDE DEF a, b
<1>3. \A i \in 1 .. 1 : a[i] = b[i]
  <2>1. \A i \in 1 .. 1 : i = 1
    OBVIOUS
  <2>2. QED
    BY <1>1, <1>2, <2>1
<1>4. a = b
  BY <1>1, <1>2, <1>3, SeqEqual
<1>5. QED
  BY <1>4 DEF a, b

\* Before a line ends, the loop has copied it.
LEMMA SeparatingCopies ==
    ASSUME NEW t \in Seq(Byte), NEW f, IsSeparating(f, t), NEW n \in 1 .. Len(t),
           \A i \in 1 .. n - 1 : t[i] # Nl
    PROVE  \A i \in 1 .. n - 1 : f[i] = SubSeq(t, 1, i)
<1> DEFINE Done == {i \in Nat : i \in 1 .. n - 1 => f[i] = SubSeq(t, 1, i)}
<1>1. 0 \in Done
  OBVIOUS
<1>2. ASSUME NEW i \in Done
      PROVE  i + 1 \in Done
  <2> SUFFICES ASSUME i + 1 \in 1 .. n - 1
               PROVE  f[i + 1] = SubSeq(t, 1, i + 1)
    OBVIOUS
  <2>1. /\ i \in Nat /\ Len(t) \in Nat /\ n \in Nat /\ i + 1 < Len(t)
        /\ t[i + 1] # Nl
    OBVIOUS
  <2>2. Chunk(t, i + 1) = <<t[i + 1]>>
    BY <2>1 DEF Chunk
  <2>3. CASE i = 0
    <3>1. f[1] = Chunk(t, 1) /\ i + 1 = 1
      BY <2>3 DEF IsSeparating
    <3>2. SubSeq(t, 1, 1) = <<t[1]>>
      BY <2>1, <2>3, SubSeqFirst
    <3>3. QED
      BY <2>2, <3>1, <3>2
  <2>4. CASE i # 0
    <3>1. i \in 1 .. n - 1 /\ i + 1 \in 2 .. Len(t) /\ (i + 1) - 1 = i
      BY <2>1, <2>4
    <3>2. f[i] = SubSeq(t, 1, i)
      BY <3>1
    <3>3. f[i + 1] = f[i] \o <<t[i + 1]>>
      BY <2>2, <3>1 DEF IsSeparating
    <3>4. SubSeq(t, 1, i + 1) = SubSeq(t, 1, i) \o <<t[i + 1]>>
      BY <2>1, SubSeqNext
    <3>5. QED
      BY <3>2, <3>3, <3>4
  <2>5. QED
    BY <2>3, <2>4
<1> HIDE DEF Done
<1>3. Done \in SUBSET Nat
  BY DEF Done
<1>4. Done = Nat
  BY <1>1, <1>2, <1>3, SetInduction
<1>5. \A i \in 1 .. n - 1 : i \in Nat
  OBVIOUS
<1>6. QED
  BY <1>4, <1>5 DEF Done

\* A byte and its separator, one after the other.
LEMMA TwoBytes ==
    ASSUME NEW s \in Text, NEW b \in Byte
    PROVE  s \o <<b, Sep>> = (s \o <<b>>) \o <<Sep>>
<1> DEFINE S == Byte \cup {Sep}
<1>1. s \in Seq(S) /\ <<b>> \in Seq(S) /\ Sep \in S /\ b \in S
  BY DEF Text
<1> HIDE DEF S
<1>2. <<b, Sep>> = Append(<<b>>, Sep)
  OBVIOUS
<1>3. s \o Append(<<b>>, Sep) = Append(s \o <<b>>, Sep)
  BY <1>1, ConcatAppend
<1>4. s \o <<b>> \in Seq(S)
  BY <1>1
<1>5. Append(s \o <<b>>, Sep) = (s \o <<b>>) \o <<Sep>>
  BY <1>1, <1>4
<1>6. QED
  BY <1>2, <1>3, <1>5

\* Where a line ends, the loop has copied it and its separator.
LEMMA SeparatingLine ==
    ASSUME NEW t \in Seq(Byte), NEW f, IsSeparating(f, t), NEW n \in 1 .. Len(t),
           \A i \in 1 .. n - 1 : t[i] # Nl, t[n] = Nl \/ n = Len(t)
    PROVE  f[n] = SubSeq(t, 1, n) \o <<Sep>>
<1>1. Chunk(t, n) = <<t[n], Sep>>
  BY DEF Chunk
<1>2. /\ n \in Nat /\ Len(t) \in Nat /\ Len(t) > 0 /\ t[n] \in Byte /\ (n - 1) + 1 = n
      /\ n - 1 \in 0 .. Len(t) - 1
  OBVIOUS
<1>3. CASE n = 1
  <2>1. f[1] = <<t[1], Sep>>
    BY <1>1, <1>3 DEF IsSeparating
  <2>2. SubSeq(t, 1, 1) = <<t[1]>>
    BY <1>2, SubSeqFirst
  <2>3. <<t[1], Sep>> = <<t[1]>> \o <<Sep>>
    OBVIOUS
  <2>4. QED
    BY <1>3, <2>1, <2>2, <2>3
<1>4. CASE n # 1
  <2>1. n - 1 \in 1 .. n - 1 /\ n \in 2 .. Len(t)
    BY <1>2, <1>4
  <2>2. f[n] = f[n - 1] \o <<t[n], Sep>>
    BY <1>1, <2>1 DEF IsSeparating
  <2>3. f[n - 1] = SubSeq(t, 1, n - 1)
    BY <2>1, SeparatingCopies
  <2>4. SubSeq(t, 1, n) = SubSeq(t, 1, n - 1) \o <<t[n]>>
    <3>1. SubSeq(t, 1, (n - 1) + 1) = SubSeq(t, 1, n - 1) \o <<t[(n - 1) + 1]>>
      BY <1>2, SubSeqNext
    <3>2. QED
      BY <1>2, <3>1
  <2>5. SubSeq(t, 1, n - 1) \in Text
    <3>1. n - 1 \in 1 .. Len(t)
      BY <1>2, <2>1
    <3>2. f[n - 1] \in Text
      BY <3>1 DEF IsSeparating
    <3>3. QED
      BY <2>3, <3>2
  <2>6. SubSeq(t, 1, n - 1) \o <<t[n], Sep>> = (SubSeq(t, 1, n - 1) \o <<t[n]>>) \o <<Sep>>
    BY <1>2, <2>5, TwoBytes
  <2>7. QED
    BY <2>2, <2>3, <2>4, <2>6
<1>5. QED
  BY <1>3, <1>4

\* Three texts, one after the other.
LEMMA JoinText ==
    ASSUME NEW a \in Text, NEW b \in Text, NEW c \in Text
    PROVE  (a \o b) \o c = a \o (b \o c)
  BY ConcatAssociative DEF Text

Continues(f, n, h, m) == \A j \in 1 .. m : f[n + j] = f[n] \o h[j]

\* After a line, the loop does what it would do on the rest alone.
LEMMA SeparatingRest ==
    ASSUME NEW t \in Seq(Byte), NEW f, IsSeparating(f, t), NEW n \in 1 .. Len(t),
           NEW r \in Seq(Byte), NEW h, IsSeparating(h, r),
           n < Len(t), Len(r) = Len(t) - n,
           \A j \in 1 .. Len(t) - n : r[j] = t[n + j]
    PROVE  Continues(f, n, h, Len(r))
<1> DEFINE m == Len(r)
<1>1. m \in Nat /\ Len(t) \in Nat /\ n \in Nat /\ n > 0 /\ m > 0 /\ Len(t) = n + m
  OBVIOUS
<1>2. ASSUME NEW j \in 1 .. m
      PROVE  /\ f[n + j] = f[n + (j - 1)] \o Chunk(r, j)
             /\ f[n + j] \in Text /\ h[j] \in Text /\ Chunk(r, j) \in Text
  <2>1. /\ n + j \in 2 .. Len(t) /\ n + j \in 1 .. Len(t)
        /\ (n + j) - 1 = n + (j - 1) /\ (j = m <=> n + j = Len(t))
        /\ j \in 1 .. Len(r)
    BY <1>1
  <2>2. r[j] = t[n + j] /\ r[j] \in Byte
    BY <1>1
  <2>3. Chunk(r, j) = Chunk(t, n + j)
    BY <2>1, <2>2 DEF Chunk
  <2>4. f[n + j] = f[(n + j) - 1] \o Chunk(t, n + j)
    BY <2>1 DEF IsSeparating
  <2>5. Chunk(r, j) \in Text
    <3> DEFINE S == Byte \cup {Sep}
    <3>1. r[j] \in S /\ Sep \in S
      BY <2>2
    <3> HIDE DEF S
    <3>2. \A b, c \in S : <<b, c>> \in Seq(S) /\ <<b>> \in Seq(S)
      OBVIOUS
    <3>3. <<r[j], Sep>> \in Seq(S) /\ <<r[j]>> \in Seq(S)
      BY <3>1, <3>2
    <3>4. QED
      BY <3>3 DEF Chunk, Text, S
  <2>6. f[n + j] \in Text /\ h[j] \in Text
    BY <2>1 DEF IsSeparating
  <2>7. f[n + j] = f[n + (j - 1)] \o Chunk(r, j)
    BY <2>1, <2>3, <2>4
  <2>8. QED
    BY <2>5, <2>6, <2>7
<1>3. f[n] \in Text
  BY <1>1 DEF IsSeparating
<1> DEFINE Done == {j \in Nat : j + 1 \in 1 .. m => f[n + (j + 1)] = f[n] \o h[j + 1]}
<1>4. 0 \in Done
  <2>1. 1 \in 1 .. m /\ n + (1 - 1) = n /\ 0 + 1 = 1
    BY <1>1
  <2>2. h[1] = Chunk(r, 1)
    BY DEF IsSeparating
  <2>3. f[n + 1] = f[n] \o h[1]
    BY <1>2, <2>1, <2>2
  <2>4. QED
    BY <2>1, <2>3
<1>5. ASSUME NEW j \in Done
      PROVE  j + 1 \in Done
  <2>1. ASSUME (j + 1) + 1 \in 1 .. m
        PROVE  f[n + ((j + 1) + 1)] = f[n] \o h[(j + 1) + 1]
    <3>1. /\ j \in Nat /\ j + 1 \in 1 .. m /\ (j + 1) + 1 \in 2 .. m
          /\ ((j + 1) + 1) - 1 = j + 1 /\ j + 1 \in Nat
      BY <1>1, <2>1
    <3>2. f[n + (j + 1)] = f[n] \o h[j + 1]
      BY <3>1
    <3> DEFINE k == j + 1
    <3>3. k \in 1 .. m /\ k + 1 \in 2 .. m /\ k + 1 \in 1 .. m /\ (k + 1) - 1 = k
      BY <2>1, <3>1
    <3>4. f[n + k] = f[n] \o h[k]
      BY <3>2
    <3> HIDE DEF k, Done
    <3>5. /\ f[n + (k + 1)] = f[n + ((k + 1) - 1)] \o Chunk(r, k + 1)
          /\ Chunk(r, k + 1) \in Text
      BY <1>2, <3>3
    <3>6. h[k + 1] = h[(k + 1) - 1] \o Chunk(r, k + 1)
      BY <3>3 DEF IsSeparating
    <3>7. h[k] \in Text
      BY <1>2, <3>3
    <3>8. (f[n] \o h[k]) \o Chunk(r, k + 1) = f[n] \o (h[k] \o Chunk(r, k + 1))
      BY <1>3, <3>5, <3>7, JoinText
    <3>9. f[n + (k + 1)] = f[n] \o h[k + 1]
      BY <3>3, <3>4, <3>5, <3>6, <3>8
    <3>10. QED
      BY <3>9 DEF k
  <2>2. j + 1 \in Nat
    OBVIOUS
  <2>3. QED
    BY <2>1, <2>2
<1> HIDE DEF Done
<1>6. Done \in SUBSET Nat
  BY DEF Done
<1>7. Done = Nat
  BY <1>4, <1>5, <1>6, SetInduction
<1>8. ASSUME NEW j \in 1 .. m
      PROVE  f[n + j] = f[n] \o h[j]
  <2>1. j - 1 \in Nat /\ (j - 1) + 1 = j
    OBVIOUS
  <2>2. QED
    BY <1>7, <2>1 DEF Done
<1>9. QED
  BY <1>8 DEF Continues

LEMMA SeparatedEmpty == Separated(<<>>) = <<>>
<1> DEFINE s == [i \in DOMAIN <<>> |-> IF <<>>[i] = Nl \/ i = Len(<<>>) THEN <<<<>>[i], Sep>>
                                         ELSE <<<<>>[i]>>]
<1>1. s = <<>>
  OBVIOUS
<1>2. Separated(<<>>) = FlattenSeq(s)
  BY DEF Separated
<1> HIDE DEF s
<1>3. QED
  BY <1>1, <1>2 DEF FlattenSeq

\* If the lines fit, a piece ends with a line or with the text.
LEMMA FittingPiece ==
    ASSUME NEW t \in Seq(Byte), t # <<>>, LinesFit(t)
    PROVE  t[PieceLen(t)] = Nl \/ PieceLen(t) = Len(t)
<1> DEFINE n == PieceLen(t)
<1>1. /\ n \in 1 .. Len(t) /\ Len(t) \in Nat
      /\ \A i \in 1 .. n - 1 : t[i] # Nl
      /\ n = Len(t) \/ n = BufLen - 1 \/ t[n] = Nl
  BY PieceLenProperties
<1> HIDE DEF n
<1>2. ASSUME n # Len(t), t[n] # Nl
      PROVE  FALSE
  <2>1. n = BufLen - 1 /\ n + 1 = BufLen /\ n \in Nat
    BY <1>1, <1>2, BufLenAssumption
  <2>2. 0 \in 0 .. Len(t) /\ n + 1 \in 0 .. Len(t) /\ 0 < n + 1 /\ 0 + 1 = 1 /\ (n + 1) - 1 = n
    BY <1>1, <1>2
  <2>3. \A p \in 1 .. n : t[p] # Nl
    <3>1. \A p \in 1 .. n : p = n \/ p \in 1 .. n - 1
      BY <2>1
    <3>2. QED
      BY <1>1, <1>2, <3>1
  <2>4. (n + 1) - 0 < BufLen
    BY <2>2, <2>3 DEF LinesFit
  <2>5. QED
    BY <2>1, <2>4, BufLenAssumption
<1>3. QED
  BY <1>2 DEF n

\* The lines of the rest are lines of the text.
LEMMA FittingRest ==
    ASSUME NEW t \in Seq(Byte), LinesFit(t)
    PROVE  LinesFit(Left(t))
<1> DEFINE n == PieceLen(t)
           r == Left(t)
<1>1. n \in 0 .. Len(t) /\ Len(t) \in Nat /\ n \in Nat
  BY PieceLenProperties
<1>2. /\ r \in Seq(Byte) /\ Len(r) = Len(t) - n
      /\ \A i \in 1 .. Len(t) - n : r[i] = t[n + i]
  BY <1>1, CutProperties DEF Left
<1> HIDE DEF n, r
<1>3. ASSUME NEW i \in 0 .. Len(r), NEW j \in 0 .. Len(r), i < j,
             \A p \in i + 1 .. j - 1 : r[p] # Nl
      PROVE  j - i < BufLen
  <2>1. /\ i \in Nat /\ j \in Nat /\ n + i \in 0 .. Len(t) /\ n + j \in 0 .. Len(t)
        /\ n + i < n + j /\ (n + j) - (n + i) = j - i
    BY <1>1, <1>2, <1>3
  <2>2. ASSUME NEW p \in (n + i) + 1 .. (n + j) - 1
        PROVE  t[p] # Nl
    <3>1. p - n \in i + 1 .. j - 1 /\ p - n \in 1 .. Len(t) - n /\ n + (p - n) = p
      BY <1>1, <1>2, <2>1
    <3>2. r[p - n] # Nl /\ r[p - n] = t[n + (p - n)]
      BY <1>2, <1>3, <3>1
    <3>3. QED
      BY <3>1, <3>2
  <2>3. (n + j) - (n + i) < BufLen
    BY <2>1, <2>2 DEF LinesFit
  <2>4. QED
    BY <2>1, <2>3
<1>4. QED
  BY <1>3 DEF LinesFit, r

\* The first line, its separator, and the rest with its own.
LEMMA SeparatedStep ==
    ASSUME NEW t \in Seq(Byte), t # <<>>, LinesFit(t)
    PROVE  Separated(t) = (Piece(t) \o <<Sep>>) \o Separated(Left(t))
<1> DEFINE n == PieceLen(t)
           p == Piece(t)
           r == Left(t)
<1>1. /\ n \in 1 .. Len(t) /\ Len(t) \in Nat /\ n \in Nat
      /\ \A i \in 1 .. n - 1 : t[i] # Nl
  BY PieceLenProperties
<1>2. t[n] = Nl \/ n = Len(t)
  BY FittingPiece
<1>3. /\ r \in Seq(Byte) /\ Len(r) = Len(t) - n
      /\ \A j \in 1 .. Len(t) - n : r[j] = t[n + j]
  BY <1>1, CutProperties DEF Left
<1>4. PICK f : IsSeparating(f, t) /\ Separated(t) = f[Len(t)]
  BY SeparatedLoop
<1>5. p = SubSeq(t, 1, n)
  BY DEF Piece
<1> HIDE DEF n, p, r
<1>6. f[n] = p \o <<Sep>> /\ f[n] \in Text
  <2>1. f[n] = SubSeq(t, 1, n) \o <<Sep>>
    BY <1>1, <1>2, <1>4, SeparatingLine
  <2>2. QED
    BY <1>1, <1>4, <1>5, <2>1 DEF IsSeparating
<1>7. CASE n = Len(t)
  <2>1. r = <<>>
    BY <1>1, <1>3, <1>7
  <2>2. f[n] \o <<>> = f[n]
    BY <1>6 DEF Text
  <2>3. QED
    BY <1>4, <1>6, <1>7, <2>1, <2>2, SeparatedEmpty DEF p, r
<1>8. CASE n # Len(t)
  <2>1. n < Len(t) /\ r # <<>> /\ Len(r) \in 1 .. Len(r) /\ n + Len(r) = Len(t)
    BY <1>1, <1>3, <1>8
  <2>2. PICK h : IsSeparating(h, r) /\ Separated(r) = h[Len(r)]
    BY <1>3, <2>1, SeparatedLoop
  <2>3. Continues(f, n, h, Len(r))
    <3>1. n \in 1 .. Len(t) /\ r \in Seq(Byte) /\ n < Len(t) /\ Len(r) = Len(t) - n
      BY <1>1, <1>3, <2>1
    <3>2. IsSeparating(f, t) /\ IsSeparating(h, r)
      BY <1>4, <2>2
    <3>3. \A j \in 1 .. Len(t) - n : r[j] = t[n + j]
      BY <1>3
    <3>4. QED
      BY <3>1, <3>2, <3>3, SeparatingRest, Zenon
  <2>4. f[Len(t)] = f[n] \o h[Len(r)]
    BY <2>1, <2>3 DEF Continues
  <2>5. QED
    BY <1>4, <1>6, <2>2, <2>4 DEF p, r
<1>9. QED
  BY <1>7, <1>8

(***************************************************************************)
(* Each line keeps its end: if every line fits the buffer, getLog's text   *)
(* has one separator after each newline and one after the text, and none   *)
(* within a line, if the output has no NUL.                                *)
(***************************************************************************)
THEOREM LinesKeepTheirEnds ==
    ASSUME NEW t \in Seq(Byte), Positions(t, Nul) = {}, LinesFit(t)
    PROVE  TotalBuf[t] = Separated(t)
<1> DEFINE N == {n \in Nat : \A q \in Seq(Byte) :
                    Len(q) <= n /\ Positions(q, Nul) = {} /\ LinesFit(q) =>
                        TotalBuf[q] = Separated(q)}
<1>1. 0 \in N
  <2>1. <<>> \in Seq(Byte) /\ \A q \in Seq(Byte) : Len(q) <= 0 => q = <<>>
    OBVIOUS
  <2>2. QED
    BY <2>1, TotalBufDef, SeparatedEmpty
<1>2. ASSUME NEW n \in N
      PROVE  n + 1 \in N
  <2>1. ASSUME NEW q \in Seq(Byte), Len(q) <= n + 1, Positions(q, Nul) = {}, LinesFit(q),
               q # <<>>
        PROVE  TotalBuf[q] = Separated(q)
    <3>1. /\ TotalBuf[q] = (Piece(q) \o <<Sep>>) \o TotalBuf[Left(q)]
          /\ Left(q) \in Seq(Byte)
          /\ Len(Left(q)) < Len(q) /\ Len(Left(q)) \in Nat /\ Len(q) \in Nat
      <4>1. Len(q) \in Nat
        OBVIOUS
      <4>2. QED
        BY <2>1, <4>1, NulFreeRound
    <3>2. Positions(Left(q), Nul) = {} /\ LinesFit(Left(q))
      BY <2>1, CutKeepsNulFree, FittingRest
    <3>3. TotalBuf[Left(q)] = Separated(Left(q))
      <4>1. Len(Left(q)) <= n
        BY <2>1, <3>1
      <4>2. QED
        BY <3>1, <3>2, <4>1
    <3>4. QED
      BY <2>1, <3>1, <3>3, SeparatedStep
  <2>2. ASSUME NEW q \in Seq(Byte), q = <<>>
        PROVE  TotalBuf[q] = Separated(q)
    BY <2>2, TotalBufDef, SeparatedEmpty
  <2>3. QED
    BY <2>1, <2>2
<1> HIDE DEF N
<1>3. N \in SUBSET Nat
  BY DEF N
<1>4. N = Nat
  BY <1>1, <1>2, <1>3, SetInduction
<1>5. Len(t) \in Nat
  OBVIOUS
<1>6. QED
  BY <1>4, <1>5 DEF N

-----------------------------------------------------------------------------
\* tail -n gives a text.
LEMMA OutputType ==
    ASSUME NEW t \in Seq(Byte), NEW type, NEW k \in Nat \cup {Refused}
    PROVE  Output(t, type, k) \in Seq(Byte)
<1>1. ASSUME k # Refused
      PROVE  Tailed(t, k) \in Seq(Byte)
  <2> DEFINE starts == {1} \cup {i + 1 : i \in Positions(t, Nl)}
             begins(i) == Cardinality({j \in starts : i <= j /\ j <= Len(t)})
             E == {i \in starts \cup {Len(t) + 1} : begins(i) <= k}
  <2>1. k \in Nat /\ Len(t) \in Nat
    BY <1>1
  <2>2. starts \subseteq 1 .. Len(t) + 1
    BY <2>1, PositionsType
  <2>3. Len(t) + 1 \in E
    <3> DEFINE C == {j \in starts : Len(t) + 1 <= j /\ j <= Len(t)}
    <3> HIDE DEF starts
    <3>1. C = {}
      <4>1. \A j \in 1 .. Len(t) + 1 : ~(Len(t) + 1 <= j /\ j <= Len(t))
        BY <2>1
      <4>2. \A j \in starts : ~(Len(t) + 1 <= j /\ j <= Len(t))
        BY <2>2, <4>1
      <4>3. QED
        BY <4>2
    <3> HIDE DEF C
    <3>2. Cardinality(C) = 0
      BY <3>1, FS_EmptySet
    <3>3. begins(Len(t) + 1) = 0
      BY <3>2 DEF C
    <3>4. 0 <= k
      BY <2>1
    <3> HIDE DEF begins
    <3>5. QED
      BY <3>3, <3>4
  <2>4. E \in SUBSET Nat /\ \A i \in E : i \in 1 .. Len(t) + 1
    <3> HIDE DEF begins
    <3>1. E \subseteq starts \cup {Len(t) + 1}
      OBVIOUS
    <3>2. Len(t) + 1 \in 1 .. Len(t) + 1
      BY <2>1
    <3> HIDE DEF E, starts
    <3>3. E \subseteq 1 .. Len(t) + 1
      BY <2>2, <3>1, <3>2
    <3>4. QED
      BY <2>1, <3>3
  <2>5. Tailed(t, k) = SubSeq(t, Least(E), Len(t))
    BY DEF Tailed
  <2> HIDE DEF starts, begins, E
  <2>6. Least(E) \in 1 .. Len(t) + 1
    BY <2>3, <2>4, LeastProperties
  <2>7. QED
    BY <2>1, <2>5, <2>6
<1>2. <<>> \in Seq(Byte)
  OBVIOUS
<1>3. QED
  BY <1>1, <1>2 DEF Output
=============================================================================
