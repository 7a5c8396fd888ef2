--------------------------- MODULE GatewayProofs ---------------------------
(***************************************************************************)
(* Proofs about the gateway.  The composition is shown to be a run of      *)
(* Aggregator and of CanRx, so what AggregatorProofs proves of the task    *)
(* holds in the gateway.  On top of that: every loss is counted, and the   *)
(* frames of one id reach the wire in the order of arrival.                *)
(***************************************************************************)
EXTENDS Gateway, AggregatorProofs, FiniteSetTheorems

(***************************************************************************)
(* One sequence after the other.  The partial concatenations are defined   *)
(* by recursion; what they are is shown with the least number principle.   *)
(***************************************************************************)
\* g lists the concatenations of the first 0, 1, 2... of seqs.
IsSums(g, seqs, n) == g[0] = <<>> /\ \A i \in 1..n : g[i] = g[i - 1] \o seqs[i]

\* There are such concatenations.
LEMMA SumsExist ==
    ASSUME NEW S, NEW seqs \in Seq(Seq(S))
    PROVE  \A n \in 0..Len(seqs) : \E g \in [0..n -> Seq(S)] : IsSums(g, seqs, n)
  <1> DEFINE T == {n \in 0..Len(seqs) : \E g \in [0..n -> Seq(S)] : IsSums(g, seqs, n)}
  <1>0. Len(seqs) \in Nat
    OBVIOUS
  <1>1. 0 \in T
    <2>1. [i \in 0..0 |-> <<>>] \in [0..0 -> Seq(S)]
      BY EmptySeq
    <2>2. IsSums([i \in 0..0 |-> <<>>], seqs, 0)
      BY DEF IsSums
    <2>3. 0 \in 0..Len(seqs)
      BY <1>0
    <2> QED
      BY <2>1, <2>2, <2>3
  <1>2. ASSUME NEW n \in 0..Len(seqs), n \in T, n # Len(seqs)
        PROVE  n + 1 \in T
    <2>1. PICK g \in [0..n -> Seq(S)] : IsSums(g, seqs, n)
      BY <1>2
    <2> DEFINE h == [i \in 0..n + 1 |-> IF i = n + 1 THEN g[n] \o seqs[n + 1] ELSE g[i]]
    <2>2. n \in Nat /\ n + 1 \in 1..Len(seqs) /\ n \in 0..n
      BY <1>0, <1>2
    <2>3. seqs[n + 1] \in Seq(S) /\ g[n] \in Seq(S)
      BY <2>2
    <2>4. g[n] \o seqs[n + 1] \in Seq(S)
      BY <2>3, ConcatProperties
    <2>5. h \in [0..n + 1 -> Seq(S)]
      <3>1. \A i \in 0..n + 1 : i # n + 1 => i \in 0..n
        BY <2>2
      <3>2. \A i \in 0..n + 1 : h[i] \in Seq(S)
        BY <2>4, <3>1
      <3> QED
        BY <3>2
    <2>6. IsSums(h, seqs, n + 1)
      <3>1. h[0] = <<>>
        BY <2>1, <2>2 DEF IsSums
      <3>2. ASSUME NEW i \in 1..n + 1
            PROVE  h[i] = h[i - 1] \o seqs[i]
        <4>1. CASE i = n + 1
          <5>1. i - 1 = n /\ i - 1 \in 0..n + 1 /\ i \in 0..n + 1 /\ i - 1 # n + 1
            BY <2>2, <4>1
          <5> QED
            BY <4>1, <5>1
        <4>2. CASE i # n + 1
          <5>1. i \in 1..n /\ i \in 0..n + 1 /\ i - 1 \in 0..n + 1 /\ i - 1 # n + 1
            BY <2>2, <4>2
          <5>2. g[i] = g[i - 1] \o seqs[i]
            BY <2>1, <5>1 DEF IsSums
          <5> QED
            BY <4>2, <5>1, <5>2
        <4> QED
          BY <4>1, <4>2
      <3> QED
        BY <3>1, <3>2 DEF IsSums
    <2>7. n + 1 \in 0..Len(seqs)
      BY <2>2
    <2> QED
      BY <2>5, <2>6, <2>7
  <1>3. \A n \in 0..Len(seqs) : n \in T
    <2> HIDE DEF T
    <2> QED
      BY <1>0, <1>1, <1>2, SegmentInduction
  <1> QED
    BY <1>3

\* They are determined by the sequences they join.
LEMMA SumsUnique ==
    ASSUME NEW n \in Nat, NEW g, NEW h, NEW ss, NEW tt,
           IsSums(g, ss, n), IsSums(h, tt, n), \A i \in 1..n : ss[i] = tt[i]
    PROVE  \A i \in 0..n : g[i] = h[i]
  <1> DEFINE T == {i \in 0..n : g[i] = h[i]}
  <1>1. 0 \in T
    BY DEF IsSums
  <1>2. ASSUME NEW i \in 0..n, i \in T, i # n
        PROVE  i + 1 \in T
    <2>1. i + 1 \in 1..n /\ (i + 1) - 1 = i /\ i + 1 \in 0..n
      BY <1>2
    <2>2. g[i + 1] = g[i] \o ss[i + 1] /\ h[i + 1] = h[i] \o tt[i + 1]
      BY <2>1 DEF IsSums
    <2> QED
      BY <1>2, <2>1, <2>2
  <1>3. \A i \in 0..n : i \in T
    <2> HIDE DEF T
    <2> QED
      BY <1>1, <1>2, SegmentInduction
  <1> QED
    BY <1>3

\* What Flatten is.
LEMMA FlattenIsSum ==
    ASSUME NEW S, NEW seqs \in Seq(Seq(S))
    PROVE  \E g \in [0..Len(seqs) -> Seq(S)] :
               IsSums(g, seqs, Len(seqs)) /\ Flatten(seqs) = g[Len(seqs)]
  <1> DEFINE Sums(g) == [i \in 0..Len(seqs) |-> IF i = 0 THEN <<>> ELSE g[i - 1] \o seqs[i]]
  <1>0. Len(seqs) \in Nat /\ Len(seqs) \in 0..Len(seqs)
    OBVIOUS
  <1>1. PICK g \in [0..Len(seqs) -> Seq(S)] : IsSums(g, seqs, Len(seqs))
    BY <1>0, SumsExist
  <1>2. g = Sums(g)
    <2>1. ASSUME NEW i \in 0..Len(seqs)
          PROVE  g[i] = IF i = 0 THEN <<>> ELSE g[i - 1] \o seqs[i]
      <3>1. i = 0 \/ i \in 1..Len(seqs)
        BY <1>0
      <3> QED
        BY <1>1, <3>1 DEF IsSums
    <2> QED
      BY <2>1
  <1>3. PICK h : h = Sums(h) /\ Flatten(seqs) = h[Len(seqs)]
    <2>1. Flatten(seqs) = (CHOOSE h : h = Sums(h))[Len(seqs)]
      BY DEF Flatten
    <2>2. (CHOOSE h : h = Sums(h)) = Sums(CHOOSE h : h = Sums(h))
      BY <1>2
    <2> QED
      BY <2>1, <2>2
  <1>4. IsSums(h, seqs, Len(seqs))
    <2>1. \A i \in 0..Len(seqs) : h[i] = IF i = 0 THEN <<>> ELSE h[i - 1] \o seqs[i]
      BY <1>3
    <2>2. 0 \in 0..Len(seqs) /\ \A i \in 1..Len(seqs) : i \in 0..Len(seqs) /\ i # 0
      BY <1>0
    <2>3. h[0] = <<>>
      BY <2>1, <2>2, Zenon
    <2>4. \A i \in 1..Len(seqs) : h[i] = h[i - 1] \o seqs[i]
      BY <2>1, <2>2, Zenon
    <2> QED
      BY <2>3, <2>4, Zenon DEF IsSums
  <1>5. h[Len(seqs)] = g[Len(seqs)]
    BY <1>0, <1>1, <1>4, SumsUnique
  <1> QED
    BY <1>1, <1>3, <1>5

\* Joining sequences over a set makes a sequence over the set.
LEMMA FlattenType ==
    ASSUME NEW S, NEW seqs \in Seq(Seq(S))
    PROVE  Flatten(seqs) \in Seq(S)
  <1>1. PICK g \in [0..Len(seqs) -> Seq(S)] : Flatten(seqs) = g[Len(seqs)]
    BY FlattenIsSum
  <1>2. Len(seqs) \in 0..Len(seqs)
    BY LenProperties
  <1> QED
    BY <1>1, <1>2

\* Joining no sequence makes the empty one.
LEMMA FlattenEmpty == Flatten(<<>>) = <<>>
  <1>1. <<>> \in Seq(Seq({})) /\ Len(<<>>) = 0
    BY EmptySeq
  <1>2. PICK g : IsSums(g, <<>>, 0) /\ Flatten(<<>>) = g[0]
    BY <1>1, FlattenIsSum
  <1> QED
    BY <1>2 DEF IsSums

\* One more sequence is joined at the end.
LEMMA FlattenAppend ==
    ASSUME NEW S, NEW seqs \in Seq(Seq(S)), NEW s \in Seq(S)
    PROVE  Flatten(Append(seqs, s)) = Flatten(seqs) \o s
  <1> DEFINE more == Append(seqs, s)
             n == Len(seqs)
  <1>1. /\ more \in Seq(Seq(S)) /\ Len(more) = n + 1 /\ n \in Nat
        /\ more[n + 1] = s
        /\ \A i \in 1..n : more[i] = seqs[i]
    BY AppendProperties, LenProperties
  <1>2. PICK g : IsSums(g, more, n + 1) /\ Flatten(more) = g[n + 1]
    <2> HIDE DEF more, n
    <2> QED
      BY <1>1, FlattenIsSum
  <1>3. PICK h : IsSums(h, seqs, n) /\ Flatten(seqs) = h[n]
    BY FlattenIsSum
  <1> HIDE DEF more, n
  <1>4. IsSums(g, more, n)
    <2>1. \A i \in 1..n : i \in 1..n + 1
      BY <1>1
    <2> QED
      BY <1>2, <2>1, Zenon DEF IsSums
  <1>5. g[n] = h[n]
    <2>1. \A i \in 0..n : g[i] = h[i]
      BY <1>1, <1>3, <1>4, SumsUnique
    <2> QED
      BY <1>1, <2>1
  <1>6. n + 1 \in 1..n + 1 /\ (n + 1) - 1 = n
    BY <1>1
  <1>7. g[n + 1] = g[(n + 1) - 1] \o more[n + 1]
    BY <1>2, <1>6, Zenon DEF IsSums
  <1>8. Flatten(more) = Flatten(seqs) \o s
    BY <1>1, <1>2, <1>3, <1>5, <1>6, <1>7
  <1> QED
    BY <1>8 DEF more

\* Something in front stays in front.
LEMMA JoinFront ==
    ASSUME NEW S, NEW a \in Seq(S), NEW b \in Seq(S), NEW c \in Seq(S),
           NEW x, NEW y, x = a \o b, y = b \o c
    PROVE  x \o c = a \o y
  BY ConcatAssociative

\* The concatenations g of a sequence ss and those, h, of its tail.
HaveTail(S, n, g, ss, h, tl) ==
    /\ n \in Nat
    /\ IsSums(g, ss, n + 1)
    /\ IsSums(h, tl, n)
    /\ ss[1] \in Seq(S)
    /\ \A i \in 0..n : h[i] \in Seq(S)
    /\ \A i \in 1..n : tl[i] \in Seq(S) /\ tl[i] = ss[i + 1]

HeadInFront(n, g, ss, h) == g[n + 1] = ss[1] \o h[n]

LEMMA TailSums ==
    ASSUME NEW S, NEW n, NEW g, NEW ss, NEW h, NEW tl, HaveTail(S, n, g, ss, h, tl)
    PROVE  HeadInFront(n, g, ss, h)
  <1>0. PICK hd \in Seq(S) : hd = ss[1]
    BY DEF HaveTail
  <1>n. n \in Nat /\ IsSums(g, ss, n + 1) /\ IsSums(h, tl, n)
    BY Zenon DEF HaveTail
  <1>t. /\ \A i \in 0..n : h[i] \in Seq(S)
        /\ \A i \in 1..n : tl[i] \in Seq(S) /\ tl[i] = ss[i + 1]
    BY Zenon DEF HaveTail
  <1> DEFINE T == {i \in 0..n : g[i + 1] = hd \o h[i]}
  <1>1. 0 \in T
    <2>1. 1 \in 1..n + 1 /\ 1 - 1 = 0 /\ 0 + 1 = 1 /\ 0 \in 0..n
      BY <1>n
    <2>2. g[1] = g[1 - 1] \o ss[1] /\ g[0] = <<>> /\ h[0] = <<>>
      BY <1>n, <2>1, Zenon DEF IsSums
    <2>3. <<>> \o hd = hd /\ hd \o <<>> = hd
      BY ConcatEmptySeq
    <2> QED
      BY <1>0, <2>1, <2>2, <2>3
  <1>2. ASSUME NEW i \in 0..n, g[i + 1] = hd \o h[i], i # n
        PROVE  g[(i + 1) + 1] = hd \o h[i + 1]
    <2>1. i + 1 \in 1..n /\ (i + 1) + 1 \in 1..n + 1
          /\ (i + 1) - 1 = i /\ i \in 0..n /\ ((i + 1) + 1) - 1 = i + 1
      BY <1>n, <1>2
    <2>2. PICK x, y, b, c : x = g[i + 1] /\ y = h[i + 1] /\ b = h[i] /\ c = tl[i + 1]
      OBVIOUS
    <2>3. g[(i + 1) + 1] = x \o c
      <3>1. g[(i + 1) + 1] = g[((i + 1) + 1) - 1] \o ss[(i + 1) + 1]
        BY <1>n, <2>1, Zenon DEF IsSums
      <3>2. tl[i + 1] = ss[(i + 1) + 1]
        BY <1>t, <2>1, Zenon
      <3> QED
        BY <2>1, <2>2, <3>1, <3>2
    <2>4. y = b \o c
      <3>1. h[i + 1] = h[(i + 1) - 1] \o tl[i + 1]
        BY <1>n, <2>1, Zenon DEF IsSums
      <3> QED
        BY <2>1, <2>2, <3>1
    <2>5. b \in Seq(S) /\ c \in Seq(S)
      BY <1>t, <1>n, <2>1, <2>2, Zenon
    <2>6. x = hd \o b
      BY <1>2, <2>2
    <2>7. x \o c = hd \o y
      BY <2>4, <2>5, <2>6, JoinFront
    <2> QED
      BY <2>2, <2>3, <2>7, Zenon
  <1>3. n \in T
    <2>1. \A i \in 0..n : i \in T /\ i # n => i + 1 \in T
      <3>1. \A i \in 0..n : i # n => i + 1 \in 0..n
        BY <1>n
      <3> QED
        BY <1>2, <3>1, Zenon
    <2> HIDE DEF T
    <2>2. n \in 0..n
      BY <1>n
    <2> QED
      BY <1>n, <1>1, <2>1, <2>2, SegmentInduction
  <1> QED
    BY <1>0, <1>3 DEF HeadInFront

\* The first sequence stands in front.
LEMMA FlattenTail ==
    ASSUME NEW S, NEW seqs \in Seq(Seq(S)), seqs # <<>>
    PROVE  Flatten(seqs) = Head(seqs) \o Flatten(Tail(seqs))
  <1> DEFINE hd == Head(seqs)
             tl == Tail(seqs)
             n == Len(tl)
  <1>1. /\ hd \in Seq(S) /\ tl \in Seq(Seq(S)) /\ n \in Nat /\ Len(seqs) = n + 1
        /\ seqs[1] = hd
        /\ \A i \in 1..n : tl[i] = seqs[i + 1]
    BY HeadTailProperties, LenProperties
  <1> HIDE DEF hd, tl, n
  <1>2. PICK g : IsSums(g, seqs, n + 1) /\ Flatten(seqs) = g[n + 1]
    BY <1>1, FlattenIsSum
  <1>3. PICK h \in [0..n -> Seq(S)] : IsSums(h, tl, n) /\ Flatten(tl) = h[n]
    BY <1>1, FlattenIsSum DEF n
  <1>4. \A i \in 1..n : tl[i] \in Seq(S)
    BY <1>1, ElementOfSeq DEF n
  <1>5. \A i \in 0..n : h[i] \in Seq(S)
    BY <1>3
  <1>6. \A i \in 1..n : tl[i] \in Seq(S) /\ tl[i] = seqs[i + 1]
    BY <1>1, <1>4, Zenon
  <1>7. HaveTail(S, n, g, seqs, h, tl)
    BY <1>1, <1>2, <1>3, <1>5, <1>6, Zenon DEF HaveTail
  <1>8. HeadInFront(n, g, seqs, h)
    BY <1>7, TailSums, Zenon
  <1>9. Flatten(seqs) = hd \o Flatten(tl)
    BY <1>1, <1>2, <1>3, <1>8, Zenon DEF HeadInFront
  <1> QED
    BY <1>9 DEF hd, tl

(***************************************************************************)
(* The I-PDUs of frames and of containers.                                 *)
(***************************************************************************)
\* The I-PDU of one frame, when it has one.
Piece(f) == IF GW_Mapped(f) THEN <<ToPdu(f)>> ELSE <<>>

Pieces(frames) == [i \in DOMAIN frames |-> Piece(frames[i])]

\* A frame becomes at most one I-PDU.
LEMMA PieceType ==
    ASSUME NEW f \in Frames
    PROVE  Piece(f) \in Seq(Pdus)
  <1>1. CASE GW_Mapped(f)
    <2>1. ToPdu(f) \in Pdus
      BY <1>1, MappedFrame
    <2> QED
      BY <1>1, <2>1 DEF Piece
  <1>2. CASE ~GW_Mapped(f)
    BY <1>2, EmptySeq DEF Piece
  <1> QED
    BY <1>1, <1>2

\* What mapping over the entries of a sequence does to its ends.
LEMMA PiecesProperties ==
    ASSUME NEW fs \in Seq(Frames)
    PROVE  /\ Pieces(fs) \in Seq(Seq(Pdus))
           /\ Len(Pieces(fs)) = Len(fs)
           /\ \A i \in 1..Len(fs) : Pieces(fs)[i] = Piece(fs[i])
  <1> DEFINE n == Len(fs)
             ps == Pieces(fs)
  <1>1. n \in Nat /\ DOMAIN fs = 1..n /\ \A i \in 1..n : fs[i] \in Frames
    BY LenProperties, ElementOfSeq
  <1>2. \A i \in 1..n : ps[i] = Piece(fs[i]) /\ ps[i] \in Seq(Pdus)
    BY <1>1, PieceType DEF Pieces
  <1>3. ps \in [1..n -> Seq(Pdus)]
    BY <1>1, <1>2 DEF Pieces
  <1>4. ps \in Seq(Seq(Pdus))
    <2> HIDE DEF ps, n
    <2> QED
      BY <1>1, <1>3, SeqDef
  <1>5. Len(ps) = n
    <2> HIDE DEF ps, n
    <2>1. DOMAIN ps = 1..n
      BY <1>3
    <2> QED
      BY <1>1, <1>4, <2>1, LenProperties, SMT
  <1> QED
    BY <1>2, <1>4, <1>5

\* ToPdus joins the pieces.
LEMMA ToPdusPieces == \A fs : ToPdus(fs) = Flatten(Pieces(fs))
  BY DEF ToPdus, Pieces, Piece

\* The I-PDUs of no frame, of one frame more at the end, and of one frame less
\* at the front.
LEMMA ToPdusEmpty == ToPdus(<<>>) = <<>>
  <1>1. Pieces(<<>>) = <<>>
    BY DEF Pieces
  <1> QED
    BY <1>1, ToPdusPieces, FlattenEmpty

LEMMA ToPdusType ==
    ASSUME NEW fs \in Seq(Frames)
    PROVE  ToPdus(fs) \in Seq(Pdus)
  BY PiecesProperties, FlattenType, ToPdusPieces

LEMMA ToPdusAppend ==
    ASSUME NEW fs \in Seq(Frames), NEW f \in Frames
    PROVE  ToPdus(Append(fs, f)) = ToPdus(fs) \o Piece(f)
  <1>1. /\ Append(fs, f) \in Seq(Frames) /\ Len(Append(fs, f)) = Len(fs) + 1
        /\ Append(fs, f)[Len(fs) + 1] = f
        /\ \A i \in 1..Len(fs) : Append(fs, f)[i] = fs[i]
        /\ Len(fs) \in Nat
    BY AppendProperties, LenProperties
  <1> DEFINE n == Len(fs)
             ps == Pieces(fs)
             qs == Pieces(Append(fs, f))
  <1>2. ps \in Seq(Seq(Pdus)) /\ Len(ps) = n /\ \A i \in 1..n : ps[i] = Piece(fs[i])
    BY PiecesProperties
  <1>3. qs \in Seq(Seq(Pdus)) /\ Len(qs) = n + 1
        /\ \A i \in 1..n + 1 : qs[i] = Piece(Append(fs, f)[i])
    <2> DEFINE gs == Append(fs, f)
    <2>1. gs \in Seq(Frames) /\ Len(gs) = n + 1
      BY <1>1
    <2> HIDE DEF gs, n
    <2>2. /\ Pieces(gs) \in Seq(Seq(Pdus)) /\ Len(Pieces(gs)) = Len(gs)
          /\ \A i \in 1..Len(gs) : Pieces(gs)[i] = Piece(gs[i])
      BY <2>1, PiecesProperties
    <2> QED
      BY <2>1, <2>2 DEF gs
  <1>4. Piece(f) \in Seq(Pdus)
    BY PieceType
  <1>5. n \in Nat /\ n + 1 \in 1..n + 1 /\ \A i \in 1..n : i \in 1..n + 1
    BY <1>1
  <1>6. qs[n + 1] = Piece(f) /\ \A i \in 1..n : qs[i] = ps[i]
    BY <1>1, <1>2, <1>3, <1>5, Zenon
  <1>7. qs = Append(ps, Piece(f))
    <2> HIDE DEF ps, qs, n
    <2> DEFINE rs == Append(ps, Piece(f))
    <2>1. /\ rs \in Seq(Seq(Pdus)) /\ Len(rs) = n + 1 /\ rs[n + 1] = Piece(f)
          /\ \A i \in 1..n : rs[i] = ps[i]
      BY <1>2, <1>4, AppendProperties
    <2> HIDE DEF rs
    <2>2. \A i \in 1..n + 1 : i \in 1..n \/ i = n + 1
      BY <1>5
    <2>3. \A i \in 1..n + 1 : qs[i] = rs[i]
      BY <1>6, <2>1, <2>2, Zenon
    <2>4. qs = rs
      BY <1>3, <2>1, <2>3, SeqEqual
    <2> QED
      BY <2>4 DEF rs
  <1> QED
    BY <1>2, <1>4, <1>7, FlattenAppend, ToPdusPieces

LEMMA ToPdusTail ==
    ASSUME NEW fs \in Seq(Frames), fs # <<>>
    PROVE  ToPdus(fs) = Piece(Head(fs)) \o ToPdus(Tail(fs))
  <1> DEFINE gs == Tail(fs)
             n == Len(gs)
             ps == Pieces(fs)
             qs == Pieces(gs)
  <1>1. /\ Head(fs) \in Frames /\ gs \in Seq(Frames) /\ n \in Nat /\ Len(fs) = n + 1
        /\ fs[1] = Head(fs)
        /\ \A i \in 1..n : gs[i] = fs[i + 1]
    BY HeadTailProperties, LenProperties
  <1>2. ps \in Seq(Seq(Pdus)) /\ Len(ps) = Len(fs) /\ \A i \in 1..Len(fs) : ps[i] = Piece(fs[i])
    BY PiecesProperties
  <1>3. qs \in Seq(Seq(Pdus)) /\ Len(qs) = n /\ \A i \in 1..n : qs[i] = Piece(gs[i])
    <2> HIDE DEF gs
    <2> QED
      BY <1>1, PiecesProperties
  <1> HIDE DEF gs, n, ps, qs
  <1>4. /\ 1 \in 1..Len(fs) /\ \A i \in 1..n : i + 1 \in 1..Len(fs)
        /\ ps # <<>>
    <2>1. Len(ps) # 0
      BY <1>1, <1>2
    <2> QED
      BY <1>1, <2>1, EmptySeq
  <1>5. Head(ps) = Piece(Head(fs))
    <2>1. Head(ps) = ps[1]
      BY <1>2, <1>4
    <2> QED
      BY <1>1, <1>2, <1>4, <2>1
  <1>6. Tail(ps) = qs
    <2>1. /\ Tail(ps) \in Seq(Seq(Pdus)) /\ Len(Tail(ps)) = n
          /\ \A i \in 1..n : Tail(ps)[i] = ps[i + 1]
      BY <1>1, <1>2, <1>4, HeadTailProperties
    <2>2. \A i \in 1..n : qs[i] = ps[i + 1]
      BY <1>1, <1>2, <1>3, <1>4, Zenon
    <2>3. \A i \in 1..n : Tail(ps)[i] = qs[i]
      BY <2>1, <2>2, Zenon
    <2> DEFINE rs == Tail(ps)
    <2> HIDE DEF rs
    <2>4. rs = qs
      <3>1. /\ rs \in Seq(Seq(Pdus)) /\ Len(rs) = n /\ \A i \in 1..n : rs[i] = qs[i]
        BY <2>1, <2>3 DEF rs
      <3> QED
        BY <1>3, <3>1, SeqEqual
    <2> QED
      BY <2>4 DEF rs
  <1>7. Flatten(ps) = Head(ps) \o Flatten(Tail(ps))
    BY <1>2, <1>4, FlattenTail
  <1> QED
    BY <1>5, <1>6, <1>7, ToPdusPieces DEF ps, qs, gs

Batches(containers) == [i \in DOMAIN containers |-> containers[i].pdus]

\* A container's I-PDUs come behind those of the containers before it.
LEMMA FlatEmpty == Flat(<<>>) = <<>>
  <1>1. Batches(<<>>) = <<>>
    BY DEF Batches
  <1> QED
    BY <1>1, FlattenEmpty DEF Flat, Batches

LEMMA BatchesProperties ==
    ASSUME NEW cs \in Seq(Containers)
    PROVE  /\ Batches(cs) \in Seq(Seq(Pdus))
           /\ Len(Batches(cs)) = Len(cs)
           /\ \A i \in 1..Len(cs) : Batches(cs)[i] = cs[i].pdus
  <1> DEFINE n == Len(cs)
             bs == Batches(cs)
  <1>1. n \in Nat /\ DOMAIN cs = 1..n /\ \A i \in 1..n : cs[i] \in Containers
    BY LenProperties, ElementOfSeq
  <1>2. \A i \in 1..n : bs[i] = cs[i].pdus /\ bs[i] \in Seq(Pdus)
    BY <1>1 DEF Batches, Containers
  <1>3. bs \in [1..n -> Seq(Pdus)]
    BY <1>1, <1>2 DEF Batches
  <1>4. bs \in Seq(Seq(Pdus))
    <2> HIDE DEF bs, n
    <2> QED
      BY <1>1, <1>3, SeqDef
  <1>5. Len(bs) = n
    <2> HIDE DEF bs, n
    <2>1. DOMAIN bs = 1..n
      BY <1>3
    <2> QED
      BY <1>1, <1>4, <2>1, LenProperties, SMT
  <1> QED
    BY <1>2, <1>4, <1>5

LEMMA FlatType ==
    ASSUME NEW cs \in Seq(Containers)
    PROVE  Flat(cs) \in Seq(Pdus)
  <1>1. Flat(cs) = Flatten(Batches(cs))
    BY DEF Flat, Batches
  <1> QED
    BY <1>1, BatchesProperties, FlattenType

LEMMA FlatAppend ==
    ASSUME NEW cs \in Seq(Containers), NEW c \in Containers
    PROVE  Flat(Append(cs, c)) = Flat(cs) \o c.pdus
  <1> DEFINE n == Len(cs)
             ds == Append(cs, c)
             bs == Batches(cs)
             qs == Batches(ds)
  <1>1. /\ ds \in Seq(Containers) /\ Len(ds) = n + 1 /\ n \in Nat
        /\ ds[n + 1] = c
        /\ \A i \in 1..n : ds[i] = cs[i]
    BY AppendProperties, LenProperties
  <1>2. bs \in Seq(Seq(Pdus)) /\ Len(bs) = n /\ \A i \in 1..n : bs[i] = cs[i].pdus
    BY BatchesProperties
  <1>3. qs \in Seq(Seq(Pdus)) /\ Len(qs) = n + 1 /\ \A i \in 1..n + 1 : qs[i] = ds[i].pdus
    <2> HIDE DEF ds, n
    <2> QED
      BY <1>1, BatchesProperties
  <1>4. c.pdus \in Seq(Pdus)
    BY DEF Containers
  <1>5. n + 1 \in 1..n + 1 /\ \A i \in 1..n + 1 : i \in 1..n \/ i = n + 1
    BY <1>1
  <1>6. Flat(cs) = Flatten(bs) /\ Flat(ds) = Flatten(qs)
    BY DEF Flat, Batches
  <1> HIDE DEF n, ds, bs, qs
  <1>7. qs = Append(bs, c.pdus)
    <2> DEFINE rs == Append(bs, c.pdus)
    <2>1. /\ rs \in Seq(Seq(Pdus)) /\ Len(rs) = n + 1 /\ rs[n + 1] = c.pdus
          /\ \A i \in 1..n : rs[i] = bs[i]
      BY <1>2, <1>4, AppendProperties
    <2> HIDE DEF rs
    <2>2. \A i \in 1..n : qs[i] = rs[i]
      <3>1. \A i \in 1..n : i \in 1..n + 1
        BY <1>1
      <3> QED
        BY <1>1, <1>2, <1>3, <2>1, <3>1, Zenon
    <2>3. \A i \in 1..n + 1 : qs[i] = rs[i]
      BY <1>1, <1>3, <1>5, <2>1, <2>2, Zenon
    <2>4. qs = rs
      BY <1>3, <2>1, <2>3, SeqEqual
    <2> QED
      BY <2>4 DEF rs
  <1>8. Flatten(Append(bs, c.pdus)) = Flatten(bs) \o c.pdus
    BY <1>2, <1>4, FlattenAppend
  <1> QED
    BY <1>6, <1>7, <1>8 DEF ds
-----------------------------------------------------------------------------
(***************************************************************************)
(* The reception inside the gateway.  tlapm takes no theorem over from an  *)
(* instance, so the parts of CanRxProofs's invariant that the composition  *)
(* rests on are shown here of the gateway's own variables.                 *)
(***************************************************************************)
\* There is a mailbox, and the loops of the polling task go round them.
LEMMA MailboxCount ==
    /\ Rx!NumMb \in Nat \ {0}
    /\ Rx!NumMb \notin Rx!Mailboxes
    /\ \A m \in Rx!Mailboxes : m \in Nat /\ m < Rx!NumMb
    /\ \A m \in Rx!Mailboxes : (m + 1) % Rx!NumMb \in Rx!Mailboxes
    /\ 0 \in Rx!Mailboxes
  <1>1. Rx!NumMb \in Nat \ {0}
    BY ReceptionAssumption, SMT DEF Rx!NumMb
  <1>2. SUFFICES ASSUME NEW n \in Nat \ {0}, n = Rx!NumMb
                 PROVE  /\ n \notin 0 .. n - 1
                        /\ \A m \in 0 .. n - 1 : m \in Nat /\ m < n
                        /\ \A m \in 0 .. n - 1 : (m + 1) % n \in 0 .. n - 1
                        /\ 0 \in 0 .. n - 1
    BY <1>1 DEF Rx!Mailboxes
  <1> QED
    BY SMT

\* rxData is a destination, and rxShadow another.
LEMMA Destinations ==
    /\ Rx!RxData \in Rx!Buffers
    /\ \A m \in Rx!Mailboxes : Rx!Shadow(m) \in Rx!Buffers
  <1>1. MbCount \in Nat \ {0}
    BY ReceptionAssumption
  <1>2. \A m \in Nat : m % MbCount \in 0 .. MbCount - 1
    BY <1>1, SMT
  <1>3. \A m \in Rx!Mailboxes : Rx!Shadow(m) \in 0 .. MbCount - 1
    BY <1>2, MailboxCount DEF Rx!Shadow
  <1> QED
    BY <1>1, <1>3, SMT DEF Rx!RxData, Rx!Buffers

RxTypes ==
    /\ stored \in [Rx!Mailboxes -> 0..MaxArrivals]
    /\ flag \in [Rx!Mailboxes -> BOOLEAN]
    /\ shifted \in [Rx!Mailboxes -> 0..MaxArrivals]
    /\ mbState \in [Rx!Mailboxes -> {"IDLE", "RX_BUSY"}]
    /\ pMB \in [Rx!Mailboxes -> Rx!Buffers \cup {Rx!NoBuffer}]
    /\ buffer \in [Rx!Buffers -> Frames]
    /\ rxPc \in {"arm", "poll", "clear", "unlock", "callback", "delay"}
    /\ k \in Rx!Mailboxes
    /\ arrived \in [Rx!Mailboxes -> 0..MaxArrivals]
    /\ lastRead \in [Rx!Mailboxes -> 0..MaxArrivals]
    /\ log \in Seq(Frames)

\* Only the mailbox the driver reads is locked, and only a locked mailbox has a
\* frame waiting.
RxLock ==
    /\ lock = IF rxPc \in {"clear", "unlock"} THEN k ELSE Rx!NumMb
    /\ \A m \in Rx!Mailboxes : shifted[m] # 0 => lock = m

\* Serial numbers grow from what was read to what is stored, waits and arrived;
\* but for the flag the driver is about to clear, a flag stands for a frame
\* that was not read yet.
RxSerial ==
    /\ \A m \in Rx!Mailboxes :
           /\ lastRead[m] <= stored[m]
           /\ stored[m] <= arrived[m]
           /\ shifted[m] # 0 => stored[m] < shifted[m] /\ shifted[m] <= arrived[m]
           /\ flag[m] => lastRead[m] < stored[m] \/ (rxPc = "clear" /\ m = k)

\* An armed mailbox has a destination.
RxArm == \A m \in Rx!Mailboxes : mbState[m] = "RX_BUSY" => pMB[m] \in Rx!Buffers

\* The frames read so far, at least one for each callback.
ReadSet(last) == {p \in Rx!Mailboxes \X (1..MaxArrivals) : p[2] <= last[p[1]]}

Calling == IF rxPc \in {"clear", "unlock", "callback"} THEN 1 ELSE 0

RxCount ==
    /\ offered = canStats.rxCount
    /\ canStats.rxCount + Calling <= Cardinality(ReadSet(lastRead))

RxInv == RxTypes /\ RxLock /\ RxSerial /\ RxArm /\ RxCount

\* The steps of the gateway as the reception sees them.
LEMMA RxSteps ==
    ASSUME [GatewayNext]_gatewayVars
    PROVE  \/ Rx!ArmMailbox
           \/ Rx!NothingToRead
           \/ Rx!LockAndCopy
           \/ Rx!ClearFlag
           \/ Rx!UnlockMailbox
           \/ Rx!CAN0_Callback
           \/ Rx!Delay
           \/ \E m \in Rx!Mailboxes : Rx!FrameArrives(m)
           \/ UNCHANGED rxVars
  BY DEF GatewayNext, CanTask, AggregationTask, Environment, Rx!PollingTask,
         Rx!FinishRead, gatewayVars

\* What the driver reads is a frame not read before, and it has somewhere to
\* put it.
LEMMA ReadsAFrame ==
    ASSUME RxInv, Rx!LockAndCopy
    PROVE  /\ k \in Rx!Mailboxes
           /\ stored[k] \in 1..MaxArrivals
           /\ lastRead[k] < stored[k]
           /\ pMB[k] \in Rx!Buffers
           /\ FrameOf(k, stored[k]) \in Frames
  <1>1. k \in Rx!Mailboxes /\ flag[k] /\ mbState[k] = "RX_BUSY" /\ rxPc = "poll"
    BY DEF RxInv, RxTypes, Rx!LockAndCopy, Rx!Readable
  <1>2. lastRead[k] < stored[k] /\ stored[k] \in 0..MaxArrivals /\ lastRead[k] \in 0..MaxArrivals
    BY <1>1 DEF RxInv, RxTypes, RxSerial
  <1>3. stored[k] \in 1..MaxArrivals
    BY <1>2, ReceptionAssumption
  <1>4. pMB[k] \in Rx!Buffers
    BY <1>1 DEF RxInv, RxArm
  <1> QED
    BY <1>1, <1>2, <1>3, <1>4, FramesAssumption

\* The types of the receive side are kept.
LEMMA RxTypesStep ==
    ASSUME RxInv, TypeOK, [GatewayNext]_gatewayVars
    PROVE  RxTypes'
  <1> USE DEF Rx!hardware, Rx!driver
  <1>0. RxTypes
    BY DEF RxInv
  <1>1. CASE Rx!ArmMailbox
    <2>1. /\ mbState' \in [Rx!Mailboxes -> {"IDLE", "RX_BUSY"}]
          /\ pMB' \in [Rx!Mailboxes -> Rx!Buffers \cup {Rx!NoBuffer}]
      BY <1>0, <1>1, Destinations DEF RxTypes, Rx!ArmMailbox, Rx!Receive
    <2>2. k' \in Rx!Mailboxes /\ rxPc' \in {"arm", "poll"}
      BY <1>0, <1>1, MailboxCount DEF RxTypes, Rx!ArmMailbox
    <2> QED
      BY <1>0, <1>1, <2>1, <2>2 DEF RxTypes, Rx!ArmMailbox
  <1>2. CASE Rx!NothingToRead
    BY <1>0, <1>2, MailboxCount DEF RxTypes, Rx!NothingToRead, Rx!NextMailbox
  <1>3. CASE Rx!LockAndCopy
    <2>1. /\ buffer' \in [Rx!Buffers -> Frames]
          /\ lastRead' \in [Rx!Mailboxes -> 0..MaxArrivals]
      BY <1>0, <1>3, ReadsAFrame DEF RxTypes, Rx!LockAndCopy
    <2> QED
      BY <1>0, <1>3, <2>1 DEF RxTypes, Rx!LockAndCopy
  <1>4. CASE Rx!ClearFlag
    BY <1>0, <1>4 DEF RxTypes, Rx!ClearFlag
  <1>5. CASE Rx!UnlockMailbox
    <2>1. 0 \in 0..MaxArrivals
      BY ReceptionAssumption
    <2>2. /\ shifted' \in [Rx!Mailboxes -> 0..MaxArrivals]
          /\ stored' \in [Rx!Mailboxes -> 0..MaxArrivals]
          /\ flag' \in [Rx!Mailboxes -> BOOLEAN]
          /\ mbState' \in [Rx!Mailboxes -> {"IDLE", "RX_BUSY"}]
      BY <1>0, <1>5, <2>1 DEF RxTypes, Rx!UnlockMailbox, Rx!Unlocked
    <2> QED
      BY <1>0, <1>5, <2>2 DEF RxTypes, Rx!UnlockMailbox
  <1>6. CASE Rx!CAN0_Callback
    <2>1. buffer[Rx!RxData] \in Frames
      BY <1>0, Destinations DEF RxTypes
    <2>2. log' \in Seq(Frames)
      <3>1. log' = log \/ log' = Append(log, buffer[Rx!RxData])
        BY <1>6 DEF Rx!CAN0_Callback
      <3>2. log \in Seq(Frames)
        BY <1>0 DEF RxTypes
      <3>3. Append(log, buffer[Rx!RxData]) \in Seq(Frames)
        BY <2>1, <3>2, AppendProperties
      <3> QED
        BY <3>1, <3>2, <3>3
    <2>3. /\ mbState' \in [Rx!Mailboxes -> {"IDLE", "RX_BUSY"}]
          /\ pMB' \in [Rx!Mailboxes -> Rx!Buffers \cup {Rx!NoBuffer}]
      BY <1>0, <1>6, Destinations DEF RxTypes, Rx!CAN0_Callback, Rx!Receive
    <2>4. k' \in Rx!Mailboxes /\ rxPc' \in {"poll", "delay"}
      BY <1>0, <1>6, MailboxCount DEF RxTypes, Rx!CAN0_Callback, Rx!NextMailbox
    <2> QED
      BY <1>0, <1>6, <2>2, <2>3, <2>4 DEF RxTypes, Rx!CAN0_Callback
  <1>7. CASE Rx!Delay
    BY <1>0, <1>7 DEF RxTypes, Rx!Delay
  <1>8. ASSUME NEW m \in Rx!Mailboxes, Rx!FrameArrives(m)
        PROVE  RxTypes'
    <2>1. arrived[m] + 1 \in 0..MaxArrivals
      BY <1>0, <1>8, ReceptionAssumption DEF RxTypes, Rx!FrameArrives
    <2>2. PICK n \in 0..MaxArrivals :
                 /\ arrived' = [arrived EXCEPT ![m] = n]
                 /\ shifted' = shifted \/ shifted' = [shifted EXCEPT ![m] = n]
                 /\ stored' = stored \/ stored' = [stored EXCEPT ![m] = n]
      BY <1>8, <2>1 DEF Rx!FrameArrives
    <2>3. /\ arrived' \in [Rx!Mailboxes -> 0..MaxArrivals]
          /\ shifted' \in [Rx!Mailboxes -> 0..MaxArrivals]
          /\ stored' \in [Rx!Mailboxes -> 0..MaxArrivals]
      BY <1>0, <2>2 DEF RxTypes
    <2>4. flag' \in [Rx!Mailboxes -> BOOLEAN]
      BY <1>0, <1>8 DEF RxTypes, Rx!FrameArrives
    <2> QED
      BY <1>0, <1>8, <2>3, <2>4 DEF RxTypes, Rx!FrameArrives
  <1>9. CASE UNCHANGED rxVars
    BY <1>0, <1>9 DEF RxTypes, rxVars
  <1> QED
    BY <1>1, <1>2, <1>3, <1>4, <1>5, <1>6, <1>7, <1>8, <1>9, RxSteps

\* One mailbox is locked at a time, by the read that goes on; an armed mailbox
\* keeps a destination.
LEMMA RxLockStep ==
    ASSUME RxInv, TypeOK, [GatewayNext]_gatewayVars
    PROVE  RxLock' /\ RxArm'
  <1> USE MailboxCount DEF Rx!hardware, Rx!driver
  <1> DEFINE P == RxLock /\ RxArm
  <1>0. RxTypes /\ RxLock /\ RxArm
    BY DEF RxInv
  <1>1. CASE Rx!ArmMailbox
    BY <1>0, <1>1, Destinations DEF RxTypes, RxLock, RxArm, Rx!ArmMailbox, Rx!Receive
  <1>2. CASE Rx!NothingToRead
    BY <1>0, <1>2 DEF RxTypes, RxLock, RxArm, Rx!NothingToRead, Rx!NextMailbox
  <1>3. CASE Rx!LockAndCopy
    BY <1>0, <1>3 DEF RxTypes, RxLock, RxArm, Rx!LockAndCopy
  <1>4. CASE Rx!ClearFlag
    BY <1>0, <1>4 DEF RxTypes, RxLock, RxArm, Rx!ClearFlag
  <1>5. CASE Rx!UnlockMailbox
    BY <1>0, <1>5 DEF RxTypes, RxLock, RxArm, Rx!UnlockMailbox, Rx!Unlocked
  <1>6. CASE Rx!CAN0_Callback
    BY <1>0, <1>6, Destinations DEF RxTypes, RxLock, RxArm, Rx!CAN0_Callback,
       Rx!NextMailbox, Rx!Receive
  <1>7. CASE Rx!Delay
    BY <1>0, <1>7 DEF RxTypes, RxLock, RxArm, Rx!Delay
  <1>8. ASSUME NEW m \in Rx!Mailboxes, Rx!FrameArrives(m)
        PROVE  P'
    BY <1>0, <1>8 DEF RxTypes, RxLock, RxArm, Rx!FrameArrives
  <1>9. CASE UNCHANGED rxVars
    BY <1>0, <1>9 DEF RxLock, RxArm, rxVars
  <1> QED
    BY <1>1, <1>2, <1>3, <1>4, <1>5, <1>6, <1>7, <1>8, <1>9, RxSteps

\* Serial numbers stay in order, and flags stand for frames not read.
LEMMA RxSerialStep ==
    ASSUME RxInv, TypeOK, [GatewayNext]_gatewayVars
    PROVE  RxSerial'
  <1> USE DEF Rx!hardware, Rx!driver
  <1>0. RxTypes /\ RxLock /\ RxSerial
    BY DEF RxInv
  <1>t. /\ k \in Rx!Mailboxes
        /\ \A q \in Rx!Mailboxes : /\ stored[q] \in Nat
                                   /\ shifted[q] \in Nat
                                   /\ arrived[q] \in Nat
                                   /\ lastRead[q] \in Nat
                                   /\ flag[q] \in BOOLEAN
    BY <1>0, ReceptionAssumption DEF RxTypes
  <1>1. CASE Rx!ArmMailbox
    BY <1>0, <1>1 DEF RxSerial, Rx!ArmMailbox
  <1>2. CASE Rx!NothingToRead
    BY <1>0, <1>2 DEF RxSerial, Rx!NothingToRead, Rx!NextMailbox
  <1>3. CASE Rx!LockAndCopy
    <2>1. /\ lastRead'[k] = stored[k]
          /\ \A q \in Rx!Mailboxes : q # k => lastRead'[q] = lastRead[q]
          /\ UNCHANGED <<stored, flag, shifted, k, arrived>>
          /\ rxPc = "poll" /\ rxPc' = "clear"
      BY <1>0, <1>3 DEF RxTypes, Rx!LockAndCopy
    <2> QED
      BY <1>0, <1>t, <2>1 DEF RxSerial
  <1>4. CASE Rx!ClearFlag
    <2>1. /\ flag'[k] = FALSE
          /\ \A q \in Rx!Mailboxes : q # k => flag'[q] = flag[q]
          /\ UNCHANGED <<stored, lastRead, shifted, k, arrived>>
          /\ rxPc' = "unlock"
      BY <1>0, <1>4 DEF RxTypes, Rx!ClearFlag
    <2> QED
      BY <1>0, <1>t, <2>1 DEF RxSerial
  <1>5. CASE Rx!UnlockMailbox
    <2>1. \A m \in Rx!Mailboxes : m # k => /\ stored'[m] = stored[m]
                                          /\ flag'[m] = flag[m]
                                          /\ shifted'[m] = shifted[m]
      BY <1>0, <1>5 DEF RxTypes, Rx!UnlockMailbox, Rx!Unlocked
    <2>2. shifted'[k] = 0
      BY <1>0, <1>5 DEF RxTypes, Rx!UnlockMailbox, Rx!Unlocked
    <2>3. \/ stored'[k] = stored[k] /\ flag'[k] = flag[k]
          \/ shifted[k] # 0 /\ stored'[k] = shifted[k] /\ flag'[k] = TRUE
      BY <1>0, <1>5 DEF RxTypes, Rx!UnlockMailbox, Rx!Unlocked
    <2>4. UNCHANGED <<arrived, lastRead>> /\ rxPc = "unlock" /\ rxPc' = "callback"
      BY <1>5 DEF Rx!UnlockMailbox
    <2> QED
      BY <1>0, <1>t, <2>1, <2>2, <2>3, <2>4 DEF RxSerial
  <1>6. CASE Rx!CAN0_Callback
    BY <1>0, <1>6 DEF RxSerial, Rx!CAN0_Callback, Rx!NextMailbox
  <1>7. CASE Rx!Delay
    BY <1>0, <1>7 DEF RxSerial, Rx!Delay
  <1>8. ASSUME NEW m \in Rx!Mailboxes, Rx!FrameArrives(m)
        PROVE  RxSerial'
    <2>1. /\ arrived'[m] = arrived[m] + 1
          /\ \A q \in Rx!Mailboxes : q # m => arrived'[q] = arrived[q]
      BY <1>0, <1>8 DEF RxTypes, Rx!FrameArrives
    <2>2. UNCHANGED <<lock, rxPc, k, lastRead>>
      BY <1>8 DEF Rx!FrameArrives
    <2>3. CASE lock = m
      <3>1. /\ UNCHANGED <<stored, flag>>
            /\ shifted'[m] = arrived[m] + 1
            /\ \A q \in Rx!Mailboxes : q # m => shifted'[q] = shifted[q]
        BY <1>0, <1>8, <2>3 DEF RxTypes, Rx!FrameArrives
      <3> QED
        BY <1>0, <1>t, <2>1, <2>2, <3>1 DEF RxSerial
    <2>4. CASE lock # m
      <3>1. /\ UNCHANGED shifted
            /\ stored'[m] = arrived[m] + 1
            /\ flag'[m] = TRUE
            /\ \A q \in Rx!Mailboxes : q # m => stored'[q] = stored[q] /\ flag'[q] = flag[q]
        BY <1>0, <1>8, <2>4 DEF RxTypes, Rx!FrameArrives
      <3>2. shifted[m] = 0
        BY <1>0, <2>4 DEF RxLock
      <3> QED
        BY <1>0, <1>t, <2>1, <2>2, <3>1, <3>2 DEF RxSerial
    <2> QED
      BY <2>3, <2>4
  <1>9. CASE UNCHANGED rxVars
    BY <1>0, <1>9 DEF RxSerial, rxVars
  <1> QED
    BY <1>1, <1>2, <1>3, <1>4, <1>5, <1>6, <1>7, <1>8, <1>9, RxSteps

\* There are only so many frames to read.
LEMMA ReadSetBound ==
    ASSUME NEW last
    PROVE  /\ IsFiniteSet(ReadSet(last))
           /\ Cardinality(ReadSet(last)) \in Nat
           /\ Cardinality(ReadSet(last)) <= MaxOffered
  <1>1. IsFiniteSet(Rx!Mailboxes) /\ Cardinality(Rx!Mailboxes) = Rx!NumMb
    <2>1. \A n \in Nat \ {0} : 0 \in Int /\ n - 1 \in Int /\ (n - 1) - 0 + 1 = n /\ 0 <= n - 1
      OBVIOUS
    <2> QED
      BY <2>1, MailboxCount, FS_Interval DEF Rx!Mailboxes
  <1>2. IsFiniteSet(1..MaxArrivals) /\ Cardinality(1..MaxArrivals) = MaxArrivals
    <2>1. MaxArrivals \in Nat
      BY ReceptionAssumption
    <2> QED
      BY <2>1, FS_Interval
  <1> DEFINE all == Rx!Mailboxes \X (1..MaxArrivals)
  <1>3. IsFiniteSet(all) /\ Cardinality(all) = Rx!NumMb * MaxArrivals
    BY <1>1, <1>2, FS_Product
  <1>4. ReadSet(last) \subseteq all
    BY DEF ReadSet
  <1> HIDE DEF all
  <1>5. /\ IsFiniteSet(ReadSet(last))
        /\ Cardinality(ReadSet(last)) <= Cardinality(all)
        /\ Cardinality(ReadSet(last)) \in Nat
        /\ Cardinality(all) \in Nat
    BY <1>3, <1>4, FS_Subset, FS_CardinalityType
  <1> QED
    BY <1>3, <1>5, FramesAssumption, SizesAssumption

\* Reading a newer frame makes the set of frames read grow.
LEMMA ReadSetGrows ==
    ASSUME RxTypes, NEW s \in 1..MaxArrivals, NEW last,
           last = [lastRead EXCEPT ![k] = s], lastRead[k] < s
    PROVE  Cardinality(ReadSet(lastRead)) + 1 <= Cardinality(ReadSet(last))
  <1>1. /\ k \in Rx!Mailboxes
        /\ lastRead \in [Rx!Mailboxes -> 0..MaxArrivals]
    BY DEF RxTypes
  <1> DEFINE old == ReadSet(lastRead)
             new == ReadSet(last)
             x == <<k, s>>
  <1>2. x \notin old /\ x \in new
    <2>1. x \in Rx!Mailboxes \X (1..MaxArrivals) /\ x[1] = k /\ x[2] = s
      BY <1>1
    <2>2. ~(s <= lastRead[k])
      BY <1>1, ReceptionAssumption
    <2>3. s <= last[k]
      BY <1>1, ReceptionAssumption
    <2> QED
      BY <2>1, <2>2, <2>3 DEF ReadSet
  <1>3. old \subseteq new
    <2> SUFFICES ASSUME NEW p \in Rx!Mailboxes \X (1..MaxArrivals), p[2] <= lastRead[p[1]]
                 PROVE  p[2] <= last[p[1]]
      BY DEF ReadSet
    <2>1. p[1] \in Rx!Mailboxes /\ p[2] \in 1..MaxArrivals
      OBVIOUS
    <2>2. CASE p[1] = k
      <3>1. last[p[1]] = s /\ lastRead[p[1]] \in 0..MaxArrivals /\ lastRead[p[1]] < s
        BY <1>1, <2>2
      <3> QED
        BY <2>1, <3>1, ReceptionAssumption
    <2>3. CASE p[1] # k
      BY <1>1, <2>1, <2>3
    <2> QED
      BY <2>2, <2>3
  <1> HIDE DEF old, new, x
  <1>4. IsFiniteSet(old) /\ IsFiniteSet(new) /\ Cardinality(old) \in Nat
    BY ReadSetBound DEF old, new
  <1>5. Cardinality(old \cup {x}) = Cardinality(old) + 1
    BY <1>2, <1>4, FS_AddElement
  <1>6. Cardinality(old \cup {x}) <= Cardinality(new)
    <2>1. old \cup {x} \subseteq new
      BY <1>2, <1>3
    <2> QED
      BY <1>4, <2>1, FS_Subset
  <1> QED
    BY <1>5, <1>6 DEF old, new

\* The counters as the aggregation task leaves them.
LEMMA TaskKeepsCount ==
    ASSUME TypeOK, TaskStep \/ GateChange
    PROVE  canStats'.rxCount = canStats.rxCount /\ offered' = offered
  <1>1. canStats \in [rxCount : Nat, queueFullErrors : Nat, containersSent : Nat,
                      ethTxErrors : Nat, ethBufferErrors : Nat]
    BY DEF TypeOK
  <1> QED
    BY <1>1 DEF TaskStep, GateChange, ProcessOverflow, ReceiveFromQueue, QueueEmpty, Decide,
       ProvideOk, ProvideFails, TransmitOk, TransmitFails

\* Each callback has a read of its own behind it.
LEMMA RxCountStep ==
    ASSUME RxInv, TypeOK, [GatewayNext]_gatewayVars
    PROVE  RxCount'
  <1> USE DEF Rx!hardware, Rx!driver
  <1>0. RxTypes /\ RxCount
    BY DEF RxInv
  <1>t. /\ canStats \in [rxCount : Nat, queueFullErrors : Nat, containersSent : Nat,
                         ethTxErrors : Nat, ethBufferErrors : Nat]
        /\ canStats.rxCount \in Nat
    BY DEF TypeOK
  <1>c. Cardinality(ReadSet(lastRead)) \in Nat /\ Cardinality(ReadSet(lastRead')) \in Nat
    BY ReadSetBound
  <1>1. CASE CanTask /\ Rx!LockAndCopy
    <2>1. /\ stored[k] \in 1..MaxArrivals /\ lastRead[k] < stored[k]
          /\ lastRead' = [lastRead EXCEPT ![k] = stored[k]]
      BY <1>1, ReadsAFrame DEF Rx!LockAndCopy
    <2>2. Cardinality(ReadSet(lastRead)) + 1 <= Cardinality(ReadSet(lastRead'))
      BY <1>0, <2>1, ReadSetGrows
    <2>3. /\ canStats' = canStats /\ offered' = canStats.rxCount
          /\ Calling = 0 /\ Calling' = 1
      BY <1>1 DEF CanTask, Rx!LockAndCopy, Calling
    <2>4. canStats.rxCount + 1 <= Cardinality(ReadSet(lastRead'))
      BY <1>0, <1>t, <1>c, <2>2, <2>3 DEF RxCount
    <2>5. (Cardinality(ReadSet(lastRead)))' = Cardinality(ReadSet(lastRead'))
      BY DEF ReadSet
    <2> QED
      BY <2>3, <2>4, <2>5 DEF RxCount
  <1>2. CASE CanTask /\ Rx!CAN0_Callback
    <2>1. canStats'.rxCount = canStats.rxCount + 1
      BY <1>t, <1>2 DEF Rx!CAN0_Callback
    <2>2. /\ offered' = canStats'.rxCount /\ lastRead' = lastRead
          /\ Calling = 1 /\ Calling' = 0
      BY <1>2 DEF CanTask, Rx!CAN0_Callback, Rx!NextMailbox, Calling
    <2>3. (Cardinality(ReadSet(lastRead)))' = Cardinality(ReadSet(lastRead))
      BY <2>2 DEF ReadSet
    <2> QED
      BY <1>0, <1>t, <1>c, <2>1, <2>2, <2>3 DEF RxCount
  <1>3. CASE /\ canStats'.rxCount = canStats.rxCount /\ offered' = offered
             /\ lastRead' = lastRead /\ Calling' = Calling
    <2>1. (Cardinality(ReadSet(lastRead)))' = Cardinality(ReadSet(lastRead))
      BY <1>3 DEF ReadSet
    <2> QED
      BY <1>0, <1>3, <2>1 DEF RxCount
  <1>4. CASE CanTask /\ ~Rx!LockAndCopy /\ ~Rx!CAN0_Callback
    <2>1. canStats' = canStats /\ lastRead' = lastRead /\ Calling' = Calling
      BY <1>4 DEF CanTask, Rx!PollingTask, Rx!FinishRead, Rx!ArmMailbox, Rx!NothingToRead,
         Rx!NextMailbox, Rx!ClearFlag, Rx!UnlockMailbox, Rx!Delay, Calling
    <2>2. offered' = offered
      BY <1>0, <1>4, <2>1 DEF CanTask, RxCount
    <2> QED
      BY <1>3, <2>1, <2>2
  <1>5. CASE (TaskStep \/ GateChange) /\ UNCHANGED rxVars
    BY <1>3, <1>5, TaskKeepsCount DEF rxVars, Calling
  <1>6. CASE \E m \in Rx!Mailboxes : Rx!FrameArrives(m) /\ UNCHANGED <<aggVars, offered>>
    BY <1>3, <1>6 DEF Rx!FrameArrives, Calling
  <1>7. CASE UNCHANGED gatewayVars
    BY <1>3, <1>7 DEF gatewayVars, vars, rxVars, Calling
  <1> QED
    BY <1>1, <1>2, <1>4, <1>5, <1>6, <1>7 DEF GatewayNext, AggregationTask, Environment
-----------------------------------------------------------------------------
(***************************************************************************)
(* The composition is a run of each part.                                  *)
(***************************************************************************)
\* A step of the gateway is a step of the aggregator: the callback offers a
\* frame it is ready for, and not more often than there are frames.
LEMMA AggregationStep ==
    ASSUME RxInv, TypeOK, [GatewayNext]_gatewayVars
    PROVE  [Next]_vars
  <1>1. CASE CanTask /\ Rx!CAN0_Callback
    <2> DEFINE f == buffer[Rx!RxData]
    <2>1. f \in Frames
      BY Destinations DEF RxInv, RxTypes
    <2>2. canStats'.rxCount = canStats.rxCount + 1
      BY <1>1 DEF Rx!CAN0_Callback, TypeOK
    <2>3. offered < MaxOffered /\ offered' = offered + 1
      <3>1. offered = canStats.rxCount /\ offered \in Nat /\ Calling = 1
        BY <1>1 DEF RxInv, RxCount, TypeOK, Calling, Rx!CAN0_Callback
      <3>2. offered + 1 <= Cardinality(ReadSet(lastRead))
        BY <3>1 DEF RxInv, RxCount
      <3>3. /\ Cardinality(ReadSet(lastRead)) \in Nat
            /\ Cardinality(ReadSet(lastRead)) <= MaxOffered
            /\ MaxOffered \in Nat
        BY ReadSetBound, SizesAssumption
      <3>4. offered' = canStats'.rxCount
        BY <1>1 DEF CanTask
      <3> QED
        BY <2>2, <3>1, <3>2, <3>3, <3>4
    <2>4. \/ /\ Len(queue) < QueueLength
             /\ queue' = Append(queue, f)
             /\ canStats' = [canStats EXCEPT !.rxCount = @ + 1]
          \/ /\ Len(queue) >= QueueLength
             /\ canStats' = [canStats EXCEPT !.rxCount = @ + 1,
                                             !.queueFullErrors = @ + 1]
             /\ UNCHANGED queue
      <3>1. Len(queue) \in Nat /\ QueueLength \in Nat
        BY SizesAssumption, LenProperties DEF TypeOK
      <3>2. Len(queue) < QueueLength \/ (~(Len(queue) < QueueLength) /\ Len(queue) >= QueueLength)
        BY <3>1
      <3> QED
        BY <1>1, <3>2 DEF Rx!CAN0_Callback
    <2>5. CAN0_Callback(f)
      BY <1>1, <2>3, <2>4 DEF CAN0_Callback, CanTask, aggVars, container
    <2> QED
      BY <2>1, <2>5 DEF Next
  <1>2. CASE CanTask /\ ~Rx!CAN0_Callback
    <2>1. UNCHANGED <<queue, canStats>>
      BY <1>2 DEF CanTask, Rx!PollingTask, Rx!FinishRead, Rx!ArmMailbox, Rx!NothingToRead,
         Rx!LockAndCopy, Rx!ClearFlag, Rx!UnlockMailbox, Rx!Delay
    <2>2. offered' = offered
      BY <1>2, <2>1 DEF CanTask, RxInv, RxCount
    <2> QED
      BY <1>2, <2>1, <2>2 DEF CanTask, aggVars, vars
  <1>3. CASE AggregationTask
    BY <1>3 DEF AggregationTask, Next
  <1>4. CASE \E m \in Rx!Mailboxes : Rx!FrameArrives(m) /\ UNCHANGED <<aggVars, offered>>
    BY <1>4 DEF Rx!FrameArrives, aggVars, vars
  <1>5. CASE GateChange
    BY <1>5 DEF Next
  <1>6. CASE UNCHANGED gatewayVars
    BY <1>6 DEF gatewayVars
  <1> QED
    BY <1>1, <1>2, <1>3, <1>4, <1>5, <1>6 DEF GatewayNext, Environment

\* FlexCAN_init_SKKU and start_CAN leave the receive side in a state of RxInv.
LEMMA RxInit == GatewayInit => RxInv
  <1> SUFFICES ASSUME GatewayInit PROVE RxInv
    OBVIOUS
  <1>0. /\ Reception!Mailboxes = Rx!Mailboxes /\ Reception!NumMb = Rx!NumMb
        /\ Reception!Buffers = Rx!Buffers /\ Reception!NoBuffer = Rx!NoBuffer
        /\ Reception!Zeroed = Rx!Zeroed
    BY DEF Reception!Mailboxes, Rx!Mailboxes, Reception!NumMb, Rx!NumMb, Reception!Buffers,
       Rx!Buffers, Reception!NoBuffer, Rx!NoBuffer, Reception!Zeroed, Rx!Zeroed
  <1>1. /\ stored = [m \in Rx!Mailboxes |-> 0]
        /\ flag = [m \in Rx!Mailboxes |-> FALSE]
        /\ shifted = [m \in Rx!Mailboxes |-> 0]
        /\ lock = Rx!NumMb
        /\ mbState = [m \in Rx!Mailboxes |-> "IDLE"]
        /\ pMB = [m \in Rx!Mailboxes |-> Rx!NoBuffer]
        /\ buffer = [b \in Rx!Buffers |-> Rx!Zeroed]
        /\ rxPc = "arm"
        /\ k = 0
        /\ arrived = [m \in Rx!Mailboxes |-> 0]
        /\ lastRead = [m \in Rx!Mailboxes |-> 0]
        /\ log = <<>>
    BY <1>0 DEF GatewayInit, Reception!Init
  <1>2. canStats.rxCount = 0 /\ offered = 0
    BY DEF GatewayInit, Init
  <1>3. RxTypes
    <2>1. 0 \in 0..MaxArrivals
      BY ReceptionAssumption
    <2> QED
      BY <1>1, <2>1, MailboxCount, FramesAssumption, EmptySeq DEF RxTypes
  <1>4. RxLock /\ RxArm
    BY <1>1 DEF RxLock, RxArm
  <1>5. RxSerial
    BY <1>1 DEF RxSerial
  <1>6. RxCount
    <2>1. Calling = 0
      BY <1>1 DEF Calling
    <2>2. Cardinality(ReadSet(lastRead)) \in Nat
      BY ReadSetBound
    <2> QED
      BY <1>2, <2>1, <2>2 DEF RxCount
  <1> QED
    BY <1>3, <1>4, <1>5, <1>6 DEF RxInv

\* The receive side keeps its invariant, and the aggregator its types.
LEMMA GatewayInvariance == GatewaySpec => [](RxInv /\ TypeOK)
  <1>1. GatewayInit => RxInv /\ TypeOK
    BY RxInit, TypeInit DEF GatewayInit
  <1>2. RxInv /\ TypeOK /\ [GatewayNext]_gatewayVars => RxInv' /\ TypeOK'
    <2> SUFFICES ASSUME RxInv, TypeOK, [GatewayNext]_gatewayVars
                 PROVE  RxInv' /\ TypeOK'
      OBVIOUS
    <2>1. RxTypes' /\ RxLock' /\ RxArm' /\ RxSerial' /\ RxCount'
      BY RxTypesStep, RxLockStep, RxSerialStep, RxCountStep
    <2>2. TypeOK'
      BY AggregationStep, TypeStep
    <2> QED
      BY <2>1, <2>2 DEF RxInv
  <1> QED
    BY <1>1, <1>2, PTL DEF GatewaySpec

\* What the gateway does to the aggregator's variables is a behaviour of
\* Aggregator: every theorem about the task alone holds of the task next to
\* the polling task.
THEOREM GatewayRunsTheAggregator == GatewaySpec => AggregationHolds
  <1>1. GatewayInit => Init
    BY DEF GatewayInit
  <1>2. RxInv /\ TypeOK /\ [GatewayNext]_gatewayVars => [Next]_vars
    BY AggregationStep
  <1> QED
    BY <1>1, <1>2, GatewayInvariance, PTL DEF GatewaySpec, Spec, AggregationHolds

\* The reception's constants are the same whatever its counters stand for.
LEMMA SameReception ==
    /\ Reception!NumMb = Rx!NumMb
    /\ Reception!Mailboxes = Rx!Mailboxes
    /\ Reception!RxData = Rx!RxData
    /\ \A m : Reception!Shadow(m) = Rx!Shadow(m)
  BY DEF Reception!Mailboxes, Rx!Mailboxes, Reception!NumMb, Rx!NumMb, Reception!RxData,
     Rx!RxData, Reception!Shadow, Rx!Shadow

\* A step of the polling task is a step of the reception alone.
LEMMA PollingIsReception ==
    ASSUME TypeOK, Rx!PollingTask
    PROVE  Reception!PollingTask
  <1> USE SameReception DEF Rx!hardware, Rx!driver, Reception!hardware, Reception!driver
  <1>1. CASE Rx!CAN0_Callback
    <2>1. canStats \in [rxCount : Nat, queueFullErrors : Nat, containersSent : Nat,
                        ethTxErrors : Nat, ethBufferErrors : Nat]
      BY DEF TypeOK
    <2>2. ASSUME Len(queue) < QueueLength
          PROVE  RxStats' = [RxStats EXCEPT !.rxCount = @ + 1]
      <3>1. canStats' = [canStats EXCEPT !.rxCount = @ + 1]
        BY <1>1, <2>2 DEF Rx!CAN0_Callback
      <3>2. /\ canStats'.rxCount = canStats.rxCount + 1
            /\ canStats'.queueFullErrors = canStats.queueFullErrors
        BY <2>1, <3>1
      <3> QED
        BY <3>2 DEF RxStats
    <2>3. ASSUME ~(Len(queue) < QueueLength)
          PROVE  RxStats' = [RxStats EXCEPT !.rxCount = @ + 1, !.queueFullErrors = @ + 1]
      <3>1. canStats' = [canStats EXCEPT !.rxCount = @ + 1, !.queueFullErrors = @ + 1]
        BY <1>1, <2>3 DEF Rx!CAN0_Callback
      <3>2. /\ canStats'.rxCount = canStats.rxCount + 1
            /\ canStats'.queueFullErrors = canStats.queueFullErrors + 1
        BY <2>1, <3>1
      <3>3. \A c, q : [[rxCount |-> c, queueFullErrors |-> q] EXCEPT !.rxCount = @ + 1]
                        = [rxCount |-> c + 1, queueFullErrors |-> q]
        OBVIOUS
      <3>4. \A c, q : [[rxCount |-> c, queueFullErrors |-> q] EXCEPT !.queueFullErrors = @ + 1]
                        = [rxCount |-> c, queueFullErrors |-> q + 1]
        OBVIOUS
      <3>5. [[RxStats EXCEPT !.rxCount = @ + 1] EXCEPT !.queueFullErrors = @ + 1]
                = [rxCount |-> canStats.rxCount + 1,
                   queueFullErrors |-> canStats.queueFullErrors + 1]
        BY <3>3, <3>4 DEF RxStats
      <3>6. RxStats' = [rxCount |-> canStats.rxCount + 1,
                        queueFullErrors |-> canStats.queueFullErrors + 1]
        BY <3>2 DEF RxStats
      <3> QED
        BY <3>5, <3>6
    <2>4. Reception!CAN0_Callback
      BY <1>1, <2>2, <2>3 DEF Rx!CAN0_Callback, Reception!CAN0_Callback, Rx!Receive,
         Reception!Receive, Rx!NextMailbox, Reception!NextMailbox
    <2> QED
      BY <2>4 DEF Reception!PollingTask
  <1>2. CASE Rx!ArmMailbox
    <2>1. RxStats' = RxStats
      BY <1>2 DEF Rx!ArmMailbox, RxStats
    <2>2. Reception!ArmMailbox
      BY <1>2, <2>1 DEF Rx!ArmMailbox, Reception!ArmMailbox, Rx!Receive, Reception!Receive
    <2> QED
      BY <2>2 DEF Reception!PollingTask
  <1>3. CASE Rx!NothingToRead
    <2>1. RxStats' = RxStats
      BY <1>3 DEF Rx!NothingToRead, RxStats
    <2>2. Reception!NothingToRead
      BY <1>3, <2>1 DEF Rx!NothingToRead, Reception!NothingToRead, Rx!NextMailbox,
         Reception!NextMailbox, Rx!Readable, Reception!Readable
    <2> QED
      BY <2>2 DEF Reception!PollingTask
  <1>4. CASE Rx!LockAndCopy
    <2>1. RxStats' = RxStats
      BY <1>4 DEF Rx!LockAndCopy, RxStats
    <2>2. Reception!LockAndCopy
      BY <1>4, <2>1 DEF Rx!LockAndCopy, Reception!LockAndCopy, Rx!Readable, Reception!Readable
    <2> QED
      BY <2>2 DEF Reception!PollingTask
  <1>5. CASE Rx!FinishRead
    <2>1. RxStats' = RxStats
      BY <1>5 DEF Rx!FinishRead, Rx!ClearFlag, Rx!UnlockMailbox, RxStats
    <2>2. Reception!FinishRead
      BY <1>5, <2>1 DEF Rx!FinishRead, Reception!FinishRead, Rx!ClearFlag,
         Reception!ClearFlag, Rx!UnlockMailbox, Reception!UnlockMailbox, Rx!Unlocked,
         Reception!Unlocked
    <2> QED
      BY <2>2 DEF Reception!PollingTask
  <1>6. CASE Rx!Delay
    <2>1. RxStats' = RxStats
      BY <1>6 DEF Rx!Delay, RxStats
    <2>2. Reception!Delay
      BY <1>6, <2>1 DEF Rx!Delay, Reception!Delay
    <2> QED
      BY <2>2 DEF Reception!PollingTask
  <1> QED
    BY <1>1, <1>2, <1>3, <1>4, <1>5, <1>6 DEF Rx!PollingTask

\* What the aggregation task does to the counters the reception keeps, and to
\* the queue.
LEMMA TaskKeepsRxStats ==
    ASSUME TypeOK, TaskStep \/ GateChange
    PROVE  /\ RxStats' = RxStats
           /\ queue' = queue \/ (queue # <<>> /\ queue' = Tail(queue))
  <1>1. canStats \in [rxCount : Nat, queueFullErrors : Nat, containersSent : Nat,
                      ethTxErrors : Nat, ethBufferErrors : Nat]
    BY DEF TypeOK
  <1>2. /\ canStats'.rxCount = canStats.rxCount
        /\ canStats'.queueFullErrors = canStats.queueFullErrors
    BY <1>1 DEF TaskStep, GateChange, ProcessOverflow, ReceiveFromQueue, QueueEmpty, Decide,
       ProvideOk, ProvideFails, TransmitOk, TransmitFails
  <1>3. queue' = queue \/ (queue # <<>> /\ queue' = Tail(queue))
    BY DEF TaskStep, GateChange, ProcessOverflow, ReceiveFromQueue, QueueEmpty, Decide,
       ProvideOk, ProvideFails, TransmitOk, TransmitFails
  <1> QED
    BY <1>2, <1>3 DEF RxStats

\* A step of the gateway is a step of the reception, for which the aggregation
\* task is the reader of its queue.
LEMMA ReceptionStep ==
    ASSUME TypeOK, [GatewayNext]_gatewayVars
    PROVE  [Reception!Next]_(Reception!vars)
  <1>1. CASE CanTask
    BY <1>1, PollingIsReception DEF CanTask, Reception!Next
  <1>2. CASE (TaskStep \/ GateChange) /\ UNCHANGED rxVars
    <2>1. CASE queue' = queue
      BY <1>2, <2>1, TaskKeepsRxStats DEF Reception!vars, Reception!hardware,
         Reception!driver, rxVars
    <2>2. CASE queue # <<>> /\ queue' = Tail(queue)
      <3>1. Reception!TakeFromQueue
        BY <1>2, <2>2, TaskKeepsRxStats DEF Reception!TakeFromQueue, Reception!hardware,
           Reception!driver, rxVars
      <3> QED
        BY <3>1 DEF Reception!Next
    <2> QED
      BY <1>2, <2>1, <2>2, TaskKeepsRxStats
  <1>3. ASSUME NEW m \in Rx!Mailboxes, Rx!FrameArrives(m)
        PROVE  Reception!Next
    <2>1. RxStats' = RxStats
      BY <1>3 DEF Rx!FrameArrives, RxStats
    <2>2. Reception!FrameArrives(m)
      BY <1>3, <2>1 DEF Rx!FrameArrives, Reception!FrameArrives, Rx!driver, Reception!driver
    <2> QED
      BY <2>2, SameReception DEF Reception!Next
  <1>4. CASE UNCHANGED gatewayVars
    BY <1>4 DEF gatewayVars, vars, rxVars, Reception!vars, Reception!hardware,
       Reception!driver, RxStats
  <1> QED
    BY <1>1, <1>2, <1>3, <1>4 DEF GatewayNext, AggregationTask, Environment

\* What the gateway does to the receive side is a behaviour of CanRx: the
\* aggregation task takes from xQueue_CAN as CanRx lets its reader do, and
\* touches none of the counters the callback keeps.
THEOREM GatewayRunsTheReception == GatewaySpec => ReceptionHolds
  <1>1. GatewayInit => Reception!Init
    BY DEF GatewayInit
  <1>2. TypeOK /\ [GatewayNext]_gatewayVars => [Reception!Next]_(Reception!vars)
    BY ReceptionStep
  <1> QED
    BY <1>1, <1>2, GatewayInvariance, PTL DEF GatewaySpec, Reception!Spec, ReceptionHolds
-----------------------------------------------------------------------------
(***************************************************************************)
(* Every loss is counted.                                                  *)
(***************************************************************************)
\* A frame that enters the queue enters the log: both grow by its I-PDU.
LEMMA AcceptedAdds ==
    ASSUME NEW t \in Seq(Pdus), NEW l \in Seq(Frames), NEW q \in Seq(Frames),
           NEW f \in Frames, ToPdus(l) = t \o ToPdus(q)
    PROVE  ToPdus(Append(l, f)) = t \o ToPdus(Append(q, f))
  <1>1. ToPdus(q) \in Seq(Pdus) /\ Piece(f) \in Seq(Pdus)
    BY ToPdusType, PieceType
  <1>2. PICK b \in Seq(Pdus), c \in Seq(Pdus) : b = ToPdus(q) /\ c = Piece(f)
    BY <1>1
  <1>3. ToPdus(Append(l, f)) = ToPdus(l) \o c /\ ToPdus(Append(q, f)) = b \o c
    BY <1>2, ToPdusAppend
  <1>4. PICK x, y : x = ToPdus(l) /\ y = ToPdus(Append(q, f))
    OBVIOUS
  <1>5. x = t \o b /\ y = b \o c
    BY <1>2, <1>3, <1>4
  <1>6. x \o c = t \o y
    BY <1>5, JoinFront
  <1> QED
    BY <1>3, <1>4, <1>6

\* A frame that is taken leaves the front of the queue.
LEMMA TakenMoves ==
    ASSUME NEW t \in Seq(Pdus), NEW q \in Seq(Frames), q # <<>>
    PROVE  t \o ToPdus(q) = (t \o Piece(Head(q))) \o ToPdus(Tail(q))
  <1>1. Head(q) \in Frames /\ Tail(q) \in Seq(Frames)
    BY HeadTailProperties
  <1>2. PICK b \in Seq(Pdus), c \in Seq(Pdus) : b = Piece(Head(q)) /\ c = ToPdus(Tail(q))
    BY <1>1, ToPdusType, PieceType
  <1>3. ToPdus(q) = b \o c
    BY <1>2, ToPdusTail
  <1>4. PICK x, y : x = t \o b /\ y = b \o c
    OBVIOUS
  <1>5. x \o c = t \o y
    BY <1>4, JoinFront
  <1> QED
    BY <1>2, <1>3, <1>4, <1>5

\* The two tasks keep the counters and histories in step.
CountInv ==
    /\ canStats.rxCount = Len(log) + canStats.queueFullErrors
    /\ canStats.containersSent = Len(sent)
    /\ (canStats.ethTxErrors + canStats.ethBufferErrors = 0) => flushed = Flat(sent)
    /\ ToPdus(log) = taken \o ToPdus(queue)

\* What the callback does to them.
LEMMA CallbackCounts ==
    ASSUME RxInv, TypeOK, CountInv, CanTask, Rx!CAN0_Callback
    PROVE  CountInv'
  <1>1. /\ canStats \in [rxCount : Nat, queueFullErrors : Nat, containersSent : Nat,
                         ethTxErrors : Nat, ethBufferErrors : Nat]
        /\ queue \in Seq(Frames) /\ taken \in Seq(Pdus) /\ log \in Seq(Frames)
    BY DEF TypeOK, RxInv, RxTypes
  <1>2. PICK f \in Frames : f = buffer[Rx!RxData]
    BY Destinations DEF RxInv, RxTypes
  <1>3. UNCHANGED <<sent, taken, flushed>>
    BY DEF CanTask, aggVars
  <1>4. /\ canStats'.rxCount = canStats.rxCount + 1
        /\ canStats'.containersSent = canStats.containersSent
        /\ canStats'.ethTxErrors = canStats.ethTxErrors
        /\ canStats'.ethBufferErrors = canStats.ethBufferErrors
    BY <1>1 DEF Rx!CAN0_Callback
  <1>5. CASE Len(queue) < QueueLength
    <2>1. /\ queue' = Append(queue, f) /\ log' = Append(log, f)
          /\ canStats' = [canStats EXCEPT !.rxCount = @ + 1]
      BY <1>2, <1>5 DEF Rx!CAN0_Callback
    <2>2. canStats'.queueFullErrors = canStats.queueFullErrors
      BY <1>1, <2>1
    <2>3. Len(log') = Len(log) + 1 /\ Len(log) \in Nat
      BY <1>1, <2>1, AppendProperties, LenProperties
    <2>4. canStats.rxCount \in Nat /\ canStats.queueFullErrors \in Nat
      BY <1>1
    <2>5. canStats'.rxCount = Len(log') + canStats'.queueFullErrors
      <3>1. canStats.rxCount = Len(log) + canStats.queueFullErrors
        BY DEF CountInv
      <3>2. \A a, b \in Nat : (a + b) + 1 = (a + 1) + b
        OBVIOUS
      <3> QED
        BY <1>4, <2>2, <2>3, <2>4, <3>1, <3>2
    <2>6. ToPdus(log') = taken \o ToPdus(queue')
      BY <1>1, <2>1, AcceptedAdds DEF CountInv
    <2> QED
      BY <1>3, <1>4, <2>5, <2>6 DEF CountInv
  <1>6. CASE ~(Len(queue) < QueueLength)
    <2>1. /\ UNCHANGED <<queue, log>>
          /\ canStats' = [canStats EXCEPT !.rxCount = @ + 1, !.queueFullErrors = @ + 1]
      BY <1>6 DEF Rx!CAN0_Callback
    <2>2. canStats'.queueFullErrors = canStats.queueFullErrors + 1
      BY <1>1, <2>1
    <2>3. Len(log) \in Nat /\ canStats.rxCount \in Nat /\ canStats.queueFullErrors \in Nat
      BY <1>1, LenProperties
    <2>4. canStats'.rxCount = Len(log') + canStats'.queueFullErrors
      BY <1>4, <2>1, <2>2, <2>3 DEF CountInv
    <2> QED
      BY <1>3, <1>4, <2>1, <2>4 DEF CountInv
  <1> QED
    BY <1>5, <1>6

\* What a transmission, or its failure, does to them.
LEMMA FlushCounts ==
    ASSUME TypeOK, CountInv, ProvideFails \/ TransmitOk \/ TransmitFails, UNCHANGED rxVars
    PROVE  CountInv'
  <1>1. /\ canStats \in [rxCount : Nat, queueFullErrors : Nat, containersSent : Nat,
                         ethTxErrors : Nat, ethBufferErrors : Nat]
        /\ sent \in Seq(Containers) /\ flushed \in Seq(Pdus)
    BY DEF TypeOK
  <1>2. UNCHANGED <<queue, taken, log>> /\ flushed' = flushed \o pdus
    BY DEF ProvideFails, TransmitOk, TransmitFails, ResetContainer, rxVars
  <1>3. /\ canStats'.rxCount = canStats.rxCount
        /\ canStats'.queueFullErrors = canStats.queueFullErrors
    BY <1>1 DEF ProvideFails, TransmitOk, TransmitFails
  <1>4. canStats'.rxCount = Len(log') + canStats'.queueFullErrors
        /\ ToPdus(log') = taken' \o ToPdus(queue')
    BY <1>2, <1>3 DEF CountInv
  <1>5. CASE TransmitOk
    <2>1. /\ sent' = Append(sent, Container)
          /\ canStats' = [canStats EXCEPT !.containersSent = @ + 1]
      BY <1>5 DEF TransmitOk
    <2>2. Container \in Containers /\ Container.pdus = pdus
      BY ContainerType DEF Container
    <2>3. Flat(sent') = Flat(sent) \o pdus
      BY <1>1, <2>1, <2>2, FlatAppend
    <2>4. /\ canStats'.containersSent = canStats.containersSent + 1
          /\ canStats'.ethTxErrors = canStats.ethTxErrors
          /\ canStats'.ethBufferErrors = canStats.ethBufferErrors
      BY <1>1, <2>1
    <2>5. Len(sent') = Len(sent) + 1
      BY <1>1, <2>1, <2>2, AppendProperties
    <2> QED
      BY <1>2, <1>4, <2>3, <2>4, <2>5 DEF CountInv
  <1>6. CASE ProvideFails \/ TransmitFails
    <2>1. sent' = sent
      BY <1>6 DEF ProvideFails, TransmitFails
    <2>2. /\ canStats'.containersSent = canStats.containersSent
          /\ canStats'.ethTxErrors + canStats'.ethBufferErrors # 0
      <3>1. CASE ProvideFails
        <4>1. canStats' = [canStats EXCEPT !.ethBufferErrors = @ + 1]
          BY <3>1 DEF ProvideFails
        <4> QED
          BY <1>1, <4>1
      <3>2. CASE TransmitFails
        <4>1. canStats' = [canStats EXCEPT !.ethTxErrors = @ + 1]
          BY <3>2 DEF TransmitFails
        <4> QED
          BY <1>1, <4>1
      <3> QED
        BY <1>6, <3>1, <3>2
    <2> QED
      BY <1>4, <2>1, <2>2 DEF CountInv
  <1> QED
    BY <1>5, <1>6

\* Every step keeps them.
LEMMA CountStep ==
    ASSUME RxInv, TypeOK, CountInv, [GatewayNext]_gatewayVars
    PROVE  CountInv'
  <1>1. CASE CanTask /\ Rx!CAN0_Callback
    BY <1>1, CallbackCounts
  <1>2. CASE UNCHANGED <<queue, canStats, sent, taken, flushed, log>>
    BY <1>2 DEF CountInv
  <1>3. CASE CanTask /\ ~Rx!CAN0_Callback
    <2>1. UNCHANGED <<queue, canStats, log>>
      BY <1>3 DEF CanTask, Rx!PollingTask, Rx!FinishRead, Rx!ArmMailbox, Rx!NothingToRead,
         Rx!LockAndCopy, Rx!ClearFlag, Rx!UnlockMailbox, Rx!Delay
    <2> QED
      BY <1>2, <1>3, <2>1 DEF CanTask, aggVars
  <1>4. CASE ReceiveFromQueue /\ UNCHANGED rxVars
    <2>1. /\ queue # <<>> /\ queue' = Tail(queue)
          /\ taken' = IF GW_Mapped(Head(queue)) THEN Append(taken, ToPdu(Head(queue)))
                                                ELSE taken
          /\ UNCHANGED <<canStats, sent, flushed, log>>
      BY <1>4 DEF ReceiveFromQueue, rxVars
    <2>2. queue \in Seq(Frames) /\ taken \in Seq(Pdus) /\ Head(queue) \in Frames
      BY <2>1, HeadTailProperties DEF TypeOK
    <2>3. taken' = taken \o Piece(Head(queue))
      <3>1. CASE GW_Mapped(Head(queue))
        <4>1. ToPdu(Head(queue)) \in Pdus
          BY <2>2, <3>1, MappedFrame
        <4> QED
          BY <2>1, <2>2, <3>1, <4>1, AppendIsConcat DEF Piece
      <3>2. CASE ~GW_Mapped(Head(queue))
        BY <2>1, <2>2, <3>2, ConcatEmptySeq DEF Piece
      <3> QED
        BY <3>1, <3>2
    <2>4. taken \o ToPdus(queue) = taken' \o ToPdus(queue')
      BY <2>1, <2>2, <2>3, TakenMoves
    <2>5. ToPdus(log') = taken' \o ToPdus(queue')
      BY <2>1, <2>4 DEF CountInv
    <2> QED
      BY <2>1, <2>5 DEF CountInv
  <1>5. CASE (ProvideFails \/ TransmitOk \/ TransmitFails) /\ UNCHANGED rxVars
    BY <1>5, FlushCounts
  <1>6. CASE (ProcessOverflow \/ QueueEmpty \/ Decide \/ ProvideOk \/ GateChange)
             /\ UNCHANGED rxVars
    BY <1>2, <1>6 DEF ProcessOverflow, QueueEmpty, Decide, ProvideOk, GateChange, rxVars
  <1>7. CASE \E m \in Rx!Mailboxes : Rx!FrameArrives(m) /\ UNCHANGED <<aggVars, offered>>
    BY <1>2, <1>7 DEF Rx!FrameArrives, aggVars
  <1>8. CASE UNCHANGED gatewayVars
    BY <1>2, <1>8 DEF gatewayVars, vars, rxVars
  <1> QED
    BY <1>1, <1>3, <1>4, <1>5, <1>6, <1>7, <1>8 DEF GatewayNext, AggregationTask,
       Environment, TaskStep

LEMMA CountInvariance == GatewaySpec => []CountInv
  <1>1. GatewayInit => CountInv
    <2> SUFFICES ASSUME GatewayInit PROVE CountInv
      OBVIOUS
    <2>1. /\ canStats = [rxCount |-> 0, queueFullErrors |-> 0, containersSent |-> 0,
                         ethTxErrors |-> 0, ethBufferErrors |-> 0]
          /\ log = <<>> /\ sent = <<>> /\ flushed = <<>> /\ taken = <<>> /\ queue = <<>>
      BY DEF GatewayInit, Init, Reception!Init
    <2>2. <<>> = <<>> \o <<>> /\ Len(<<>>) = 0
      BY EmptySeq, ConcatEmptySeq
    <2> QED
      BY <2>1, <2>2, ToPdusEmpty, FlatEmpty DEF CountInv
  <1>2. RxInv /\ TypeOK /\ CountInv /\ [GatewayNext]_gatewayVars => CountInv'
    BY CountStep
  <1> QED
    BY <1>1, <1>2, GatewayInvariance, PTL DEF GatewaySpec

\* No loss is silent: callbacks are queue entries or counted refusals,
\* transmitted containers are counted, and while no error is counted every
\* mapped frame the callback handed over has been sent or is on its way.
THEOREM LossesAreCountedAlways == GatewaySpec => []LossesAreCounted
  <1>1. TypeOK /\ CountInv /\ PduConservation => LossesAreCounted
    <2> SUFFICES ASSUME TypeOK, CountInv, PduConservation PROVE LossesAreCounted
      OBVIOUS
    <2>1. ASSUME canStats.queueFullErrors + canStats.ethTxErrors + canStats.ethBufferErrors = 0
          PROVE  canStats.ethTxErrors + canStats.ethBufferErrors = 0
      <3>1. /\ canStats.queueFullErrors \in Nat
            /\ canStats.ethTxErrors \in Nat
            /\ canStats.ethBufferErrors \in Nat
        BY DEF TypeOK
      <3> QED
        BY <2>1, <3>1
    <2> QED
      BY <2>1 DEF CountInv, PduConservation, LossesAreCounted
  <1>2. GatewaySpec => []PduConservation
    BY GatewayRunsTheAggregator, PdusAreConserved, PTL DEF AggregationHolds
  <1> QED
    BY <1>1, <1>2, CountInvariance, GatewayInvariance, PTL
-----------------------------------------------------------------------------
(***************************************************************************)
(* The frames of one id leave in the order they arrived.                   *)
(***************************************************************************)
\* A line of I-PDUs in which those of one id stand in order of arrival.
Ordered(s) ==
    \A i, j \in DOMAIN s : (i < j /\ s[i].pduId = s[j].pduId) => s[i].data <= s[j].data

\* The I-PDUs of a are not newer than those of their id in b.
NotNewer(a, b) ==
    \A i \in DOMAIN a : \A j \in DOMAIN b : a[i].pduId = b[j].pduId => a[i].data <= b[j].data

\* Every entry of a is one of b.
AllIn(a, b) == \A i \in DOMAIN a : \E j \in DOMAIN b : a[i] = b[j]

\* Where the entries of a concatenation come from.
LEMMA ConcatEntries ==
    ASSUME NEW a \in Seq(Pdus), NEW b \in Seq(Pdus)
    PROVE  /\ \A i \in DOMAIN a : i \in DOMAIN (a \o b) /\ (a \o b)[i] = a[i] /\ i <= Len(a)
           /\ \A j \in DOMAIN b : Len(a) + j \in DOMAIN (a \o b) /\ (a \o b)[Len(a) + j] = b[j]
                                  /\ j \in Nat /\ 1 <= j
           /\ \A i \in DOMAIN (a \o b) :
                  i \in DOMAIN a \/ \E j \in DOMAIN b : i = Len(a) + j
           /\ Len(a) \in Nat /\ DOMAIN a \subseteq Nat
  <1>1. /\ Len(a) \in Nat /\ DOMAIN a = 1..Len(a) /\ Len(b) \in Nat /\ DOMAIN b = 1..Len(b)
        /\ DOMAIN (a \o b) = 1..Len(a) + Len(b)
        /\ \A i \in 1..Len(a) + Len(b) : (a \o b)[i] = IF i <= Len(a) THEN a[i] ELSE b[i - Len(a)]
    BY LenProperties, ConcatProperties
  <1>2. \A i \in DOMAIN a : i \in DOMAIN (a \o b) /\ (a \o b)[i] = a[i] /\ i <= Len(a)
    BY <1>1
  <1>3. ASSUME NEW j \in DOMAIN b
        PROVE  Len(a) + j \in DOMAIN (a \o b) /\ (a \o b)[Len(a) + j] = b[j] /\ j \in Nat /\ 1 <= j
    <2>1. /\ Len(a) + j \in 1..Len(a) + Len(b) /\ ~(Len(a) + j <= Len(a))
          /\ (Len(a) + j) - Len(a) = j /\ j \in Nat /\ 1 <= j
      BY <1>1
    <2> QED
      BY <1>1, <2>1
  <1>4. ASSUME NEW i \in DOMAIN (a \o b), i \notin DOMAIN a
        PROVE  \E j \in DOMAIN b : i = Len(a) + j
    <2>1. i - Len(a) \in DOMAIN b /\ i = Len(a) + (i - Len(a))
      BY <1>1, <1>4
    <2> QED
      BY <2>1
  <1>5. DOMAIN a \subseteq Nat
    BY <1>1
  <1> QED
    BY <1>1, <1>2, <1>3, <1>4, <1>5

\* A concatenation is ordered when its parts are and the first is not newer.
LEMMA OrderedConcat ==
    ASSUME NEW a \in Seq(Pdus), NEW b \in Seq(Pdus)
    PROVE  Ordered(a \o b) <=> Ordered(a) /\ Ordered(b) /\ NotNewer(a, b)
  <1> DEFINE c == a \o b
  <1>e. /\ \A i \in DOMAIN a : i \in DOMAIN c /\ c[i] = a[i] /\ i <= Len(a)
        /\ \A j \in DOMAIN b : Len(a) + j \in DOMAIN c /\ c[Len(a) + j] = b[j]
                               /\ j \in Nat /\ 1 <= j
        /\ \A i \in DOMAIN c : i \in DOMAIN a \/ \E j \in DOMAIN b : i = Len(a) + j
        /\ Len(a) \in Nat /\ DOMAIN a \subseteq Nat
    BY ConcatEntries
  <1> HIDE DEF c
  <1>n. /\ \A i \in DOMAIN a : i \in Nat
        /\ \A i \in DOMAIN a : \A j \in DOMAIN b : i < Len(a) + j /\ ~(Len(a) + j < i)
        /\ \A i, j \in DOMAIN b : Len(a) + i < Len(a) + j <=> i < j
    BY <1>e
  <1>1. ASSUME Ordered(c)
        PROVE  Ordered(a) /\ Ordered(b) /\ NotNewer(a, b)
    <2>1. Ordered(a)
      BY <1>1, <1>e, Zenon DEF Ordered
    <2>2. Ordered(b)
      <3> SUFFICES ASSUME NEW i \in DOMAIN b, NEW j \in DOMAIN b, i < j, b[i].pduId = b[j].pduId
                   PROVE  b[i].data <= b[j].data
        BY DEF Ordered
      <3>1. /\ Len(a) + i \in DOMAIN c /\ Len(a) + j \in DOMAIN c
            /\ c[Len(a) + i] = b[i] /\ c[Len(a) + j] = b[j]
            /\ Len(a) + i < Len(a) + j
        BY <1>e, <1>n
      <3> QED
        BY <1>1, <3>1, Zenon DEF Ordered
    <2>3. NotNewer(a, b)
      <3> SUFFICES ASSUME NEW i \in DOMAIN a, NEW j \in DOMAIN b, a[i].pduId = b[j].pduId
                   PROVE  a[i].data <= b[j].data
        BY DEF NotNewer
      <3>1. /\ i \in DOMAIN c /\ Len(a) + j \in DOMAIN c
            /\ c[i] = a[i] /\ c[Len(a) + j] = b[j]
            /\ i < Len(a) + j
        BY <1>e, <1>n
      <3> QED
        BY <1>1, <3>1, Zenon DEF Ordered
    <2> QED
      BY <2>1, <2>2, <2>3
  <1>2. ASSUME Ordered(a), Ordered(b), NotNewer(a, b)
        PROVE  Ordered(c)
    <2> SUFFICES ASSUME NEW i \in DOMAIN c, NEW j \in DOMAIN c, i < j, c[i].pduId = c[j].pduId
                 PROVE  c[i].data <= c[j].data
      BY DEF Ordered
    <2>1. CASE i \in DOMAIN a /\ j \in DOMAIN a
      <3>1. c[i] = a[i] /\ c[j] = a[j]
        BY <1>e, <2>1
      <3> QED
        BY <1>2, <2>1, <3>1, Zenon DEF Ordered
    <2>2. ASSUME i \in DOMAIN a, NEW q \in DOMAIN b, j = Len(a) + q
          PROVE  c[i].data <= c[j].data
      <3>1. c[i] = a[i] /\ c[j] = b[q]
        BY <1>e, <2>2
      <3> QED
        BY <1>2, <2>2, <3>1, Zenon DEF NotNewer
    <2>3. ASSUME NEW p \in DOMAIN b, i = Len(a) + p, NEW q \in DOMAIN b, j = Len(a) + q
          PROVE  c[i].data <= c[j].data
      <3>1. c[i] = b[p] /\ c[j] = b[q] /\ p < q
        BY <1>e, <1>n, <2>3
      <3> QED
        BY <1>2, <3>1, Zenon DEF Ordered
    <2>4. ~(j \in DOMAIN a /\ \E p \in DOMAIN b : i = Len(a) + p)
      BY <1>n
    <2> QED
      BY <1>e, <2>1, <2>2, <2>3, <2>4, Zenon
  <1> QED
    BY <1>1, <1>2 DEF c

\* Entries stay entries when the same is put behind both lines.
LEMMA AllInConcat ==
    ASSUME NEW a \in Seq(Pdus), NEW b \in Seq(Pdus), NEW c \in Seq(Pdus), AllIn(a, b)
    PROVE  AllIn(a, b \o c) /\ AllIn(a \o c, b \o c)
  <1>1. AllIn(a, b \o c)
    <2> SUFFICES ASSUME NEW i \in DOMAIN a
                 PROVE  \E j \in DOMAIN (b \o c) : a[i] = (b \o c)[j]
      BY DEF AllIn
    <2>1. PICK j \in DOMAIN b : a[i] = b[j]
      BY DEF AllIn
    <2>2. j \in DOMAIN (b \o c) /\ (b \o c)[j] = b[j]
      BY ConcatEntries
    <2> QED
      BY <2>1, <2>2
  <1>2. AllIn(a \o c, b \o c)
    <2> SUFFICES ASSUME NEW i \in DOMAIN (a \o c)
                 PROVE  \E j \in DOMAIN (b \o c) : (a \o c)[i] = (b \o c)[j]
      BY DEF AllIn
    <2>1. CASE i \in DOMAIN a
      <3>1. (a \o c)[i] = a[i]
        BY <2>1, ConcatEntries
      <3> QED
        BY <1>1, <2>1, <3>1 DEF AllIn
    <2>2. ASSUME NEW j \in DOMAIN c, i = Len(a) + j
          PROVE  \E q \in DOMAIN (b \o c) : (a \o c)[i] = (b \o c)[q]
      <3>1. (a \o c)[i] = c[j] /\ Len(b) + j \in DOMAIN (b \o c) /\ (b \o c)[Len(b) + j] = c[j]
        BY <2>2, ConcatEntries
      <3> QED
        BY <3>1
    <2> QED
      BY <2>1, <2>2, ConcatEntries
  <1> QED
    BY <1>1, <1>2

\* What goes out behind a line it is not older than.
LEMMA NotNewerIn ==
    ASSUME NEW a, NEW b, NEW c, AllIn(a, b), NotNewer(b, c)
    PROVE  NotNewer(a, c)
  <1> SUFFICES ASSUME NEW i \in DOMAIN a, NEW j \in DOMAIN c, a[i].pduId = c[j].pduId
               PROVE  a[i].data <= c[j].data
    BY DEF NotNewer
  <1>1. PICK q \in DOMAIN b : a[i] = b[q]
    BY DEF AllIn
  <1> QED
    BY <1>1, Zenon DEF NotNewer

\* A frame that was read from its mailbox when the last serial numbers read
\* were last, or the zeroes of an unused buffer.
WasRead(f, last) ==
    \/ f = Rx!Zeroed
    \/ \E m \in Rx!Mailboxes : \E n \in 1..last[m] : f = FrameOf(m, n)

\* rxData is never older than what was queued under its id.
RxOrder ==
    /\ WasRead(buffer[Rx!RxData], lastRead)
    /\ \A i \in DOMAIN log : WasRead(log[i], lastRead)
    /\ \A i \in DOMAIN log :
           log[i].msgId = buffer[Rx!RxData].msgId => log[i].data <= buffer[Rx!RxData].data

\* What was read carries its serial number, at most the last one read of its
\* id's mailbox.
LEMMA ReadSerials ==
    ASSUME RxTypes, NEW f, WasRead(f, lastRead)
    PROVE  /\ f.data \in Nat
           /\ \A m \in Rx!Mailboxes : \A n \in 1..MaxArrivals :
                  f.msgId = FrameOf(m, n).msgId => f.data <= lastRead[m]
  <1>1. CASE f = Rx!Zeroed
    <2>1. f.data = 0
      BY <1>1 DEF Rx!Zeroed
    <2>2. \A m \in Rx!Mailboxes : lastRead[m] \in Nat
      BY ReceptionAssumption DEF RxTypes
    <2> QED
      BY <2>1, <2>2
  <1>2. ASSUME NEW q \in Rx!Mailboxes, NEW r \in 1..lastRead[q], f = FrameOf(q, r)
        PROVE  /\ f.data \in Nat
               /\ \A m \in Rx!Mailboxes : \A n \in 1..MaxArrivals :
                      f.msgId = FrameOf(m, n).msgId => f.data <= lastRead[m]
    <2>1. r \in 1..MaxArrivals /\ r \in Nat /\ r <= lastRead[q]
      BY ReceptionAssumption DEF RxTypes
    <2>2. f.data = r
      BY <1>2, <2>1, IdsAssumption, TableAssumption
    <2>3. \A m \in Rx!Mailboxes : \A n \in 1..MaxArrivals :
              f.msgId = FrameOf(m, n).msgId => m = q
      BY <1>2, <2>1, IdsAssumption, TableAssumption
    <2> QED
      BY <2>1, <2>2, <2>3
  <1> QED
    BY <1>1, <1>2 DEF WasRead

\* What was read once stays read.
LEMMA ReadStaysRead ==
    ASSUME RxInv, [GatewayNext]_gatewayVars, NEW f, WasRead(f, lastRead)
    PROVE  WasRead(f, lastRead')
  <1>1. \A m \in Rx!Mailboxes :
            lastRead[m] \in Nat /\ stored[m] \in Nat /\ lastRead[m] <= stored[m]
    BY ReceptionAssumption DEF RxInv, RxTypes, RxSerial
  <1>2. \A m \in Rx!Mailboxes : lastRead'[m] = lastRead[m] \/ lastRead'[m] = stored[m]
    <2>1. CASE Rx!LockAndCopy
      BY <2>1 DEF Rx!LockAndCopy, RxInv, RxTypes
    <2>2. CASE UNCHANGED lastRead
      BY <2>2
    <2> QED
      BY <2>1, <2>2, RxSteps DEF Rx!ArmMailbox, Rx!NothingToRead, Rx!ClearFlag,
         Rx!UnlockMailbox, Rx!CAN0_Callback, Rx!Delay, Rx!FrameArrives, rxVars
  <1>3. \A m \in Rx!Mailboxes : 1..lastRead[m] \subseteq 1..lastRead'[m]
    BY <1>1, <1>2
  <1> QED
    BY <1>3 DEF WasRead

\* What a queue entry adds to the log.
LEMMA LogGrows ==
    ASSUME RxInv, NEW f \in Frames, log' = Append(log, f)
    PROVE  /\ DOMAIN log = 1..Len(log) /\ Len(log) \in Nat
           /\ DOMAIN log' = 1..(Len(log) + 1)
           /\ \A i \in DOMAIN log : i \in DOMAIN log' /\ log'[i] = log[i]
           /\ log'[Len(log) + 1] = f
           /\ \A i \in DOMAIN log' : i \in DOMAIN log \/ i = Len(log) + 1
  <1>1. log \in Seq(Frames)
    BY DEF RxInv, RxTypes
  <1>2. /\ DOMAIN log = 1..Len(log) /\ Len(log) \in Nat
        /\ DOMAIN log' = 1..(Len(log) + 1)
        /\ \A i \in 1..Len(log) : log'[i] = log[i]
        /\ log'[Len(log) + 1] = f
    BY <1>1, AppendProperties, LenProperties
  <1> QED
    BY <1>2

\* The driver copies a frame to rxData only over an older one of its id, and
\* the callback queues what rxData holds.
LEMMA RxOrderStep ==
    ASSUME RxInv, RxOrder, [GatewayNext]_gatewayVars
    PROVE  RxOrder'
  <1> USE DEF Rx!hardware, Rx!driver
  <1>0. RxTypes
    BY DEF RxInv
  <1>r. /\ WasRead(buffer[Rx!RxData], lastRead')
        /\ \A i \in DOMAIN log : WasRead(log[i], lastRead')
    BY ReadStaysRead DEF RxOrder
  <1>1. CASE Rx!LockAndCopy /\ pMB[k] = Rx!RxData
    <2>1. UNCHANGED log
      BY <1>1 DEF Rx!LockAndCopy
    <2>2. buffer'[Rx!RxData] = FrameOf(k, stored[k]) /\ lastRead'[k] = stored[k]
      BY <1>0, <1>1, Destinations DEF RxTypes, Rx!LockAndCopy
    <2>3. k \in Rx!Mailboxes /\ stored[k] \in 1..MaxArrivals /\ lastRead[k] < stored[k]
      BY <1>1, ReadsAFrame
    <2>4. buffer'[Rx!RxData].data = stored[k] /\ stored[k] \in Nat
      BY <2>2, <2>3, IdsAssumption, TableAssumption
    <2>5. WasRead(buffer'[Rx!RxData], lastRead')
      BY <2>2, <2>3 DEF WasRead
    <2>6. ASSUME NEW i \in DOMAIN log, log[i].msgId = buffer'[Rx!RxData].msgId
          PROVE  log[i].data <= buffer'[Rx!RxData].data
      <3>1. WasRead(log[i], lastRead)
        BY DEF RxOrder
      <3>2. log[i].data \in Nat /\ log[i].data <= lastRead[k]
        BY <1>0, <2>2, <2>3, <2>6, <3>1, ReadSerials
      <3>3. lastRead[k] \in Nat
        BY <1>0, <2>3, ReceptionAssumption DEF RxTypes
      <3> QED
        BY <2>3, <2>4, <3>2, <3>3
    <2> QED
      BY <1>r, <2>1, <2>5, <2>6 DEF RxOrder
  <1>2. CASE Rx!CAN0_Callback /\ Len(queue) < QueueLength
    <2>1. PICK f \in Frames : f = buffer[Rx!RxData]
      BY <1>0, Destinations DEF RxTypes
    <2>2. UNCHANGED <<buffer, lastRead>> /\ log' = Append(log, f)
      BY <1>2, <2>1 DEF Rx!CAN0_Callback
    <2>3. f.data \in Nat /\ WasRead(f, lastRead)
      BY <1>0, <2>1, ReadSerials DEF RxOrder
    <2>4. /\ \A i \in DOMAIN log : log'[i] = log[i]
          /\ log'[Len(log) + 1] = f
          /\ \A i \in DOMAIN log' : i \in DOMAIN log \/ i = Len(log) + 1
      BY <2>2, LogGrows
    <2>5. f.data <= f.data
      BY <2>3
    <2> QED
      BY <2>1, <2>2, <2>3, <2>4, <2>5 DEF RxOrder
  <1>3. CASE log' = log /\ buffer'[Rx!RxData] = buffer[Rx!RxData]
    BY <1>r, <1>3 DEF RxOrder
  <1>4. CASE Rx!LockAndCopy /\ pMB[k] # Rx!RxData
    <2>1. log' = log /\ buffer'[Rx!RxData] = buffer[Rx!RxData]
      BY <1>0, <1>4, Destinations DEF RxTypes, Rx!LockAndCopy
    <2> QED
      BY <1>3, <2>1
  <1>5. CASE Rx!CAN0_Callback /\ ~(Len(queue) < QueueLength)
    BY <1>3, <1>5 DEF Rx!CAN0_Callback
  <1> QED
    BY <1>1, <1>2, <1>3, <1>4, <1>5, RxSteps DEF Rx!ArmMailbox, Rx!NothingToRead,
       Rx!ClearFlag, Rx!UnlockMailbox, Rx!Delay, Rx!FrameArrives, rxVars

\* Every I-PDU of the log is that of a frame in it.
FromLog(ps, l) ==
    \A i \in DOMAIN ps : \E j \in DOMAIN l : GW_Mapped(l[j]) /\ ps[i] = ToPdu(l[j])

\* What the queue took is ordered and what is on the wire too; the wire has
\* only what was flushed, so what is flushed next is not older than it.
WireInv ==
    /\ Ordered(ToPdus(log))
    /\ FromLog(ToPdus(log), log)
    /\ Ordered(Flat(sent))
    /\ AllIn(Flat(sent), flushed)

\* A frame that enters the queue is not older than those of its id before it.
LEMMA AcceptedInOrder ==
    ASSUME RxInv, RxOrder, WireInv, NEW f \in Frames, f = buffer[Rx!RxData],
           log' = Append(log, f)
    PROVE  Ordered(ToPdus(log')) /\ FromLog(ToPdus(log'), log')
  <1>1. log \in Seq(Frames)
    BY DEF RxInv, RxTypes
  <1>2. PICK ps \in Seq(Pdus), p \in Seq(Pdus) : ps = ToPdus(log) /\ p = Piece(f)
    BY <1>1, ToPdusType, PieceType
  <1>3. ToPdus(log') = ps \o p
    BY <1>1, <1>2, ToPdusAppend
  <1>4. Ordered(ps) /\ FromLog(ps, log)
    BY <1>2 DEF WireInv
  <1>5. /\ \A i \in DOMAIN log : i \in DOMAIN log' /\ log'[i] = log[i]
        /\ Len(log) + 1 \in DOMAIN log' /\ log'[Len(log) + 1] = f
    <2>1. Len(log) \in Nat /\ DOMAIN log' = 1..(Len(log) + 1)
      BY LogGrows
    <2>2. Len(log) + 1 \in DOMAIN log'
      BY <2>1
    <2> QED
      BY <2>2, LogGrows
  <1>6. \A j \in DOMAIN p : GW_Mapped(f) /\ p[j] = ToPdu(f) /\ j = 1
    <2>1. CASE GW_Mapped(f)
      <3>1. p = <<ToPdu(f)>>
        BY <1>2, <2>1 DEF Piece
      <3> QED
        BY <2>1, <3>1
    <2>2. CASE ~GW_Mapped(f)
      <3>1. p = <<>>
        BY <1>2, <2>2 DEF Piece
      <3> QED
        BY <3>1
    <2> QED
      BY <2>1, <2>2
  <1>7. Ordered(p)
    <2>1. \A i, j \in DOMAIN p : ~(i < j)
      BY <1>6
    <2> QED
      BY <2>1, Zenon DEF Ordered
  <1>8. NotNewer(ps, p)
    <2> SUFFICES ASSUME NEW i \in DOMAIN ps, NEW j \in DOMAIN p, ps[i].pduId = p[j].pduId
                 PROVE  ps[i].data <= p[j].data
      BY DEF NotNewer
    <2>1. PICK q \in DOMAIN log : GW_Mapped(log[q]) /\ ps[i] = ToPdu(log[q])
      BY <1>4 DEF FromLog
    <2>2. GW_Mapped(f) /\ p[j] = ToPdu(f)
      BY <1>6
    <2>3. /\ log[q].msgId \in DOMAIN CanPduMap /\ f.msgId \in DOMAIN CanPduMap
          /\ CanPduMap[log[q].msgId].pduId = CanPduMap[f.msgId].pduId
          /\ ps[i].data = log[q].data /\ p[j].data = f.data
      BY <2>1, <2>2 DEF GW_Mapped, ToPdu
    <2>4. log[q].msgId = f.msgId
      BY <2>3, IdsAssumption, TableAssumption, Zenon
    <2>5. log[q].data <= f.data
      BY <2>4 DEF RxOrder
    <2> QED
      BY <2>3, <2>5
  <1>9. Ordered(ps \o p)
    BY <1>4, <1>7, <1>8, OrderedConcat
  <1>10. ASSUME NEW i \in DOMAIN (ps \o p)
         PROVE  \E j \in DOMAIN log' : GW_Mapped(log'[j]) /\ (ps \o p)[i] = ToPdu(log'[j])
    <2>1. CASE i \in DOMAIN ps
      <3>1. (ps \o p)[i] = ps[i]
        BY <2>1, ConcatEntries
      <3>2. PICK q \in DOMAIN log : GW_Mapped(log[q]) /\ ps[i] = ToPdu(log[q])
        BY <1>4, <2>1 DEF FromLog
      <3>3. q \in DOMAIN log' /\ log'[q] = log[q]
        BY <1>5
      <3> QED
        BY <3>1, <3>2, <3>3
    <2>2. ASSUME NEW j \in DOMAIN p, i = Len(ps) + j
          PROVE  GW_Mapped(f) /\ (ps \o p)[i] = ToPdu(f)
      BY <1>6, <2>2, ConcatEntries
    <2>3. i \in DOMAIN ps \/ \E j \in DOMAIN p : i = Len(ps) + j
      BY ConcatEntries
    <2>4. CASE GW_Mapped(f) /\ (ps \o p)[i] = ToPdu(f)
      BY <1>5, <2>4
    <2> QED
      BY <2>1, <2>2, <2>3, <2>4
  <1> QED
    BY <1>3, <1>9, <1>10 DEF FromLog

\* A flushed container goes behind everything flushed before it.
LEMMA FlushedInOrder ==
    ASSUME TypeOK, IInv, CountInv, PduConservation, WireInv, log \in Seq(Frames)
    PROVE  /\ Ordered(Flat(sent) \o pdus)
           /\ AllIn(Flat(sent) \o pdus, flushed \o pdus)
           /\ AllIn(Flat(sent), flushed \o pdus)
  <1>1. PICK w \in Seq(Pdus), q \in Seq(Pdus), t \in Seq(Pdus), a \in Seq(Pdus),
             f \in Seq(Pdus), p \in Seq(Pdus) :
            /\ w = Flat(sent) /\ q = ToPdus(queue) /\ t = taken /\ a = SetAside
            /\ f = flushed /\ p = pdus
    <2>1. /\ taken \in Seq(Pdus) /\ flushed \in Seq(Pdus) /\ pdus \in Seq(Pdus)
          /\ SetAside \in Seq(Pdus)
      BY SetAsideType DEF TypeOK
    <2>2. Flat(sent) \in Seq(Pdus) /\ ToPdus(queue) \in Seq(Pdus)
      BY FlatType, ToPdusType DEF TypeOK
    <2> QED
      BY <2>1, <2>2
  <1>2. Ordered(t \o q) /\ t = (f \o p) \o a
    BY <1>1 DEF WireInv, CountInv, PduConservation
  <1>3. Ordered(t)
    BY <1>2, OrderedConcat
  <1>4. f \o p \in Seq(Pdus)
    BY ConcatProperties
  <1>5. Ordered(f \o p)
    BY <1>2, <1>3, <1>4, OrderedConcat
  <1>6. Ordered(p) /\ NotNewer(f, p)
    BY <1>5, OrderedConcat
  <1>7. Ordered(w) /\ AllIn(w, f)
    BY <1>1 DEF WireInv
  <1>8. NotNewer(w, p)
    BY <1>6, <1>7, NotNewerIn
  <1>9. Ordered(w \o p)
    BY <1>6, <1>7, <1>8, OrderedConcat
  <1>10. AllIn(w, f \o p) /\ AllIn(w \o p, f \o p)
    BY <1>7, AllInConcat
  <1> QED
    BY <1>1, <1>9, <1>10

\* Every step keeps the order.
LEMMA WireStep ==
    ASSUME RxInv, RxOrder, IInv, CountInv, PduConservation, WireInv,
           [GatewayNext]_gatewayVars
    PROVE  WireInv'
  <1>0. TypeOK /\ log \in Seq(Frames)
    BY DEF IInv, RxInv, RxTypes
  <1>1. CASE CanTask /\ Rx!CAN0_Callback /\ Len(queue) < QueueLength
    <2>1. PICK f \in Frames : f = buffer[Rx!RxData]
      BY Destinations DEF RxInv, RxTypes
    <2>2. log' = Append(log, f)
      BY <1>1, <2>1 DEF Rx!CAN0_Callback
    <2>3. Ordered(ToPdus(log')) /\ FromLog(ToPdus(log'), log')
      BY <2>1, <2>2, AcceptedInOrder
    <2>4. UNCHANGED <<sent, flushed>>
      BY <1>1 DEF CanTask, aggVars
    <2> QED
      BY <2>3, <2>4 DEF WireInv
  <1>2. CASE UNCHANGED <<log, sent, flushed>>
    BY <1>2 DEF WireInv
  <1>3. CASE CanTask /\ ~(Rx!CAN0_Callback /\ Len(queue) < QueueLength)
    <2>1. UNCHANGED log
      BY <1>3 DEF CanTask, Rx!PollingTask, Rx!FinishRead, Rx!ArmMailbox, Rx!NothingToRead,
         Rx!LockAndCopy, Rx!ClearFlag, Rx!UnlockMailbox, Rx!Delay, Rx!CAN0_Callback
    <2> QED
      BY <1>2, <1>3, <2>1 DEF CanTask, aggVars
  <1>4. CASE TransmitOk /\ UNCHANGED rxVars
    <2>1. sent' = Append(sent, Container) /\ flushed' = flushed \o pdus /\ log' = log
      BY <1>4 DEF TransmitOk, ResetContainer, rxVars
    <2>2. Container \in Containers /\ Container.pdus = pdus /\ sent \in Seq(Containers)
      BY <1>0, ContainerType DEF Container, TypeOK
    <2>3. Flat(sent') = Flat(sent) \o pdus
      BY <2>1, <2>2, FlatAppend
    <2>4. Ordered(Flat(sent')) /\ AllIn(Flat(sent'), flushed')
      BY <1>0, <2>1, <2>3, FlushedInOrder
    <2> QED
      BY <2>1, <2>4 DEF WireInv
  <1>5. CASE (ProvideFails \/ TransmitFails) /\ UNCHANGED rxVars
    <2>1. sent' = sent /\ flushed' = flushed \o pdus /\ log' = log
      BY <1>5 DEF ProvideFails, TransmitFails, ResetContainer, rxVars
    <2>2. AllIn(Flat(sent'), flushed')
      BY <1>0, <2>1, FlushedInOrder
    <2> QED
      BY <2>1, <2>2 DEF WireInv
  <1>6. CASE (ProcessOverflow \/ ReceiveFromQueue \/ QueueEmpty \/ Decide \/ ProvideOk
              \/ GateChange) /\ UNCHANGED rxVars
    BY <1>2, <1>6 DEF ProcessOverflow, ReceiveFromQueue, QueueEmpty, Decide, ProvideOk,
       GateChange, rxVars
  <1>7. CASE \E m \in Rx!Mailboxes : Rx!FrameArrives(m) /\ UNCHANGED <<aggVars, offered>>
    BY <1>2, <1>7 DEF Rx!FrameArrives, aggVars
  <1>8. CASE UNCHANGED gatewayVars
    BY <1>2, <1>8 DEF gatewayVars, vars, rxVars
  <1> QED
    BY <1>1, <1>3, <1>4, <1>5, <1>6, <1>7, <1>8 DEF GatewayNext, AggregationTask,
       Environment, TaskStep

\* End to end, over every mailbox, the queue, containers, carried PDUs and
\* dropped containers, the frames of one CAN id reach the wire in the order
\* they arrived.
THEOREM WireOrderIsKept == GatewaySpec => []WireOrderPerId
  <1>1. GatewayInit => RxOrder /\ WireInv
    <2> SUFFICES ASSUME GatewayInit PROVE RxOrder /\ WireInv
      OBVIOUS
    <2>1. log = <<>> /\ sent = <<>> /\ flushed = <<>>
      BY DEF GatewayInit, Init, Reception!Init
    <2>2. buffer[Rx!RxData] = Rx!Zeroed
      <3>1. buffer = [b \in Rx!Buffers |-> Rx!Zeroed]
        BY DEF GatewayInit, Reception!Init, Reception!Buffers, Rx!Buffers, Reception!Zeroed,
           Rx!Zeroed
      <3> QED
        BY <3>1, Destinations
    <2>3. DOMAIN <<>> = {}
      OBVIOUS
    <2>4. RxOrder
      BY <2>1, <2>2, <2>3 DEF RxOrder, WasRead
    <2>5. ToPdus(log) = <<>> /\ Flat(sent) = <<>>
      BY <2>1, ToPdusEmpty, FlatEmpty
    <2>6. WireInv
      BY <2>1, <2>3, <2>5 DEF WireInv, Ordered, FromLog, AllIn
    <2> QED
      BY <2>4, <2>6
  <1>2. RxInv /\ RxOrder /\ [GatewayNext]_gatewayVars => RxOrder'
    BY RxOrderStep
  <1>3. RxInv /\ RxOrder /\ IInv /\ CountInv /\ PduConservation /\ WireInv
            /\ [GatewayNext]_gatewayVars => WireInv'
    BY WireStep
  <1>4. GatewaySpec => []IInv /\ []PduConservation
    BY GatewayRunsTheAggregator, InvariantHolds, PdusAreConserved, PTL DEF AggregationHolds
  <1>5. WireInv => WireOrderPerId
    BY DEF WireInv, Ordered, WireOrderPerId
  <1> QED
    BY <1>1, <1>2, <1>3, <1>4, <1>5, CountInvariance, GatewayInvariance, PTL DEF GatewaySpec
=============================================================================
