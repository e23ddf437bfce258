----------------------------- MODULE CodecProofs -----------------------------
(***************************************************************************)
(* The codecs read what was written: the frames of the tunnel, for every      *)
(* payload, stream, lease and cap, and the chunked bodies of an engine, for   *)
(* every body, however it is split.                                           *)
(*                                                                            *)
(* What a recursive function gives for every argument needs an induction, and *)
(* a property to be shown by it has to be a set here: Induct takes the set of *)
(* the numbers that have the property, RankInduct the set of the values whose *)
(* smaller ones have it.  Recursion shows that a definition by recursion has  *)
(* a solution, so that its equation may be used (DecimalIs, HexValueIs).      *)
(*                                                                            *)
(* The first half follows a frame through its bytes: LeaseRoundTrip,          *)
(* BigEndianOf and Encoded say what the writer writes; ReadsWritten what the  *)
(* reader makes of it when it is there, CutShort when it is not, and          *)
(* ReadsWhatIsThere what a message that was read as a frame must have held.   *)
(*                                                                            *)
(* The second half says what a wire is by what can be seen at a place of it   *)
(* (Framed): a line where a chunk begins, two bytes where its data end.  Every*)
(* body an engine writes is Framed (WiresAreFramed), and a decoder that is    *)
(* Reading such a wire is, after one more pass, Reading it further on, or has *)
(* Finished or Failed where the marks say so (PassFits, LoopFits, AtRest).    *)
(***************************************************************************)
EXTENDS Frames, Chunked, WellFoundedInduction, SequenceTheorems, TLAPS

\* Every non-empty set of naturals has a least element.
LEMMA Least ==
    ASSUME NEW T \in SUBSET Nat, T # {}
    PROVE  \E x \in T : \A y \in T : x <= y
  <1> DEFINE R == {ss \in Nat \X Nat : ss[1] < ss[2]}
  <1>1. IsWellFoundedOn(R, Nat)
    BY NatLessThanWellFounded DEF OpToRel
  <1>2. \A x, y \in Nat : y < x => <<y, x>> \in R
    OBVIOUS
  <1> HIDE DEF R
  <1>3. PICK x \in T : \A y \in T : ~(<<y, x>> \in R)
    BY <1>1, WFMin
  <1>4. \A y \in T : ~(y < x)
    BY <1>2, <1>3
  <1>5. \A y \in T : x <= y
    BY <1>4
  <1> QED
    BY <1>5

\* Induction on naturals, with a set for the property.
LEMMA Induct ==
    ASSUME NEW S, 0 \in S, \A n \in Nat : n \in S => n + 1 \in S
    PROVE  \A n \in Nat : n \in S
  <1> SUFFICES ASSUME Nat \ S # {} PROVE FALSE
    OBVIOUS
  <1>1. PICK x \in Nat \ S : \A y \in Nat \ S : x <= y
    BY Least
  <1>2. x - 1 \in Nat /\ ~(x <= x - 1) /\ (x - 1) + 1 = x
    BY <1>1
  <1>3. x - 1 \in S
    BY <1>1, <1>2
  <1> QED
    BY <1>1, <1>2, <1>3

\* Induction along a rank.
LEMMA RankInduct ==
    ASSUME NEW D, NEW rank \in [D -> Nat], NEW S,
           \A d \in D : (\A e \in D : rank[e] < rank[d] => e \in S) => d \in S
    PROVE  \A d \in D : d \in S
  <1> DEFINE T == {k \in Nat : \E d \in D : d \notin S /\ rank[d] = k}
  <1> SUFFICES ASSUME NEW d \in D, d \notin S PROVE FALSE
    OBVIOUS
  <1>1. rank[d] \in T
    OBVIOUS
  <1>2. PICK k \in T : \A j \in T : k <= j
    <2> HIDE DEF T
    <2>1. T \in SUBSET Nat
      BY DEF T
    <2> QED
      BY <1>1, <2>1, Least
  <1>3. PICK e \in D : e \notin S /\ rank[e] = k
    BY <1>2
  <1>4. PICK c \in D : rank[c] < rank[e] /\ c \notin S
    BY <1>3
  <1>5. rank[c] \in T /\ rank[c] \in Nat /\ rank[e] \in Nat
    BY <1>4
  <1> QED
    BY <1>2, <1>3, <1>4, <1>5

\* A definition by recursion: at a base case a value, elsewhere a step from the
\* value of a predecessor of lower rank.
Descends(D, V, rank, base, at, pred, step) ==
    /\ rank \in [D -> Nat] /\ base \in SUBSET D /\ at \in [D -> V]
    /\ pred \in [D -> D] /\ step \in [D \X V -> V]
    /\ \A d \in D \ base : rank[pred[d]] < rank[d]
Solves(f, D, base, at, pred, step) ==
    \A d \in D : f[d] = IF d \in base THEN at[d] ELSE step[<<d, f[pred[d]]>>]

\* Such a definition has a solution.
LEMMA Recursion ==
    ASSUME NEW D, NEW V, NEW rank, NEW base, NEW at, NEW pred, NEW step,
           Descends(D, V, rank, base, at, pred, step)
    PROVE  \E f \in [D -> V] : Solves(f, D, base, at, pred, step)
  <1> USE DEF Descends
  <1> DEFINE Next(f, d) == IF d \in base THEN at[d] ELSE step[<<d, f[pred[d]]>>]
             Good(n) == {f \in [D -> V] : \A d \in D : rank[d] < n => f[d] = Next(f, d)}
             Solved == {n \in Nat : Good(n) # {}}
  <1>1. \A n \in Nat : n \in Solved
    <2>1. 0 \in Solved
      <3>1. at \in Good(0)
        OBVIOUS
      <3> QED
        BY <3>1
    <2>2. ASSUME NEW n \in Nat, n \in Solved PROVE n + 1 \in Solved
      <3>1. PICK f \in [D -> V] : \A d \in D : rank[d] < n => f[d] = Next(f, d)
        BY <2>2
      <3> DEFINE g == [d \in D |-> Next(f, d)]
      <3>2. g \in [D -> V]
        OBVIOUS
      <3>3. ASSUME NEW d \in D, rank[d] < n + 1 PROVE g[d] = Next(g, d)
        <4>1. CASE d \in base
          BY <4>1
        <4>2. CASE d \notin base
          <5>1. pred[d] \in D /\ rank[pred[d]] \in Nat /\ rank[d] \in Nat /\ rank[pred[d]] < rank[d]
            BY <4>2
          <5>2. rank[pred[d]] < n
            BY <5>1, <3>3
          <5>3. f[pred[d]] = g[pred[d]]
            BY <5>1, <5>2, <3>1
          <5> QED
            BY <5>3, <4>2
        <4> QED
          BY <4>1, <4>2
      <3>4. g \in Good(n + 1)
        BY <3>2, <3>3
      <3> HIDE DEF Good
      <3> QED
        BY <3>4
    <2> HIDE DEF Solved
    <2> QED
      BY <2>1, <2>2, Induct
  <1>2. ASSUME NEW n \in Nat, NEW m \in Nat, n <= m, NEW f \in Good(n), NEW g \in Good(m)
        PROVE  \A d \in D : rank[d] < n => f[d] = g[d]
    <2> DEFINE Agree == {d \in D : rank[d] < n => f[d] = g[d]}
    <2>1. ASSUME NEW d \in D, \A e \in D : rank[e] < rank[d] => e \in Agree PROVE d \in Agree
      <3> SUFFICES ASSUME rank[d] < n PROVE f[d] = g[d]
        OBVIOUS
      <3>1. rank[d] \in Nat /\ rank[d] < m
        BY <1>2
      <3>2. f[d] = Next(f, d) /\ g[d] = Next(g, d)
        BY <3>1
      <3>3. ASSUME d \notin base PROVE f[pred[d]] = g[pred[d]]
        <4>1. pred[d] \in D /\ rank[pred[d]] \in Nat /\ rank[pred[d]] < rank[d]
          BY <3>3
        <4> QED
          BY <4>1, <3>1, <2>1
      <3> QED
        BY <3>2, <3>3
    <2> HIDE DEF Agree
    <2>2. \A d \in D : d \in Agree
      BY <2>1, RankInduct
    <2> QED
      BY <2>2 DEF Agree
  <1> DEFINE h == [n \in Nat |-> CHOOSE f : f \in Good(n)]
             s == [d \in D |-> h[rank[d] + 1][d]]
  <1>3. \A n \in Nat : h[n] \in Good(n)
    <2> SUFFICES ASSUME NEW n \in Nat PROVE h[n] \in Good(n)
      OBVIOUS
    <2>1. \E f : f \in Good(n)
      BY <1>1
    <2> HIDE DEF Good
    <2> QED
      BY <2>1
  <1> HIDE DEF h
  <1>4. \A d \in D : rank[d] + 1 \in Nat /\ rank[d] < rank[d] + 1
    OBVIOUS
  <1>5. s \in [D -> V]
    BY <1>3, <1>4
  <1>6. ASSUME NEW d \in D PROVE s[d] = Next(s, d)
    <2>1. s[d] = Next(h[rank[d] + 1], d)
      BY <1>3, <1>4
    <2>2. CASE d \in base
      BY <2>1, <2>2
    <2>3. CASE d \notin base
      <3> DEFINE p == pred[d]
      <3>1. p \in D /\ rank[p] \in Nat /\ rank[p] + 1 \in Nat /\ rank[d] + 1 \in Nat /\ rank[p] + 1 <= rank[d] + 1
            /\ rank[p] < rank[p] + 1
        BY <2>3
      <3>2. h[rank[p] + 1] \in Good(rank[p] + 1) /\ h[rank[d] + 1] \in Good(rank[d] + 1)
        BY <3>1, <1>3
      <3>3. h[rank[p] + 1][p] = h[rank[d] + 1][p]
        <4> HIDE DEF Good, p
        <4> QED
          BY <1>2, <3>1, <3>2
      <3>4. s[p] = h[rank[d] + 1][p]
        BY <3>1, <3>3
      <3> QED
        BY <2>1, <2>3, <3>4
    <2> QED
      BY <2>2, <2>3
  <1> QED
    BY <1>5, <1>6 DEF Solves
-----------------------------------------------------------------------------
(* The lease in decimal *)

\* What the recursive definition of Decimal says.
LEMMA DecimalIs ==
    \A n \in Nat : Decimal[n] = IF n < 10 THEN <<48 + n>> ELSE Append(Decimal[n \div 10], 48 + (n % 10))
  <1> DEFINE base == 0..9
             rank == [n \in Nat |-> n]
             pred == [n \in Nat |-> n \div 10]
             at == [n \in Nat |-> IF n < 10 THEN <<48 + n>> ELSE <<>>]
             step == [nv \in Nat \X Seq(Digits) |-> Append(nv[2], 48 + (nv[1] % 10))]
  <1>1. \A n \in Nat : n \div 10 \in Nat /\ 48 + (n % 10) \in Digits /\ (n < 10 => 48 + n \in Digits)
    BY DEF Digits
  <1>2. rank \in [Nat -> Nat] /\ pred \in [Nat -> Nat] /\ base \in SUBSET Nat
    BY <1>1
  <1>3. at \in [Nat -> Seq(Digits)]
    BY <1>1
  <1>4. step \in [Nat \X Seq(Digits) -> Seq(Digits)]
    BY <1>1
  <1>5. \A n \in Nat \ base : rank[pred[n]] < rank[n]
    OBVIOUS
  <1>6. PICK f \in [Nat -> Seq(Digits)] : Solves(f, Nat, base, at, pred, step)
    <2> HIDE DEF rank, pred, base, at, step
    <2>1. Descends(Nat, Seq(Digits), rank, base, at, pred, step)
      BY <1>2, <1>3, <1>4, <1>5 DEF Descends
    <2> QED
      BY <2>1, Recursion
  <1>7. ASSUME NEW n \in Nat
        PROVE  f[n] = IF n < 10 THEN <<48 + n>> ELSE Append(f[n \div 10], 48 + (n % 10))
    <2>1. n \in base <=> n < 10
      OBVIOUS
    <2>2. at[n] = IF n < 10 THEN <<48 + n>> ELSE <<>>
      OBVIOUS
    <2>3. pred[n] = n \div 10 /\ f[n \div 10] \in Seq(Digits)
      BY <1>1
    <2>4. step[<<n, f[n \div 10]>>] = Append(f[n \div 10], 48 + (n % 10))
      BY <2>3
    <2>5. f[n] = IF n \in base THEN at[n] ELSE step[<<n, f[pred[n]]>>]
      BY <1>6 DEF Solves
    <2> HIDE DEF base, at, pred, step
    <2> QED
      BY <2>1, <2>2, <2>3, <2>4, <2>5
  <1>8. f = [n \in Nat |-> IF n < 10 THEN <<48 + n>> ELSE Append(f[n \div 10], 48 + (n % 10))]
    BY <1>7
  <1>9. Decimal = [n \in Nat |-> IF n < 10 THEN <<48 + n>> ELSE Append(Decimal[n \div 10], 48 + (n % 10))]
    BY <1>8, Zenon DEF Decimal
  <1> HIDE DEF base, rank, pred, at, step
  <1> QED
    BY <1>9, Zenon

\* It gives digits, at least one.
LEMMA DecimalDigits == \A n \in Nat : Decimal[n] \in Seq(Digits) \ {<<>>}
  <1> DEFINE rank == [n \in Nat |-> n]
             S == {n \in Nat : Decimal[n] \in Seq(Digits) \ {<<>>}}
  <1>0. ASSUME NEW d \in Digits
        PROVE  /\ <<d>> \in Seq(Digits) \ {<<>>}
               /\ \A s \in Seq(Digits) : Append(s, d) \in Seq(Digits) \ {<<>>}
    <2>1. <<d>> \in Seq(Digits)
      OBVIOUS
    <2>2. <<d>> # <<>>
      OBVIOUS
    <2>3. ASSUME NEW s \in Seq(Digits) PROVE Append(s, d) \in Seq(Digits) /\ Append(s, d) # <<>>
      <3>1. Append(s, d) \in Seq(Digits) /\ Len(Append(s, d)) = Len(s) + 1
        OBVIOUS
      <3>2. Len(s) \in Nat /\ Len(<<>>) = 0
        OBVIOUS
      <3> QED
        BY <3>1, <3>2
    <2> QED
      BY <2>1, <2>2, <2>3
  <1>1. ASSUME NEW n \in Nat, \A m \in Nat : rank[m] < rank[n] => m \in S PROVE n \in S
    <2>1. CASE n < 10
      <3>1. 48 + n \in Digits
        BY <2>1 DEF Digits
      <3>2. Decimal[n] = <<48 + n>>
        BY <2>1, DecimalIs
      <3>3. Decimal[n] \in Seq(Digits) \ {<<>>}
        BY <3>1, <3>2, <1>0, Zenon
      <3> QED
        BY <3>3
    <2>2. CASE n >= 10
      <3>1. n \div 10 \in Nat /\ n \div 10 < n /\ 48 + (n % 10) \in Digits /\ ~(n < 10)
        BY <2>2 DEF Digits
      <3>2. Decimal[n \div 10] \in Seq(Digits)
        BY <1>1, <3>1
      <3>3. Decimal[n] = Append(Decimal[n \div 10], 48 + (n % 10))
        BY <3>1, DecimalIs
      <3>4. Decimal[n] \in Seq(Digits) \ {<<>>}
        BY <3>1, <3>2, <3>3, <1>0, Zenon
      <3> QED
        BY <3>4
    <2> QED
      BY <2>1, <2>2
  <1>2. rank \in [Nat -> Nat]
    OBVIOUS
  <1>3. \A n \in Nat : n \in S
    <2> HIDE DEF S, rank
    <2> QED
      BY <1>1, <1>2, RankInduct
  <1> QED
    BY <1>3

\* A sequence that is not empty, without its last element.
LEMMA FrontOf ==
    ASSUME NEW S, NEW s \in Seq(S), s # <<>>
    PROVE  /\ SubSeq(s, 1, Len(s) - 1) \in Seq(S) /\ Len(SubSeq(s, 1, Len(s) - 1)) = Len(s) - 1
           /\ Len(s) \in Nat \ {0} /\ s[Len(s)] \in S
  <1>1. Len(s) \in Nat /\ Len(s) >= 1 /\ \A i \in 1..Len(s) : s[i] \in S
    OBVIOUS
  <1>2. \A i \in 1..(Len(s) - 1) : s[i] \in S
    BY <1>1
  <1>3. Len(s) - 1 \in Int /\ 1 \in Int
    BY <1>1
  <1>4. /\ SubSeq(s, 1, Len(s) - 1) \in Seq(S)
        /\ Len(SubSeq(s, 1, Len(s) - 1)) = IF 1 <= Len(s) - 1 THEN Len(s) - 1 - 1 + 1 ELSE 0
    BY <1>2, <1>3, SubSeqProperties
  <1>5. Len(SubSeq(s, 1, Len(s) - 1)) = Len(s) - 1
    <2>1. \A k \in Nat : k >= 1 => (IF 1 <= k - 1 THEN k - 1 - 1 + 1 ELSE 0) = k - 1
      OBVIOUS
    <2> QED
      BY <1>1, <1>4, <2>1, Zenon
  <1>6. s[Len(s)] \in S
    BY <1>1
  <1> QED
    BY <1>1, <1>4, <1>5, <1>6

\* What the recursive definition of Number says.
LEMMA NumberIs ==
    \A s \in Seq(Digits) :
        Number[s] = IF s = <<>> THEN 0 ELSE 10 * Number[SubSeq(s, 1, Len(s) - 1)] + s[Len(s)] - 48
  <1> DEFINE D == Seq(Digits)
             base == {<<>>}
             rank == [s \in D |-> Len(s)]
             pred == [s \in D |-> IF s = <<>> THEN <<>> ELSE SubSeq(s, 1, Len(s) - 1)]
             at == [s \in D |-> 0]
             step == [sv \in D \X Int |-> IF sv[1] = <<>> THEN 0 ELSE 10 * sv[2] + sv[1][Len(sv[1])] - 48]
  <1>1. ASSUME NEW s \in D, s # <<>>
        PROVE  /\ SubSeq(s, 1, Len(s) - 1) \in D /\ Len(SubSeq(s, 1, Len(s) - 1)) < Len(s)
               /\ s[Len(s)] \in Int
    BY <1>1, FrontOf DEF Digits
  <1>2. rank \in [D -> Nat] /\ base \in SUBSET D /\ at \in [D -> Int]
    OBVIOUS
  <1>3. pred \in [D -> D]
    BY <1>1
  <1>4. step \in [D \X Int -> Int]
    <2>1. ASSUME NEW s \in D, NEW v \in Int
          PROVE  (IF s = <<>> THEN 0 ELSE 10 * v + s[Len(s)] - 48) \in Int
      BY <1>1
    <2> HIDE DEF D
    <2> QED
      BY <2>1
  <1>5. \A s \in D \ base : rank[pred[s]] < rank[s]
    BY <1>1
  <1>6. PICK f \in [D -> Int] : Solves(f, D, base, at, pred, step)
    <2> HIDE DEF rank, pred, base, at, step, D
    <2>1. Descends(D, Int, rank, base, at, pred, step)
      BY <1>2, <1>3, <1>4, <1>5 DEF Descends
    <2> QED
      BY <2>1, Recursion
  <1>7. ASSUME NEW s \in D
        PROVE  f[s] = IF s = <<>> THEN 0 ELSE 10 * f[SubSeq(s, 1, Len(s) - 1)] + s[Len(s)] - 48
    <2>1. f[s] = IF s \in base THEN at[s] ELSE step[<<s, f[pred[s]]>>]
      BY <1>6 DEF Solves
    <2>2. CASE s = <<>>
      BY <2>1, <2>2
    <2>3. CASE s # <<>>
      <3>1. pred[s] = SubSeq(s, 1, Len(s) - 1) /\ pred[s] \in D
        BY <1>1, <2>3
      <3>2. f[s] = step[<<s, f[pred[s]]>>] /\ f[pred[s]] \in Int
        BY <2>1, <2>3, <3>1
      <3>3. step[<<s, f[pred[s]]>>] = 10 * f[pred[s]] + s[Len(s)] - 48
        <4> HIDE DEF D, pred
        <4> QED
          BY <2>3, <3>2
      <3> HIDE DEF step, D
      <3> QED
        BY <2>3, <3>1, <3>2, <3>3
    <2> QED
      BY <2>2, <2>3
  <1>8. f = [s \in Seq(Digits) |->
               IF s = <<>> THEN 0 ELSE 10 * f[SubSeq(s, 1, Len(s) - 1)] + s[Len(s)] - 48]
    BY <1>7
  <1>9. Number = [s \in Seq(Digits) |->
               IF s = <<>> THEN 0 ELSE 10 * Number[SubSeq(s, 1, Len(s) - 1)] + s[Len(s)] - 48]
    BY <1>8, Zenon DEF Number
  <1> HIDE DEF base, rank, pred, at, step, D
  <1> QED
    BY <1>9, Zenon

\* It is a natural number.
LEMMA NumberType == \A s \in Seq(Digits) : Number[s] \in Nat
  <1> DEFINE D == Seq(Digits)
             rank == [s \in D |-> Len(s)]
             S == {s \in D : Number[s] \in Nat}
  <1>1. ASSUME NEW s \in D, \A t \in D : rank[t] < rank[s] => t \in S
        PROVE  Number[s] \in Nat
    <2>1. CASE s = <<>>
      <3>1. Number[s] = 0
        BY <2>1, NumberIs
      <3> QED
        BY <3>1
    <2>2. CASE s # <<>>
      <3> DEFINE t == SubSeq(s, 1, Len(s) - 1)
      <3>1. t \in Seq(Digits) /\ Len(t) < Len(s) /\ s[Len(s)] \in Digits
        BY <2>2, FrontOf
      <3>2. Number[t] \in Nat
        BY <1>1, <3>1
      <3>3. Number[s] = 10 * Number[t] + s[Len(s)] - 48
        BY <2>2, NumberIs
      <3>4. \A n \in Nat, d \in Digits : 10 * n + d - 48 \in Nat
        BY DEF Digits
      <3> HIDE DEF t
      <3> QED
        BY <3>1, <3>2, <3>3, <3>4
    <2> QED
      BY <2>1, <2>2
  <1>2. rank \in [D -> Nat]
    OBVIOUS
  <1>3. \A s \in D : (\A t \in D : rank[t] < rank[s] => t \in S) => s \in S
    BY <1>1
  <1>4. \A s \in D : s \in S
    <2> HIDE DEF S, rank, D
    <2> QED
      BY <1>2, <1>3, RankInduct
  <1> QED
    BY <1>4

\* One more digit.
LEMMA NumberAppend ==
    \A s \in Seq(Digits), d \in Digits : Number[Append(s, d)] = 10 * Number[s] + d - 48
  <1> TAKE s \in Seq(Digits), d \in Digits
  <1> DEFINE t == Append(s, d)
  <1>1. t \in Seq(Digits) /\ Len(t) = Len(s) + 1 /\ t[Len(t)] = d
    BY AppendProperties
  <1>2. Len(s) \in Nat /\ t # <<>>
    BY <1>1
  <1>3. SubSeq(t, 1, Len(t) - 1) = s
    BY <1>1, <1>2
  <1> HIDE DEF t
  <1>4. Number[t] = 10 * Number[SubSeq(t, 1, Len(t) - 1)] + t[Len(t)] - 48
    BY <1>1, <1>2, NumberIs
  <1> QED
    BY <1>1, <1>3, <1>4 DEF t

\* A lease is read as it was written (frames.rs:125-131, 170-175).
LEMMA LeaseRoundTrip == \A n \in Nat : Number[Decimal[n]] = n
  <1> DEFINE rank == [n \in Nat |-> n]
             S == {n \in Nat : Number[Decimal[n]] = n}
  <1>1. ASSUME NEW n \in Nat, \A m \in Nat : rank[m] < rank[n] => m \in S PROVE n \in S
    <2>1. CASE n < 10
      <3>1. 48 + n \in Digits /\ <<>> \in Seq(Digits)
        BY <2>1 DEF Digits
      <3>4. Decimal[n] = <<48 + n>>
        BY <2>1, DecimalIs
      <3>2. Append(<<>>, 48 + n) = <<48 + n>>
        OBVIOUS
      <3>3. Number[<<48 + n>>] = 10 * Number[<<>>] + (48 + n) - 48 /\ Number[<<>>] = 0
        BY <3>1, <3>2, NumberAppend, NumberIs
      <3> QED
        BY <3>3, <3>4
    <2>2. CASE n >= 10
      <3>1. n \div 10 \in Nat /\ n \div 10 < n /\ 48 + (n % 10) \in Digits /\ ~(n < 10)
            /\ n = 10 * (n \div 10) + (n % 10) /\ n % 10 \in Nat
        BY <2>2 DEF Digits
      <3>2. Number[Decimal[n \div 10]] = n \div 10
        BY <1>1, <3>1
      <3>3. Decimal[n] = Append(Decimal[n \div 10], 48 + (n % 10))
        BY <3>1, DecimalIs
      <3>4. Number[Decimal[n]] = 10 * (n \div 10) + (48 + (n % 10)) - 48
        BY <3>1, <3>2, <3>3, DecimalDigits, NumberAppend
      <3>5. Number[Decimal[n]] = n
        BY <3>1, <3>4
      <3> QED
        BY <3>5
    <2> QED
      BY <2>1, <2>2
  <1>2. rank \in [Nat -> Nat]
    OBVIOUS
  <1>3. \A n \in Nat : n \in S
    <2> HIDE DEF S, rank
    <2> QED
      BY <1>1, <1>2, RankInduct
  <1> QED
    BY <1>3
-----------------------------------------------------------------------------
(* The header *)

\* Two bytes are read as they are written.
LEMMA TwoBytesOf ==
    ASSUME NEW n \in Nat
    PROVE  /\ TwoBytes(n) \in Seq(Byte) /\ Len(TwoBytes(n)) = 2
           /\ n \div Words \in Nat
           /\ n = Words * (n \div Words) + 256 * TwoBytes(n)[1] + TwoBytes(n)[2]
           /\ n < Words => n = 256 * TwoBytes(n)[1] + TwoBytes(n)[2]
  <1>0. \A k \in Nat : k \div 256 \in Nat /\ k = 256 * (k \div 256) + (k % 256) /\ k % 256 \in 0..255
    OBVIOUS
  <1>1. \A k \in Nat : k % 256 \in Byte /\ k \div 256 \in Nat /\ k = 256 * (k \div 256) + (k % 256)
    BY <1>0 DEF Byte
  <1>2. n \div Words = (n \div 256) \div 256 /\ (n < Words => n \div 256 < 256)
    BY DEF Words
  <1>3. n = Words * (n \div Words) + 256 * ((n \div 256) % 256) + (n % 256)
    <2>1. n = 256 * (n \div 256) + (n % 256) /\ n \div 256 \in Nat
      BY <1>1
    <2>2. n \div 256 = 256 * (n \div Words) + ((n \div 256) % 256) /\ n \div Words \in Nat
      BY <1>1, <1>2, <2>1
    <2>3. (n \div 256) % 256 \in Int /\ n % 256 \in Int
      BY <2>1
    <2> QED
      BY <2>1, <2>2, <2>3 DEF Words
  <1>4. n < Words => (n \div 256) % 256 = n \div 256
    BY <1>2
  <1>5. (n \div 256) % 256 \in Byte /\ n % 256 \in Byte /\ n \div Words \in Nat
    BY <1>1, <1>2
  <1>6. ASSUME NEW a \in Byte, NEW b \in Byte
        PROVE  <<a, b>> \in Seq(Byte) /\ Len(<<a, b>>) = 2 /\ <<a, b>>[1] = a /\ <<a, b>>[2] = b
    OBVIOUS
  <1>7. n < Words => n = 256 * ((n \div 256) % 256) + (n % 256)
    BY <1>1, <1>4
  <1> DEFINE a == (n \div 256) % 256
             b == n % 256
  <1>8. TwoBytes(n) = <<a, b>>
    BY DEF TwoBytes
  <1> HIDE DEF a, b
  <1>9. /\ <<a, b>> \in Seq(Byte) /\ Len(<<a, b>>) = 2 /\ <<a, b>>[1] = a /\ <<a, b>>[2] = b
        /\ n = Words * (n \div Words) + 256 * a + b /\ (n < Words => n = 256 * a + b)
    BY <1>3, <1>5, <1>6, <1>7 DEF a, b
  <1> QED
    BY <1>5, <1>8, <1>9

\* A length of four bytes is read as it is written.
LEMMA BigEndianOf ==
    ASSUME NEW n \in Nat, n \div Words < Words
    PROVE  LET b == BigEndian(n)
           IN  b \in Seq(Byte) /\ Len(b) = 4 /\ n = Words * (256 * b[1] + b[2]) + 256 * b[3] + b[4]
  <1> DEFINE high == TwoBytes(n \div Words)
             low == TwoBytes(n)
  <1>1. /\ high \in Seq(Byte) /\ Len(high) = 2 /\ low \in Seq(Byte) /\ Len(low) = 2
        /\ n \div Words = 256 * high[1] + high[2]
        /\ n = Words * (n \div Words) + 256 * low[1] + low[2]
    BY TwoBytesOf
  <1>2. BigEndian(n) = high \o low
    BY DEF BigEndian
  <1> HIDE DEF high, low
  <1>3. /\ high \o low \in Seq(Byte) /\ Len(high \o low) = 4
        /\ (high \o low)[1] = high[1] /\ (high \o low)[2] = high[2]
        /\ (high \o low)[3] = low[1] /\ (high \o low)[4] = low[2]
    <2>1. /\ high \o low \in Seq(Byte) /\ Len(high \o low) = Len(high) + Len(low)
          /\ \A i \in 1..Len(high) + Len(low) :
                 (high \o low)[i] = IF i <= Len(high) THEN high[i] ELSE low[i - Len(high)]
      BY <1>1, ConcatProperties, Zenon
    <2>2. Len(high) + Len(low) = 4
      BY <1>1
    <2> QED
      BY <1>1, <2>1, <2>2
  <1> QED
    BY <1>1, <1>2, <1>3

\* No two types have the same tag.
LEMMA TagsDiffer ==
    /\ \A k \in FrameKinds : Tag[k] \in Byte
    /\ \A k, l \in FrameKinds : Tag[k] = Tag[l] => k = l
  BY DEF FrameKinds, Tag, Byte

\* The kinds of frames.
LEMMA Kinds == FrameKinds = {"Hello", "Welcome", "Open", "Data", "End", "Ping", "Pong", "GoAway",
                             "HalfEnd", "RespHead"}
  BY DEF FrameKinds, Tag

\* A payload that is written has bytes, and their number fits.
Writable(payload) == payload \in Seq(Byte) /\ Len(payload) \div Words < Words

\* What is written of a frame.
LEMMA Written ==
    ASSUME NEW f \in WrittenFrames
    PROVE  /\ f = [kind |-> f.kind, stream |-> f.stream, body |-> f.body]
           /\ f.kind \in FrameKinds /\ f.stream \in Nat /\ f.stream < Words
           /\ Writable(PayloadOf(f))
           /\ f.kind \in ControlKinds => f.stream = 0
           /\ f.kind = "Welcome" => f.body \in Nat /\ f.body <= MaxLease
           /\ f.kind \in EmptyKinds => f.body = <<>>
  <1> USE Kinds DEF ControlKinds, EmptyKinds
  <1>1. Writable(<<>>) /\ \A p \in Payloads : Writable(p)
    BY WriterAssumption DEF Writable, Words
  <1>2. 0 \in Nat /\ 0 < Words /\ \A t \in Streams : t \in Nat /\ t < Words
    <2>1. Words \in Nat /\ 0 < Words
      BY DEF Words
    <2> QED
      BY <2>1, WriterAssumption
  <1>3. CASE f \in [kind : {"Hello", "GoAway"}, stream : {0}, body : Payloads]
    <2>1. /\ f = [kind |-> f.kind, stream |-> f.stream, body |-> f.body]
          /\ f.kind \in {"Hello", "GoAway"} /\ f.stream = 0 /\ f.body \in Payloads
      BY <1>3
    <2> QED
      BY <2>1, <1>1, <1>2 DEF PayloadOf
  <1>4. CASE f \in [kind : {"Welcome"}, stream : {0}, body : Leases]
    <2>1. /\ f = [kind |-> f.kind, stream |-> f.stream, body |-> f.body]
          /\ f.kind = "Welcome" /\ f.stream = 0 /\ f.body \in Leases
      BY <1>4
    <2>2. f.body \in Nat /\ f.body <= MaxLease
      BY <2>1, WriterAssumption, ReaderAssumption
    <2>3. PayloadOf(f) = Decimal[f.body]
      BY <2>1 DEF PayloadOf
    <2>4. Digits \subseteq Byte
      BY DEF Digits, Byte
    <2>5. Decimal[f.body] \in Seq(Byte)
      BY <2>2, <2>4, DecimalDigits, SeqMonotonic
    <2>6. Len(Decimal[f.body]) \in Nat /\ Len(Decimal[f.body]) <= 20
      BY <2>1, <2>5, LeaseAssumption
    <2>7. Writable(PayloadOf(f))
      <3>1. \A k \in Nat : k <= 20 => k \div Words < Words
        BY DEF Words
      <3> QED
        BY <2>3, <2>5, <2>6, <3>1 DEF Writable
    <2> QED
      BY <2>1, <2>2, <2>7, <1>2
  <1>5. CASE f \in [kind : {"Open", "Data", "End", "RespHead"}, stream : Streams, body : Payloads]
    <2>1. /\ f = [kind |-> f.kind, stream |-> f.stream, body |-> f.body]
          /\ f.kind \in {"Open", "Data", "End", "RespHead"} /\ f.stream \in Streams /\ f.body \in Payloads
      BY <1>5
    <2> QED
      BY <2>1, <1>1, <1>2 DEF PayloadOf
  <1>6. CASE f \in [kind : {"HalfEnd"}, stream : Streams, body : {<<>>}]
    <2>1. /\ f = [kind |-> f.kind, stream |-> f.stream, body |-> f.body]
          /\ f.kind = "HalfEnd" /\ f.stream \in Streams /\ f.body = <<>>
      BY <1>6
    <2> QED
      BY <2>1, <1>1, <1>2 DEF PayloadOf
  <1>7. CASE f \in [kind : {"Ping", "Pong"}, stream : {0}, body : {<<>>}]
    <2>1. /\ f = [kind |-> f.kind, stream |-> f.stream, body |-> f.body]
          /\ f.kind \in {"Ping", "Pong"} /\ f.stream = 0 /\ f.body = <<>>
      BY <1>7
    <2> QED
      BY <2>1, <1>1, <1>2 DEF PayloadOf
  <1> QED
    BY <1>3, <1>4, <1>5, <1>6, <1>7, Zenon DEF WrittenFrames

\* Two sequences put together.
LEMMA Joined ==
    ASSUME NEW S, NEW s \in Seq(S), NEW t \in Seq(S)
    PROVE  /\ s \o t \in Seq(S) /\ Len(s \o t) = Len(s) + Len(t)
           /\ \A i \in 1..Len(s) : (s \o t)[i] = s[i]
           /\ \A i \in 1..Len(t) : (s \o t)[Len(s) + i] = t[i]
  <1>1. Len(s) \in Nat /\ Len(t) \in Nat
    OBVIOUS
  <1>2. /\ s \o t \in Seq(S) /\ Len(s \o t) = Len(s) + Len(t)
        /\ \A i \in 1..Len(s) + Len(t) : (s \o t)[i] = IF i <= Len(s) THEN s[i] ELSE t[i - Len(s)]
    BY ConcatProperties, Zenon
  <1>3. ASSUME NEW i \in 1..Len(s) PROVE (s \o t)[i] = s[i]
    BY <1>1, <1>2
  <1>4. ASSUME NEW i \in 1..Len(t) PROVE (s \o t)[Len(s) + i] = t[i]
    <2>1. Len(s) + i \in 1..Len(s) + Len(t) /\ ~(Len(s) + i <= Len(s)) /\ (Len(s) + i) - Len(s) = i
      BY <1>1
    <2> QED
      BY <1>2, <2>1
  <1> QED
    BY <1>2, <1>3, <1>4

\* A part of a sequence.
LEMMA PartOf ==
    ASSUME NEW S, NEW s \in Seq(S), NEW m \in Nat, NEW n \in Nat, m + n <= Len(s)
    PROVE  /\ SubSeq(s, m + 1, m + n) \in Seq(S) /\ Len(SubSeq(s, m + 1, m + n)) = n
           /\ \A i \in 1..n : SubSeq(s, m + 1, m + n)[i] = s[m + i]
  <1> DEFINE a == m + 1
             b == m + n
             t == SubSeq(s, a, b)
  <1>1. a \in Int /\ b \in Int /\ \A i \in a..b : s[i] \in S
    OBVIOUS
  <1>2. a = m + 1 /\ b = m + n /\ t = SubSeq(s, m + 1, m + n)
    OBVIOUS
  <1>3. /\ t \in Seq(S) /\ Len(t) = IF a <= b THEN b - a + 1 ELSE 0
        /\ \A i \in 1..b - a + 1 : t[i] = s[a + i - 1]
    <2> HIDE DEF a, b
    <2> QED
      BY <1>1, SubSeqProperties
  <1> HIDE DEF a, b, t
  <1>4. Len(t) = n
    BY <1>2, <1>3
  <1>5. \A i \in 1..n : t[i] = s[m + i]
    <2>1. ASSUME NEW i \in 1..n PROVE t[i] = s[m + i]
      <3>1. i \in 1..b - a + 1 /\ a + i - 1 = m + i
        BY <1>2
      <3> QED
        BY <1>3, <3>1
    <2> QED
      BY <2>1
  <1> QED
    BY <1>2, <1>3, <1>4, <1>5

\* The bytes of a frame: its header says what it is, and its payload follows.
LEMMA Encoded ==
    ASSUME NEW f \in WrittenFrames
    PROVE  LET e == Encode(f)
               p == PayloadOf(f)
           IN /\ p \in Seq(Byte) /\ e \in Seq(Byte) /\ Len(e) = HeaderLen + Len(p)
              /\ e[1] = Tag[f.kind] /\ StreamOf(e) = f.stream /\ LengthOf(e) = Len(p)
              /\ \A i \in 1..Len(p) : e[HeaderLen + i] = p[i]
  <1> DEFINE p == PayloadOf(f)
             t == <<Tag[f.kind]>>
             s == TwoBytes(f.stream)
             b == BigEndian(Len(p))
             e == Encode(f)
  <1>1. p \in Seq(Byte) /\ Len(p) \in Nat /\ Len(p) \div Words < Words
    BY Written DEF Writable
  <1>2. t \in Seq(Byte) /\ Len(t) = 1 /\ t[1] = Tag[f.kind]
    BY Written, TagsDiffer
  <1>3. s \in Seq(Byte) /\ Len(s) = 2 /\ f.stream = 256 * s[1] + s[2]
    BY Written, TwoBytesOf
  <1>4. b \in Seq(Byte) /\ Len(b) = 4 /\ Len(p) = Words * (256 * b[1] + b[2]) + 256 * b[3] + b[4]
    BY <1>1, BigEndianOf
  <1>5. e = ((t \o s) \o b) \o p
    BY DEF Encode
  <1> HIDE DEF t, s, b, p, e
  <1>6. /\ t \o s \in Seq(Byte) /\ Len(t \o s) = 3
        /\ (t \o s)[1] = t[1] /\ (t \o s)[2] = s[1] /\ (t \o s)[3] = s[2]
    <2>1. /\ t \o s \in Seq(Byte) /\ Len(t \o s) = Len(t) + Len(s)
          /\ \A i \in 1..Len(t) : (t \o s)[i] = t[i]
          /\ \A i \in 1..Len(s) : (t \o s)[Len(t) + i] = s[i]
      <3>1. t \in Seq(Byte) /\ s \in Seq(Byte)
        BY <1>2, <1>3
      <3> QED
        BY <3>1, Joined
    <2> QED
      BY <1>2, <1>3, <2>1
  <1> DEFINE ts == t \o s
  <1> HIDE DEF ts
  <1>7. /\ ts \o b \in Seq(Byte) /\ Len(ts \o b) = 7
        /\ (ts \o b)[1] = ts[1] /\ (ts \o b)[2] = ts[2] /\ (ts \o b)[3] = ts[3]
        /\ (ts \o b)[4] = b[1] /\ (ts \o b)[5] = b[2] /\ (ts \o b)[6] = b[3] /\ (ts \o b)[7] = b[4]
    <2>1. ts \in Seq(Byte) /\ Len(ts) = 3
      BY <1>6 DEF ts
    <2>2. /\ ts \o b \in Seq(Byte) /\ Len(ts \o b) = Len(ts) + Len(b)
          /\ \A i \in 1..Len(ts) : (ts \o b)[i] = ts[i]
          /\ \A i \in 1..Len(b) : (ts \o b)[Len(ts) + i] = b[i]
      <3>1. ts \in Seq(Byte) /\ b \in Seq(Byte)
        BY <1>4, <2>1
      <3> QED
        BY <3>1, Joined
    <2> QED
      BY <1>4, <2>1, <2>2
  <1> DEFINE h == ts \o b
  <1> HIDE DEF h
  <1>8. /\ h \o p \in Seq(Byte) /\ Len(h \o p) = 7 + Len(p)
        /\ \A i \in 1..7 : (h \o p)[i] = h[i]
        /\ \A i \in 1..Len(p) : (h \o p)[7 + i] = p[i]
    <2>1. h \in Seq(Byte) /\ Len(h) = 7
      BY <1>7 DEF h
    <2>2. /\ h \o p \in Seq(Byte) /\ Len(h \o p) = Len(h) + Len(p)
          /\ \A i \in 1..Len(h) : (h \o p)[i] = h[i]
          /\ \A i \in 1..Len(p) : (h \o p)[Len(h) + i] = p[i]
      <3>1. h \in Seq(Byte) /\ p \in Seq(Byte)
        BY <1>1, <2>1
      <3> QED
        BY <3>1, Joined
    <2> QED
      BY <1>1, <2>1, <2>2
  <1>9. e = h \o p
    BY <1>5 DEF h, ts
  <1>10. /\ e[1] = t[1] /\ e[2] = s[1] /\ e[3] = s[2]
         /\ e[4] = b[1] /\ e[5] = b[2] /\ e[6] = b[3] /\ e[7] = b[4]
    <2>1. \A i \in 1..7 : e[i] = h[i]
      BY <1>8, <1>9
    <2>2. h[1] = t[1] /\ h[2] = s[1] /\ h[3] = s[2]
      BY <1>6, <1>7 DEF h, ts
    <2>3. h[4] = b[1] /\ h[5] = b[2] /\ h[6] = b[3] /\ h[7] = b[4]
      BY <1>7 DEF h
    <2> QED
      BY <2>1, <2>2, <2>3
  <1>11. StreamOf(e) = f.stream /\ LengthOf(e) = Len(p)
    <2>1. StreamOf(e) = 256 * e[2] + e[3]
      BY DEF StreamOf, Word
    <2>2. LengthOf(e) = Words * (256 * e[4] + e[5]) + (256 * e[6] + e[7])
      BY DEF LengthOf, Word
    <2>3. b[1] \in Nat /\ b[2] \in Nat /\ b[3] \in Nat /\ b[4] \in Nat
      <3>1. \A i \in 1..4 : b[i] \in Byte
        BY <1>4, ElementOfSeq, Zenon
      <3>2. Byte \subseteq Nat
        BY DEF Byte
      <3> QED
        BY <3>1, <3>2, 1 \in 1..4, 2 \in 1..4, 3 \in 1..4, 4 \in 1..4
    <2>4. Words * (256 * b[1] + b[2]) + (256 * b[3] + b[4]) = Words * (256 * b[1] + b[2]) + 256 * b[3] + b[4]
      BY <2>3 DEF Words
    <2> QED
      BY <2>1, <2>2, <2>4, <1>3, <1>4, <1>10
  <1> QED
    BY <1>1, <1>2, <1>8, <1>9, <1>10, <1>11 DEF HeaderLen, p, e

-----------------------------------------------------------------------------
(* The reader *)

\* A complete frame of a kind, with no fault in it, is read.
LEMMA ReadsFrame ==
    ASSUME NEW msg \in Seq(Byte), NEW k \in FrameKinds, Tag[k] = msg[1],
           LengthOf(msg) \in Nat, LengthOf(msg) <= MaxPayload, HeaderLen + LengthOf(msg) <= Len(msg),
           FaultIn(k, StreamOf(msg), SubSeq(msg, HeaderLen + 1, HeaderLen + LengthOf(msg))) = "none"
    PROVE  LET payload == SubSeq(msg, HeaderLen + 1, HeaderLen + LengthOf(msg))
           IN ReadMessage(msg) =
                [is |-> "frame",
                 frame |-> [kind |-> k, stream |-> StreamOf(msg), body |-> BodyOf(k, payload)],
                 used |-> HeaderLen + Len(payload)]
  <1> DEFINE payload == SubSeq(msg, HeaderLen + 1, HeaderLen + LengthOf(msg))
             read == [is |-> "frame",
                      frame |-> [kind |-> k, stream |-> StreamOf(msg), body |-> BodyOf(k, payload)],
                      used |-> HeaderLen + Len(payload)]
  <1>1. KindOf(msg) = k
    BY TagsDiffer DEF KindOf
  <1>2. ~(Len(msg) < HeaderLen) /\ ~(LengthOf(msg) > MaxPayload) /\ ~(Len(msg) < HeaderLen + LengthOf(msg))
    BY ReaderAssumption DEF HeaderLen
  <1>3. ~ ~\E l \in FrameKinds : Tag[l] = msg[1]
    OBVIOUS
  <1>4. Decode(msg) = read
    BY <1>1, <1>2, <1>3, Zenon DEF Decode
  <1>5. read.is = "frame" /\ Missing.is = "more"
    BY DEF Missing
  <1>6. Decode(msg) # Missing
    <2> HIDE DEF read
    <2> QED
      BY <1>4, <1>5
  <1> QED
    BY <1>4, <1>6, Zenon DEF ReadMessage

\* What a buffer that begins with the bytes of a frame says in its header.
LEMMA SameHeader ==
    ASSUME NEW f \in WrittenFrames, NEW msg \in Seq(Byte), HeaderLen <= Len(msg),
           \A i \in 1..HeaderLen : msg[i] = Encode(f)[i]
    PROVE  msg[1] = Tag[f.kind] /\ StreamOf(msg) = f.stream /\ LengthOf(msg) = Len(PayloadOf(f))
  <1>1. \A i \in 1..7 : msg[i] = Encode(f)[i]
    BY DEF HeaderLen
  <1>2. StreamOf(msg) = StreamOf(Encode(f)) /\ LengthOf(msg) = LengthOf(Encode(f))
    BY <1>1 DEF StreamOf, LengthOf, Word
  <1> QED
    BY <1>1, <1>2, Encoded

\* There is no fault in what was written, and its body is read from its payload.
LEMMA NoFaultWritten ==
    ASSUME NEW f \in WrittenFrames
    PROVE  FaultIn(f.kind, f.stream, PayloadOf(f)) = "none" /\ BodyOf(f.kind, PayloadOf(f)) = f.body
  <1>1. CASE f.kind = "Welcome"
    <2> DEFINE p == PayloadOf(f)
    <2>1. /\ p = Decimal[f.body] /\ f.body \in Nat /\ f.body <= MaxLease /\ f.stream = 0
          /\ p \in Seq(Digits) \ {<<>>} /\ Number[p] = f.body
      BY <1>1, Written, DecimalDigits, LeaseRoundTrip DEF PayloadOf, ControlKinds
    <2> HIDE DEF p
    <2>2. Head(p) \in Digits /\ 43 \notin Digits
      BY <2>1 DEF Digits
    <2>3. Unsigned(p) = p
      BY <2>2 DEF Unsigned
    <2>4. IsNumber(p)
      BY <2>1, <2>3 DEF IsNumber
    <2>5. FaultIn(f.kind, f.stream, p) = "none"
      BY <1>1, <2>1, <2>4 DEF FaultIn, ControlKinds
    <2>6. BodyOf(f.kind, p) = f.body
      BY <1>1, <2>1, <2>3 DEF BodyOf
    <2> QED
      BY <2>5, <2>6 DEF p
  <1>2. CASE f.kind # "Welcome"
    <2>1. f.kind \in ControlKinds => f.stream = 0
      BY Written
    <2>2. CASE f.kind \in EmptyKinds
      <3>1. PayloadOf(f) = <<>> /\ f.body = <<>>
        BY <1>2, <2>2, Written DEF PayloadOf
      <3> QED
        BY <1>2, <2>1, <2>2, <3>1 DEF FaultIn, BodyOf
    <2>3. CASE f.kind \notin EmptyKinds
      <3>1. PayloadOf(f) = f.body /\ f.kind # "HalfEnd"
        BY <1>2, <2>3 DEF PayloadOf, EmptyKinds
      <3> QED
        BY <1>2, <2>1, <2>3, <3>1 DEF FaultIn, BodyOf
    <2> QED
      BY <2>2, <2>3
  <1> QED
    BY <1>1, <1>2

\* A frame within the cap is read as it was written, whatever follows it; one above
\* the cap is refused (frames.rs:151-165).
LEMMA ReadsWritten ==
    ASSUME NEW f \in WrittenFrames, NEW msg \in Seq(Byte), Len(Encode(f)) <= Len(msg),
           \A i \in 1..Len(Encode(f)) : msg[i] = Encode(f)[i]
    PROVE  ReadMessage(msg) =
               IF Len(PayloadOf(f)) <= MaxPayload
                 THEN [is |-> "frame", frame |-> f, used |-> Len(Encode(f))]
                 ELSE Refused("too long")
  <1> DEFINE e == Encode(f)
             p == PayloadOf(f)
             payload == SubSeq(msg, HeaderLen + 1, HeaderLen + Len(p))
  <1>1. /\ p \in Seq(Byte) /\ e \in Seq(Byte) /\ Len(e) = HeaderLen + Len(p)
        /\ \A i \in 1..Len(p) : e[HeaderLen + i] = p[i]
    BY Encoded
  <1>2. Len(p) \in Nat /\ Len(e) \in Nat /\ Len(msg) \in Nat
    BY <1>1
  <1>3. HeaderLen <= Len(msg) /\ \A i \in 1..HeaderLen : msg[i] = e[i]
    <2>1. \A i \in 1..Len(e) : msg[i] = e[i]
      OBVIOUS
    <2> HIDE DEF e, p
    <2> QED
      BY <1>1, <1>2, <2>1 DEF HeaderLen, e
  <1>4. msg[1] = Tag[f.kind] /\ StreamOf(msg) = f.stream /\ LengthOf(msg) = Len(p)
    BY <1>3, SameHeader
  <1>5. payload = p
    <2>1. \A i \in 1..Len(p) : msg[HeaderLen + i] = p[i]
      <3>1. \A i \in 1..Len(p) : HeaderLen + i \in 1..Len(e)
        BY <1>1, <1>2 DEF HeaderLen
      <3> QED
        BY <1>1, <3>1
    <2> HIDE DEF e, p
    <2>2. HeaderLen + Len(p) <= Len(msg) /\ HeaderLen \in Nat
      BY <1>1, <1>2 DEF HeaderLen, e
    <2>3. payload \in Seq(Byte) /\ Len(payload) = Len(p) /\ \A i \in 1..Len(p) : payload[i] = msg[HeaderLen + i]
      BY <1>2, <2>2, PartOf
    <2> HIDE DEF payload
    <2>4. \A i \in 1..Len(p) : payload[i] = p[i]
      BY <2>1, <2>3
    <2> QED
      BY <1>1, <2>3, <2>4, SeqEqual, Zenon DEF p
  <1>6. ~(Len(msg) < HeaderLen) /\ HeaderLen + Len(p) <= Len(msg)
    BY <1>1, <1>2, <1>3 DEF HeaderLen
  <1>7. CASE Len(p) <= MaxPayload
    <2>1. FaultIn(f.kind, StreamOf(msg), payload) = "none" /\ BodyOf(f.kind, payload) = f.body
      BY <1>4, <1>5, NoFaultWritten
    <2>2. /\ f.kind \in FrameKinds /\ Tag[f.kind] = msg[1]
          /\ f = [kind |-> f.kind, stream |-> f.stream, body |-> f.body]
      BY <1>4, Written
    <2>3. ReadMessage(msg) =
             [is |-> "frame",
              frame |-> [kind |-> f.kind, stream |-> StreamOf(msg), body |-> BodyOf(f.kind, payload)],
              used |-> HeaderLen + Len(payload)]
      <3> HIDE DEF p, e
      <3>1. /\ LengthOf(msg) \in Nat /\ LengthOf(msg) <= MaxPayload
            /\ HeaderLen + LengthOf(msg) <= Len(msg)
            /\ payload = SubSeq(msg, HeaderLen + 1, HeaderLen + LengthOf(msg))
        BY <1>2, <1>4, <1>6, <1>7, Zenon
      <3> HIDE DEF payload
      <3> QED
        BY <2>1, <2>2, <3>1, ReadsFrame, Zenon
    <2>4. [kind |-> f.kind, stream |-> StreamOf(msg), body |-> BodyOf(f.kind, payload)] = f
      BY <1>4, <2>1, <2>2, Zenon
    <2> HIDE DEF p, e, payload
    <2> QED
      BY <1>1, <1>5, <1>7, <2>3, <2>4, Zenon DEF p, e
  <1>8. CASE ~(Len(p) <= MaxPayload)
    <2> HIDE DEF p, e
    <2>1. LengthOf(msg) > MaxPayload
      BY <1>2, <1>4, <1>8, ReaderAssumption
    <2>2. Decode(msg) = Refused("too long")
      BY <1>6, <2>1, Zenon DEF Decode
    <2>3. Refused("too long") # Missing
      BY DEF Refused, Missing
    <2>4. ReadMessage(msg) = Refused("too long")
      BY <2>2, <2>3, Zenon DEF ReadMessage
    <2> QED
      BY <1>8, <2>4, Zenon DEF p
  <1> QED
    BY <1>7, <1>8

\* Whatever is refused is an error, and so is what is not complete.
LEMMA NotAFrame ==
    ASSUME NEW msg, Len(msg) < HeaderLen \/ LengthOf(msg) > MaxPayload \/ Len(msg) < HeaderLen + LengthOf(msg)
    PROVE  ReadMessage(msg).is = "error"
  <1>1. \A why : Refused(why).is = "error" /\ Refused(why) # Missing
    BY DEF Refused, Missing
  <1>2. Decode(msg) \in {Missing, Refused("too long")}
    BY Zenon DEF Decode
  <1> QED
    BY <1>1, <1>2, Zenon DEF ReadMessage

\* A frame that is cut short is refused (hub.rs:1190-1192, tunnel.rs:698-700).
LEMMA CutShort ==
    ASSUME NEW f \in WrittenFrames, NEW msg \in Seq(Byte), Len(msg) < Len(Encode(f)),
           \A i \in 1..Len(msg) : msg[i] = Encode(f)[i]
    PROVE  ReadMessage(msg).is = "error"
  <1>1. Len(msg) \in Nat /\ Len(Encode(f)) = HeaderLen + Len(PayloadOf(f))
    BY Encoded
  <1>2. CASE Len(msg) < HeaderLen
    BY <1>2, NotAFrame
  <1>3. CASE ~(Len(msg) < HeaderLen)
    <2>1. HeaderLen <= Len(msg) /\ \A i \in 1..HeaderLen : msg[i] = Encode(f)[i]
      BY <1>1, <1>3 DEF HeaderLen
    <2>2. LengthOf(msg) = Len(PayloadOf(f))
      BY <2>1, SameHeader
    <2>3. Len(msg) < HeaderLen + LengthOf(msg)
      BY <1>1, <2>2
    <2> QED
      BY <2>3, NotAFrame
  <1> QED
    BY <1>2, <1>3

\* The length and the stream of a buffer are numbers.
LEMMA HeaderType ==
    ASSUME NEW msg \in Seq(Byte), HeaderLen <= Len(msg)
    PROVE  LengthOf(msg) \in Nat /\ StreamOf(msg) \in Nat
  <1>1. \A i \in 1..7 : msg[i] \in Byte
    BY DEF HeaderLen
  <1>2. Byte \subseteq Nat
    BY DEF Byte
  <1>3. msg[2] \in Nat /\ msg[3] \in Nat /\ msg[4] \in Nat /\ msg[5] \in Nat /\ msg[6] \in Nat /\ msg[7] \in Nat
    BY <1>1, <1>2, 2 \in 1..7, 3 \in 1..7, 4 \in 1..7, 5 \in 1..7, 6 \in 1..7, 7 \in 1..7
  <1>4. LengthOf(msg) = Words * (256 * msg[4] + msg[5]) + (256 * msg[6] + msg[7])
    BY DEF LengthOf, Word
  <1>5. StreamOf(msg) = 256 * msg[2] + msg[3]
    BY DEF StreamOf, Word
  <1>6. \A x \in Nat : Words * x \in Nat
    BY DEF Words
  <1>7. 256 * msg[4] + msg[5] \in Nat /\ 256 * msg[6] + msg[7] \in Nat /\ 256 * msg[2] + msg[3] \in Nat
    <2>1. \A x, y \in Nat : 256 * x + y \in Nat
      OBVIOUS
    <2> QED
      BY <1>3, <2>1, Zenon
  <1>8. Words * (256 * msg[4] + msg[5]) \in Nat
    BY <1>6, <1>7, Zenon
  <1> QED
    BY <1>4, <1>5, <1>7, <1>8

\* Whatever the bytes, a frame that is read is what they say (frames.rs:151-222).
LEMMA ReadsWhatIsThere ==
    ASSUME NEW msg \in Seq(Byte), ReadMessage(msg).is = "frame"
    PROVE  LET read == ReadMessage(msg)
           IN /\ SameFrame(read.frame, SubSeq(msg, 1, read.used))
              /\ read.frame.kind \in ControlKinds => read.frame.stream = 0
  <1> DEFINE n == LengthOf(msg)
             payload == SubSeq(msg, HeaderLen + 1, HeaderLen + n)
             k == KindOf(msg)
             fault == FaultIn(k, StreamOf(msg), payload)
             read == ReadMessage(msg)
             bytes == SubSeq(msg, 1, HeaderLen + n)
  <1>1. ~(Len(msg) < HeaderLen) /\ ~(n > MaxPayload) /\ ~(Len(msg) < HeaderLen + n)
    <2>1. "error" # "frame"
      OBVIOUS
    <2> QED
      BY <2>1, NotAFrame, Zenon
  <1>2. Len(msg) \in Nat /\ HeaderLen <= Len(msg) /\ n \in Nat /\ HeaderLen + n <= Len(msg)
    <2>1. Len(msg) \in Nat /\ HeaderLen <= Len(msg)
      BY <1>1 DEF HeaderLen
    <2>2. n \in Nat
      BY <2>1, HeaderType
    <2> HIDE DEF n
    <2> QED
      BY <1>1, <2>1, <2>2 DEF HeaderLen
  <1>3. \A why : Refused(why).is = "error" /\ "error" # "frame"
    BY DEF Refused
  <1>4. PICK l \in FrameKinds : Tag[l] = msg[1]
    <2>1. CASE ~\E l \in FrameKinds : Tag[l] = msg[1]
      <3>1. Decode(msg) = Refused("unknown type")
        BY <1>1, <2>1, Zenon DEF Decode
      <3>2. ReadMessage(msg).is = "error"
        BY <1>3, <3>1, Zenon DEF ReadMessage
      <3> QED
        BY <1>3, <3>2, Zenon
    <2> QED
      BY <2>1, Zenon
  <1>5. k = l
    BY <1>4, TagsDiffer DEF KindOf
  <1>6. fault = "none"
    <2>1. CASE fault # "none"
      <3>1. Decode(msg) = Refused(fault)
        BY <1>1, <1>4, <2>1, Zenon DEF Decode
      <3>2. ReadMessage(msg).is = "error"
        BY <1>3, <3>1, Zenon DEF ReadMessage
      <3> QED
        BY <1>3, <3>2, Zenon
    <2> QED
      BY <2>1, Zenon
  <1>7. read = [is |-> "frame",
                frame |-> [kind |-> k, stream |-> StreamOf(msg), body |-> BodyOf(k, payload)],
                used |-> HeaderLen + Len(payload)]
    <2> HIDE DEF read
    <2>1. n <= MaxPayload
      <3> HIDE DEF n
      <3> QED
        BY <1>1, <1>2, ReaderAssumption
    <2> HIDE DEF payload, n
    <2> QED
      BY <1>2, <1>4, <1>5, <1>6, <2>1, ReadsFrame DEF payload, n, read, fault
  <1>8. payload \in Seq(Byte) /\ Len(payload) = n /\ \A i \in 1..n : payload[i] = msg[HeaderLen + i]
    <2>1. HeaderLen \in Nat
      BY DEF HeaderLen
    <2> HIDE DEF n
    <2> QED
      BY <1>2, <2>1, PartOf DEF payload
  <1>9. bytes \in Seq(Byte) /\ Len(bytes) = HeaderLen + n /\ \A i \in 1..HeaderLen + n : bytes[i] = msg[i]
    <2> DEFINE m == HeaderLen + n
    <2>1. m \in Nat /\ 0 + m <= Len(msg)
      BY <1>2 DEF HeaderLen
    <2>2. bytes = SubSeq(msg, 0 + 1, 0 + m) /\ \A i \in 1..m : 0 + i = i
      BY <2>1
    <2> HIDE DEF m, bytes
    <2>3. bytes \in Seq(Byte) /\ Len(bytes) = m /\ \A i \in 1..m : bytes[i] = msg[0 + i]
      BY <2>1, <2>2, PartOf
    <2> QED
      BY <2>2, <2>3 DEF m
  <1>10. SubSeq(bytes, HeaderLen + 1, Len(bytes)) = payload
    <2> DEFINE rest == SubSeq(bytes, HeaderLen + 1, HeaderLen + n)
    <2>1. HeaderLen \in Nat
      BY DEF HeaderLen
    <2> HIDE DEF n, bytes, payload
    <2>2. rest \in Seq(Byte) /\ Len(rest) = n /\ \A i \in 1..n : rest[i] = bytes[HeaderLen + i]
      BY <1>2, <1>9, <2>1, PartOf
    <2>3. \A i \in 1..n : HeaderLen + i \in 1..HeaderLen + n
      BY <1>2 DEF HeaderLen
    <2> HIDE DEF rest
    <2>4. \A i \in 1..Len(rest) : rest[i] = payload[i]
      BY <1>8, <1>9, <2>2, <2>3
    <2>5. rest = payload
      BY <1>8, <2>2, <2>4, SeqEqual, Zenon
    <2> QED
      BY <1>9, <2>5, Zenon DEF rest
  <1>11. bytes[1] = msg[1] /\ StreamOf(bytes) = StreamOf(msg) /\ LengthOf(bytes) = n
    <2>1. \A i \in 1..7 : i \in 1..HeaderLen + n
      <3> HIDE DEF n
      <3> QED
        BY <1>2 DEF HeaderLen
    <2>2. \A i \in 1..7 : bytes[i] = msg[i]
      BY <1>9, <2>1, Zenon
    <2> HIDE DEF bytes
    <2> QED
      BY <2>2 DEF StreamOf, LengthOf, Word
  <1>12. k \in ControlKinds => StreamOf(msg) = 0
    <2> HIDE DEF payload, k
    <2> QED
      BY <1>6 DEF fault, FaultIn
  <1>13. /\ read.frame.kind = k /\ read.frame.stream = StreamOf(msg) /\ read.frame.body = BodyOf(k, payload)
         /\ SubSeq(msg, 1, read.used) = bytes
    <2>1. read.used = HeaderLen + n
      <3> HIDE DEF read, n, payload
      <3> QED
        BY <1>7, <1>8
    <2> HIDE DEF read, payload, k
    <2> QED
      BY <1>7, <2>1
  <1>14. Tag[k] = bytes[1] /\ StreamOf(msg) = StreamOf(bytes) /\ Len(payload) = LengthOf(bytes)
    <2> HIDE DEF payload, bytes, n, k
    <2> QED
      BY <1>4, <1>5, <1>8, <1>11
  <1> HIDE DEF read, payload, bytes, n, k, fault
  <1>15. CASE k = "Welcome"
    <2>1. Number[Unsigned(payload)] = read.frame.body
      BY <1>13, <1>15 DEF BodyOf
    <2>2. SameFrame(read.frame, bytes)
      BY <1>10, <1>13, <1>14, <1>15, <2>1 DEF SameFrame
    <2> QED
      BY <1>12, <1>13, <2>2 DEF read
  <1>16. CASE k \in {"Ping", "Pong"}
    <2>1. SameFrame(read.frame, bytes)
      BY <1>10, <1>13, <1>14, <1>16 DEF SameFrame
    <2> QED
      BY <1>12, <1>13, <2>1 DEF read
  <1>17. CASE k \notin {"Welcome", "Ping", "Pong"}
    <2>1. k = "HalfEnd" => payload = <<>>
      BY <1>6 DEF fault, FaultIn
    <2>2. PayloadOf(read.frame) = payload
      BY <1>13, <1>17, <2>1 DEF PayloadOf, BodyOf, EmptyKinds
    <2>3. SameFrame(read.frame, bytes)
      BY <1>10, <1>13, <1>14, <1>17, <2>2 DEF SameFrame
    <2> QED
      BY <1>12, <1>13, <2>3 DEF read
  <1> QED
    BY <1>15, <1>16, <1>17
-----------------------------------------------------------------------------
(* The invariant *)

\* The message is what became of the frame written, and what was read is what the
\* reader makes of it.
FramesInv ==
    /\ sent \in WrittenFrames /\ message \in Seq(Byte)
    /\ shape \in {"whole", "cut", "edited", "longer"}
    /\ shape = "whole" => message = Encode(sent)
    /\ shape = "cut" => /\ Len(message) < Len(Encode(sent))
                        /\ \A i \in 1..Len(message) : message[i] = Encode(sent)[i]
    /\ shape = "longer" => /\ Len(Encode(sent)) <= Len(message)
                           /\ \A i \in 1..Len(Encode(sent)) : message[i] = Encode(sent)[i]
    /\ got # NotRead => got = ReadMessage(message)

\* Reading does not give what stands for not having read.
LEMMA ReadIsRead == \A msg : ReadMessage(msg).is \in {"frame", "error"}
  <1> TAKE msg
  <1>1. \A why : Refused(why).is = "error"
    BY DEF Refused
  <1>2. CASE Decode(msg) = Missing
    BY <1>1, <1>2, Zenon DEF ReadMessage
  <1>3. CASE Decode(msg) # Missing
    <2>1. ReadMessage(msg) = Decode(msg)
      BY <1>3, Zenon DEF ReadMessage
    <2>2. \/ \E why : Decode(msg) = Refused(why)
          \/ \E f, n : Decode(msg) = [is |-> "frame", frame |-> f, used |-> n]
      BY <1>3, Zenon DEF Decode
    <2>3. \A f, n : [is |-> "frame", frame |-> f, used |-> n].is = "frame"
      OBVIOUS
    <2> QED
      BY <1>1, <2>1, <2>2, <2>3
  <1> QED
    BY <1>2, <1>3

\* A message begins as what was written.
LEMMA FramesInvInitially == FramesInit => FramesInv
  BY Encoded DEF FramesInit, FramesInv

\* Every step keeps the invariant.
LEMMA FramesStep == FramesInv /\ [FramesNext]_frameVars => FramesInv'
  <1> SUFFICES ASSUME FramesInv, [FramesNext]_frameVars PROVE FramesInv'
    OBVIOUS
  <1> DEFINE e == Encode(sent)
  <1>1. e \in Seq(Byte) /\ Len(e) \in Nat /\ HeaderLen <= Len(e)
    <2>1. e \in Seq(Byte) /\ Len(e) = HeaderLen + Len(PayloadOf(sent)) /\ PayloadOf(sent) \in Seq(Byte)
      BY Encoded DEF FramesInv
    <2> HIDE DEF e
    <2> QED
      BY <2>1 DEF HeaderLen
  <1>2. CASE UNCHANGED frameVars
    BY <1>2 DEF frameVars, FramesInv
  <1>3. CASE Cuts
    <2>1. PICK n \in 0..(Len(e) - 1) : message' = SubSeq(e, 1, n)
      BY <1>3 DEF Cuts, Unread, FramesInv
    <2>2. message' \in Seq(Byte) /\ Len(message') = n /\ \A i \in 1..n : message'[i] = e[i]
      <3>1. n \in Nat /\ 0 + n <= Len(e) /\ message' = SubSeq(e, 0 + 1, 0 + n) /\ \A i \in 1..n : 0 + i = i
        BY <1>1, <2>1
      <3> HIDE DEF e
      <3>2. message' \in Seq(Byte) /\ Len(message') = n /\ \A i \in 1..n : message'[i] = e[0 + i]
        BY <1>1, <3>1, PartOf
      <3> QED
        BY <3>1, <3>2
    <2>3. Len(message') < Len(e)
      BY <1>1, <2>1, <2>2
    <2>4. UNCHANGED <<sent, got>> /\ shape' = "cut" /\ got = NotRead
      BY <1>3 DEF Cuts, Unread
    <2> QED
      BY <2>2, <2>3, <2>4 DEF FramesInv
  <1>4. CASE Edits
    <2>1. PICK i \in 1..HeaderLen, b \in Edited : message' = [e EXCEPT ![i] = b]
      BY <1>4 DEF Edits, Unread, FramesInv
    <2>2. i \in 1..Len(e) /\ b \in Byte
      BY <1>1, <2>1, ReaderAssumption DEF HeaderLen
    <2>3. message' \in Seq(Byte)
      <3> HIDE DEF e
      <3> QED
        BY <1>1, <2>1, <2>2, ExceptSeq
    <2>4. UNCHANGED <<sent, got>> /\ shape' = "edited" /\ got = NotRead
      BY <1>4 DEF Edits, Unread
    <2> QED
      BY <2>3, <2>4 DEF FramesInv
  <1>5. CASE Grows
    <2>1. PICK more \in Payloads : message' = e \o more
      BY <1>5 DEF Grows, Unread, FramesInv
    <2>2. more \in Seq(Byte) /\ Len(more) \in Nat
      BY <2>1, WriterAssumption
    <2>3. message' \in Seq(Byte) /\ Len(message') = Len(e) + Len(more) /\ \A i \in 1..Len(e) : message'[i] = e[i]
      <3> HIDE DEF e
      <3> QED
        BY <1>1, <2>1, <2>2, Joined
    <2>4. UNCHANGED <<sent, got>> /\ shape' = "longer" /\ got = NotRead
      BY <1>5 DEF Grows, Unread
    <2>5. Len(e) <= Len(message')
      BY <1>1, <2>2, <2>3
    <2> QED
      BY <2>3, <2>4, <2>5 DEF FramesInv
  <1>6. CASE Reads
    BY <1>6 DEF Reads, FramesInv
  <1> QED
    BY <1>2, <1>3, <1>4, <1>5, <1>6 DEF FramesNext

\* A frame within the cap is read as it was written, whatever follows it in its
\* message; one above the cap or cut short is refused; and what a corrupted message
\* is read as is what its bytes say (frames.rs:122-233).
THEOREM FramesAreReadAsWritten == FramesSpec => []ReadAsWritten
  <1>1. FramesInv => ReadAsWritten
    <2> SUFFICES ASSUME FramesInv PROVE ReadAsWritten
      OBVIOUS
    <2>1. NotRead.is = "nothing" /\ (got # NotRead => got.is \in {"frame", "error"})
      BY ReadIsRead DEF FramesInv, NotRead
    <2>2. ASSUME shape \in {"whole", "longer"}, got # NotRead
          PROVE  IF Len(PayloadOf(sent)) <= MaxPayload
                   THEN got = [is |-> "frame", frame |-> sent, used |-> Len(Encode(sent))]
                   ELSE got = Refused("too long")
      <3>1. sent \in WrittenFrames /\ message \in Seq(Byte) /\ got = ReadMessage(message)
        BY <2>2 DEF FramesInv
      <3>2. Len(Encode(sent)) <= Len(message) /\ \A i \in 1..Len(Encode(sent)) : message[i] = Encode(sent)[i]
        <4>1. Len(Encode(sent)) \in Nat
          BY <3>1, Encoded
        <4> QED
          BY <2>2, <4>1 DEF FramesInv
      <3> QED
        BY <3>1, <3>2, ReadsWritten, Zenon
    <2>3. ASSUME shape = "cut" PROVE got.is \in {"nothing", "error"}
      <3>1. ReadMessage(message).is = "error"
        BY <2>3, CutShort DEF FramesInv
      <3> QED
        BY <2>1, <3>1 DEF FramesInv
    <2>4. ASSUME got.is = "frame"
          PROVE  /\ SameFrame(got.frame, SubSeq(message, 1, got.used))
                 /\ got.frame.kind \in ControlKinds => got.frame.stream = 0
      <3>1. got = ReadMessage(message) /\ message \in Seq(Byte)
        BY <2>1, <2>4 DEF FramesInv
      <3> QED
        BY <2>4, <3>1, ReadsWhatIsThere, Zenon
    <2> QED
      BY <2>2, <2>3, <2>4 DEF ReadAsWritten
  <1> QED
    BY <1>1, FramesInvInitially, FramesStep, PTL DEF FramesSpec
-----------------------------------------------------------------------------
(* The decoder of a chunked body *)

\* Induction on sequences: what the empty one has, and each has if the one without
\* its last element has it.
LEMMA SeqInduct ==
    ASSUME NEW S, NEW T, <<>> \in T,
           \A s \in Seq(S) : s # <<>> /\ SubSeq(s, 1, Len(s) - 1) \in T => s \in T
    PROVE  \A s \in Seq(S) : s \in T
  <1> DEFINE D == Seq(S)
             rank == [s \in D |-> Len(s)]
  <1>1. ASSUME NEW s \in D, \A t \in D : rank[t] < rank[s] => t \in T PROVE s \in T
    <2>1. CASE s # <<>>
      <3>1. SubSeq(s, 1, Len(s) - 1) \in D /\ Len(SubSeq(s, 1, Len(s) - 1)) < Len(s)
        BY <2>1, FrontOf
      <3> QED
        BY <3>1, <2>1, <1>1
    <2> QED
      BY <2>1
  <1>2. rank \in [D -> Nat]
    OBVIOUS
  <1> HIDE DEF D, rank
  <1>3. \A s \in D : s \in T
    BY <1>1, <1>2, RankInduct
  <1> QED
    BY <1>3 DEF D

\* Recursion on sequences.
SeqSolves(f, S, v, more) ==
    \A s \in Seq(S) : f[s] = IF s = <<>> THEN v ELSE more[<<f[SubSeq(s, 1, Len(s) - 1)], s[Len(s)]>>]
\* Such a definition has a solution.
LEMMA SeqRecursion ==
    ASSUME NEW S, NEW V, NEW v \in V, NEW more \in [V \X S -> V]
    PROVE  \E f \in [Seq(S) -> V] : SeqSolves(f, S, v, more)
  <1> DEFINE D == Seq(S)
             base == {<<>>}
             rank == [s \in D |-> Len(s)]
             pred == [s \in D |-> IF s = <<>> THEN <<>> ELSE SubSeq(s, 1, Len(s) - 1)]
             at == [s \in D |-> v]
             step == [sv \in D \X V |-> IF sv[1] = <<>> THEN v ELSE more[<<sv[2], sv[1][Len(sv[1])]>>]]
  <1>1. ASSUME NEW s \in D, s # <<>>
        PROVE  /\ SubSeq(s, 1, Len(s) - 1) \in D /\ Len(SubSeq(s, 1, Len(s) - 1)) < Len(s)
               /\ s[Len(s)] \in S
    BY <1>1, FrontOf
  <1>2. rank \in [D -> Nat] /\ base \in SUBSET D /\ at \in [D -> V]
    OBVIOUS
  <1>3. pred \in [D -> D]
    BY <1>1
  <1>4. step \in [D \X V -> V]
    <2>1. ASSUME NEW s \in D, NEW w \in V
          PROVE  (IF s = <<>> THEN v ELSE more[<<w, s[Len(s)]>>]) \in V
      BY <1>1
    <2> HIDE DEF D
    <2> QED
      BY <2>1
  <1>5. \A s \in D \ base : rank[pred[s]] < rank[s]
    BY <1>1
  <1>6. PICK f \in [D -> V] : Solves(f, D, base, at, pred, step)
    <2> HIDE DEF rank, pred, base, at, step, D
    <2>1. Descends(D, V, rank, base, at, pred, step)
      BY <1>2, <1>3, <1>4, <1>5 DEF Descends
    <2> QED
      BY <2>1, Recursion
  <1>7. ASSUME NEW s \in D
        PROVE  f[s] = IF s = <<>> THEN v ELSE more[<<f[SubSeq(s, 1, Len(s) - 1)], s[Len(s)]>>]
    <2>1. f[s] = IF s \in base THEN at[s] ELSE step[<<s, f[pred[s]]>>]
      BY <1>6 DEF Solves
    <2>2. CASE s = <<>>
      BY <2>1, <2>2
    <2>3. CASE s # <<>>
      <3>1. pred[s] = SubSeq(s, 1, Len(s) - 1) /\ pred[s] \in D
        BY <1>1, <2>3
      <3>2. f[s] = step[<<s, f[pred[s]]>>] /\ f[pred[s]] \in V
        BY <2>1, <2>3, <3>1
      <3>3. step[<<s, f[pred[s]]>>] = more[<<f[pred[s]], s[Len(s)]>>]
        <4> HIDE DEF D, pred
        <4> QED
          BY <2>3, <3>2
      <3> HIDE DEF step, D
      <3> QED
        BY <2>3, <3>1, <3>2, <3>3
    <2> QED
      BY <2>2, <2>3
  <1> QED
    BY <1>7 DEF SeqSolves

\* What the recursive definition of HexValue says.
LEMMA HexValueIs ==
    \A s \in Seq(HexDigits) :
        HexValue[s] = IF s = <<>> THEN 0
                      ELSE 16 * HexValue[SubSeq(s, 1, Len(s) - 1)] + ValueOf(s[Len(s)])
  <1> DEFINE more == [vb \in Nat \X HexDigits |-> 16 * vb[1] + ValueOf(vb[2])]
  <1>1. \A b \in HexDigits : ValueOf(b) \in Nat
    BY DEF HexDigits, ValueOf, Zero
  <1>2. more \in [Nat \X HexDigits -> Nat]
    BY <1>1
  <1>3. PICK f \in [Seq(HexDigits) -> Nat] : SeqSolves(f, HexDigits, 0, more)
    <2>1. 0 \in Nat
      OBVIOUS
    <2> HIDE DEF more
    <2> QED
      BY <1>2, <2>1, SeqRecursion
  <1>4. ASSUME NEW s \in Seq(HexDigits)
        PROVE  f[s] = IF s = <<>> THEN 0 ELSE 16 * f[SubSeq(s, 1, Len(s) - 1)] + ValueOf(s[Len(s)])
    <2>1. CASE s # <<>>
      <3>1. SubSeq(s, 1, Len(s) - 1) \in Seq(HexDigits) /\ s[Len(s)] \in HexDigits
        BY <2>1, FrontOf
      <3> QED
        BY <3>1, <2>1, <1>3 DEF SeqSolves
    <2> QED
      BY <2>1, <1>3 DEF SeqSolves
  <1>5. f = [s \in Seq(HexDigits) |->
               IF s = <<>> THEN 0 ELSE 16 * f[SubSeq(s, 1, Len(s) - 1)] + ValueOf(s[Len(s)])]
    BY <1>4
  <1>6. HexValue = [s \in Seq(HexDigits) |->
               IF s = <<>> THEN 0 ELSE 16 * HexValue[SubSeq(s, 1, Len(s) - 1)] + ValueOf(s[Len(s)])]
    BY <1>5, Zenon DEF HexValue
  <1> HIDE DEF more
  <1> QED
    BY <1>6, Zenon

\* A size is a natural number, and one more digit multiplies by sixteen.
LEMMA HexValueType == \A s \in Seq(HexDigits) : HexValue[s] \in Nat
  <1> DEFINE T == {s \in Seq(HexDigits) : HexValue[s] \in Nat}
  <1>1. <<>> \in T
    <2>1. <<>> \in Seq(HexDigits)
      OBVIOUS
    <2>2. HexValue[<<>>] = 0
      BY <2>1, HexValueIs
    <2> QED
      BY <2>1, <2>2
  <1>2. ASSUME NEW s \in Seq(HexDigits), s # <<>>, SubSeq(s, 1, Len(s) - 1) \in T PROVE s \in T
    <2>1. s[Len(s)] \in HexDigits
      BY <1>2, FrontOf
    <2>2. HexValue[s] = 16 * HexValue[SubSeq(s, 1, Len(s) - 1)] + ValueOf(s[Len(s)])
      BY <1>2, HexValueIs
    <2>3. \A n \in Nat, b \in HexDigits : 16 * n + ValueOf(b) \in Nat
      BY DEF HexDigits, ValueOf, Zero
    <2> QED
      BY <1>2, <2>1, <2>2, <2>3
  <1> HIDE DEF T
  <1>3. \A s \in Seq(HexDigits) : s \in T
    BY <1>1, <1>2, SeqInduct
  <1> QED
    BY <1>3 DEF T

\* One more digit.
LEMMA HexValueAppend ==
    \A s \in Seq(HexDigits), b \in HexDigits : HexValue[Append(s, b)] = 16 * HexValue[s] + ValueOf(b)
  <1> TAKE s \in Seq(HexDigits), b \in HexDigits
  <1> DEFINE t == Append(s, b)
  <1>1. t \in Seq(HexDigits) /\ Len(t) = Len(s) + 1 /\ t[Len(t)] = b
    BY AppendProperties
  <1>2. Len(s) \in Nat /\ t # <<>>
    BY <1>1
  <1>3. SubSeq(t, 1, Len(t) - 1) = s
    BY <1>1, <1>2
  <1> HIDE DEF t
  <1>4. HexValue[t] = 16 * HexValue[SubSeq(t, 1, Len(t) - 1)] + ValueOf(t[Len(t)])
    BY <1>1, <1>2, HexValueIs
  <1> QED
    BY <1>1, <1>3, <1>4 DEF t

\* A leading zero changes nothing.
LEMMA HexValuePadded == \A s \in Seq(HexDigits) : HexValue[<<Zero>> \o s] = HexValue[s]
  <1> DEFINE T == {s \in Seq(HexDigits) : HexValue[<<Zero>> \o s] = HexValue[s]}
             z == <<Zero>>
  <1>0. z \in Seq(HexDigits) /\ z \o <<>> = z /\ z = Append(<<>>, Zero) /\ <<>> \in Seq(HexDigits)
        /\ Zero \in HexDigits /\ ValueOf(Zero) = 0
    BY DEF HexDigits, Zero, ValueOf
  <1>1. <<>> \in T
    <2>1. HexValue[Append(<<>>, Zero)] = 16 * HexValue[<<>>] + ValueOf(Zero) /\ HexValue[<<>>] = 0
      BY <1>0, HexValueAppend, HexValueIs
    <2> QED
      BY <1>0, <2>1
  <1>2. ASSUME NEW s \in Seq(HexDigits), s # <<>>, SubSeq(s, 1, Len(s) - 1) \in T PROVE s \in T
    <2> DEFINE t == SubSeq(s, 1, Len(s) - 1)
               b == s[Len(s)]
    <2>1. t \in Seq(HexDigits) /\ b \in HexDigits /\ HexValue[z \o t] = HexValue[t]
      BY <1>2, FrontOf
    <2>2. s = Append(t, b)
      BY <1>2
    <2> HIDE DEF t, b, z
    <2>3. z \o Append(t, b) = Append(z \o t, b) /\ z \o t \in Seq(HexDigits)
      <3>1. Append(t, b) = t \o <<b>> /\ z \o t \in Seq(HexDigits)
            /\ Append(z \o t, b) = (z \o t) \o <<b>> /\ <<b>> \in Seq(HexDigits)
        BY <1>0, <2>1, AppendIsConcat, ConcatProperties
      <3> QED
        BY <3>1, <1>0, <2>1, ConcatAssociative
    <2>4. HexValue[z \o s] = HexValue[s]
      BY <2>1, <2>2, <2>3, HexValueAppend
    <2> QED
      BY <2>4 DEF z
  <1>3. \A s \in Seq(HexDigits) : s \in T
    <2> HIDE DEF T, z
    <2> QED
      BY <1>1, <1>2, SeqInduct
  <1> QED
    BY <1>3

\* What the recursive definition of HexOf says.
LEMMA HexOfIs ==
    \A n \in Nat : HexOf[n] = IF n < 16 THEN <<DigitOf(n)>> ELSE Append(HexOf[n \div 16], DigitOf(n % 16))
  <1> DEFINE base == 0..15
             rank == [n \in Nat |-> n]
             pred == [n \in Nat |-> n \div 16]
             at == [n \in Nat |-> IF n < 16 THEN <<DigitOf(n)>> ELSE <<>>]
             digit == [n \in Nat |-> DigitOf(n % 16)]
             step == [nv \in Nat \X Seq(HexDigits) |-> Append(nv[2], digit[nv[1]])]
  <1>1. \A n \in Nat : n \div 16 \in Nat /\ DigitOf(n % 16) \in HexDigits /\ (n < 16 => DigitOf(n) \in HexDigits)
    BY DEF HexDigits, DigitOf, Zero
  <1>2. rank \in [Nat -> Nat] /\ pred \in [Nat -> Nat] /\ base \in SUBSET Nat
    BY <1>1
  <1>3. at \in [Nat -> Seq(HexDigits)]
    BY <1>1
  <1>4. step \in [Nat \X Seq(HexDigits) -> Seq(HexDigits)]
    <2>1. digit \in [Nat -> HexDigits]
      BY <1>1
    <2> QED
      BY <2>1
  <1>5. \A n \in Nat \ base : rank[pred[n]] < rank[n]
    OBVIOUS
  <1>6. PICK f \in [Nat -> Seq(HexDigits)] : Solves(f, Nat, base, at, pred, step)
    <2> HIDE DEF rank, pred, base, at, step
    <2>1. Descends(Nat, Seq(HexDigits), rank, base, at, pred, step)
      BY <1>2, <1>3, <1>4, <1>5 DEF Descends
    <2> QED
      BY <2>1, Recursion
  <1>7. ASSUME NEW n \in Nat
        PROVE  f[n] = IF n < 16 THEN <<DigitOf(n)>> ELSE Append(f[n \div 16], DigitOf(n % 16))
    <2>1. n \in base <=> n < 16
      OBVIOUS
    <2>2. at[n] = IF n < 16 THEN <<DigitOf(n)>> ELSE <<>>
      OBVIOUS
    <2>3. pred[n] = n \div 16 /\ f[n \div 16] \in Seq(HexDigits)
      BY <1>1
    <2>4. step[<<n, f[n \div 16]>>] = Append(f[n \div 16], digit[n]) /\ digit[n] = DigitOf(n % 16)
      BY <2>3
    <2>5. f[n] = IF n \in base THEN at[n] ELSE step[<<n, f[pred[n]]>>]
      BY <1>6 DEF Solves
    <2> HIDE DEF base, at, pred, step
    <2> QED
      BY <2>1, <2>2, <2>3, <2>4, <2>5
  <1>8. f = [n \in Nat |-> IF n < 16 THEN <<DigitOf(n)>> ELSE Append(f[n \div 16], DigitOf(n % 16))]
    BY <1>7
  <1>9. HexOf = [n \in Nat |-> IF n < 16 THEN <<DigitOf(n)>> ELSE Append(HexOf[n \div 16], DigitOf(n % 16))]
    BY <1>8, Zenon DEF HexOf
  <1> HIDE DEF base, rank, pred, at, step
  <1> QED
    BY <1>9, Zenon

\* It gives digits, at least one.
LEMMA HexOfType == \A n \in Nat : HexOf[n] \in Seq(HexDigits) \ {<<>>}
  <1> DEFINE rank == [n \in Nat |-> n]
             S == {n \in Nat : HexOf[n] \in Seq(HexDigits) \ {<<>>}}
  <1>0. ASSUME NEW d \in HexDigits
        PROVE  /\ <<d>> \in Seq(HexDigits) \ {<<>>}
               /\ \A s \in Seq(HexDigits) : Append(s, d) \in Seq(HexDigits) \ {<<>>}
    <2>1. <<d>> \in Seq(HexDigits)
      OBVIOUS
    <2>2. <<d>> # <<>>
      OBVIOUS
    <2>3. ASSUME NEW s \in Seq(HexDigits) PROVE Append(s, d) \in Seq(HexDigits) /\ Append(s, d) # <<>>
      <3>1. Append(s, d) \in Seq(HexDigits) /\ Len(Append(s, d)) = Len(s) + 1
        OBVIOUS
      <3>2. Len(s) \in Nat /\ Len(<<>>) = 0
        OBVIOUS
      <3> QED
        BY <3>1, <3>2
    <2> QED
      BY <2>1, <2>2, <2>3
  <1>1. ASSUME NEW n \in Nat, \A m \in Nat : rank[m] < rank[n] => m \in S PROVE n \in S
    <2>1. CASE n < 16
      <3>1. DigitOf(n) \in HexDigits
        BY <2>1 DEF HexDigits, DigitOf, Zero
      <3>2. HexOf[n] = <<DigitOf(n)>>
        BY <2>1, HexOfIs
      <3>3. HexOf[n] \in Seq(HexDigits) \ {<<>>}
        BY <3>1, <3>2, <1>0, Zenon
      <3> QED
        BY <3>3
    <2>2. CASE n >= 16
      <3>1. n \div 16 \in Nat /\ n \div 16 < n /\ DigitOf(n % 16) \in HexDigits /\ ~(n < 16)
        BY <2>2 DEF HexDigits, DigitOf, Zero
      <3>2. HexOf[n \div 16] \in Seq(HexDigits)
        BY <1>1, <3>1
      <3>3. HexOf[n] = Append(HexOf[n \div 16], DigitOf(n % 16))
        BY <3>1, HexOfIs
      <3>4. HexOf[n] \in Seq(HexDigits) \ {<<>>}
        BY <3>1, <3>2, <3>3, <1>0, Zenon
      <3> QED
        BY <3>4
    <2> QED
      BY <2>1, <2>2
  <1>2. rank \in [Nat -> Nat]
    OBVIOUS
  <1>3. \A n \in Nat : n \in S
    <2> HIDE DEF S, rank
    <2> QED
      BY <1>1, <1>2, RankInduct
  <1> QED
    BY <1>3

\* A size is read as it was written.
LEMMA HexRoundTrip == \A n \in Nat : HexValue[HexOf[n]] = n
  <1> DEFINE rank == [n \in Nat |-> n]
             S == {n \in Nat : HexValue[HexOf[n]] = n}
  <1>0. \A v \in 0..15 : DigitOf(v) \in HexDigits /\ ValueOf(DigitOf(v)) = v
    BY DEF DigitOf, HexDigits, ValueOf, Zero
  <1>1. ASSUME NEW n \in Nat, \A m \in Nat : rank[m] < rank[n] => m \in S PROVE n \in S
    <2>1. CASE n < 16
      <3>1. DigitOf(n) \in HexDigits /\ ValueOf(DigitOf(n)) = n /\ <<>> \in Seq(HexDigits)
        BY <2>1, <1>0
      <3>2. HexOf[n] = <<DigitOf(n)>>
        BY <2>1, HexOfIs
      <3>3. Append(<<>>, DigitOf(n)) = <<DigitOf(n)>>
        OBVIOUS
      <3>4. HexValue[<<DigitOf(n)>>] = 16 * HexValue[<<>>] + n /\ HexValue[<<>>] = 0
        BY <3>1, <3>3, HexValueAppend, HexValueIs
      <3> QED
        BY <3>2, <3>4
    <2>2. CASE n >= 16
      <3>1. n \div 16 \in Nat /\ n \div 16 < n /\ n % 16 \in 0..15 /\ ~(n < 16)
            /\ n = 16 * (n \div 16) + (n % 16)
        BY <2>2
      <3>2. HexValue[HexOf[n \div 16]] = n \div 16
        BY <1>1, <3>1
      <3>3. HexOf[n] = Append(HexOf[n \div 16], DigitOf(n % 16))
        BY <3>1, HexOfIs
      <3>4. DigitOf(n % 16) \in HexDigits /\ ValueOf(DigitOf(n % 16)) = n % 16
        BY <3>1, <1>0
      <3>5. HexValue[HexOf[n]] = 16 * (n \div 16) + (n % 16)
        BY <3>1, <3>2, <3>3, <3>4, HexOfType, HexValueAppend
      <3>6. HexValue[HexOf[n]] = n
        BY <3>1, <3>5
      <3> QED
        BY <3>6
    <2> QED
      BY <2>1, <2>2
  <1>2. rank \in [Nat -> Nat]
    OBVIOUS
  <1>3. \A n \in Nat : n \in S
    <2> HIDE DEF S, rank
    <2> QED
      BY <1>1, <1>2, RankInduct
  <1> QED
    BY <1>3

\* What the recursive definition of DataIn says.
LEMMA DataInIs ==
    \A s \in Seq(MarkedByte) :
        DataIn[s] = IF s = <<>> THEN <<>>
                    ELSE LET before == DataIn[SubSeq(s, 1, Len(s) - 1)]
                         IN IF s[Len(s)].mark = "data" THEN Append(before, s[Len(s)].byte) ELSE before
  <1> DEFINE more == [vb \in Seq(Nat) \X MarkedByte |->
                        IF vb[2].mark = "data" THEN Append(vb[1], vb[2].byte) ELSE vb[1]]
  <1>1. more \in [Seq(Nat) \X MarkedByte -> Seq(Nat)]
    <2>1. ASSUME NEW v \in Seq(Nat), NEW b \in MarkedByte
          PROVE  (IF b.mark = "data" THEN Append(v, b.byte) ELSE v) \in Seq(Nat)
      BY DEF MarkedByte
    <2> QED
      BY <2>1
  <1>2. PICK f \in [Seq(MarkedByte) -> Seq(Nat)] : SeqSolves(f, MarkedByte, <<>>, more)
    <2>1. <<>> \in Seq(Nat)
      OBVIOUS
    <2> HIDE DEF more
    <2> QED
      BY <1>1, <2>1, SeqRecursion
  <1>3. ASSUME NEW s \in Seq(MarkedByte)
        PROVE  f[s] = IF s = <<>> THEN <<>>
                      ELSE LET before == f[SubSeq(s, 1, Len(s) - 1)]
                           IN IF s[Len(s)].mark = "data" THEN Append(before, s[Len(s)].byte) ELSE before
    <2>1. CASE s # <<>>
      <3>1. SubSeq(s, 1, Len(s) - 1) \in Seq(MarkedByte) /\ s[Len(s)] \in MarkedByte
        BY <2>1, FrontOf
      <3>2. f[s] = more[<<f[SubSeq(s, 1, Len(s) - 1)], s[Len(s)]>>]
        BY <2>1, <1>2 DEF SeqSolves
      <3>3. f[SubSeq(s, 1, Len(s) - 1)] \in Seq(Nat)
        BY <3>1
      <3>4. \A v \in Seq(Nat), b \in MarkedByte :
                more[<<v, b>>] = IF b.mark = "data" THEN Append(v, b.byte) ELSE v
        OBVIOUS
      <3> HIDE DEF more
      <3> QED
        BY <3>1, <3>2, <3>3, <3>4, <2>1
    <2> QED
      BY <2>1, <1>2 DEF SeqSolves
  <1>4. f = [s \in Seq(MarkedByte) |->
               IF s = <<>> THEN <<>>
               ELSE LET before == f[SubSeq(s, 1, Len(s) - 1)]
                    IN IF s[Len(s)].mark = "data" THEN Append(before, s[Len(s)].byte) ELSE before]
    BY <1>3
  <1>5. DataIn = [s \in Seq(MarkedByte) |->
               IF s = <<>> THEN <<>>
               ELSE LET before == DataIn[SubSeq(s, 1, Len(s) - 1)]
                    IN IF s[Len(s)].mark = "data" THEN Append(before, s[Len(s)].byte) ELSE before]
    BY <1>4, Zenon DEF DataIn
  <1> HIDE DEF more
  <1> QED
    BY <1>5, Zenon

\* The data of the first n bytes of a wire.
Data(w, n) == DataIn[SubSeq(w, 1, n)]

\* One more byte.
LEMMA DataStep ==
    ASSUME NEW w \in Seq(MarkedByte), NEW n \in Nat, n < Len(w)
    PROVE  Data(w, n + 1) = IF w[n + 1].mark = "data" THEN Append(Data(w, n), w[n + 1].byte) ELSE Data(w, n)
  <1> DEFINE s == SubSeq(w, 1, n + 1)
  <1>1. s \in Seq(MarkedByte) /\ Len(s) = n + 1 /\ s[n + 1] = w[n + 1]
    BY PartOf, 0 + 1 = 1 /\ 0 + (n + 1) = n + 1 /\ n + 1 \in Nat /\ 0 + (n + 1) <= Len(w)
  <1>2. SubSeq(s, 1, n) = SubSeq(w, 1, n)
    OBVIOUS
  <1>3. s # <<>> /\ Len(s) - 1 = n
    BY <1>1
  <1> HIDE DEF s
  <1>4. DataIn[s] = IF s[Len(s)].mark = "data" THEN Append(DataIn[SubSeq(s, 1, Len(s) - 1)], s[Len(s)].byte)
                    ELSE DataIn[SubSeq(s, 1, Len(s) - 1)]
    BY <1>1, <1>3, DataInIs
  <1> QED
    BY <1>1, <1>2, <1>3, <1>4 DEF s, Data

\* A byte of a wire.
LEMMA ByteOf ==
    ASSUME NEW s \in Seq(MarkedByte), NEW i \in 1..Len(s)
    PROVE  s[i] \in MarkedByte /\ s[i].byte \in Nat /\ s[i].mark \in Marks
  <1>1. s[i] \in MarkedByte
    BY ElementOfSeq
  <1> QED
    BY <1>1 DEF MarkedByte

\* Nothing is given, no data; and the data are bytes.
LEMMA DataType ==
    ASSUME NEW w \in Seq(MarkedByte)
    PROVE  Data(w, 0) = <<>> /\ \A n \in 0..Len(w) : Data(w, n) \in Seq(Nat)
  <1>1. Data(w, 0) = <<>>
    <2>1. SubSeq(w, 1, 0) = <<>> /\ <<>> \in Seq(MarkedByte)
      OBVIOUS
    <2>2. DataIn[<<>>] = <<>>
      BY <2>1, DataInIs
    <2> QED
      BY <2>1, <2>2 DEF Data
  <1> DEFINE S == {n \in Nat : n <= Len(w) => Data(w, n) \in Seq(Nat)}
  <1>2. 0 \in S
    <2>1. <<>> \in Seq(Nat)
      OBVIOUS
    <2>2. Data(w, 0) \in Seq(Nat)
      BY <1>1, <2>1
    <2> QED
      BY <2>2
  <1>3. ASSUME NEW n \in Nat, n \in S PROVE n + 1 \in S
    <2>1. Len(w) \in Nat /\ \A i \in 1..Len(w) : w[i].byte \in Nat
      BY ByteOf
    <2>2. ASSUME n + 1 <= Len(w) PROVE Data(w, n + 1) \in Seq(Nat)
      <3>1. n < Len(w) /\ n + 1 \in 1..Len(w) /\ Data(w, n) \in Seq(Nat)
        BY <2>1, <2>2, <1>3
      <3>2. Data(w, n + 1) = IF w[n + 1].mark = "data" THEN Append(Data(w, n), w[n + 1].byte) ELSE Data(w, n)
        BY <3>1, DataStep
      <3>3. w[n + 1].byte \in Nat
        BY <3>1, <2>1
      <3>4. \A d \in Seq(Nat), b \in Nat : Append(d, b) \in Seq(Nat)
        OBVIOUS
      <3> QED
        BY <3>1, <3>2, <3>3, <3>4, Zenon
    <2> QED
      BY <2>2
  <1> HIDE DEF S
  <1>4. \A n \in Nat : n \in S
    BY <1>2, <1>3, Induct
  <1>5. ASSUME NEW n \in 0..Len(w) PROVE Data(w, n) \in Seq(Nat)
    BY <1>4 DEF S
  <1> QED
    BY <1>1, <1>5

\* Sequences may be put together in any order.
LEMMA Associative == \A a, b, c \in Seq(Nat) : (a \o b) \o c = a \o (b \o c)
  <1> TAKE a, b, c \in Seq(Nat)
  <1> QED
    BY ConcatAssociative

\* An element at the end of two sequences is at the end of the second.
LEMMA AppendAfter ==
    ASSUME NEW d \in Seq(Nat), NEW a \in Seq(Nat), NEW b \in Nat
    PROVE  Append(a, b) \in Seq(Nat) /\ Append(d \o a, b) = d \o Append(a, b) /\ Append(a, b) = a \o <<b>>
  <1>1. <<b>> \in Seq(Nat) /\ Append(a, b) = a \o <<b>> /\ d \o a \in Seq(Nat)
    BY AppendIsConcat, ConcatProperties
  <1>2. Append(d \o a, b) = (d \o a) \o <<b>>
    BY <1>1, AppendIsConcat
  <1> QED
    BY <1>1, <1>2, Associative

\* More bytes add their data, and only at the end.
LEMMA DataGrows ==
    ASSUME NEW w \in Seq(MarkedByte), NEW p \in Nat, NEW n \in Nat, p <= n, n <= Len(w)
    PROVE  \E rest \in Seq(Nat) : Data(w, n) = Data(w, p) \o rest
  <1> DEFINE S == {k \in Nat : p + k <= Len(w) =>
                     \E rest \in Seq(Nat) : Data(w, p + k) = Data(w, p) \o rest}
  <1>0. Len(w) \in Nat /\ p \in 0..Len(w) /\ Data(w, p) \in Seq(Nat)
    BY DataType
  <1>1. 0 \in S
    <2>1. p + 0 = p /\ <<>> \in Seq(Nat) /\ Data(w, p) = Data(w, p) \o <<>>
      BY <1>0
    <2> QED
      BY <2>1
  <1>2. ASSUME NEW k \in Nat, k \in S PROVE k + 1 \in S
    <2>1. ASSUME p + (k + 1) <= Len(w)
          PROVE  \E rest \in Seq(Nat) : Data(w, p + (k + 1)) = Data(w, p) \o rest
      <3>1. p + k \in Nat /\ p + k < Len(w) /\ p + (k + 1) = (p + k) + 1 /\ p + k <= Len(w)
            /\ (p + k) + 1 \in 1..Len(w)
        BY <2>1, <1>0
      <3>2. PICK rest \in Seq(Nat) : Data(w, p + k) = Data(w, p) \o rest
        BY <1>2, <3>1
      <3>3. w[(p + k) + 1].byte \in Nat
        BY <3>1, ByteOf
      <3>4. CASE w[(p + k) + 1].mark = "data"
        <4> DEFINE b == w[(p + k) + 1].byte
                   more == Append(rest, b)
        <4>1. Data(w, (p + k) + 1) = Append(Data(w, p + k), b)
          BY <3>1, <3>4, DataStep
        <4> HIDE DEF b
        <4>2. b \in Nat
          BY <3>3 DEF b
        <4>3. more \in Seq(Nat) /\ Append(Data(w, p) \o rest, b) = Data(w, p) \o more
          <5>1. Data(w, p) \in Seq(Nat)
            BY <1>0
          <5> QED
            BY <4>2, <5>1, AppendAfter
        <4> QED
          BY <4>1, <4>3, <3>1, <3>2
      <3>5. CASE w[(p + k) + 1].mark # "data"
        BY <3>1, <3>2, <3>5, DataStep
      <3> QED
        BY <3>4, <3>5
    <2> QED
      BY <2>1
  <1>3. \A k \in Nat : k \in S
    <2> HIDE DEF S
    <2> QED
      BY <1>1, <1>2, Induct
  <1>4. n - p \in Nat /\ p + (n - p) = n
    OBVIOUS
  <1>5. n - p \in S
    BY <1>3, <1>4
  <1> QED
    BY <1>4, <1>5

\* Framing adds nothing.
LEMMA DataSame ==
    ASSUME NEW w \in Seq(MarkedByte), NEW p \in Nat, NEW n \in Nat, p <= n, n <= Len(w),
           \A i \in (p + 1)..n : w[i].mark # "data"
    PROVE  Data(w, n) = Data(w, p)
  <1> DEFINE S == {k \in Nat : p + k <= n => Data(w, p + k) = Data(w, p)}
  <1>0. Len(w) \in Nat
    OBVIOUS
  <1>1. 0 \in S
    <2>1. p + 0 = p
      OBVIOUS
    <2> QED
      BY <2>1
  <1>2. ASSUME NEW k \in Nat, k \in S PROVE k + 1 \in S
    <2>1. ASSUME p + (k + 1) <= n PROVE Data(w, p + (k + 1)) = Data(w, p)
      <3>1. p + k \in Nat /\ p + k < Len(w) /\ p + (k + 1) = (p + k) + 1 /\ p + k <= n
            /\ (p + k) + 1 \in (p + 1)..n
        BY <2>1, <1>0
      <3>2. Data(w, p + k) = Data(w, p) /\ w[(p + k) + 1].mark # "data"
        BY <3>1, <1>2
      <3> QED
        BY <3>1, <3>2, DataStep
    <2> QED
      BY <2>1
  <1>3. \A k \in Nat : k \in S
    <2> HIDE DEF S
    <2> QED
      BY <1>1, <1>2, Induct
  <1>4. n - p \in Nat /\ p + (n - p) = n
    OBVIOUS
  <1>5. n - p \in S
    BY <1>3, <1>4
  <1> QED
    BY <1>4, <1>5

\* The bytes of a part of a wire.
LEMMA BytesOf ==
    ASSUME NEW s \in Seq(MarkedByte)
    PROVE  Bytes(s) \in Seq(Nat) /\ Len(Bytes(s)) = Len(s) /\ \A i \in 1..Len(s) : Bytes(s)[i] = s[i].byte
  <1>1. Len(s) \in Nat /\ DOMAIN s = 1..Len(s) /\ \A i \in 1..Len(s) : s[i].byte \in Nat
    BY ByteOf
  <1>2. Bytes(s) = [i \in 1..Len(s) |-> s[i].byte]
    BY <1>1 DEF Bytes
  <1>3. Bytes(s) \in [1..Len(s) -> Nat]
    BY <1>1, <1>2
  <1> QED
    BY <1>1, <1>2, <1>3

-----------------------------------------------------------------------------
(* The wire *)

\* A digit is neither the end of a line nor of a size.
LEMMA Digit == HexDigits \subseteq Nat /\ \A b \in HexDigits : b # CR /\ b # Semicolon /\ b # LetterX
  BY DEF HexDigits, Zero, CR, Semicolon, LetterX

\* What a size line holds, as the decoder cuts it.
LEMMA HexPlain ==
    ASSUME NEW s \in Seq(HexDigits)
    PROVE  Hex(s) = s
  <1>1. \A i \in 1..Len(s) : s[i] # Semicolon
    BY ElementOfSeq, Digit
  <1>2. DOMAIN s = 1..Len(s)
    OBVIOUS
  <1> QED
    BY <1>1, <1>2 DEF Hex

\* An extension is cut off.
LEMMA HexExtended ==
    ASSUME NEW s \in Seq(HexDigits)
    PROVE  Hex(s \o <<Semicolon, LetterX>>) = s
  <1> DEFINE t == <<Semicolon, LetterX>>
             line == s \o t
             P(i) == i \in DOMAIN line /\ line[i] = Semicolon /\ \A j \in 1..(i - 1) : line[j] # Semicolon
             k == CHOOSE i \in DOMAIN line : line[i] = Semicolon /\ \A j \in 1..(i - 1) : line[j] # Semicolon
  <1>1. s \in Seq(Nat) /\ t \in Seq(Nat) /\ Len(t) = 2 /\ t[1] = Semicolon /\ Len(s) \in Nat
    <2>1. s \in Seq(Nat)
      BY Digit, SeqMonotonic
    <2> QED
      BY <2>1 DEF Semicolon, LetterX
  <1>2. \A i \in 1..Len(s) : s[i] # Semicolon
    BY ElementOfSeq, Digit
  <1> HIDE DEF t
  <1>3. /\ line \in Seq(Nat) /\ Len(line) = Len(s) + Len(t)
        /\ \A i \in 1..Len(s) : line[i] = s[i]
        /\ \A i \in 1..Len(t) : line[Len(s) + i] = t[i]
    <2>1. s \in Seq(Nat) /\ t \in Seq(Nat)
      BY <1>1
    <2> QED
      BY <2>1, Joined
  <1>4. SubSeq(line, 1, Len(s)) = s
    <2>1. /\ SubSeq(line, 0 + 1, 0 + Len(s)) \in Seq(Nat)
          /\ Len(SubSeq(line, 0 + 1, 0 + Len(s))) = Len(s)
          /\ \A i \in 1..Len(s) : SubSeq(line, 0 + 1, 0 + Len(s))[i] = line[0 + i]
      <3>1. 0 \in Nat /\ 0 + Len(s) <= Len(line)
        BY <1>1, <1>3
      <3> HIDE DEF line
      <3> QED
        BY <1>1, <1>3, <3>1, PartOf
    <2>2. 0 + 1 = 1 /\ 0 + Len(s) = Len(s) /\ \A i \in 1..Len(s) : 0 + i = i
      BY <1>1
    <2> HIDE DEF line
    <2>3. /\ SubSeq(line, 1, Len(s)) \in Seq(Nat) /\ Len(SubSeq(line, 1, Len(s))) = Len(s)
          /\ \A i \in 1..Len(s) : SubSeq(line, 1, Len(s))[i] = s[i]
      BY <2>1, <2>2, <1>3
    <2> QED
      BY <2>3, <1>1, SeqEqual
  <1> HIDE DEF line
  <1>5. Len(line) = Len(s) + 2 /\ line[Len(s) + 1] = Semicolon /\ DOMAIN line = 1..(Len(s) + 2)
    BY <1>1, <1>3
  <1>6. P(Len(s) + 1)
    BY <1>1, <1>2, <1>3, <1>5
  <1>7. k \in DOMAIN line /\ line[k] = Semicolon /\ \A j \in 1..(k - 1) : line[j] # Semicolon
    BY <1>6
  <1> HIDE DEF k
  <1>8. k = Len(s) + 1
    <2>1. k \in 1..(Len(s) + 2)
      BY <1>5, <1>7
    <2>2. k \notin 1..Len(s)
      BY <1>2, <1>3, <1>7
    <2>3. Len(s) + 1 \notin 1..(k - 1)
      BY <1>5, <1>7
    <2> QED
      BY <2>1, <2>2, <2>3, <1>1
  <1>9. Hex(line) = SubSeq(line, 1, k - 1)
    BY <1>7 DEF Hex, k
  <1>10. k - 1 = Len(s)
    BY <1>8, <1>1
  <1> QED
    BY <1>4, <1>9, <1>10 DEF line, t

\* A chunk of the engine.
LEMMA ChunkType ==
    ASSUME NEW c \in Chunk
    PROVE  /\ c.data \in Seq(Nat) /\ Len(c.data) \in Nat /\ Len(c.data) >= 1 /\ Len(c.data) <= MaxSize
           /\ c.form \in {"plain", "padded", "extended"} /\ c.spoilt \in {"no", "size", "huge", "crlf"}
  <1>1. c.data \in ChunkData /\ c.form \in SizeForms /\ c.spoilt \in Spoilt
    BY DEF Chunk
  <1>2. c.data \in Seq(Nat) /\ Len(c.data) \in 1..MaxSize /\ MaxSize \in Nat
    BY <1>1, EngineAssumption, DecoderAssumption
  <1>3. c.form \in {"plain", "padded", "extended"} /\ c.spoilt \in {"no", "size", "huge", "crlf"}
    BY <1>1, EngineAssumption
  <1> QED
    BY <1>2, <1>3

\* A size line has no newline in it.
HasNoCR(s) == s \in Seq(Nat) /\ \A i \in 1..Len(s) : s[i] # CR

\* No digit is a carriage return.
LEMMA DigitsHaveNoCR == \A s \in Seq(HexDigits) : HasNoCR(s)
  <1> TAKE s \in Seq(HexDigits)
  <1>1. s \in Seq(Nat)
    BY Digit, SeqMonotonic
  <1>2. \A i \in 1..Len(s) : s[i] # CR
    BY ElementOfSeq, Digit
  <1> QED
    BY <1>1, <1>2 DEF HasNoCR

\* The line of a chunk, and the size the decoder reads from it.
LEMMA LineIs ==
    ASSUME NEW c \in Chunk
    PROVE  /\ HasNoCR(Line(c))
           /\ IF c.spoilt \in {"size", "huge"} THEN ~IsSize(Hex(Line(c)))
              ELSE IsSize(Hex(Line(c))) /\ HexValue[Hex(Line(c))] = Len(c.data)
  <1> DEFINE n == Len(c.data)
             h == HexOf[n]
  <1>1. n \in Nat /\ n <= MaxSize /\ c.form \in {"plain", "padded", "extended"}
        /\ c.spoilt \in {"no", "size", "huge", "crlf"}
    BY ChunkType
  <1> HIDE DEF n
  <1>2. h \in Seq(HexDigits) /\ h # <<>> /\ HexValue[h] = n
    BY <1>1, HexOfType, HexRoundTrip
  <1>3. IsSize(h)
    BY <1>1, <1>2 DEF IsSize
  <1>4. CASE c.spoilt = "size"
    <2> DEFINE x == <<LetterX>>
    <2>1. Line(c) = x
      BY <1>4 DEF Line
    <2>2. x \in Seq(Nat) /\ Len(x) = 1 /\ x[1] = LetterX /\ DOMAIN x = {1}
      BY DEF LetterX
    <2> HIDE DEF x
    <2>3. HasNoCR(x) /\ Hex(x) = x
      BY <2>2 DEF HasNoCR, Hex, LetterX, CR, Semicolon
    <2>4. x \notin Seq(HexDigits)
      BY <2>2, Digit
    <2> QED
      BY <2>1, <2>3, <2>4, <1>4 DEF IsSize
  <1>5. CASE c.spoilt = "huge"
    <2>1. MaxSize + 1 \in Nat /\ MaxSize \in Nat
      BY DecoderAssumption
    <2>2. Line(c) = HexOf[MaxSize + 1]
      BY <1>5 DEF Line
    <2>3. Line(c) \in Seq(HexDigits) /\ HexValue[Line(c)] = MaxSize + 1
      BY <2>1, <2>2, HexOfType, HexRoundTrip
    <2>4. Hex(Line(c)) = Line(c) /\ HasNoCR(Line(c))
      BY <2>3, HexPlain, DigitsHaveNoCR
    <2>5. ~IsSize(Line(c))
      BY <2>1, <2>3 DEF IsSize
    <2> QED
      BY <2>4, <2>5, <1>5
  <1>6. CASE c.spoilt \in {"no", "crlf"}
    <2>1. Line(c) = SizeLine(n, c.form)
      BY <1>6 DEF Line, n
    <2>2. CASE c.form = "plain"
      <3>1. Line(c) = h
        BY <2>1, <2>2 DEF SizeLine
      <3>2. Hex(h) = h /\ HasNoCR(h)
        BY <1>2, HexPlain, DigitsHaveNoCR
      <3> QED
        BY <3>1, <3>2, <1>2, <1>3, <1>6 DEF n
    <2>3. CASE c.form = "padded"
      <3> DEFINE z == <<Zero>> \o h
      <3>1. Line(c) = z
        BY <2>1, <2>3 DEF SizeLine
      <3>2. <<Zero>> \in Seq(HexDigits)
        BY DEF Zero, HexDigits
      <3>3. z \in Seq(HexDigits) /\ z # <<>> /\ HexValue[z] = n
        <4>1. z \in Seq(HexDigits)
          BY <3>2, <1>2, ConcatProperties
        <4>2. z # <<>>
          BY <3>2, <1>2, ConcatEqualIffEmpty
        <4>3. HexValue[z] = n
          BY <1>2, HexValuePadded
        <4> QED
          BY <4>1, <4>2, <4>3
      <3> HIDE DEF z
      <3>4. Hex(z) = z /\ HasNoCR(z) /\ IsSize(z)
        BY <3>3, <1>1, HexPlain, DigitsHaveNoCR DEF IsSize
      <3> QED
        BY <3>1, <3>3, <3>4, <1>6 DEF n
    <2>4. CASE c.form = "extended"
      <3> DEFINE t == <<Semicolon, LetterX>>
                 e == h \o t
      <3>1. Line(c) = e
        BY <2>1, <2>4 DEF SizeLine
      <3>2. Hex(e) = h
        BY <1>2, HexExtended
      <3>3. HasNoCR(h) /\ t \in Seq(Nat)
        BY <1>2, DigitsHaveNoCR DEF Semicolon, LetterX
      <3>4. Len(t) = 2 /\ t[1] # CR /\ t[2] # CR
        BY DEF Semicolon, LetterX, CR
      <3> HIDE DEF t
      <3>5. /\ e \in Seq(Nat) /\ Len(e) = Len(h) + Len(t)
            /\ \A i \in 1..Len(h) : e[i] = h[i]
            /\ \A i \in 1..Len(t) : e[Len(h) + i] = t[i]
        BY <3>3, Joined DEF HasNoCR
      <3> HIDE DEF e
      <3>6. ASSUME NEW i \in 1..Len(e) PROVE e[i] # CR
        <4>1. Len(h) \in Nat
          BY <1>2
        <4>2. CASE i \in 1..Len(h)
          BY <4>2, <3>3, <3>5 DEF HasNoCR
        <4>3. CASE i = Len(h) + 1
          BY <4>1, <4>3, <3>4, <3>5
        <4>4. CASE i = Len(h) + 2
          BY <4>1, <4>4, <3>4, <3>5
        <4> QED
          BY <4>1, <4>2, <4>3, <4>4, <3>4, <3>5
      <3>7. HasNoCR(e)
        BY <3>5, <3>6 DEF HasNoCR
      <3> QED
        BY <3>1, <3>2, <3>7, <1>2, <1>3, <1>6 DEF n
    <2> QED
      BY <2>2, <2>3, <2>4, <1>1
  <1> QED
    BY <1>1, <1>4, <1>5, <1>6

\* Bytes that are marked.
LEMMA MarkedOf ==
    ASSUME NEW s \in Seq(Nat), NEW mark \in Marks
    PROVE  /\ Marked(s, mark) \in Seq(MarkedByte) /\ Len(Marked(s, mark)) = Len(s)
           /\ \A i \in 1..Len(s) : Marked(s, mark)[i] = [byte |-> s[i], mark |-> mark]
  <1>1. Len(s) \in Nat /\ DOMAIN s = 1..Len(s)
    OBVIOUS
  <1>2. Marked(s, mark) = [i \in 1..Len(s) |-> [byte |-> s[i], mark |-> mark]]
    BY <1>1 DEF Marked
  <1>3. \A i \in 1..Len(s) : [byte |-> s[i], mark |-> mark] \in MarkedByte
    BY <1>1 DEF MarkedByte
  <1>4. Marked(s, mark) \in [1..Len(s) -> MarkedByte]
    BY <1>2, <1>3
  <1> QED
    BY <1>1, <1>2, <1>4

\* A byte of a wire that is these.
Is(b, byte, mark) == b.byte = byte /\ b.mark = mark

\* A line that is written.
LEMMA EndedIs ==
    ASSUME NEW line \in Seq(Nat), NEW mark \in Marks
    PROVE  LET e == Ended(line, mark)
           IN /\ e \in Seq(MarkedByte) /\ Len(e) = Len(line) + 2
              /\ \A i \in 1..Len(line) : Is(e[i], line[i], "size")
              /\ Is(e[Len(line) + 1], CR, "size") /\ Is(e[Len(line) + 2], LF, mark)
  <1> DEFINE n == Len(line)
             r == <<CR>>
             l == <<LF>>
             t == line \o r
             a == Marked(t, "size")
             b == Marked(l, mark)
             e == a \o b
  <1>1. r \in Seq(Nat) /\ l \in Seq(Nat) /\ "size" \in Marks
    BY DEF CR, LF, Marks
  <1>2. Len(r) = 1 /\ r[1] = CR /\ Len(l) = 1 /\ l[1] = LF /\ n \in Nat
    OBVIOUS
  <1>3. e = Ended(line, mark)
    BY DEF Ended
  <1> HIDE DEF r, l
  <1>4. /\ t \in Seq(Nat) /\ Len(t) = n + Len(r)
        /\ \A i \in 1..n : t[i] = line[i]
        /\ \A i \in 1..Len(r) : t[n + i] = r[i]
    BY <1>1, Joined
  <1> HIDE DEF t
  <1>5. /\ a \in Seq(MarkedByte) /\ Len(a) = Len(t)
        /\ \A i \in 1..Len(t) : a[i] = [byte |-> t[i], mark |-> "size"]
    BY <1>1, <1>4, MarkedOf
  <1>6. /\ b \in Seq(MarkedByte) /\ Len(b) = Len(l)
        /\ \A i \in 1..Len(l) : b[i] = [byte |-> l[i], mark |-> mark]
    BY <1>1, MarkedOf
  <1> HIDE DEF a, b
  <1>7. /\ e \in Seq(MarkedByte) /\ Len(e) = Len(a) + Len(b)
        /\ \A i \in 1..Len(a) : e[i] = a[i]
        /\ \A i \in 1..Len(b) : e[Len(a) + i] = b[i]
    <2>1. a \in Seq(MarkedByte) /\ b \in Seq(MarkedByte)
      BY <1>5, <1>6
    <2> QED
      BY <2>1, Joined
  <1> HIDE DEF e, n
  <1>8. Len(a) = n + 1 /\ Len(e) = n + 2 /\ 1 \in 1..Len(b) /\ 1 \in 1..Len(r) /\ 1 \in 1..Len(l)
    BY <1>2, <1>4, <1>5, <1>6, <1>7
  <1>9. \A i \in 1..n : Is(e[i], line[i], "size")
    <2>1. ASSUME NEW i \in 1..n PROVE Is(e[i], line[i], "size")
      <3>1. i \in 1..Len(a) /\ i \in 1..Len(t)
        BY <1>2, <1>5, <1>8
      <3>2. e[i] = [byte |-> line[i], mark |-> "size"]
        BY <3>1, <1>4, <1>5, <1>7
      <3> QED
        BY <3>2 DEF Is
    <2> QED
      BY <2>1
  <1>10. Is(e[n + 1], CR, "size")
    <2>1. n + 1 \in 1..Len(a) /\ n + 1 \in 1..Len(t)
      BY <1>2, <1>5, <1>8
    <2>2. e[n + 1] = [byte |-> CR, mark |-> "size"]
      BY <2>1, <1>2, <1>4, <1>5, <1>7, <1>8
    <2> QED
      BY <2>2 DEF Is
  <1>11. Is(e[n + 2], LF, mark)
    <2>1. n + 2 = Len(a) + 1
      BY <1>2, <1>8
    <2>2. e[n + 2] = [byte |-> LF, mark |-> mark]
      BY <2>1, <1>2, <1>6, <1>7, <1>8
    <2> QED
      BY <2>2 DEF Is
  <1> QED
    BY <1>3, <1>7, <1>8, <1>9, <1>10, <1>11 DEF n

\* What follows the data of a chunk: a newline, or something else where the decoder
\* can know that the wire is wrong.
StopAt(w, e) ==
    /\ e + 2 <= Len(w) /\ w[e + 1].mark = "after"
    /\ \/ w[e + 1].byte = CR /\ Is(w[e + 2], LF, "after")
       \/ w[e + 1].byte \notin {CR, LF} /\ w[e + 2].mark = "bad"

\* A chunk of the engine, byte by byte.
ChunkAt(x, c, n, v) ==
    /\ n \in Nat /\ v \in Nat /\ v >= 1 /\ v = Len(c.data)
    /\ n = Len(Line(c)) /\ Len(x) = n + v + 4
    /\ \A i \in 1..n : Is(x[i], Line(c)[i], "size")
    /\ Is(x[n + 1], CR, "size")
    /\ Is(x[n + 2], LF, IF c.spoilt \in {"size", "huge"} THEN "bad" ELSE "size")
    /\ \A i \in 1..v : x[n + 2 + i].mark = "data"
    /\ StopAt(x, n + 2 + v)

\* The bytes and marks of a chunk, right or wrong, one after the other.
LEMMA ChunkIs ==
    ASSUME NEW c \in Chunk
    PROVE  ChunkOf(c) \in Seq(MarkedByte) /\ ChunkAt(ChunkOf(c), c, Len(Line(c)), Len(c.data))
  <1> DEFINE n == Len(Line(c))
             v == Len(c.data)
             m == IF c.spoilt \in {"size", "huge"} THEN "bad" ELSE "size"
             a == Ended(Line(c), m)
             d == Marked(c.data, "data")
             t == IF c.spoilt = "crlf" THEN Marked(<<LetterX>>, "after") \o Marked(<<LetterX>>, "bad")
                  ELSE Marked(<<CR, LF>>, "after")
             ad == a \o d
             x == ad \o t
  <1>1. Line(c) \in Seq(Nat) /\ n \in Nat /\ m \in Marks
    BY LineIs DEF HasNoCR, Marks
  <1>2. c.data \in Seq(Nat) /\ v \in Nat /\ v >= 1 /\ {"data", "after", "bad"} \subseteq Marks
    BY ChunkType DEF Marks
  <1>3. x = ChunkOf(c)
    BY <1>1, <1>2 DEF ChunkOf
  <1>4. /\ a \in Seq(MarkedByte) /\ Len(a) = n + 2
        /\ \A i \in 1..n : Is(a[i], Line(c)[i], "size")
        /\ Is(a[n + 1], CR, "size") /\ Is(a[n + 2], LF, m)
    BY <1>1, EndedIs, Zenon
  <1>5. /\ d \in Seq(MarkedByte) /\ Len(d) = v
        /\ \A i \in 1..v : d[i] = [byte |-> c.data[i], mark |-> "data"]
    BY <1>2, MarkedOf
  <1>6. /\ t \in Seq(MarkedByte) /\ Len(t) = 2 /\ t[1].mark = "after"
        /\ \/ t[1].byte = CR /\ Is(t[2], LF, "after")
           \/ t[1].byte \notin {CR, LF} /\ t[2].mark = "bad"
    <2>1. CASE c.spoilt = "crlf"
      <3> DEFINE r == <<LetterX>>
                 f == Marked(r, "after")
                 g == Marked(r, "bad")
      <3>1. r \in Seq(Nat) /\ Len(r) = 1 /\ r[1] = LetterX /\ LetterX \notin {CR, LF}
        BY DEF LetterX, CR, LF
      <3> HIDE DEF r
      <3>2. f \in Seq(MarkedByte) /\ Len(f) = Len(r) /\ \A i \in 1..Len(r) : f[i] = [byte |-> r[i], mark |-> "after"]
        BY <3>1, <1>2, MarkedOf
      <3>3. g \in Seq(MarkedByte) /\ Len(g) = Len(r) /\ \A i \in 1..Len(r) : g[i] = [byte |-> r[i], mark |-> "bad"]
        BY <3>1, <1>2, MarkedOf
      <3>4. t = f \o g
        BY <2>1 DEF r
      <3> HIDE DEF f, g, t
      <3>5. f \in Seq(MarkedByte) /\ g \in Seq(MarkedByte)
        BY <3>2, <3>3
      <3>6. /\ t \in Seq(MarkedByte) /\ Len(t) = Len(f) + Len(g)
            /\ \A i \in 1..Len(f) : t[i] = f[i]
            /\ \A i \in 1..Len(g) : t[Len(f) + i] = g[i]
        BY <3>4, <3>5, Joined
      <3>7. Len(f) = 1 /\ Len(g) = 1 /\ 1 \in 1..1 /\ 1 + 1 = 2
        BY <3>1, <3>2, <3>3
      <3>8. Len(t) = 2 /\ t[1] = [byte |-> LetterX, mark |-> "after"] /\ t[2] = [byte |-> LetterX, mark |-> "bad"]
        BY <3>1, <3>2, <3>3, <3>6, <3>7
      <3>9. t[1].mark = "after" /\ t[1].byte \notin {CR, LF} /\ t[2].mark = "bad"
        BY <3>1, <3>8
      <3> QED
        BY <3>6, <3>8, <3>9
    <2>2. CASE c.spoilt # "crlf"
      <3> DEFINE r == <<CR, LF>>
      <3>1. r \in Seq(Nat) /\ Len(r) = 2 /\ r[1] = CR /\ r[2] = LF
        BY DEF LF, CR
      <3> HIDE DEF r
      <3>2. t = Marked(r, "after")
        BY <2>2 DEF r
      <3> HIDE DEF t
      <3>3. t \in Seq(MarkedByte) /\ Len(t) = Len(r) /\ \A i \in 1..Len(r) : t[i] = [byte |-> r[i], mark |-> "after"]
        <4>1. r \in Seq(Nat) /\ "after" \in Marks
          BY <3>1, <1>2
        <4> QED
          BY <4>1, <3>2, MarkedOf
      <3>4. Len(t) = 2 /\ t[1] = [byte |-> CR, mark |-> "after"] /\ t[2] = [byte |-> LF, mark |-> "after"]
        BY <3>1, <3>3
      <3>5. t[1].mark = "after" /\ t[1].byte = CR /\ Is(t[2], LF, "after")
        BY <3>4 DEF Is
      <3> QED
        BY <3>3, <3>4, <3>5
    <2> QED
      BY <2>1, <2>2
  <1> HIDE DEF a, d, t
  <1>7. /\ ad \in Seq(MarkedByte) /\ Len(ad) = Len(a) + Len(d)
        /\ \A i \in 1..Len(a) : ad[i] = a[i]
        /\ \A i \in 1..Len(d) : ad[Len(a) + i] = d[i]
    <2>1. a \in Seq(MarkedByte) /\ d \in Seq(MarkedByte)
      BY <1>4, <1>5
    <2> QED
      BY <2>1, Joined
  <1> HIDE DEF ad
  <1>8. /\ x \in Seq(MarkedByte) /\ Len(x) = Len(ad) + Len(t)
        /\ \A i \in 1..Len(ad) : x[i] = ad[i]
        /\ \A i \in 1..Len(t) : x[Len(ad) + i] = t[i]
    <2>1. ad \in Seq(MarkedByte) /\ t \in Seq(MarkedByte)
      BY <1>6, <1>7
    <2> QED
      BY <2>1, Joined
  <1> HIDE DEF x, n, v, m
  <1>9. Len(ad) = n + 2 + v /\ Len(x) = n + v + 4
    BY <1>1, <1>2, <1>4, <1>5, <1>6, <1>7, <1>8
  <1>10. \A i \in 1..(n + 2) : x[i] = a[i]
    <2>1. \A i \in 1..(n + 2) : i \in 1..Len(a) /\ i \in 1..Len(ad)
      BY <1>1, <1>2, <1>4, <1>9
    <2> QED
      BY <2>1, <1>7, <1>8
  <1>11. ASSUME NEW i \in 1..v PROVE x[n + 2 + i].mark = "data"
    <2>1. n + 2 + i \in 1..Len(ad) /\ i \in 1..Len(d) /\ n + 2 + i = Len(a) + i
      BY <1>1, <1>2, <1>4, <1>5, <1>9
    <2>2. x[n + 2 + i] = [byte |-> c.data[i], mark |-> "data"]
      BY <2>1, <1>5, <1>7, <1>8
    <2> QED
      BY <2>2
  <1>12. StopAt(x, n + 2 + v)
    <2>1. n + 2 + v + 1 = Len(ad) + 1 /\ n + 2 + v + 2 = Len(ad) + 2 /\ 1 \in 1..Len(t) /\ 2 \in 1..Len(t)
      BY <1>6, <1>9
    <2>2. x[n + 2 + v + 1] = t[1] /\ x[n + 2 + v + 2] = t[2] /\ n + 2 + v + 2 <= Len(x)
      BY <2>1, <1>1, <1>2, <1>8, <1>9
    <2> QED
      BY <2>2, <1>6 DEF StopAt
  <1>13. /\ \A i \in 1..n : Is(x[i], Line(c)[i], "size")
         /\ Is(x[n + 1], CR, "size") /\ Is(x[n + 2], LF, m)
    <2>1. \A i \in 1..n : i \in 1..(n + 2)
      BY <1>1
    <2>2. n + 1 \in 1..(n + 2) /\ n + 2 \in 1..(n + 2)
      BY <1>1
    <2> QED
      BY <2>1, <2>2, <1>4, <1>10
  <1>14. ChunkAt(x, c, n, v)
    BY <1>1, <1>2, <1>9, <1>11, <1>12, <1>13 DEF ChunkAt, n, v, m
  <1> QED
    BY <1>3, <1>8, <1>14 DEF n, v

\* Where a chunk begins, and where the data of one end.
Starts(w) == {b \in 0..Len(w) : b = 0 \/ Is(w[b], LF, "after")}
Stops(w) == {e \in 1..(Len(w) - 1) : w[e].mark = "data" /\ w[e + 1].mark = "after"}

\* What follows a size line whose last byte is the q-th.
SizeAt(w, q, hex) ==
    \/ w[q].mark = "bad" /\ ~IsSize(hex)
    \/ /\ w[q].mark = "last" /\ IsSize(hex) /\ HexValue[hex] = 0
       /\ \A j \in (q + 1)..Len(w) : w[j].mark = "trailer"
    \/ /\ w[q].mark = "size" /\ IsSize(hex) /\ HexValue[hex] > 0
       /\ q + HexValue[hex] \in Stops(w)
       /\ \A j \in (q + 1)..(q + HexValue[hex]) : w[j].mark = "data"

LineAt(w, b, line) ==
    /\ HasNoCR(line) /\ b + Len(line) + 2 <= Len(w)
    /\ \A i \in 1..Len(line) : Is(w[b + i], line[i], "size")
    /\ Is(w[b + Len(line) + 1], CR, "size") /\ w[b + Len(line) + 2].byte = LF
    /\ SizeAt(w, b + Len(line) + 2, Hex(line))

\* Every place of a wire is what the places before it announce.
Framed(w) ==
    /\ w \in Seq(MarkedByte)
    /\ \A b \in Starts(w) : \E line \in Seq(Nat) : LineAt(w, b, line)
    /\ \A e \in Stops(w) : StopAt(w, e)

\* The last chunk with its trailers is framed.
LEMMA FramedLast == Framed(LastChunk)
  <1> DEFINE z == <<Zero>>
             r == <<Zero + 1, CR, LF, LetterX, CR, LF>>
             a == Ended(z, "last")
             t == Marked(r, "trailer")
             w == a \o t
  <1>1. z \in Seq(Nat) /\ Len(z) = 1 /\ z[1] = Zero /\ r \in Seq(Nat) /\ Len(r) = 6
    BY DEF Zero, CR, LF, LetterX
  <1>2. "last" \in Marks /\ "trailer" \in Marks
    BY DEF Marks
  <1>3. w = LastChunk
    BY DEF LastChunk
  <1> HIDE DEF z, r
  <1>4. /\ a \in Seq(MarkedByte) /\ Len(a) = Len(z) + 2
        /\ \A i \in 1..Len(z) : Is(a[i], z[i], "size")
        /\ Is(a[Len(z) + 1], CR, "size") /\ Is(a[Len(z) + 2], LF, "last")
    BY <1>1, <1>2, EndedIs, Zenon
  <1>5. /\ t \in Seq(MarkedByte) /\ Len(t) = Len(r)
        /\ \A i \in 1..Len(r) : t[i] = [byte |-> r[i], mark |-> "trailer"]
    BY <1>1, <1>2, MarkedOf, Zenon
  <1> HIDE DEF a, t
  <1>6. /\ w \in Seq(MarkedByte) /\ Len(w) = Len(a) + Len(t)
        /\ \A i \in 1..Len(a) : w[i] = a[i]
        /\ \A i \in 1..Len(t) : w[Len(a) + i] = t[i]
    <2>1. a \in Seq(MarkedByte) /\ t \in Seq(MarkedByte)
      BY <1>4, <1>5
    <2> QED
      BY <2>1, Joined
  <1> HIDE DEF w
  <1>7. Len(a) = 3 /\ Len(t) = 6 /\ Len(w) = 9
    BY <1>1, <1>4, <1>5, <1>6
  <1>8. Is(w[1], Zero, "size") /\ Is(w[2], CR, "size") /\ Is(w[3], LF, "last")
    BY <1>1, <1>4, <1>6, <1>7
  <1>9. ASSUME NEW j \in 4..9 PROVE w[j].mark = "trailer"
    <2>1. j - 3 \in 1..Len(t) /\ j = Len(a) + (j - 3) /\ j - 3 \in 1..Len(r)
      BY <1>1, <1>7
    <2>2. w[j] = [byte |-> r[j - 3], mark |-> "trailer"]
      BY <2>1, <1>5, <1>6
    <2> QED
      BY <2>2
  <1>10. \A i \in 1..9 : w[i].mark \in {"size", "last", "trailer"}
    <2>1. \A i \in 1..9 : i = 1 \/ i = 2 \/ i = 3 \/ i \in 4..9
      OBVIOUS
    <2> QED
      BY <2>1, <1>8, <1>9 DEF Is
  <1>11. Starts(w) = {0} /\ Stops(w) = {}
    BY <1>7, <1>10 DEF Starts, Stops, Is
  <1>12. LineAt(w, 0, z)
    <2>1. z \in Seq(HexDigits) /\ z # <<>>
      BY DEF z, HexDigits, Zero
    <2>2. HexValue[z] = 0
      <3>1. Append(<<>>, Zero) = z /\ <<>> \in Seq(HexDigits) /\ Zero \in HexDigits /\ ValueOf(Zero) = 0
        BY DEF z, HexDigits, Zero, ValueOf
      <3>2. HexValue[Append(<<>>, Zero)] = 16 * HexValue[<<>>] + ValueOf(Zero) /\ HexValue[<<>>] = 0
        BY <3>1, HexValueAppend, HexValueIs
      <3> QED
        BY <3>1, <3>2
    <2>3. Hex(z) = z /\ HasNoCR(z)
      BY <2>1, HexPlain, DigitsHaveNoCR
    <2>4. IsSize(z)
      BY <2>1, <2>2, DecoderAssumption DEF IsSize
    <2>5. SizeAt(w, 3, z)
      BY <2>2, <2>4, <1>7, <1>8, <1>9 DEF SizeAt, Is
    <2>6. 0 + Len(z) + 2 = 3 /\ 0 + Len(z) + 1 = 2 /\ \A i \in 1..Len(z) : 0 + i = 1 /\ i = 1
      BY <1>1
    <2>7. \A i \in 1..Len(z) : Is(w[0 + i], z[i], "size")
      BY <2>6, <1>1, <1>8
    <2> QED
      BY <2>3, <2>5, <2>6, <2>7, <1>7, <1>8 DEF LineAt, Is
  <1>13. Framed(w)
    BY <1>1, <1>6, <1>11, <1>12 DEF Framed
  <1> QED
    BY <1>3, <1>13

\* A chunk before a wire makes a wire.
LEMMA FramedChunk ==
    ASSUME NEW c \in Chunk, NEW w, Framed(w)
    PROVE  Framed(ChunkOf(c) \o w)
  <1> DEFINE x == ChunkOf(c)
             n == Len(Line(c))
             v == Len(c.data)
             k == n + v + 4
             l == Len(w)
             W == x \o w
  <1>1. x \in Seq(MarkedByte) /\ ChunkAt(x, c, n, v)
    BY ChunkIs
  <1>2. w \in Seq(MarkedByte) /\ l \in Nat
    BY DEF Framed
  <1> HIDE DEF x, n, v
  <1>3. n \in Nat /\ v \in Nat /\ v >= 1 /\ Len(x) = k /\ k \in Nat /\ n = Len(Line(c)) /\ v = Len(c.data)
    BY <1>1 DEF ChunkAt
  <1>4. /\ W \in Seq(MarkedByte) /\ Len(W) = Len(x) + Len(w)
        /\ \A i \in 1..Len(x) : W[i] = x[i]
        /\ \A i \in 1..Len(w) : W[Len(x) + i] = w[i]
    BY <1>1, <1>2, Joined
  <1> HIDE DEF W
  <1>5. Len(W) = k + l /\ (\A i \in 1..k : W[i] = x[i]) /\ \A i \in 1..l : W[k + i] = w[i]
    BY <1>3, <1>4
  <1>0. n \in Nat /\ v \in Nat /\ v >= 1 /\ k \in Nat /\ l \in Nat /\ k = n + v + 4
    BY <1>2, <1>3
  <1> HIDE DEF k, l
  <1>6. ASSUME NEW e \in Stops(w) PROVE k + e \in Stops(W) /\ StopAt(W, k + e)
    <2>1. e \in 1..(l - 1) /\ w[e].mark = "data" /\ w[e + 1].mark = "after" /\ StopAt(w, e)
      BY <1>6 DEF Stops, Framed, l
    <2>2. e + 2 <= l
      BY <2>1 DEF StopAt, l
    <2>3. W[k + e] = w[e] /\ W[k + (e + 1)] = w[e + 1] /\ W[k + (e + 2)] = w[e + 2]
      <3>1. e \in 1..l /\ e + 1 \in 1..l /\ e + 2 \in 1..l
        BY <2>1, <2>2, <1>0
      <3> QED
        BY <3>1, <1>5
    <2>4. k + (e + 1) = (k + e) + 1 /\ k + (e + 2) = (k + e) + 2 /\ k + e \in 1..(Len(W) - 1)
          /\ (k + e) + 2 <= Len(W)
      BY <2>1, <2>2, <1>2, <1>3, <1>5
    <2> QED
      BY <2>1, <2>3, <2>4 DEF Stops, StopAt
  <1>7. ASSUME NEW q \in 1..l, NEW hex, SizeAt(w, q, hex) PROVE SizeAt(W, k + q, hex)
    <2>1. W[k + q] = w[q]
      BY <1>5
    <2>2. CASE w[q].mark = "bad" /\ ~IsSize(hex)
      BY <2>1, <2>2 DEF SizeAt
    <2>3. CASE /\ w[q].mark = "last" /\ IsSize(hex) /\ HexValue[hex] = 0
               /\ \A j \in (q + 1)..Len(w) : w[j].mark = "trailer"
      <3>1. ASSUME NEW j \in (k + q + 1)..Len(W) PROVE W[j].mark = "trailer"
        <4>1. j - k \in 1..l /\ j - k \in (q + 1)..Len(w) /\ j = k + (j - k)
          BY <1>2, <1>3, <1>5 DEF l
        <4> QED
          BY <4>1, <1>5, <2>3
      <3> QED
        BY <2>1, <2>3, <3>1 DEF SizeAt
    <2>4. CASE /\ w[q].mark = "size" /\ IsSize(hex) /\ HexValue[hex] > 0
               /\ q + HexValue[hex] \in Stops(w)
               /\ \A j \in (q + 1)..(q + HexValue[hex]) : w[j].mark = "data"
      <3> DEFINE h == HexValue[hex]
      <3>1. h \in Nat /\ q + h \in 1..(l - 1)
        BY <2>4, HexValueType DEF IsSize, Stops, l
      <3> HIDE DEF h
      <3>2. k + (q + h) = (k + q) + h
        BY <3>1, <1>3
      <3>3. (k + q) + h \in Stops(W)
        BY <3>2, <2>4, <1>6 DEF h
      <3>4. ASSUME NEW j \in (k + q + 1)..(k + q + h) PROVE W[j].mark = "data"
        <4>1. j - k \in 1..l /\ j - k \in (q + 1)..(q + h) /\ j = k + (j - k)
          BY <3>1, <1>0
        <4> QED
          BY <4>1, <1>5, <2>4 DEF h
      <3> QED
        BY <2>1, <2>4, <3>3, <3>4 DEF SizeAt, h
    <2> QED
      BY <1>7, <2>2, <2>3, <2>4 DEF SizeAt
  <1>8. ASSUME NEW b \in Starts(w), NEW line \in Seq(Nat), LineAt(w, b, line) PROVE LineAt(W, k + b, line)
    <2> DEFINE m == Len(line)
    <2>1. m \in Nat /\ b \in 0..l /\ b + m + 2 <= l /\ HasNoCR(line)
      BY <1>8 DEF Starts, LineAt, l
    <2>2. /\ \A i \in 1..m : Is(w[b + i], line[i], "size")
          /\ Is(w[b + m + 1], CR, "size") /\ w[b + m + 2].byte = LF
          /\ SizeAt(w, b + m + 2, Hex(line))
      BY <1>8 DEF LineAt
    <2> HIDE DEF m
    <2>3. \A i \in 1..(m + 2) : b + i \in 1..l /\ k + b + i = k + (b + i)
      BY <2>1, <1>2, <1>3
    <2>4. \A i \in 1..(m + 2) : W[k + b + i] = w[b + i]
      BY <2>3, <1>5
    <2>5. \A i \in 1..m : Is(W[k + b + i], line[i], "size")
      <3>1. \A i \in 1..m : i \in 1..(m + 2)
        BY <2>1
      <3> QED
        BY <3>1, <2>2, <2>4
    <2>6. Is(W[k + b + m + 1], CR, "size") /\ W[k + b + m + 2].byte = LF
      <3>1. m + 1 \in 1..(m + 2) /\ m + 2 \in 1..(m + 2) /\ b + (m + 1) = b + m + 1 /\ b + (m + 2) = b + m + 2
            /\ k + b + (m + 1) = k + b + m + 1 /\ k + b + (m + 2) = k + b + m + 2
        BY <2>1, <1>3
      <3> QED
        BY <3>1, <2>2, <2>4
    <2>7. SizeAt(W, k + b + m + 2, Hex(line))
      <3>1. b + m + 2 \in 1..l /\ k + b + m + 2 = k + (b + m + 2)
        BY <2>1, <1>2, <1>3
      <3> QED
        BY <3>1, <2>2, <1>7
    <2>8. k + b + m + 2 <= Len(W)
      BY <2>1, <1>2, <1>3, <1>5
    <2> QED
      BY <2>1, <2>5, <2>6, <2>7, <2>8 DEF LineAt, m
  <1>9. StopAt(W, n + 2 + v) /\ n + 2 + v \in Stops(W)
    <2> DEFINE e == n + 2 + v
    <2>0. Len(W) = k + l
      BY <1>5
    <2>1. e + 1 \in 1..k /\ e + 2 \in 1..k /\ e \in 1..k /\ e \in 1..(Len(W) - 1) /\ e + 2 <= Len(W)
      BY <2>0, <1>0
    <2>2. W[e] = x[e] /\ W[e + 1] = x[e + 1] /\ W[e + 2] = x[e + 2]
      BY <2>1, <1>5
    <2>3. x[e].mark = "data" /\ StopAt(x, e)
      <3>1. v \in 1..v
        BY <1>0
      <3> QED
        BY <3>1, <1>1 DEF ChunkAt
    <2> HIDE DEF e
    <2>4. StopAt(W, e) /\ e \in Stops(W)
      BY <2>1, <2>2, <2>3 DEF Stops, StopAt
    <2> QED
      BY <2>4 DEF e
  <1>10. LineAt(W, 0, Line(c))
    <2> DEFINE hex == Hex(Line(c))
    <2>1. HasNoCR(Line(c)) /\ IF c.spoilt \in {"size", "huge"} THEN ~IsSize(hex)
                              ELSE IsSize(hex) /\ HexValue[hex] = v
      BY LineIs, <1>3
    <2>2. /\ \A i \in 1..n : Is(x[i], Line(c)[i], "size")
          /\ Is(x[n + 1], CR, "size")
          /\ Is(x[n + 2], LF, IF c.spoilt \in {"size", "huge"} THEN "bad" ELSE "size")
          /\ \A i \in 1..v : x[n + 2 + i].mark = "data"
      BY <1>1 DEF ChunkAt
    <2> HIDE DEF hex
    <2>3. \A i \in 1..n : 0 + i = i /\ i \in 1..k
      BY <1>3 DEF k
    <2>4. 0 + n + 1 = n + 1 /\ 0 + n + 2 = n + 2 /\ n + 1 \in 1..k /\ n + 2 \in 1..k /\ n + 2 <= Len(W)
      BY <1>2, <1>3, <1>5 DEF k
    <2>5. SizeAt(W, n + 2, hex)
      <3>1. W[n + 2] = x[n + 2]
        BY <2>4, <1>5
      <3>2. CASE c.spoilt \in {"size", "huge"}
        BY <3>1, <3>2, <2>1, <2>2 DEF SizeAt, Is
      <3>3. CASE c.spoilt \notin {"size", "huge"}
        <4>1. ASSUME NEW j \in (n + 2 + 1)..(n + 2 + v) PROVE W[j].mark = "data"
          <5>1. j - (n + 2) \in 1..v /\ j \in 1..k /\ j = n + 2 + (j - (n + 2))
            BY <1>0
          <5> QED
            BY <5>1, <2>2, <1>5
        <4>2. HexValue[hex] = v /\ IsSize(hex) /\ v > 0 /\ W[n + 2].mark = "size"
          BY <3>1, <3>3, <2>1, <2>2, <1>3 DEF Is
        <4> QED
          BY <4>1, <4>2, <1>9 DEF SizeAt
      <3> QED
        BY <3>2, <3>3
    <2>6. Is(W[n + 1], CR, "size") /\ W[n + 2].byte = LF /\ \A i \in 1..n : Is(W[0 + i], Line(c)[i], "size")
      BY <2>2, <2>3, <2>4, <1>5 DEF Is
    <2>7. LineAt(W, 0, Line(c))
      BY <1>3, <2>1, <2>4, <2>5, <2>6 DEF LineAt, hex
    <2> QED
      BY <2>7
  <1>11. ASSUME NEW i \in 1..k
         PROVE  /\ Is(x[i], LF, "after") => i = k
                /\ x[i].mark = "data" => i \in (n + 3)..(n + 2 + v)
    <2>1. CASE i \in 1..n
      BY <2>1, <1>1 DEF ChunkAt, Is
    <2>2. CASE i = n + 1 \/ i = n + 2
      BY <2>2, <1>1 DEF ChunkAt, Is
    <2>3. CASE i \in (n + 3)..(n + 2 + v)
      <3>1. i - (n + 2) \in 1..v /\ i = n + 2 + (i - (n + 2))
        BY <2>3, <1>0
      <3>2. x[i].mark = "data"
        BY <3>1, <1>1 DEF ChunkAt
      <3> QED
        BY <2>3, <3>2 DEF Is
    <2> DEFINE e == n + 2 + v
    <2>00. StopAt(x, e)
      BY <1>1 DEF ChunkAt
    <2>01. k = e + 2
      BY <1>0
    <2>0. StopAt(x, e) /\ k = e + 2
      BY <2>00, <2>01
    <2> HIDE DEF e
    <2>4. CASE i = e + 1
      BY <2>0, <2>4 DEF StopAt, Is, CR, LF
    <2>5. CASE i = e + 2
      BY <2>0, <2>5 DEF StopAt, Is
    <2>6. i \in 1..n \/ i = n + 1 \/ i = n + 2 \/ i \in (n + 3)..(n + 2 + v) \/ i = e + 1 \/ i = e + 2
      BY <1>0 DEF e
    <2> QED
      BY <2>1, <2>2, <2>3, <2>4, <2>5, <2>6
  <1>12. ASSUME NEW b \in Starts(W) PROVE \E line \in Seq(Nat) : LineAt(W, b, line)
    <2>1. b \in 0..(k + l) /\ (b = 0 \/ Is(W[b], LF, "after"))
      BY <1>12, <1>5 DEF Starts
    <2>2. CASE b = 0
      BY <2>2, <1>10 DEF LineAt, HasNoCR
    <2>3. CASE b # 0
      <3>1. ~(b < k)
        <4>1. ASSUME b < k PROVE FALSE
          <5>1. b \in 1..k /\ W[b] = x[b]
            BY <2>1, <2>3, <4>1, <1>2, <1>3, <1>5
          <5>2. b = k
            BY <5>1, <2>1, <2>3, <1>11
          <5> QED
            BY <5>2, <4>1, <1>0
        <4> QED
          BY <4>1
      <3>2. b - k \in 0..l /\ k + (b - k) = b
        BY <3>1, <2>1, <1>2, <1>3
      <3>3. b - k \in Starts(w)
        <4>1. CASE b - k = 0
          BY <4>1, <3>2 DEF Starts, l
        <4>2. CASE b - k # 0
          <5>1. b - k \in 1..l
            BY <4>2, <3>2, <1>2
          <5>2. W[b] = w[b - k]
            BY <5>1, <3>2, <1>5
          <5> QED
            BY <5>2, <3>2, <2>1, <2>3 DEF Starts, l
        <4> QED
          BY <4>1, <4>2
      <3>4. PICK line \in Seq(Nat) : LineAt(w, b - k, line)
        BY <3>3 DEF Framed
      <3>5. LineAt(W, k + (b - k), line)
        BY <3>3, <3>4, <1>8
      <3> QED
        BY <3>2, <3>5
    <2> QED
      BY <2>2, <2>3
  <1>13. ASSUME NEW e \in Stops(W) PROVE StopAt(W, e)
    <2>0. Len(W) = k + l
      BY <1>5
    <2>00. e \in 1..(Len(W) - 1) /\ W[e].mark = "data" /\ W[e + 1].mark = "after"
      BY <1>13 DEF Stops
    <2>1. e \in 1..(k + l - 1) /\ W[e].mark = "data" /\ W[e + 1].mark = "after"
      BY <2>00, <2>0, <1>0
    <2>2. CASE e <= k
      <3>1. e \in 1..k /\ W[e] = x[e]
        BY <2>1, <2>2, <1>3, <1>5
      <3>2. e \in (n + 3)..(n + 2 + v)
        BY <3>1, <2>1, <1>11
      <3>3. ~(e < n + 2 + v)
        <4>1. ASSUME e < n + 2 + v PROVE FALSE
          <5>1. e + 1 \in 1..k /\ e + 1 - (n + 2) \in 1..v /\ e + 1 = n + 2 + (e + 1 - (n + 2))
            BY <3>2, <4>1, <1>0
          <5>2. x[e + 1].mark = "data"
            BY <5>1, <1>1 DEF ChunkAt
          <5> QED
            BY <5>1, <5>2, <2>1, <1>5
        <4> QED
          BY <4>1
      <3>4. e = n + 2 + v
        BY <3>2, <3>3, <1>0
      <3> QED
        BY <3>4, <1>9
    <2>3. CASE e > k
      <3>1. e - k \in 1..l /\ e + 1 - k \in 1..l /\ k + (e - k) = e /\ k + (e + 1 - k) = e + 1
            /\ e - k \in 1..(l - 1) /\ (e - k) + 1 = e + 1 - k
        BY <2>1, <2>3, <1>2, <1>3
      <3>2. W[e] = w[e - k] /\ W[e + 1] = w[(e - k) + 1]
        BY <3>1, <1>5
      <3>3. e - k \in Stops(w)
        BY <3>1, <3>2, <2>1 DEF Stops, l
      <3> QED
        BY <3>1, <3>3, <1>6
    <2> QED
      BY <2>1, <2>2, <2>3, <1>2, <1>3
  <1>14. Framed(W)
    BY <1>4, <1>12, <1>13 DEF Framed
  <1> QED
    BY <1>14 DEF W, x

\* What the recursive definition of WireOf says.
LEMMA WireOfIs ==
    \A body \in Seq(Chunk) :
        WireOf[body] = IF body = <<>> THEN LastChunk ELSE ChunkOf(Head(body)) \o WireOf[Tail(body)]
  <1> DEFINE D == Seq(Chunk)
             V == Seq(MarkedByte)
             base == {<<>>}
             rank == [s \in D |-> Len(s)]
             pred == [s \in D |-> IF s = <<>> THEN <<>> ELSE Tail(s)]
             at == [s \in D |-> LastChunk]
             step == [sw \in D \X V |-> IF sw[1] = <<>> THEN LastChunk ELSE ChunkOf(Head(sw[1])) \o sw[2]]
  <1>1. ASSUME NEW s \in D, s # <<>>
        PROVE  Tail(s) \in D /\ Len(Tail(s)) < Len(s) /\ Head(s) \in Chunk
    BY <1>1, HeadTailProperties
  <1>0. LastChunk \in V
    BY FramedLast DEF Framed
  <1>2. rank \in [D -> Nat] /\ base \in SUBSET D /\ at \in [D -> V]
    BY <1>0
  <1>3. pred \in [D -> D]
    BY <1>1
  <1>4. step \in [D \X V -> V]
    <2>1. ASSUME NEW s \in D, NEW w \in V
          PROVE  (IF s = <<>> THEN LastChunk ELSE ChunkOf(Head(s)) \o w) \in V
      <3>1. CASE s # <<>>
        <4>1. ChunkOf(Head(s)) \in V
          BY <3>1, <1>1, ChunkIs
        <4> QED
          BY <3>1, <4>1, ConcatProperties
      <3> QED
        BY <3>1, <1>0
    <2> HIDE DEF D, V
    <2> QED
      BY <2>1
  <1>5. \A s \in D \ base : rank[pred[s]] < rank[s]
    BY <1>1
  <1>6. PICK f \in [D -> V] : Solves(f, D, base, at, pred, step)
    <2> HIDE DEF rank, pred, base, at, step, D, V
    <2>1. Descends(D, V, rank, base, at, pred, step)
      BY <1>2, <1>3, <1>4, <1>5 DEF Descends
    <2> QED
      BY <2>1, Recursion
  <1>7. ASSUME NEW s \in D
        PROVE  f[s] = IF s = <<>> THEN LastChunk ELSE ChunkOf(Head(s)) \o f[Tail(s)]
    <2>1. f[s] = IF s \in base THEN at[s] ELSE step[<<s, f[pred[s]]>>]
      BY <1>6 DEF Solves
    <2>2. CASE s = <<>>
      BY <2>1, <2>2
    <2>3. CASE s # <<>>
      <3>1. pred[s] = Tail(s) /\ pred[s] \in D
        BY <1>1, <2>3
      <3>2. f[s] = step[<<s, f[pred[s]]>>] /\ f[pred[s]] \in V
        BY <2>1, <2>3, <3>1
      <3>3. step[<<s, f[pred[s]]>>] = ChunkOf(Head(s)) \o f[pred[s]]
        <4> HIDE DEF D, V, pred
        <4> QED
          BY <2>3, <3>2
      <3> HIDE DEF step, D, V
      <3> QED
        BY <2>3, <3>1, <3>2, <3>3
    <2> QED
      BY <2>2, <2>3
  <1>8. f = [s \in Seq(Chunk) |-> IF s = <<>> THEN LastChunk ELSE ChunkOf(Head(s)) \o f[Tail(s)]]
    BY <1>7
  <1>9. WireOf = [s \in Seq(Chunk) |-> IF s = <<>> THEN LastChunk ELSE ChunkOf(Head(s)) \o WireOf[Tail(s)]]
    BY <1>8, Zenon DEF WireOf
  <1> HIDE DEF base, rank, pred, at, step, D, V
  <1> QED
    BY <1>9, Zenon

\* Every wire is well framed.
LEMMA WiresAreFramed == \A body \in Seq(Chunk) : Framed(WireOf[body])
  <1> DEFINE D == Seq(Chunk)
             rank == [s \in D |-> Len(s)]
             S == {s \in D : Framed(WireOf[s])}
  <1>1. ASSUME NEW s \in D, \A t \in D : rank[t] < rank[s] => t \in S PROVE s \in S
    <2>1. CASE s = <<>>
      BY <2>1, WireOfIs, FramedLast
    <2>2. CASE s # <<>>
      <3>1. Tail(s) \in D /\ Len(Tail(s)) < Len(s) /\ Head(s) \in Chunk
        BY <2>2, HeadTailProperties
      <3>2. Framed(WireOf[Tail(s)])
        BY <3>1, <1>1
      <3>3. WireOf[s] = ChunkOf(Head(s)) \o WireOf[Tail(s)]
        BY <2>2, WireOfIs
      <3>4. Framed(WireOf[s])
        BY <3>1, <3>2, <3>3, FramedChunk
      <3> QED
        BY <3>4
    <2> QED
      BY <2>1, <2>2
  <1>2. rank \in [D -> Nat]
    OBVIOUS
  <1>3. \A s \in D : s \in S
    <2> HIDE DEF S, rank, D
    <2> QED
      BY <1>1, <1>2, RankInduct
  <1> QED
    BY <1>3

-----------------------------------------------------------------------------
(* The loop *)

\* The first newline of a buffer that has one.
LEMMA LineEndIs ==
    ASSUME NEW s \in Seq(Nat), HasLine(s)
    PROVE  /\ LineEnd(s) \in 1..(Len(s) - 1) /\ IsNewline(s, LineEnd(s))
           /\ \A j \in 1..(LineEnd(s) - 1) : ~IsNewline(s, j)
  <1> DEFINE T == {i \in 1..(Len(s) - 1) : IsNewline(s, i)}
             L == CHOOSE i \in 1..(Len(s) - 1) : IsNewline(s, i) /\ \A j \in 1..(i - 1) : ~IsNewline(s, j)
  <1>1. T \in SUBSET Nat /\ T # {}
    BY DEF HasLine
  <1>2. PICK i \in T : \A j \in T : i <= j
    <2> HIDE DEF T
    <2> QED
      BY <1>1, Least
  <1>3. i \in 1..(Len(s) - 1) /\ IsNewline(s, i) /\ Len(s) \in Nat
    BY <1>2
  <1>4. ASSUME NEW j \in 1..(i - 1) PROVE ~IsNewline(s, j)
    <2>1. j \in 1..(Len(s) - 1) /\ ~(i <= j)
      BY <1>3
    <2> QED
      BY <2>1, <1>2
  <1>5. L \in 1..(Len(s) - 1) /\ IsNewline(s, L) /\ \A j \in 1..(L - 1) : ~IsNewline(s, j)
    BY <1>3, <1>4
  <1> QED
    BY <1>5 DEF LineEnd

\* The end of a sequence.
LEMMA RestOf ==
    ASSUME NEW S, NEW s \in Seq(S), NEW k \in Nat, k <= Len(s)
    PROVE  /\ SubSeq(s, k + 1, Len(s)) \in Seq(S) /\ Len(SubSeq(s, k + 1, Len(s))) = Len(s) - k
           /\ \A i \in 1..(Len(s) - k) : SubSeq(s, k + 1, Len(s))[i] = s[k + i]
  <1>1. Len(s) - k \in Nat /\ k + (Len(s) - k) = Len(s) /\ k + (Len(s) - k) <= Len(s)
    OBVIOUS
  <1>2. /\ SubSeq(s, k + 1, k + (Len(s) - k)) \in Seq(S)
        /\ Len(SubSeq(s, k + 1, k + (Len(s) - k))) = Len(s) - k
        /\ \A i \in 1..(Len(s) - k) : SubSeq(s, k + 1, k + (Len(s) - k))[i] = s[k + i]
    BY <1>1, PartOf
  <1> QED
    BY <1>1, <1>2

\* The start of a sequence.
LEMMA StartOf ==
    ASSUME NEW S, NEW s \in Seq(S), NEW k \in Nat, k <= Len(s)
    PROVE  /\ SubSeq(s, 1, k) \in Seq(S) /\ Len(SubSeq(s, 1, k)) = k
           /\ \A i \in 1..k : SubSeq(s, 1, k)[i] = s[i]
  <1>1. 0 \in Nat /\ 0 + k = k /\ 0 + 1 = 1 /\ 0 + k <= Len(s) /\ \A i \in 1..k : 0 + i = i
    OBVIOUS
  <1>2. /\ SubSeq(s, 0 + 1, 0 + k) \in Seq(S) /\ Len(SubSeq(s, 0 + 1, 0 + k)) = k
        /\ \A i \in 1..k : SubSeq(s, 0 + 1, 0 + k)[i] = s[0 + i]
    BY <1>1, PartOf
  <1> QED
    BY <1>1, <1>2

\* A decoder is its fields.
LEMMA DecoderFields ==
    \A d \in Decoders :
        /\ d.mode \in {"size", "body", "crlf", "done"} /\ d.remaining \in Nat /\ d.ok \in BOOLEAN
        /\ d.buf \in Seq(Nat) /\ Len(d.buf) \in Nat /\ d.out \in Seq(Nat)
  BY DEF Decoders

\* What a pass of each mode leaves.
LEMMA SizeTaken ==
    ASSUME NEW d \in Decoders, HasLine(d.buf)
    PROVE  LET t == TakesSize(d)
           IN t \in Decoders /\ t.mode \in {"done", "body"} /\ Len(t.buf) <= Len(d.buf)
  <1> DEFINE t == TakesSize(d)
             end == LineEnd(d.buf)
             hex == Hex(SubSeq(d.buf, 1, end - 1))
             rest == SubSeq(d.buf, end + 2, Len(d.buf))
  <1>1. d.buf \in Seq(Nat) /\ Len(d.buf) \in Nat
    BY DecoderFields
  <1>2. end \in 1..(Len(d.buf) - 1)
    BY <1>1, LineEndIs
  <1> HIDE DEF end
  <1>3. end + 1 \in Nat /\ end + 1 <= Len(d.buf) /\ end + 1 + 1 = end + 2
    BY <1>1, <1>2
  <1>4. rest \in Seq(Nat) /\ Len(rest) = Len(d.buf) - (end + 1)
    BY <1>1, <1>3, RestOf
  <1>5. Len(rest) <= Len(d.buf)
    BY <1>1, <1>3, <1>4
  <1> HIDE DEF hex, rest
  <1>6. CASE ~IsSize(hex)
    <2>1. t = [d EXCEPT !.mode = "done", !.ok = FALSE]
      BY <1>6 DEF TakesSize, hex, end
    <2>2. t \in Decoders /\ t.mode = "done" /\ t.buf = d.buf
      BY <2>1 DEF Decoders
    <2> HIDE DEF t
    <2> QED
      BY <2>2, <1>1 DEF t
  <1>7. CASE IsSize(hex) /\ HexValue[hex] = 0
    <2>1. t = [d EXCEPT !.mode = "done", !.buf = <<>>]
      BY <1>7 DEF TakesSize, hex, end
    <2>2. <<>> \in Seq(Nat) /\ Len(<<>>) = 0
      OBVIOUS
    <2>3. t \in Decoders /\ t.mode = "done" /\ t.buf = <<>>
      BY <2>1, <2>2 DEF Decoders
    <2> HIDE DEF t
    <2> QED
      BY <2>2, <2>3, <1>1 DEF t
  <1>8. CASE IsSize(hex) /\ HexValue[hex] # 0
    <2>1. t = [d EXCEPT !.mode = "body", !.remaining = HexValue[hex], !.buf = rest]
      BY <1>8 DEF TakesSize, hex, end, rest
    <2>2. HexValue[hex] \in Nat
      BY <1>8, HexValueType DEF IsSize
    <2>3. t \in Decoders /\ t.mode = "body" /\ t.buf = rest
      BY <2>1, <2>2, <1>4 DEF Decoders
    <2> HIDE DEF t
    <2> QED
      BY <2>3, <1>5 DEF t
  <1> QED
    BY <1>6, <1>7, <1>8

\* The same for a pass over data,
LEMMA BodyTaken ==
    ASSUME NEW d \in Decoders, d.mode = "body", d.buf # <<>>
    PROVE  LET t == TakesBody(d)
               take == IF d.remaining < Len(d.buf) THEN d.remaining ELSE Len(d.buf)
           IN /\ t \in Decoders /\ take \in Nat /\ t.ok = d.ok
              /\ t.mode = IF take = d.remaining THEN "crlf" ELSE "body"
              /\ t.remaining = d.remaining - take
              /\ t.out = d.out \o SubSeq(d.buf, 1, take)
              /\ t.buf = SubSeq(d.buf, take + 1, Len(d.buf)) /\ Len(t.buf) = Len(d.buf) - take
  <1> DEFINE take == IF d.remaining < Len(d.buf) THEN d.remaining ELSE Len(d.buf)
             given == SubSeq(d.buf, 1, take)
             rest == SubSeq(d.buf, take + 1, Len(d.buf))
             sum == d.out \o given
             t == TakesBody(d)
  <1>1. d.buf \in Seq(Nat) /\ Len(d.buf) \in Nat /\ d.remaining \in Nat /\ d.out \in Seq(Nat)
    BY DecoderFields
  <1>2. take \in Nat /\ take <= Len(d.buf) /\ d.remaining - take \in Nat
    BY <1>1
  <1>3. t = [d EXCEPT !.mode = IF take = d.remaining THEN "crlf" ELSE "body",
                      !.remaining = d.remaining - take, !.out = sum, !.buf = rest]
    BY DEF TakesBody
  <1> HIDE DEF take
  <1>4. given \in Seq(Nat) /\ rest \in Seq(Nat) /\ Len(rest) = Len(d.buf) - take
    BY <1>1, <1>2, StartOf, RestOf
  <1> HIDE DEF given, rest
  <1>5. sum \in Seq(Nat)
    BY <1>1, <1>4, ConcatProperties
  <1> HIDE DEF sum, t
  <1>6. /\ t \in Decoders /\ t.ok = d.ok /\ t.mode = IF take = d.remaining THEN "crlf" ELSE "body"
        /\ t.remaining = d.remaining - take /\ t.out = sum /\ t.buf = rest
    BY <1>2, <1>3, <1>4, <1>5 DEF Decoders
  <1> QED
    BY <1>2, <1>4, <1>6 DEF t, sum, given, rest, take

\* and for one over what ends a chunk.
LEMMA CrLfTaken ==
    ASSUME NEW d \in Decoders, Len(d.buf) >= 2
    PROVE  LET t == TakesCrLf(d)
           IN /\ t \in Decoders /\ t.out = d.out
              /\ IF IsNewline(d.buf, 1)
                   THEN t.mode = "size" /\ t.ok = d.ok /\ t.buf = SubSeq(d.buf, 3, Len(d.buf))
                        /\ Len(t.buf) = Len(d.buf) - 2
                   ELSE t.mode = "done" /\ t.ok = FALSE /\ t.buf = d.buf
  <1> DEFINE rest == SubSeq(d.buf, 3, Len(d.buf))
             t == TakesCrLf(d)
  <1>1. d.buf \in Seq(Nat) /\ Len(d.buf) \in Nat
    BY DecoderFields
  <1>2. rest \in Seq(Nat) /\ Len(rest) = Len(d.buf) - 2
    <2>1. 2 \in Nat /\ 2 <= Len(d.buf) /\ 2 + 1 = 3
      BY <1>1
    <2>2. SubSeq(d.buf, 2 + 1, Len(d.buf)) \in Seq(Nat) /\ Len(SubSeq(d.buf, 2 + 1, Len(d.buf))) = Len(d.buf) - 2
      BY <1>1, <2>1, RestOf
    <2> QED
      BY <2>1, <2>2
  <1>3. CASE IsNewline(d.buf, 1)
    <2>1. t = [d EXCEPT !.mode = "size", !.buf = rest]
      BY <1>3 DEF TakesCrLf
    <2> HIDE DEF rest, t
    <2>2. t \in Decoders /\ t.out = d.out /\ t.mode = "size" /\ t.ok = d.ok /\ t.buf = rest
      BY <2>1, <1>2 DEF Decoders
    <2> QED
      BY <2>2, <1>2, <1>3 DEF rest, t
  <1>4. CASE ~IsNewline(d.buf, 1)
    <2>1. t = [d EXCEPT !.mode = "done", !.ok = FALSE]
      BY <1>4 DEF TakesCrLf
    <2> HIDE DEF t
    <2>2. t \in Decoders /\ t.out = d.out /\ t.mode = "done" /\ t.ok = FALSE /\ t.buf = d.buf
      BY <2>1 DEF Decoders
    <2> QED
      BY <2>2, <1>4 DEF t
  <1> QED
    BY <1>3, <1>4

\* A pass gives a decoder, and one that does something leaves less to do.
Modes == [size |-> 3, body |-> 2, crlf |-> 1, done |-> 0]
Left(d) == 4 * Len(d.buf) + Modes[d.mode]

\* A pass that changes the decoder takes bytes or a mode from it, so the loop ends.
LEMMA PassDescends ==
    ASSUME NEW d \in Decoders
    PROVE  /\ Left(d) \in Nat /\ Pass(d) \in Decoders
           /\ Pass(d) # d => Left(Pass(d)) < Left(d)
  <1> DEFINE l == Len(d.buf)
  <1>0. \A e \in Decoders : Left(e) \in Nat
    BY DecoderFields DEF Left, Modes
  <1>1. l \in Nat /\ d.mode \in {"size", "body", "crlf", "done"} /\ d.remaining \in Nat
    BY DecoderFields
  <1>2. Modes["size"] = 3 /\ Modes["body"] = 2 /\ Modes["crlf"] = 1 /\ Modes["done"] = 0
    BY DEF Modes
  <1>3. CASE d.mode = "size" /\ HasLine(d.buf)
    <2> DEFINE t == TakesSize(d)
    <2>1. t \in Decoders /\ t.mode \in {"done", "body"} /\ Len(t.buf) <= l
      BY <1>3, SizeTaken
    <2>2. Pass(d) = t
      BY <1>3 DEF Pass
    <2> HIDE DEF t
    <2>3. Len(t.buf) \in Nat
      BY <2>1, DecoderFields
    <2>4. Left(t) < Left(d)
      <3>1. Modes[t.mode] \in {0, 2} /\ Modes[d.mode] = 3
        BY <2>1, <1>2, <1>3
      <3>2. 4 * Len(t.buf) + Modes[t.mode] < 4 * l + Modes[d.mode]
        BY <3>1, <2>1, <2>3, <1>1
      <3> QED
        BY <3>2 DEF Left
    <2> QED
      BY <2>1, <2>2, <2>4, <1>0
  <1>4. CASE d.mode = "body" /\ d.buf # <<>>
    <2> DEFINE t == TakesBody(d)
               take == IF d.remaining < Len(d.buf) THEN d.remaining ELSE Len(d.buf)
    <2>1. /\ t \in Decoders /\ take \in Nat
          /\ t.mode = IF take = d.remaining THEN "crlf" ELSE "body"
          /\ Len(t.buf) = l - take
      BY <1>4, BodyTaken
    <2>2. Pass(d) = t
      BY <1>4 DEF Pass
    <2>3. take # d.remaining => take = l
      OBVIOUS
    <2>4. l >= 1
      BY <1>1, <1>4, DecoderFields, EmptySeq
    <2> HIDE DEF t, take
    <2>5. Left(t) < Left(d)
      BY <2>1, <2>3, <2>4, <1>1, <1>2, <1>4 DEF Left
    <2> QED
      BY <2>1, <2>2, <2>5, <1>0
  <1>5. CASE d.mode = "crlf" /\ Len(d.buf) >= 2
    <2> DEFINE t == TakesCrLf(d)
    <2>1. t \in Decoders /\ \/ t.mode = "size" /\ Len(t.buf) = l - 2
                            \/ t.mode = "done" /\ Len(t.buf) = l
      BY <1>5, CrLfTaken
    <2>2. Pass(d) = t
      BY <1>5 DEF Pass
    <2> HIDE DEF t
    <2>3. Left(t) < Left(d)
      BY <2>1, <1>1, <1>2, <1>5 DEF Left
    <2> QED
      BY <2>1, <2>2, <2>3, <1>0
  <1>6. CASE /\ ~(d.mode = "size" /\ HasLine(d.buf)) /\ ~(d.mode = "body" /\ d.buf # <<>>)
             /\ ~(d.mode = "crlf" /\ Len(d.buf) >= 2)
    <2>1. Pass(d) = d
      BY <1>6 DEF Pass
    <2> QED
      BY <2>1, <1>0
  <1> QED
    BY <1>3, <1>4, <1>5, <1>6

\* What the recursive definition of Loop says.
LEMMA LoopIs ==
    \A d \in Decoders : Loop[d] = IF Pass(d) = d THEN d ELSE Loop[Pass(d)]
  <1> DEFINE D == Decoders
             base == {d \in D : Pass(d) = d}
             rank == [d \in D |-> Left(d)]
             pred == [d \in D |-> Pass(d)]
             at == [d \in D |-> d]
             step == [de \in D \X D |-> de[2]]
  <1>1. rank \in [D -> Nat] /\ base \in SUBSET D /\ at \in [D -> D] /\ pred \in [D -> D] /\ step \in [D \X D -> D]
    BY PassDescends
  <1>2. \A d \in D \ base : rank[pred[d]] < rank[d]
    <2>1. ASSUME NEW d \in D, d \notin base PROVE rank[pred[d]] < rank[d]
      <3>1. Pass(d) \in D /\ Left(Pass(d)) < Left(d)
        BY <2>1, PassDescends
      <3>2. pred[d] = Pass(d) /\ rank[Pass(d)] = Left(Pass(d)) /\ rank[d] = Left(d)
        BY <3>1
      <3> QED
        BY <3>1, <3>2
    <2> QED
      BY <2>1
  <1>3. PICK f \in [D -> D] : Solves(f, D, base, at, pred, step)
    <2> HIDE DEF rank, pred, base, at, step, D
    <2>1. Descends(D, D, rank, base, at, pred, step)
      BY <1>1, <1>2 DEF Descends
    <2> QED
      BY <2>1, Recursion
  <1>4. ASSUME NEW d \in D PROVE f[d] = IF Pass(d) = d THEN d ELSE f[Pass(d)]
    <2>1. f[d] = IF d \in base THEN at[d] ELSE step[<<d, f[pred[d]]>>]
      BY <1>3 DEF Solves
    <2>2. pred[d] = Pass(d) /\ at[d] = d /\ (d \in base <=> Pass(d) = d)
      OBVIOUS
    <2>3. Pass(d) \in D /\ f[Pass(d)] \in D
      BY PassDescends
    <2>4. \A e \in D : step[<<d, e>>] = e
      OBVIOUS
    <2> HIDE DEF base, at, pred, step
    <2> QED
      BY <2>1, <2>2, <2>3, <2>4
  <1>5. f = [d \in Decoders |-> IF Pass(d) = d THEN d ELSE f[Pass(d)]]
    BY <1>4
  <1>6. Loop = [d \in Decoders |-> IF Pass(d) = d THEN d ELSE Loop[Pass(d)]]
    BY <1>5, Zenon DEF Loop
  <1> HIDE DEF base, rank, pred, at, step, D
  <1> QED
    BY <1>6, Zenon

\* A loop keeps what each of its passes keeps, and stops where a pass does nothing.
LEMMA LoopKeeps ==
    ASSUME NEW G \in SUBSET Decoders, \A d \in G : Pass(d) \in G
    PROVE  \A d \in G : Loop[d] \in G /\ Pass(Loop[d]) = Loop[d]
  <1> DEFINE rank == [d \in G |-> Left(d)]
             S == {d \in G : Loop[d] \in G /\ Pass(Loop[d]) = Loop[d]}
  <1>1. ASSUME NEW d \in G, \A e \in G : rank[e] < rank[d] => e \in S PROVE d \in S
    <2>1. CASE Pass(d) = d
      <3>1. Loop[d] = d
        BY <2>1, LoopIs
      <3> QED
        BY <3>1, <2>1
    <2>2. CASE Pass(d) # d
      <3>1. Pass(d) \in G /\ rank[Pass(d)] = Left(Pass(d)) /\ rank[d] = Left(d)
        OBVIOUS
      <3>2. rank[Pass(d)] < rank[d]
        BY <3>1, <2>2, PassDescends
      <3>3. Loop[d] = Loop[Pass(d)]
        BY <2>2, LoopIs
      <3> HIDE DEF rank
      <3> QED
        BY <3>1, <3>2, <3>3, <1>1
    <2> QED
      BY <2>1, <2>2
  <1>2. rank \in [G -> Nat]
    BY PassDescends
  <1>3. \A d \in G : d \in S
    <2> HIDE DEF S, rank
    <2> QED
      BY <1>1, <1>2, RankInduct
  <1> QED
    BY <1>3

-----------------------------------------------------------------------------
(* The decoder and its wire *)

\* Data add what they are.
LEMMA DataMore ==
    ASSUME NEW w \in Seq(MarkedByte), NEW p \in Nat, NEW s \in Seq(Nat), p + Len(s) <= Len(w),
           \A i \in 1..Len(s) : Is(w[p + i], s[i], "data")
    PROVE  Data(w, p + Len(s)) = Data(w, p) \o s
  <1> DEFINE d == Data(w, p)
             k == Len(s)
             S == {j \in Nat : j <= k => Data(w, p + j) = d \o SubSeq(s, 1, j)}
  <1>0. k \in Nat /\ Len(w) \in Nat /\ d \in Seq(Nat)
    <2>1. k \in Nat /\ Len(w) \in Nat /\ p \in 0..Len(w)
      OBVIOUS
    <2> QED
      BY <2>1, DataType
  <1>1. 0 \in S
    <2>1. SubSeq(s, 1, 0) = <<>> /\ p + 0 = p
      OBVIOUS
    <2> HIDE DEF d
    <2>2. d \o <<>> = d
      BY <1>0, ConcatEmptySeq
    <2> QED
      BY <2>1, <2>2 DEF d
  <1>2. ASSUME NEW j \in Nat, j \in S PROVE j + 1 \in S
    <2>1. ASSUME j + 1 <= k PROVE Data(w, p + (j + 1)) = d \o SubSeq(s, 1, j + 1)
      <3> DEFINE a == SubSeq(s, 1, j)
                 b == s[j + 1]
      <3>1. p + j \in Nat /\ p + j < Len(w) /\ p + (j + 1) = (p + j) + 1 /\ j <= k /\ j + 1 \in 1..k
        BY <2>1, <1>0
      <3>2. Data(w, p + j) = d \o a
        BY <3>1, <1>2
      <3>3. Is(w[(p + j) + 1], b, "data")
        BY <3>1
      <3>4. a \in Seq(Nat) /\ b \in Nat
        BY <3>1, StartOf
      <3>5. SubSeq(s, 1, j + 1) = Append(a, b)
        <4>1. 1 \in 1..Len(s) /\ j + 1 \in 1..Len(s) /\ (j + 1) - 1 = j
          BY <3>1
        <4>2. SubSeq(s, 1, j + 1) = SubSeq(s, 1, (j + 1) - 1) \o <<s[j + 1]>>
          BY <4>1, SubSeqRecursiveSecond
        <4>3. Append(a, b) = a \o <<b>>
          BY <3>4, AppendIsConcat
        <4> QED
          BY <4>1, <4>2, <4>3
      <3>6. Data(w, (p + j) + 1) = Append(Data(w, p + j), b)
        BY <3>1, <3>3, DataStep DEF Is
      <3>7. d \in Seq(Nat)
        BY <1>0
      <3> HIDE DEF a, b, d
      <3>8. Append(d \o a, b) = d \o Append(a, b)
        BY <3>4, <3>7, AppendAfter
      <3> QED
        BY <3>1, <3>2, <3>5, <3>6, <3>8
    <2> QED
      BY <2>1
  <1>3. \A j \in Nat : j \in S
    <2> HIDE DEF S
    <2> QED
      BY <1>1, <1>2, Induct
  <1>4. Data(w, p + k) = d \o SubSeq(s, 1, k)
    BY <1>0, <1>3
  <1>5. SubSeq(s, 1, k) = s
    BY SubSeqFull
  <1> QED
    BY <1>4, <1>5

\* What is in a buffer of bytes that follow the first p.
Holds(b, w, p, n) ==
    /\ b \in Seq(Nat) /\ p \in Nat /\ n \in Nat /\ p <= n /\ n <= Len(w) /\ Len(b) = n - p
    /\ \A i \in 1..(n - p) : b[i] = w[p + i].byte

\* A buffer whose first bytes were drained.
LEMMA Dropped ==
    ASSUME NEW b, NEW w, NEW p, NEW n, Holds(b, w, p, n), NEW k \in Nat, k <= n - p
    PROVE  Holds(SubSeq(b, k + 1, Len(b)), w, p + k, n)
  <1> DEFINE rest == SubSeq(b, k + 1, Len(b))
  <1>1. /\ b \in Seq(Nat) /\ p \in Nat /\ n \in Nat /\ p <= n /\ n <= Len(w) /\ Len(b) = n - p
        /\ \A i \in 1..(n - p) : b[i] = w[p + i].byte
    BY DEF Holds
  <1>2. rest \in Seq(Nat) /\ Len(rest) = Len(b) - k /\ \A i \in 1..(Len(b) - k) : rest[i] = b[k + i]
    BY <1>1, RestOf
  <1> HIDE DEF rest
  <1>3. ASSUME NEW i \in 1..(n - (p + k)) PROVE rest[i] = w[p + k + i].byte
    <2>1. i \in 1..(Len(b) - k) /\ k + i \in 1..(n - p) /\ p + (k + i) = p + k + i
      BY <1>1
    <2> QED
      BY <2>1, <1>1, <1>2
  <1>4. p + k \in Nat /\ p + k <= n /\ Len(rest) = n - (p + k)
    BY <1>1, <1>2
  <1>5. Holds(rest, w, p + k, n)
    BY <1>1, <1>2, <1>3, <1>4 DEF Holds
  <1> QED
    BY <1>5 DEF rest

\* The first line of a buffer that begins where a chunk does.
LEMMA FirstLine ==
    ASSUME NEW b, NEW w, NEW p, NEW n, Holds(b, w, p, n), NEW line \in Seq(Nat), LineAt(w, p, line)
    PROVE  IF HasLine(b)
             THEN /\ n - p >= Len(line) + 2 /\ LineEnd(b) = Len(line) + 1
                  /\ SubSeq(b, 1, Len(line)) = line
             ELSE n - p <= Len(line) + 1
  <1> DEFINE m == Len(line)
             k == n - p
  <1>1. /\ b \in Seq(Nat) /\ p \in Nat /\ n \in Nat /\ p <= n /\ n <= Len(w) /\ Len(b) = n - p
        /\ \A i \in 1..(n - p) : b[i] = w[p + i].byte
    BY DEF Holds
  <1>2. /\ \A i \in 1..Len(line) : line[i] # CR
        /\ \A i \in 1..Len(line) : Is(w[p + i], line[i], "size")
        /\ Is(w[p + Len(line) + 1], CR, "size") /\ w[p + Len(line) + 2].byte = LF
    BY DEF LineAt, HasNoCR
  <1>3. m \in Nat /\ k \in Nat /\ Len(b) = k
    BY <1>1
  <1>4. /\ \A i \in 1..k : b[i] = w[p + i].byte
        /\ \A i \in 1..m : Is(w[p + i], line[i], "size") /\ line[i] # CR
        /\ Is(w[p + m + 1], CR, "size") /\ w[p + m + 2].byte = LF
    BY <1>1, <1>2
  <1> HIDE DEF m, k
  <1>5. p + (m + 1) = p + m + 1 /\ p + (m + 2) = p + m + 2
    BY <1>1, <1>3
  <1>6. \A i \in 1..k : i <= m => b[i] = line[i] /\ b[i] # CR
    BY <1>3, <1>4 DEF Is
  <1>7. ASSUME m + 2 <= k PROVE IsNewline(b, m + 1) /\ m + 1 \in 1..(Len(b) - 1)
    <2>1. m + 1 \in 1..k /\ m + 2 \in 1..k /\ (m + 1) + 1 = m + 2 /\ m + 1 \in 1..(Len(b) - 1)
      BY <1>3, <1>7
    <2>2. b[m + 1] = CR /\ b[(m + 1) + 1] = LF
      BY <2>1, <1>4, <1>5 DEF Is
    <2> QED
      BY <2>1, <2>2 DEF IsNewline
  <1>8. CASE HasLine(b)
    <2> DEFINE e == LineEnd(b)
    <2>1. e \in 1..(Len(b) - 1) /\ IsNewline(b, e) /\ \A j \in 1..(e - 1) : ~IsNewline(b, j)
      BY <1>1, <1>8, LineEndIs
    <2> HIDE DEF e
    <2>2. e >= m + 1
      <3>1. e \in 1..k /\ b[e] = CR
        BY <2>1, <1>3 DEF IsNewline
      <3>2. ~(e <= m)
        BY <3>1, <1>6
      <3> QED
        BY <3>1, <3>2, <1>3
    <2>3. m + 2 <= k
      BY <2>1, <2>2, <1>3
    <2>4. ~(m + 1 < e)
      <3>1. ASSUME m + 1 < e PROVE FALSE
        <4>1. m + 1 \in 1..(e - 1)
          BY <3>1, <2>1, <1>3
        <4> QED
          BY <4>1, <2>1, <2>3, <1>7
      <3> QED
        BY <3>1
    <2>5. e = m + 1
      BY <2>1, <2>2, <2>4, <1>3
    <2>6. SubSeq(b, 1, m) = line
      <3> DEFINE s == SubSeq(b, 1, m)
      <3>1. s \in Seq(Nat) /\ Len(s) = m /\ \A i \in 1..m : s[i] = b[i]
        BY <2>3, <1>1, <1>3, StartOf
      <3> HIDE DEF s
      <3>2. \A i \in 1..m : i \in 1..k /\ i <= m
        BY <2>3, <1>3
      <3>3. \A i \in 1..m : s[i] = line[i]
        BY <3>1, <3>2, <1>6
      <3>4. Len(s) = Len(line) /\ \A i \in 1..Len(s) : s[i] = line[i]
        BY <3>1, <3>3 DEF m
      <3>5. s = line
        BY <3>1, <3>4, SeqEqual
      <3> QED
        BY <3>5 DEF s
    <2> QED
      BY <2>3, <2>5, <2>6, <1>3, <1>8 DEF e, m, k
  <1>9. CASE ~HasLine(b)
    <2>1. ~(m + 2 <= k)
      BY <1>7, <1>9 DEF HasLine
    <2> QED
      BY <2>1, <1>3, <1>9 DEF m, k
  <1> QED
    BY <1>8, <1>9

\* A decoder between two bytes: it took p of the n bytes it was given, o is all it
\* handed on, and it is in the mode that the place calls for.
Reading(w, n, p, d, o) ==
    /\ d.ok = TRUE /\ Holds(d.buf, w, p, n) /\ o = Data(w, p)
    /\ \A i \in 1..p : w[i].mark \notin {"bad", "last"}
    /\ \/ d.mode = "size" /\ p \in Starts(w)
       \/ /\ d.mode = "body" /\ d.remaining >= 1 /\ p + d.remaining \in Stops(w)
          /\ p >= 1 /\ w[p].mark \in {"size", "data"}
          /\ \A i \in (p + 1)..(p + d.remaining) : w[i].mark = "data"
       \/ d.mode = "crlf" /\ p \in Stops(w)

Finished(w, n, d, o) ==
    /\ d.ok = TRUE /\ d.mode = "done" /\ o = Data(w, n)
    /\ (\E i \in 1..n : w[i].mark = "last") /\ \A i \in 1..n : w[i].mark # "bad"

Failed(w, n, d) == d.ok = FALSE /\ d.mode = "done" /\ \E i \in 1..n : w[i].mark = "bad"

Fits(w, n, d, o) == (\E p \in Nat : Reading(w, n, p, d, o)) \/ Finished(w, n, d, o) \/ Failed(w, n, d)

\* A pass over a size line.
LEMMA SizeFits ==
    ASSUME NEW w, Framed(w), NEW n \in Nat, NEW d \in Decoders, NEW o, NEW p \in Nat,
           Reading(w, n, p, d, o), d.mode = "size", HasLine(d.buf)
    PROVE  TakesSize(d).out = d.out /\ Fits(w, n, TakesSize(d), o)
  <1> DEFINE t == TakesSize(d)
             end == LineEnd(d.buf)
             hex == Hex(SubSeq(d.buf, 1, end - 1))
             rest == SubSeq(d.buf, end + 2, Len(d.buf))
  <1>1. /\ d.ok = TRUE /\ Holds(d.buf, w, p, n) /\ o = Data(w, p) /\ p \in Starts(w)
        /\ \A i \in 1..p : w[i].mark \notin {"bad", "last"}
    BY DEF Reading
  <1>2. PICK line \in Seq(Nat) : LineAt(w, p, line)
    BY <1>1 DEF Framed
  <1> DEFINE m == Len(line)
             q == p + m + 2
  <1>3. n - p >= m + 2 /\ end = m + 1 /\ SubSeq(d.buf, 1, m) = line
    BY <1>1, <1>2, FirstLine
  <1>4. m \in Nat /\ n <= Len(w) /\ p <= n /\ w \in Seq(MarkedByte) /\ Len(w) \in Nat /\ Len(d.buf) = n - p
    BY <1>1 DEF Holds, Framed
  <1>5. /\ SizeAt(w, q, Hex(line)) /\ w[q].byte = LF
        /\ \A i \in 1..m : w[p + i].mark = "size"
        /\ w[p + m + 1].mark = "size"
    BY <1>2 DEF LineAt, Is
  <1> HIDE DEF m, end
  <1>6. end - 1 = m /\ end + 2 = (m + 2) + 1 /\ q \in 1..n /\ q \in Nat /\ m + 2 \in Nat /\ m + 2 <= n - p
        /\ q = p + (m + 2)
    BY <1>3, <1>4
  <1>7. hex = Hex(line)
    BY <1>3, <1>6
  <1>8. Holds(rest, w, q, n)
    <2>1. Holds(SubSeq(d.buf, (m + 2) + 1, Len(d.buf)), w, p + (m + 2), n)
      BY <1>1, <1>6, Dropped
    <2> QED
      BY <2>1, <1>6
  <1> HIDE DEF hex, rest, q
  <1>9. \A i \in (p + 1)..(q - 1) : w[i].mark = "size"
    <2>1. ASSUME NEW i \in (p + 1)..(q - 1) PROVE w[i].mark = "size"
      <3>1. i - p \in 1..m \/ i = p + m + 1
        BY <1>4, <1>6
      <3>2. i = p + (i - p)
        BY <1>4
      <3> QED
        BY <3>1, <3>2, <1>5
    <2> QED
      BY <2>1
  <1>10. \A i \in 1..(q - 1) : w[i].mark \notin {"bad", "last"}
    <2>1. \A i \in 1..(q - 1) : i \in 1..p \/ i \in (p + 1)..(q - 1)
      BY <1>4, <1>6
    <2> QED
      BY <2>1, <1>1, <1>9
  <1>11. CASE w[q].mark = "bad" /\ ~IsSize(hex)
    <2>1. t = [d EXCEPT !.mode = "done", !.ok = FALSE]
      BY <1>11 DEF TakesSize, hex, end
    <2> HIDE DEF t
    <2>2. t.ok = FALSE /\ t.mode = "done" /\ t.out = d.out
      BY <2>1 DEF Decoders
    <2>3. Failed(w, n, t)
      BY <2>2, <1>6, <1>11 DEF Failed
    <2> QED
      BY <2>2, <2>3 DEF Fits, t
  <1>12. CASE /\ w[q].mark = "last" /\ IsSize(hex) /\ HexValue[hex] = 0
              /\ \A j \in (q + 1)..Len(w) : w[j].mark = "trailer"
    <2>1. t = [d EXCEPT !.mode = "done", !.buf = <<>>]
      BY <1>12 DEF TakesSize, hex, end
    <2> HIDE DEF t
    <2>2. t.ok = TRUE /\ t.mode = "done" /\ t.out = d.out
      BY <2>1, <1>1 DEF Decoders
    <2>3. \A i \in (p + 1)..n : w[i].mark \in {"size", "last", "trailer"}
      <3>1. \A i \in (p + 1)..n : i \in (p + 1)..(q - 1) \/ i = q \/ i \in (q + 1)..Len(w)
        BY <1>4, <1>6
      <3> QED
        BY <3>1, <1>9, <1>12
    <2>4. Data(w, n) = Data(w, p)
      <3>1. \A i \in (p + 1)..n : w[i].mark # "data"
        BY <2>3
      <3> QED
        BY <3>1, <1>4, DataSame
    <2>5. \A i \in 1..n : w[i].mark # "bad"
      <3>1. \A i \in 1..n : i \in 1..p \/ i \in (p + 1)..n
        BY <1>4
      <3> QED
        BY <3>1, <2>3, <1>1
    <2>6. Finished(w, n, t, o)
      BY <2>2, <2>4, <2>5, <1>1, <1>6, <1>12 DEF Finished
    <2> QED
      BY <2>2, <2>6 DEF Fits, t
  <1>13. CASE /\ w[q].mark = "size" /\ IsSize(hex) /\ HexValue[hex] > 0
              /\ q + HexValue[hex] \in Stops(w)
              /\ \A j \in (q + 1)..(q + HexValue[hex]) : w[j].mark = "data"
    <2> DEFINE h == HexValue[hex]
    <2>0. h \in Nat /\ h >= 1
      BY <1>13, HexValueType DEF IsSize
    <2>1. t = [d EXCEPT !.mode = "body", !.remaining = h, !.buf = rest]
      BY <2>0, <1>13 DEF TakesSize, hex, end, rest
    <2> HIDE DEF t, h
    <2>2. t.ok = TRUE /\ t.mode = "body" /\ t.out = d.out /\ t.remaining = h /\ t.buf = rest
      BY <2>1, <1>1 DEF Decoders
    <2>3. \A i \in 1..q : w[i].mark \notin {"bad", "last"}
      <3>1. \A i \in 1..q : i \in 1..(q - 1) \/ i = q
        BY <1>6
      <3> QED
        BY <3>1, <1>10, <1>13
    <2>4. Data(w, q) = Data(w, p)
      <3>1. \A i \in (p + 1)..q : i \in (p + 1)..(q - 1) \/ i = q
        BY <1>4, <1>6
      <3>2. \A i \in (p + 1)..q : w[i].mark # "data"
        BY <3>1, <1>9, <1>13
      <3>3. p <= q /\ q <= Len(w)
        BY <1>4, <1>6
      <3> QED
        BY <3>2, <3>3, <1>4, <1>6, DataSame
    <2>5. q + h \in Stops(w) /\ \A j \in (q + 1)..(q + h) : w[j].mark = "data"
      BY <1>13 DEF h
    <2>6. Reading(w, n, q, t, o)
      <3>1. q >= 1
        BY <1>6
      <3> QED
        BY <3>1, <2>0, <2>2, <2>3, <2>4, <2>5, <1>1, <1>8, <1>13 DEF Reading
    <2> QED
      BY <2>2, <2>6, <1>6 DEF Fits, t
  <1> QED
    BY <1>5, <1>7, <1>11, <1>12, <1>13 DEF SizeAt

\* A pass over data.
LEMMA BodyFits ==
    ASSUME NEW w, Framed(w), NEW n \in Nat, NEW d \in Decoders, NEW o0 \in Seq(Nat), NEW p \in Nat,
           Reading(w, n, p, d, o0 \o d.out), d.mode = "body", d.buf # <<>>
    PROVE  Fits(w, n, TakesBody(d), o0 \o TakesBody(d).out)
  <1> DEFINE t == TakesBody(d)
             take == IF d.remaining < Len(d.buf) THEN d.remaining ELSE Len(d.buf)
             s == SubSeq(d.buf, 1, take)
             r == d.remaining
             l == Len(d.buf)
             q == p + take
  <1>1. /\ t \in Decoders /\ take \in Nat /\ t.ok = d.ok
        /\ t.mode = IF take = d.remaining THEN "crlf" ELSE "body"
        /\ t.remaining = d.remaining - take
        /\ t.out = d.out \o s
        /\ t.buf = SubSeq(d.buf, take + 1, Len(d.buf))
    BY BodyTaken
  <1>2. /\ d.ok = TRUE /\ Holds(d.buf, w, p, n) /\ o0 \o d.out = Data(w, p)
        /\ \A i \in 1..p : w[i].mark \notin {"bad", "last"}
        /\ d.remaining >= 1 /\ p + d.remaining \in Stops(w)
        /\ \A i \in (p + 1)..(p + d.remaining) : w[i].mark = "data"
    BY DEF Reading
  <1>3. /\ d.buf \in Seq(Nat) /\ p <= n /\ n <= Len(w) /\ l = n - p /\ r \in Nat /\ d.out \in Seq(Nat)
        /\ w \in Seq(MarkedByte) /\ Len(w) \in Nat
        /\ \A i \in 1..(n - p) : d.buf[i] = w[p + i].byte
    BY <1>2, DecoderFields DEF Holds, Framed
  <1>4. l >= 1 /\ l \in Nat
    BY <1>3, EmptySeq
  <1>5. take <= r /\ take <= l /\ take >= 1 /\ take \in Nat /\ r - take \in Nat
    BY <1>2, <1>3, <1>4
  <1>6. s \in Seq(Nat) /\ Len(s) = take /\ \A i \in 1..take : s[i] = d.buf[i]
    BY <1>3, <1>5, StartOf
  <1> HIDE DEF t, take, s, l
  <1>7. \A i \in 1..take : Is(w[p + i], s[i], "data")
    <2>1. ASSUME NEW i \in 1..take PROVE Is(w[p + i], s[i], "data")
      <3>0. take <= n - p /\ n - p \in Int /\ r \in Nat
        BY <1>3, <1>5
      <3> HIDE DEF r
      <3>1. i \in 1..(n - p) /\ p + i \in (p + 1)..(p + r)
        BY <3>0, <1>5
      <3> QED
        BY <3>1, <1>2, <1>3, <1>6 DEF Is, r
    <2> QED
      BY <2>1
  <1>8. q \in Nat /\ q <= n /\ q <= Len(w) /\ q >= 1 /\ q + (r - take) = p + r /\ take <= n - p
    BY <1>3, <1>5
  <1>9. Data(w, q) = o0 \o t.out
    <2>1. p + Len(s) <= Len(w) /\ \A i \in 1..Len(s) : Is(w[p + i], s[i], "data")
      BY <1>6, <1>7, <1>8
    <2>2. Data(w, p + Len(s)) = Data(w, p) \o s
      BY <2>1, <1>3, <1>6, DataMore
    <2>3. (o0 \o d.out) \o s = o0 \o (d.out \o s)
      <3>1. o0 \in Seq(Nat) /\ d.out \in Seq(Nat) /\ s \in Seq(Nat)
        BY <1>3, <1>6
      <3> QED
        BY <3>1, Associative, Zenon
    <2>4. p + Len(s) = q
      BY <1>6
    <2> QED
      BY <2>2, <2>3, <2>4, <1>1, <1>2
  <1>10. \A i \in (p + 1)..q : w[i].mark = "data"
    <2>1. \A i \in (p + 1)..q : i \in (p + 1)..(p + r)
      BY <1>3, <1>5
    <2> QED
      BY <2>1, <1>2
  <1>11. \A i \in 1..q : w[i].mark \notin {"bad", "last"}
    <2>1. \A i \in 1..q : i \in 1..p \/ i \in (p + 1)..q
      BY <1>8
    <2> QED
      BY <2>1, <1>2, <1>10
  <1>12. Holds(t.buf, w, q, n)
    BY <1>1, <1>2, <1>5, <1>8, Dropped
  <1>13. Reading(w, n, q, t, o0 \o t.out)
    <2>1. CASE take = r
      <3>1. t.mode = "crlf" /\ q \in Stops(w) /\ t.ok = TRUE
        BY <2>1, <1>1, <1>2
      <3> QED
        BY <3>1, <1>9, <1>11, <1>12 DEF Reading
    <2>2. CASE take # r
      <3>1. t.mode = "body" /\ t.remaining = r - take /\ t.ok = TRUE
        BY <2>2, <1>1, <1>2
      <3>2. t.remaining >= 1 /\ q + t.remaining = p + r
        BY <3>1, <2>2, <1>3, <1>5, <1>8
      <3>3. w[q].mark = "data"
        <4>1. q \in (p + 1)..q
          BY <1>5, <1>8
        <4> QED
          BY <4>1, <1>10
      <3>4. \A i \in (q + 1)..(q + t.remaining) : w[i].mark = "data"
        <4>1. \A i \in (q + 1)..(q + t.remaining) : i \in (p + 1)..(p + r)
          BY <3>2, <1>3, <1>5
        <4> QED
          BY <4>1, <1>2
      <3>5. q + t.remaining \in Stops(w)
        BY <3>2, <1>2
      <3> HIDE DEF q
      <3> QED
        BY <3>1, <3>2, <3>3, <3>4, <3>5, <1>8, <1>9, <1>11, <1>12 DEF Reading
    <2> QED
      BY <2>1, <2>2
  <1> QED
    BY <1>8, <1>13 DEF Fits, t

\* A pass over what follows the data.
LEMMA CrLfFits ==
    ASSUME NEW w, Framed(w), NEW n \in Nat, NEW d \in Decoders, NEW o, NEW p \in Nat,
           Reading(w, n, p, d, o), d.mode = "crlf", Len(d.buf) >= 2
    PROVE  TakesCrLf(d).out = d.out /\ Fits(w, n, TakesCrLf(d), o)
  <1> DEFINE t == TakesCrLf(d)
             q == p + 2
  <1>1. /\ d.ok = TRUE /\ Holds(d.buf, w, p, n) /\ o = Data(w, p) /\ p \in Stops(w)
        /\ \A i \in 1..p : w[i].mark \notin {"bad", "last"}
    BY DEF Reading
  <1>2. StopAt(w, p)
    BY <1>1 DEF Framed
  <1>3. /\ p <= n /\ n <= Len(w) /\ Len(d.buf) = n - p /\ w \in Seq(MarkedByte) /\ Len(w) \in Nat
        /\ \A i \in 1..(n - p) : d.buf[i] = w[p + i].byte
    BY <1>1 DEF Holds, Framed
  <1>4. q \in Nat /\ q <= n /\ q <= Len(w) /\ 1 \in 1..(n - p) /\ 2 \in 1..(n - p) /\ q \in 1..n /\ p <= q
    BY <1>3
  <1>5. d.buf[1] = w[p + 1].byte /\ d.buf[2] = w[p + 2].byte /\ 1 + 1 = 2
    BY <1>3, <1>4
  <1>6. /\ t.out = d.out
        /\ IF IsNewline(d.buf, 1)
             THEN t.mode = "size" /\ t.ok = d.ok /\ t.buf = SubSeq(d.buf, 3, Len(d.buf))
             ELSE t.mode = "done" /\ t.ok = FALSE
    BY CrLfTaken
  <1> HIDE DEF t
  <1>7. CASE w[p + 1].byte = CR /\ Is(w[p + 2], LF, "after")
    <2>1. IsNewline(d.buf, 1)
      BY <1>5, <1>7 DEF IsNewline, Is
    <2>2. t.mode = "size" /\ t.ok = TRUE /\ t.buf = SubSeq(d.buf, 2 + 1, Len(d.buf))
      <3>1. 2 + 1 = 3
        OBVIOUS
      <3> QED
        BY <3>1, <2>1, <1>1, <1>6
    <2>3. Holds(t.buf, w, q, n)
      <3>1. 2 \in Nat /\ 2 <= n - p
        BY <1>4
      <3> QED
        BY <3>1, <2>2, <1>1, Dropped
    <2>4. w[p + 1].mark = "after" /\ w[q].mark = "after"
      BY <1>2, <1>7 DEF StopAt, Is
    <2>5. \A i \in (p + 1)..q : w[i].mark = "after"
      <3>1. \A i \in (p + 1)..q : i = p + 1 \/ i = q
        BY <1>4
      <3> QED
        BY <3>1, <2>4
    <2>6. Data(w, q) = Data(w, p)
      <3>1. \A i \in (p + 1)..q : w[i].mark # "data"
        BY <2>5
      <3> HIDE DEF q
      <3> QED
        BY <3>1, <1>3, <1>4, DataSame
    <2>7. \A i \in 1..q : w[i].mark \notin {"bad", "last"}
      <3>1. \A i \in 1..q : i \in 1..p \/ i \in (p + 1)..q
        BY <1>4
      <3> QED
        BY <3>1, <2>5, <1>1
    <2>8. q \in Starts(w)
      BY <1>4, <1>7 DEF Starts
    <2>9. Reading(w, n, q, t, o)
      <3> HIDE DEF q
      <3> QED
        BY <2>2, <2>3, <2>6, <2>7, <2>8, <1>1 DEF Reading
    <2> QED
      BY <2>9, <1>4, <1>6 DEF Fits, t
  <1>8. CASE w[p + 1].byte # CR /\ w[p + 2].mark = "bad"
    <2>1. ~IsNewline(d.buf, 1)
      BY <1>5, <1>8 DEF IsNewline
    <2>2. Failed(w, n, t)
      BY <2>1, <1>4, <1>6, <1>8 DEF Failed
    <2> QED
      BY <2>2, <1>6 DEF Fits, t
  <1> QED
    BY <1>2, <1>7, <1>8 DEF StopAt

\* A pass keeps a decoder in step with its wire.
LEMMA PassFits ==
    ASSUME NEW w, Framed(w), NEW n \in Nat, NEW o0 \in Seq(Nat), NEW d \in Decoders,
           Fits(w, n, d, o0 \o d.out)
    PROVE  Fits(w, n, Pass(d), o0 \o Pass(d).out)
  <1>1. CASE Finished(w, n, d, o0 \o d.out) \/ Failed(w, n, d)
    <2>1. Pass(d) = d
      BY <1>1 DEF Finished, Failed, Pass
    <2> QED
      BY <2>1
  <1>2. CASE \E p \in Nat : Reading(w, n, p, d, o0 \o d.out)
    <2>1. PICK p \in Nat : Reading(w, n, p, d, o0 \o d.out)
      BY <1>2
    <2>2. CASE d.mode = "size" /\ HasLine(d.buf)
      <3>1. Pass(d) = TakesSize(d)
        BY <2>2 DEF Pass
      <3> QED
        BY <2>1, <2>2, <3>1, SizeFits
    <2>3. CASE d.mode = "body" /\ d.buf # <<>>
      <3>1. Pass(d) = TakesBody(d)
        BY <2>3 DEF Pass
      <3> QED
        BY <2>1, <2>3, <3>1, BodyFits
    <2>4. CASE d.mode = "crlf" /\ Len(d.buf) >= 2
      <3>1. Pass(d) = TakesCrLf(d)
        BY <2>4 DEF Pass
      <3> QED
        BY <2>1, <2>4, <3>1, CrLfFits
    <2>5. CASE /\ ~(d.mode = "size" /\ HasLine(d.buf)) /\ ~(d.mode = "body" /\ d.buf # <<>>)
               /\ ~(d.mode = "crlf" /\ Len(d.buf) >= 2)
      <3>1. Pass(d) = d
        BY <2>5 DEF Pass
      <3> QED
        BY <3>1
    <2> QED
      BY <2>2, <2>3, <2>4, <2>5
  <1> QED
    BY <1>1, <1>2 DEF Fits

\* The loop keeps a decoder in step with its wire.
LEMMA LoopFits ==
    ASSUME NEW w, Framed(w), NEW n \in Nat, NEW o0 \in Seq(Nat), NEW d \in Decoders,
           Fits(w, n, d, o0 \o d.out)
    PROVE  /\ Loop[d] \in Decoders /\ Pass(Loop[d]) = Loop[d]
           /\ Fits(w, n, Loop[d], o0 \o Loop[d].out)
  <1> DEFINE G == {e \in Decoders : Fits(w, n, e, o0 \o e.out)}
  <1>1. ASSUME NEW e \in G PROVE Pass(e) \in G
    <2>1. Pass(e) \in Decoders /\ Fits(w, n, Pass(e), o0 \o Pass(e).out)
      BY PassDescends, PassFits
    <2> QED
      BY <2>1
  <1>2. d \in G /\ G \in SUBSET Decoders
    OBVIOUS
  <1>3. Loop[d] \in G /\ Pass(Loop[d]) = Loop[d]
    <2> HIDE DEF G
    <2> QED
      BY <1>1, <1>2, LoopKeeps
  <1> QED
    BY <1>3

\* A decoder that waits for more.
Rests(m, b) ==
    /\ m = "size" => ~HasLine(b)
    /\ m = "body" => b = <<>>
    /\ m = "crlf" => ~(Len(b) >= 2)

\* Where a pass changes nothing, the decoder waits for more.
LEMMA LoopRests ==
    ASSUME NEW w, NEW n, NEW p, NEW o, NEW d \in Decoders, Reading(w, n, p, d, o), Pass(d) = d
    PROVE  Rests(d.mode, d.buf)
  <1>1. CASE d.mode = "size" /\ HasLine(d.buf)
    <2>1. Pass(d) = TakesSize(d)
      BY <1>1 DEF Pass
    <2>2. TakesSize(d).mode \in {"done", "body"}
      BY <1>1, SizeTaken
    <2> QED
      BY <1>1, <2>1, <2>2
  <1>2. CASE d.mode = "body" /\ d.buf # <<>>
    <2> DEFINE t == TakesBody(d)
               take == IF d.remaining < Len(d.buf) THEN d.remaining ELSE Len(d.buf)
    <2>1. Pass(d) = t
      BY <1>2 DEF Pass
    <2>2. t.remaining = d.remaining - take
      BY <1>2, BodyTaken
    <2>3. d.remaining >= 1 /\ d.remaining \in Nat /\ Len(d.buf) \in Nat
      BY <1>2, DecoderFields DEF Reading
    <2>4. Len(d.buf) >= 1
      BY <1>2, <2>3, DecoderFields, EmptySeq
    <2>5. take \in Nat /\ take >= 1
      BY <2>3, <2>4
    <2> HIDE DEF t, take
    <2>6. t = d
      BY <2>1
    <2> QED
      BY <2>2, <2>3, <2>5, <2>6
  <1>3. CASE d.mode = "crlf" /\ Len(d.buf) >= 2
    <2>1. Pass(d) = TakesCrLf(d)
      BY <1>3 DEF Pass
    <2>2. TakesCrLf(d).mode \in {"done", "size"}
      BY <1>3, CrLfTaken
    <2> QED
      BY <1>3, <2>1, <2>2
  <1> QED
    BY <1>1, <1>2, <1>3 DEF Rests

\* Such a decoder handed on all the data it was given, and can tell a whole body.
LEMMA AtRest ==
    ASSUME NEW w, Framed(w), NEW n, NEW p \in Nat, NEW o, NEW d \in Decoders,
           Reading(w, n, p, d, o), Rests(d.mode, d.buf)
    PROVE  /\ d.mode \in {"size", "body", "crlf"} /\ o = Data(w, n)
           /\ \A i \in 1..n : w[i].mark \notin {"bad", "last"}
           /\ (d.mode = "crlf" \/ (d.mode = "size" /\ d.buf = <<>>)) <=>
                 (n = 0 \/ w[n].mark = "after" \/ (w[n].mark = "data" /\ w[n + 1].mark # "data"))
  <1>1. /\ Holds(d.buf, w, p, n) /\ o = Data(w, p)
        /\ \A i \in 1..p : w[i].mark \notin {"bad", "last"}
    BY DEF Reading
  <1>2. /\ d.buf \in Seq(Nat) /\ n \in Nat /\ p <= n /\ n <= Len(w) /\ Len(d.buf) = n - p
        /\ w \in Seq(MarkedByte)
    BY <1>1 DEF Holds, Framed
  <1>3. d.buf = <<>> <=> n = p
    <2>1. d.buf = <<>> => Len(d.buf) = 0
      OBVIOUS
    <2>2. d.buf # <<>> => Len(d.buf) \in Nat \ {0}
      BY <1>2, EmptySeq
    <2> QED
      BY <2>1, <2>2, <1>2
  <1>4. ASSUME \A i \in (p + 1)..n : w[i].mark \in {"size", "after"}
        PROVE  o = Data(w, n) /\ \A i \in 1..n : w[i].mark \notin {"bad", "last"}
    <2>1. \A i \in (p + 1)..n : w[i].mark # "data"
      BY <1>4
    <2>2. Data(w, n) = Data(w, p)
      BY <2>1, <1>2, DataSame
    <2>3. \A i \in 1..n : i \in 1..p \/ i \in (p + 1)..n
      BY <1>2
    <2> QED
      BY <2>2, <2>3, <1>1, <1>4
  <1>5. CASE d.mode = "size" /\ p \in Starts(w)
    <2>1. PICK line \in Seq(Nat) : LineAt(w, p, line)
      BY <1>5 DEF Framed
    <2> DEFINE m == Len(line)
    <2>2. ~HasLine(d.buf)
      BY <1>5 DEF Rests
    <2>3. n - p <= m + 1 /\ m \in Nat
      BY <2>1, <2>2, <1>1, FirstLine
    <2>4. (\A i \in 1..m : w[p + i].mark = "size") /\ w[p + m + 1].mark = "size"
      BY <2>1 DEF LineAt, Is
    <2> HIDE DEF m
    <2>5. \A i \in (p + 1)..n : w[i].mark = "size"
      <3>1. ASSUME NEW i \in (p + 1)..n PROVE w[i].mark = "size"
        <4>1. (i - p \in 1..m \/ i = p + m + 1) /\ i = p + (i - p)
          BY <2>3, <1>2
        <4> QED
          BY <4>1, <2>4
      <3> QED
        BY <3>1
    <2>6. CASE n = p
      <3>1. n = 0 \/ w[n].mark = "after"
        BY <2>6, <1>5 DEF Starts, Is
      <3> QED
        BY <3>1, <2>5, <2>6, <1>3, <1>4, <1>5
    <2>7. CASE n # p
      <3>1. n \in (p + 1)..n /\ n # 0
        BY <2>7, <1>2
      <3>2. w[n].mark = "size"
        BY <3>1, <2>5
      <3> QED
        BY <3>1, <3>2, <2>5, <2>7, <1>3, <1>4, <1>5
    <2> QED
      BY <2>6, <2>7
  <1>6. CASE /\ d.mode = "body" /\ d.remaining >= 1 /\ p + d.remaining \in Stops(w)
             /\ p >= 1 /\ w[p].mark \in {"size", "data"}
             /\ \A i \in (p + 1)..(p + d.remaining) : w[i].mark = "data"
    <2>1. n = p
      BY <1>3, <1>6 DEF Rests
    <2>2. w[n + 1].mark = "data"
      <3>1. d.remaining \in Nat /\ d.remaining >= 1
        BY <1>6, DecoderFields
      <3>2. p + 1 \in (p + 1)..(p + d.remaining)
        BY <3>1
      <3> QED
        BY <3>2, <2>1, <1>6
    <2>3. \A i \in (p + 1)..n : FALSE
      BY <2>1
    <2>4. n # 0 /\ w[n].mark # "after"
      BY <2>1, <1>6
    <2> QED
      BY <2>2, <2>3, <2>4, <1>4, <1>6
  <1>7. CASE d.mode = "crlf" /\ p \in Stops(w)
    <2>1. n = p \/ n = p + 1
      BY <1>2, <1>7 DEF Rests
    <2>2. w[p].mark = "data" /\ w[p + 1].mark = "after"
      BY <1>7 DEF Stops
    <2>3. \A i \in (p + 1)..n : w[i].mark = "after"
      <3>1. \A i \in (p + 1)..n : i = p + 1
        BY <2>1
      <3> QED
        BY <3>1, <2>2
    <2>4. w[n].mark = "after" \/ (w[n].mark = "data" /\ w[n + 1].mark # "data")
      BY <2>1, <2>2
    <2> QED
      BY <2>3, <2>4, <1>4, <1>7
  <1> QED
    BY <1>5, <1>6, <1>7 DEF Reading

\* What the marks say of what was given.
LEMMA GivenIs ==
    ASSUME NEW w \in Seq(MarkedByte), NEW n \in 0..Len(w)
    PROVE  /\ SubSeq(w, 1, n) \in Seq(MarkedByte) /\ Data(w, n) \in Seq(Nat)
           /\ \A m : HasMark(SubSeq(w, 1, n), m) <=> \E i \in 1..n : w[i].mark = m
  <1> DEFINE g == SubSeq(w, 1, n)
  <1>1. g \in Seq(MarkedByte) /\ Len(g) = n /\ \A i \in 1..n : g[i] = w[i]
    BY StartOf
  <1>2. DOMAIN g = 1..n
    BY <1>1
  <1> HIDE DEF g
  <1>3. ASSUME NEW m PROVE HasMark(g, m) <=> \E i \in 1..n : w[i].mark = m
    BY <1>1, <1>2 DEF HasMark
  <1> QED
    BY <1>1, <1>3, DataType DEF g

\* A sequence is the start of one it was lengthened to.
LEMMA StartsWith ==
    ASSUME NEW S, NEW a \in Seq(S), NEW b \in Seq(S)
    PROVE  Len(a) <= Len(a \o b) /\ a = SubSeq(a \o b, 1, Len(a))
  <1>1. /\ a \o b \in Seq(S) /\ Len(a \o b) = Len(a) + Len(b) /\ Len(a) \in Nat /\ Len(b) \in Nat
        /\ \A i \in 1..Len(a) : (a \o b)[i] = a[i]
    BY ConcatProperties
  <1> DEFINE s == SubSeq(a \o b, 1, Len(a))
  <1>2. s \in Seq(S) /\ Len(s) = Len(a) /\ \A i \in 1..Len(a) : s[i] = (a \o b)[i]
    BY <1>1, StartOf
  <1> HIDE DEF s
  <1>3. s = a
    <2>1. \A i \in 1..Len(s) : s[i] = a[i]
      BY <1>1, <1>2
    <2> QED
      BY <2>1, <1>2, SeqEqual
  <1> QED
    BY <1>1, <1>3 DEF s

\* The decoder is in step with its wire; it has taken what it could, and what it
\* handed on is what the marks say.
InStep ==
    \E p \in Nat : Reading(wire, pushed, p, Decoder, out)

ChunkedInv ==
    /\ Framed(wire) /\ pushed \in 0..Len(wire) /\ out \in Seq(Nat)
    /\ verdict = "more" => Decoder \in Decoders /\ Rests(mode, buf) /\ InStep
    /\ DecodesExactly

\* The invariant holds before the first byte,
LEMMA ChunkedInvHoldsFirst == ChunkedInit => ChunkedInv
  <1> SUFFICES ASSUME ChunkedInit PROVE ChunkedInv
    OBVIOUS
  <1>1. PICK body \in Bodies : wire = WireOf[body]
    BY DEF ChunkedInit
  <1>2. pushed = 0 /\ mode = "size" /\ remaining = 0 /\ buf = <<>> /\ out = <<>> /\ verdict = "more"
    BY DEF ChunkedInit
  <1>3. body \in Seq(Chunk)
    BY DecoderAssumption DEF Bodies
  <1>4. Framed(wire)
    BY <1>1, <1>3, WiresAreFramed
  <1>5. wire \in Seq(MarkedByte) /\ Len(wire) \in Nat /\ 0 \in 0..Len(wire) /\ 0 \in Starts(wire)
    BY <1>4 DEF Framed, Starts
  <1>6. Data(wire, 0) = <<>> /\ ~HasMark(Given, "bad") /\ ~HasMark(Given, "last")
    BY <1>2, <1>5, DataType, GivenIs DEF Given
  <1>7. /\ Decoder \in Decoders /\ Decoder.ok = TRUE /\ Decoder.mode = "size" /\ Decoder.buf = <<>>
    BY <1>2 DEF Decoder, Decoders
  <1>8. Rests(mode, buf)
    BY <1>2 DEF Rests, HasLine
  <1>9. Holds(<<>>, wire, 0, 0)
    BY <1>5 DEF Holds
  <1>10. Reading(wire, 0, 0, Decoder, <<>>)
    BY <1>5, <1>6, <1>7, <1>9 DEF Reading
  <1>11. DecodesExactly
    <2>1. DataIn[Given] = <<>>
      BY <1>2, <1>6 DEF Data, Given
    <2>2. (verdict = "error") = HasMark(Given, "bad") /\ (verdict = "done") = HasMark(Given, "last")
      BY <1>2, <1>6 DEF HasMark
    <2> QED
      BY <1>2, <2>1, <2>2 DEF DecodesExactly
  <1>12. InStep
    BY <1>2, <1>10 DEF InStep
  <1> QED
    BY <1>2, <1>4, <1>5, <1>7, <1>8, <1>11, <1>12 DEF ChunkedInv

\* is kept by push, wherever the piece ends (chunked.rs:70-150),
LEMMA PushKeeps ==
    ASSUME ChunkedInv, NEW n \in Nat, Push(n)
    PROVE  ChunkedInv'
  <1> DEFINE piece == SubSeq(Bytes(wire), pushed + 1, pushed + n)
             d0 == [Decoder EXCEPT !.buf = @ \o piece]
             d == Loop[d0]
             k == pushed + n
  <1>1. /\ Framed(wire) /\ pushed \in 0..Len(wire) /\ out \in Seq(Nat)
        /\ verdict = "more" /\ Decoder \in Decoders /\ n \in 1..(Len(wire) - pushed)
        /\ DecodesExactly
    BY DEF ChunkedInv, Push
  <1>2. PICK p \in Nat : Reading(wire, pushed, p, Decoder, out)
    BY <1>1 DEF ChunkedInv, InStep
  <1>3. /\ mode' = d.mode /\ remaining' = d.remaining /\ buf' = d.buf
        /\ out' = IF d.ok THEN out \o d.out ELSE out
        /\ verdict' = IF ~d.ok THEN "error" ELSE IF d.mode = "done" THEN "done" ELSE "more"
        /\ pushed' = k /\ wire' = wire
    BY DEF Push
  <1>4. /\ wire \in Seq(MarkedByte) /\ Len(wire) \in Nat /\ pushed \in Nat /\ k \in 1..Len(wire) /\ k \in Nat
        /\ pushed <= k /\ k <= Len(wire) /\ k \in 0..Len(wire)
    BY <1>1 DEF Framed
  <1>5. piece \in Seq(Nat) /\ Len(piece) = n /\ \A i \in 1..n : piece[i] = wire[pushed + i].byte
    <2>1. Bytes(wire) \in Seq(Nat) /\ Len(Bytes(wire)) = Len(wire) /\ \A i \in 1..Len(wire) : Bytes(wire)[i] = wire[i].byte
      BY <1>4, BytesOf
    <2>2. /\ piece \in Seq(Nat) /\ Len(piece) = n
          /\ \A i \in 1..n : piece[i] = Bytes(wire)[pushed + i]
      BY <2>1, <1>4, PartOf
    <2>3. \A i \in 1..n : pushed + i \in 1..Len(wire)
      BY <1>1, <1>4
    <2> QED
      BY <2>1, <2>2, <2>3
  <1> HIDE DEF piece
  <1>6. /\ d0 \in Decoders /\ d0.mode = Decoder.mode /\ d0.remaining = Decoder.remaining /\ d0.ok = TRUE
        /\ d0.buf = Decoder.buf \o piece /\ d0.out = <<>>
    <2>1. Decoder.buf \in Seq(Nat) /\ Decoder.buf \o piece \in Seq(Nat) /\ Decoder.ok = TRUE /\ Decoder.out = <<>>
      BY <1>1, <1>5, DecoderFields DEF Decoder
    <2> QED
      BY <2>1, <1>1 DEF Decoders
  <1> HIDE DEF d0
  <1>7. Holds(d0.buf, wire, p, k)
    <2> DEFINE b == Decoder.buf
    <2>1. /\ b \in Seq(Nat) /\ p <= pushed /\ Len(b) = pushed - p
          /\ \A i \in 1..(pushed - p) : b[i] = wire[p + i].byte
      BY <1>2 DEF Reading, Holds
    <2> HIDE DEF b
    <2>2. /\ b \o piece \in Seq(Nat) /\ Len(b \o piece) = (pushed - p) + n
          /\ \A i \in 1..((pushed - p) + n) :
               (b \o piece)[i] = IF i <= pushed - p THEN b[i] ELSE piece[i - (pushed - p)]
      <3>1. Len(b) + Len(piece) = (pushed - p) + n
        BY <2>1, <1>5
      <3>2. b \in Seq(Nat) /\ piece \in Seq(Nat)
        BY <2>1, <1>5
      <3>3. /\ b \o piece \in Seq(Nat) /\ Len(b \o piece) = Len(b) + Len(piece)
            /\ \A i \in 1..(Len(b) + Len(piece)) :
                 (b \o piece)[i] = IF i <= Len(b) THEN b[i] ELSE piece[i - Len(b)]
        BY <3>2, ConcatProperties
      <3> QED
        BY <3>1, <3>3, <2>1
    <2>3. (pushed - p) + n = k - p /\ pushed - p \in Nat
      BY <2>1, <1>4
    <2>4. ASSUME NEW i \in 1..(k - p) PROVE (b \o piece)[i] = wire[p + i].byte
      <3>1. CASE i <= pushed - p
        <4>1. i \in 1..(pushed - p)
          BY <3>1, <2>3
        <4> QED
          BY <4>1, <3>1, <2>1, <2>2, <2>3
      <3>2. CASE ~(i <= pushed - p)
        <4>1. i - (pushed - p) \in 1..n /\ pushed + (i - (pushed - p)) = p + i
          BY <3>2, <2>3, <1>4
        <4> QED
          BY <4>1, <3>2, <1>5, <2>2, <2>3
      <3> QED
        BY <3>1, <3>2
    <2>5. p <= k
      BY <2>1, <1>4
    <2> QED
      BY <2>2, <2>3, <2>4, <2>5, <1>4, <1>6 DEF Holds, b
  <1>8. Reading(wire, k, p, d0, out \o d0.out)
    <2>1. out \o d0.out = out
      BY <1>1, <1>6, ConcatEmptySeq
    <2> QED
      BY <2>1, <1>2, <1>6, <1>7 DEF Reading
  <1>9. d \in Decoders /\ Pass(d) = d /\ Fits(wire, k, d, out \o d.out)
    <2>1. Fits(wire, k, d0, out \o d0.out)
      BY <1>8 DEF Fits
    <2> QED
      BY <2>1, <1>1, <1>4, <1>6, LoopFits
  <1> HIDE DEF d, k
  <1>10. d.ok \in BOOLEAN /\ d.out \in Seq(Nat) /\ out \o d.out \in Seq(Nat)
    BY <1>1, <1>9, DecoderFields
  <1>11. /\ Given' \in Seq(MarkedByte) /\ DataIn[Given'] = Data(wire, k) /\ Data(wire, k) \in Seq(Nat)
         /\ \A m : HasMark(Given', m) <=> \E i \in 1..k : wire[i].mark = m
    <2>1. Given' = SubSeq(wire, 1, k)
      BY <1>3 DEF Given
    <2> QED
      BY <2>1, <1>4, GivenIs DEF Data
  <1>12. Framed(wire') /\ pushed' \in 0..Len(wire') /\ out' \in Seq(Nat)
    BY <1>1, <1>3, <1>4, <1>10
  <1>13. CASE Failed(wire, k, d)
    <2>1. verdict' = "error" /\ out' = out /\ HasMark(Given', "bad")
      BY <1>3, <1>11, <1>13 DEF Failed
    <2>2. Len(out) <= Len(DataIn[Given']) /\ out = SubSeq(DataIn[Given'], 1, Len(out))
      <3>1. out = DataIn[Given]
        BY <1>1 DEF DecodesExactly
      <3>2. out = Data(wire, pushed)
        BY <3>1 DEF Data, Given
      <3>3. PICK rest \in Seq(Nat) : Data(wire, k) = out \o rest
        BY <3>2, <1>4, DataGrows
      <3>4. Len(out) <= Len(out \o rest) /\ out = SubSeq(out \o rest, 1, Len(out))
        BY <3>3, <1>1, StartsWith
      <3> QED
        BY <3>3, <3>4, <1>11
    <2>3. (verdict' = "error") = HasMark(Given', "bad")
      BY <2>1 DEF HasMark
    <2>4. DecodesExactly'
      BY <2>1, <2>2, <2>3 DEF DecodesExactly
    <2> QED
      BY <2>1, <2>4, <1>12 DEF ChunkedInv
  <1>14. CASE Finished(wire, k, d, out \o d.out)
    <2>1. /\ verdict' = "done" /\ out' = DataIn[Given'] /\ HasMark(Given', "last") /\ ~HasMark(Given', "bad")
      BY <1>3, <1>11, <1>14 DEF Finished
    <2>2. /\ (verdict' = "error") = HasMark(Given', "bad")
          /\ (verdict' = "done") = HasMark(Given', "last")
      BY <2>1 DEF HasMark
    <2>3. DecodesExactly'
      BY <2>1, <2>2 DEF DecodesExactly
    <2> QED
      BY <2>1, <2>3, <1>12 DEF ChunkedInv
  <1>15. CASE \E q \in Nat : Reading(wire, k, q, d, out \o d.out)
    <2>1. PICK q \in Nat : Reading(wire, k, q, d, out \o d.out)
      BY <1>15
    <2>2. Rests(d.mode, d.buf)
      BY <2>1, <1>9, LoopRests
    <2>3. /\ d.mode \in {"size", "body", "crlf"} /\ out \o d.out = Data(wire, k) /\ d.ok = TRUE
          /\ \A i \in 1..k : wire[i].mark \notin {"bad", "last"}
      <3>1. d.ok = TRUE
        BY <2>1 DEF Reading
      <3>2. Framed(wire) /\ d \in Decoders
        BY <1>1, <1>9
      <3>3. /\ d.mode \in {"size", "body", "crlf"} /\ out \o d.out = Data(wire, k)
            /\ \A i \in 1..k : wire[i].mark \notin {"bad", "last"}
        BY <2>1, <2>2, <3>2, AtRest
      <3> QED
        BY <3>1, <3>3
    <2>4. verdict' = "more" /\ out' = DataIn[Given'] /\ ~HasMark(Given', "last") /\ ~HasMark(Given', "bad")
      BY <2>3, <1>3, <1>11
    <2>5. /\ (verdict' = "error") = HasMark(Given', "bad")
          /\ (verdict' = "done") = HasMark(Given', "last")
      BY <2>4 DEF HasMark
    <2>6. DecodesExactly'
      BY <2>4, <2>5 DEF DecodesExactly
    <2>7. /\ Decoder' \in Decoders /\ Decoder'.ok = d.ok /\ Decoder'.mode = d.mode
          /\ Decoder'.remaining = d.remaining /\ Decoder'.buf = d.buf
      <3>1. Decoder' = [mode |-> d.mode, remaining |-> d.remaining, buf |-> d.buf, out |-> <<>>, ok |-> TRUE]
        BY <1>3 DEF Decoder
      <3>2. <<>> \in Seq(Nat)
        OBVIOUS
      <3> QED
        BY <3>1, <3>2, <2>3, <1>9, DecoderFields DEF Decoders
    <2>8. Reading(wire, k, q, Decoder', out')
      <3>1. out' = out \o d.out
        BY <1>3, <2>3
      <3> QED
        BY <3>1, <2>1, <2>7 DEF Reading
    <2>9. InStep' /\ Rests(mode', buf')
      BY <2>2, <2>8, <1>3 DEF InStep
    <2> QED
      BY <2>4, <2>6, <2>7, <2>9, <1>12 DEF ChunkedInv
  <1> QED
    BY <1>9, <1>13, <1>14, <1>15 DEF Fits

\* and by feed_eof (chunked.rs:157-177).
LEMMA FeedEofKeeps ==
    ASSUME ChunkedInv, FeedEof
    PROVE  ChunkedInv'
  <1>1. /\ Framed(wire) /\ pushed \in 0..Len(wire) /\ out \in Seq(Nat)
        /\ verdict = "more" /\ Decoder \in Decoders /\ Rests(mode, buf)
        /\ DecodesExactly
    BY DEF ChunkedInv, FeedEof
  <1>2. /\ verdict' = IF EndsWhole THEN "ended" ELSE "short"
        /\ wire' = wire /\ pushed' = pushed /\ out' = out
    BY DEF FeedEof
  <1>3. PICK p \in Nat : Reading(wire, pushed, p, Decoder, out)
    BY <1>1 DEF ChunkedInv, InStep
  <1>4. Decoder.mode = mode /\ Decoder.buf = buf
    BY DEF Decoder
  <1>5. EndsWhole <=> WholeSoFar
    BY <1>1, <1>3, <1>4, AtRest DEF EndsWhole, WholeSoFar
  <1>6. Given' = Given /\ (WholeSoFar' <=> WholeSoFar) /\ verdict' \in {"ended", "short"}
    BY <1>2 DEF Given, WholeSoFar
  <1>7. out = DataIn[Given] /\ ~HasMark(Given, "bad") /\ ~HasMark(Given, "last")
    BY <1>1 DEF DecodesExactly
  <1>8. /\ (verdict' = "error") = HasMark(Given', "bad")
        /\ (verdict' = "done") = HasMark(Given', "last")
    BY <1>6, <1>7 DEF HasMark
  <1>9. DecodesExactly'
    BY <1>2, <1>5, <1>6, <1>7, <1>8 DEF DecodesExactly
  <1> QED
    BY <1>1, <1>2, <1>6, <1>9 DEF ChunkedInv

\* However the bytes of a body are split and wherever they stop, the decoder hands
\* on the data of the chunks and nothing else, and tells a whole body from one that
\* was cut short (chunked.rs:70-177).
THEOREM ChunkedBodiesAreDecodedExactly == ChunkedSpec => []DecodesExactly
  <1>1. ASSUME ChunkedInv, [ChunkedNext]_chunkedVars PROVE ChunkedInv'
    <2>1. CASE FeedEof
      BY <1>1, <2>1, FeedEofKeeps
    <2>2. CASE \E n \in 1..MaxPiece : Push(n)
      <3>1. PICK n \in 1..MaxPiece : Push(n)
        BY <2>2
      <3>2. n \in Nat
        BY DecoderAssumption
      <3> QED
        BY <1>1, <3>1, <3>2, PushKeeps
    <2>3. CASE UNCHANGED chunkedVars
      <3>1. /\ wire' = wire /\ pushed' = pushed /\ mode' = mode /\ remaining' = remaining /\ buf' = buf
            /\ out' = out /\ verdict' = verdict
        BY <2>3 DEF chunkedVars
      <3>2. Decoder' = Decoder /\ (InStep' <=> InStep)
        BY <3>1 DEF Decoder, InStep
      <3>3. DecodesExactly' <=> DecodesExactly
        BY <3>1 DEF DecodesExactly, Given, WholeSoFar
      <3> QED
        BY <1>1, <3>1, <3>2, <3>3 DEF ChunkedInv
    <2> QED
      BY <1>1, <2>1, <2>2, <2>3 DEF ChunkedNext
  <1>2. ChunkedInv => DecodesExactly
    BY DEF ChunkedInv
  <1> QED
    BY <1>1, <1>2, ChunkedInvHoldsFirst, PTL DEF ChunkedSpec
=============================================================================
