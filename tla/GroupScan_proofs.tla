-------------------------- MODULE GroupScan_proofs --------------------------
(***************************************************************************)
(* A work-group of the OpenCL kernels selects the hard locations that a    *)
(* linear scan selects, for every launch within the limits the kernels are *)
(* written for, every order in which the warps run and every content of    *)
(* the memory.                                                             *)
(*                                                                         *)
(* The proof has four parts.  The layout of the programs says where each   *)
(* kernel has its barriers and its additions, and from it no two           *)
(* instructions that the barriers leave unordered touch one word, so the   *)
(* warps keep in step and there is no race.  The rounds of the reduction   *)
(* keep the sum of the first cells, plus the words carried aside, equal to *)
(* the sum of all.  The invariant then says what every cell holds at every *)
(* instruction, and the report and the refinement follow from it.          *)
(*                                                                         *)
(* The words that are summed are those of bitstrings.  The last part says  *)
(* where bitstring.c keeps each bit, that its functions agree on it, and   *)
(* that the sum is the Hamming distance, on the device as in bs_distance.  *)
(***************************************************************************)
EXTENDS GroupScan, Bitstring, FiniteSetTheorems, SequenceTheorems, WellFoundedInduction, TLAPS

-----------------------------------------------------------------------------
(* Numbers.                                                                 *)

\* Proofs by the least counterexample.
LEMMA LeastNat ==
    ASSUME NEW S \in SUBSET Nat, S # {}
    PROVE  \E n \in S : \A m \in S : n <= m
<1>1. PICK n \in S : \A m \in S : ~ (<<m, n>> \in OpToRel(<, Nat))
  BY WFMin, NatLessThanWellFounded, Zenon
<1>2. \A m \in S : ~ (m < n)
  BY <1>1 DEF OpToRel
<1> QED
  BY <1>2, SMT

LEMMA Power2 ==
    ASSUME NEW j \in Nat
    PROVE  2 ^ j \in Nat \ {0} /\ 2 ^ (j + 1) = 2 * 2 ^ j
<1> DEFINE S == 1 .. j
           T == 1 .. j + 1
           With(A) == A \cup {j + 1}
           New == {With(A) : A \in SUBSET S}
           f == [A \in SUBSET S |-> With(A)]
<1>1. IsFiniteSet(S) /\ Cardinality(S) = j /\ IsFiniteSet(T) /\ Cardinality(T) = j + 1
  BY FS_Interval, SMT
<1>2. /\ IsFiniteSet(SUBSET S) /\ Cardinality(SUBSET S) = 2 ^ j
      /\ IsFiniteSet(SUBSET T) /\ Cardinality(SUBSET T) = 2 ^ (j + 1)
  BY <1>1, FS_SUBSET
<1>3. T = S \cup {j + 1} /\ j + 1 \notin S
  BY SMT
<1> HIDE DEF S, T
<1>4. f \in Bijection(SUBSET S, New)
  <2>1. \A A, B \in SUBSET S : With(A) = With(B) => A = B
    BY <1>3
  <2>2. f \in [SUBSET S -> New]
    OBVIOUS
  <2>3. \A A, B \in SUBSET S : f[A] = f[B] => A = B
    BY <2>1
  <2>4. \A B \in New : \E A \in SUBSET S : f[A] = B
    OBVIOUS
  <2> HIDE DEF f, New
  <2> QED
    BY <2>2, <2>3, <2>4 DEF Bijection, Injection, IsInjective, Surjection
<1>5. IsFiniteSet(New) /\ Cardinality(New) = 2 ^ j
  BY <1>2, <1>4, FS_Bijection DEF ExistsBijection
<1>6. SUBSET T = (SUBSET S) \cup New
  <2>1. ASSUME NEW A \in SUBSET T PROVE A \in (SUBSET S) \cup New
    <3>1. CASE j + 1 \in A
      <4>1. A \ {j + 1} \in SUBSET S /\ A = With(A \ {j + 1})
        BY <1>3, <3>1
      <4> QED
        BY <4>1
    <3>2. CASE j + 1 \notin A
      BY <1>3, <3>2
    <3> QED
      BY <3>1, <3>2
  <2> QED
    BY <1>3, <2>1
<1>7. (SUBSET S) \cap New = {}
  BY <1>3
<1>8. 2 ^ (j + 1) = 2 ^ j + 2 ^ j - Cardinality({})
  <2> HIDE DEF New
  <2>1. Cardinality((SUBSET S) \cup New) =
            Cardinality(SUBSET S) + Cardinality(New) - Cardinality((SUBSET S) \cap New)
    BY <1>2, <1>5, FS_Union
  <2> QED
    BY <1>2, <1>5, <1>6, <1>7, <2>1
<1>9. 2 ^ j \in Nat
  BY <1>2, FS_CardinalityType
<1>10. 2 ^ j # 0
  BY <1>2, FS_EmptySet
<1> QED
  BY <1>8, <1>9, <1>10, FS_EmptySet

LEMMA PowerAbove ==
    ASSUME NEW j \in Nat
    PROVE  j < 2 ^ j
<1> DEFINE Wrong == {k \in Nat : ~ (k < 2 ^ k)}
<1>1. SUFFICES ASSUME Wrong # {} PROVE FALSE
  OBVIOUS
<1>2. PICK k \in Wrong : \A i \in Wrong : k <= i
  BY <1>1, LeastNat
<1>3. k # 0
  <2>1. 2 ^ 0 = 1
    BY SMT
  <2>2. 0 < 2 ^ 0
    BY <2>1
  <2> QED
    BY <1>2, <2>2, Zenon
<1>4. k - 1 \in Nat /\ k - 1 \notin Wrong /\ (k - 1) + 1 = k
  BY <1>2, <1>3
<1>5. k - 1 < 2 ^ (k - 1) /\ 2 ^ (k - 1) \in Nat /\ 2 ^ k = 2 * 2 ^ (k - 1)
  BY <1>4, Power2
<1> QED
  BY <1>4, <1>5

\* What is left of n after j halvings.
Half(n, j) == n \div 2 ^ j

LEMMA Halving ==
    ASSUME NEW n \in Nat, NEW j \in Nat
    PROVE  /\ Half(n, 0) = n
           /\ Half(n, j) \in Nat /\ Half(n, j + 1) \in Nat
           /\ Half(n, j) = 2 * Half(n, j + 1) + (IF Half(n, j) % 2 = 1 THEN 1 ELSE 0)
<1>1. Half(n, 0) = n
  <2>1. 2 ^ 0 = 1
    BY SMT
  <2> QED
    BY <2>1, SMT DEF Half
<1>2. PICK p \in Nat \ {0} : p = 2 ^ j /\ 2 ^ (j + 1) = 2 * p
  BY Power2
<1>3. Half(n, j) = n \div p /\ Half(n, j + 1) = n \div (2 * p)
  BY <1>2 DEF Half
<1>4. n \div p \in Nat /\ n \div (2 * p) = (n \div p) \div 2
  BY SMT
<1> DEFINE q == n \div p
<1>5. q \in Nat /\ q \div 2 \in Nat /\ q = 2 * (q \div 2) + (IF q % 2 = 1 THEN 1 ELSE 0)
  <2>1. q \in Nat
    BY <1>4
  <2> HIDE DEF q
  <2> QED
    BY <2>1, SMT
<1> QED
  BY <1>1, <1>3, <1>4, <1>5

LEMMA HalvesShrink ==
    ASSUME NEW n \in Nat, NEW i \in Nat, NEW j \in Nat, i <= j
    PROVE  Half(n, j) \in Nat /\ Half(n, i) \in Nat /\ Half(n, j) <= Half(n, i)
<1> DEFINE Wrong == {d \in Nat : ~ (Half(n, i + d) <= Half(n, i))}
<1>1. Wrong = {}
  <2>1. SUFFICES ASSUME Wrong # {} PROVE FALSE
    OBVIOUS
  <2>2. PICK d \in Wrong : \A e \in Wrong : d <= e
    BY <2>1, LeastNat
  <2>3. d # 0
    BY Halving
  <2> DEFINE k == i + (d - 1)
  <2>4. d - 1 \in Nat /\ d - 1 \notin Wrong /\ k \in Nat /\ k + 1 = i + d
    BY <2>2, <2>3
  <2>5. Half(n, k) <= Half(n, i) /\ Half(n, i) \in Nat
    BY <2>4, Halving
  <2> HIDE DEF k
  <2>6. Half(n, k + 1) \in Nat /\ Half(n, k) \in Nat /\ Half(n, k + 1) <= Half(n, k)
    <3>1. /\ Half(n, k + 1) \in Nat /\ Half(n, k) \in Nat
          /\ Half(n, k) = 2 * Half(n, k + 1) + (IF Half(n, k) % 2 = 1 THEN 1 ELSE 0)
      BY <2>4, Halving
    <3> DEFINE a == Half(n, k)  b == Half(n, k + 1)  r == IF Half(n, k) % 2 = 1 THEN 1 ELSE 0
    <3>2. a \in Nat /\ b \in Nat /\ a = 2 * b + r /\ r \in {0, 1}
      BY <3>1
    <3> HIDE DEF a, b, r
    <3>3. b <= a
      BY <3>2
    <3> QED
      BY <3>1, <3>3 DEF a, b
  <2>7. ~ (Half(n, k + 1) <= Half(n, i))
    BY <2>2, <2>4
  <2> QED
    BY <2>5, <2>6, <2>7
<1>2. j - i \in Nat /\ i + (j - i) = j
  BY SMT
<1> QED
  BY <1>1, <1>2, Halving

\* The loop goes on exactly as long as the stride is more than m.
LEMMA LoopEnds ==
    ASSUME NEW n \in Nat, NEW m \in Nat
    PROVE  /\ Iterations(n, m) \in Nat
           /\ \A j \in 1 .. Iterations(n, m) : Half(n, j) > m
           /\ \A j \in Nat : j > Iterations(n, m) => Half(n, j) <= m
<1> DEFINE S == {j \in 0 .. n : j = 0 \/ n \div 2 ^ j > m}
           D == {n - j : j \in S}
           J == Iterations(n, m)
<1>1. J = CHOOSE x \in S : \A y \in S : x >= y
  BY DEF Iterations, Max
<1>2. \E x \in S : \A y \in S : x >= y
  <2>1. D \in SUBSET Nat /\ D # {}
    <3>1. 0 \in S
      BY SMT
    <3> QED
      BY <3>1
  <2>2. PICK d \in D : \A e \in D : d <= e
    BY <2>1, LeastNat
  <2>3. PICK x \in S : d = n - x
    OBVIOUS
  <2>4. \A y \in S : n - y \in D
    OBVIOUS
  <2>5. \A y \in S : y \in 0 .. n
    OBVIOUS
  <2> HIDE DEF S, D
  <2>6. \A y \in S : n - x <= n - y
    BY <2>2, <2>3, <2>4
  <2>7. \A y \in S : x >= y
    BY <2>5, <2>6, SMT
  <2> QED
    BY <2>7
<1>3. J \in S /\ \A y \in S : J >= y
  BY <1>1, <1>2
<1>4. J \in 0 .. n /\ (J = 0 \/ Half(n, J) > m)
  BY <1>3 DEF Half
<1>5. \A j \in 0 .. n : j > J => ~ (Half(n, j) > m)
  BY <1>3 DEF Half
<1> HIDE DEF J, S
<1>6. ASSUME NEW j \in 1 .. J PROVE Half(n, j) > m
  <2>1. Half(n, J) <= Half(n, j) /\ Half(n, J) \in Nat /\ Half(n, j) \in Nat
    <3>1. j \in Nat /\ J \in Nat /\ j <= J
      BY <1>4
    <3> QED
      BY <3>1, HalvesShrink
  <2>2. Half(n, J) > m
    BY <1>4
  <2> QED
    BY <2>1, <2>2
<1>7. ASSUME NEW j \in Nat, j > J PROVE Half(n, j) <= m
  <2>1. CASE j <= n
    BY <1>4, <1>5, <1>7, <2>1, Halving
  <2>2. CASE n < j
    <3>1. n < 2 ^ n /\ 2 ^ n \in Nat \ {0}
      BY PowerAbove, Power2
    <3>2. Half(n, n) = 0
      <4> DEFINE p == 2 ^ n
      <4>1. Half(n, n) = n \div p /\ n < p /\ p \in Nat \ {0}
        BY <3>1 DEF Half
      <4> HIDE DEF p
      <4> QED
        BY <4>1, SMT
    <3>3. Half(n, j) <= Half(n, n) /\ Half(n, j) \in Nat
      BY <2>2, HalvesShrink
    <3> QED
      BY <3>2, <3>3
  <2> QED
    BY <2>1, <2>2
<1> QED
  BY <1>4, <1>6, <1>7 DEF J

\* The rounds of the whole reduction, and those that are wider than a warp.
Rounds(n) == Iterations(n, 0)
WideRounds(n) == Iterations(n, WarpSize)

LEMMA RoundsEnd ==
    ASSUME NEW n \in Nat \ {0}
    PROVE  /\ Rounds(n) \in Nat /\ WideRounds(n) \in 0 .. Rounds(n)
           /\ Half(n, 0) = n /\ Half(n, Rounds(n)) = 1
           /\ \A j \in 1 .. Rounds(n) : Half(n, j) \in Nat \ {0}
           /\ \A j \in WideRounds(n) + 1 .. Rounds(n) : Half(n, j) <= WarpSize
           /\ Iterations(n, 1) = IF Rounds(n) = 0 THEN 0 ELSE Rounds(n) - 1
           /\ n > 1 => Rounds(n) > 0 /\ WideRounds(n) < Rounds(n)
<1> DEFINE K == Rounds(n)  A == WideRounds(n)  B == Iterations(n, 1)
<1>1. /\ K \in Nat /\ A \in Nat /\ B \in Nat
      /\ \A j \in 1 .. K : Half(n, j) > 0
      /\ \A j \in Nat : j > K => Half(n, j) <= 0
      /\ \A j \in 1 .. A : Half(n, j) > WarpSize
      /\ \A j \in Nat : j > A => Half(n, j) <= WarpSize
      /\ \A j \in 1 .. B : Half(n, j) > 1
      /\ \A j \in Nat : j > B => Half(n, j) <= 1
  BY LoopEnds, WarpSizeAssumption DEF Rounds, WideRounds
<1>2. WarpSize \in Nat /\ WarpSize >= 1
  BY WarpSizeAssumption
<1> HIDE DEF K, A, B
<1>3. A <= K
  <2>1. SUFFICES ASSUME A > K PROVE FALSE
    BY <1>1
  <2>2. Half(n, A) <= 0 /\ Half(n, A) > WarpSize /\ Half(n, A) \in Nat
    BY <1>1, <2>1, Halving
  <2> QED
    BY <1>2, <2>2
<1>4. Half(n, 0) = n
  BY Halving
<1>5. Half(n, K) \in Nat /\ Half(n, K) > 0
  <2>1. CASE K = 0
    BY <1>4, <2>1
  <2>2. CASE K # 0
    BY <1>1, <2>2, Halving
  <2> QED
    BY <2>1, <2>2
<1>6. Half(n, K) = 1
  <2> DEFINE a == Half(n, K)  b == Half(n, K + 1)  r == IF Half(n, K) % 2 = 1 THEN 1 ELSE 0
  <2>1. b \in Nat /\ a = 2 * b + r
    BY <1>1, Halving
  <2>2. b <= 0 /\ r \in {0, 1}
    BY <1>1
  <2> HIDE DEF a, b, r
  <2>3. a \in {0, 1}
    BY <2>1, <2>2
  <2> QED
    BY <1>5, <2>3 DEF a
<1>7. \A j \in 1 .. K : Half(n, j) \in Nat \ {0}
  BY <1>1, Halving
<1>8. B = IF K = 0 THEN 0 ELSE K - 1
  <2>1. CASE B >= K /\ B # 0
    <3>1. Half(n, B) > 1 /\ Half(n, B) \in Nat
      BY <1>1, <2>1, Halving
    <3>2. Half(n, B) <= Half(n, K)
      BY <1>1, <2>1, HalvesShrink
    <3> QED
      BY <1>6, <3>1, <3>2
  <2>2. CASE B < K - 1
    <3> DEFINE j == K - 1
    <3>1. j \in Nat /\ j > B /\ j >= 1 /\ j + 1 = K
      BY <1>1, <2>2
    <3>2. Half(n, j) <= 1
      BY <1>1, <3>1
    <3>3. /\ Half(n, j + 1) \in Nat
          /\ Half(n, j) = 2 * Half(n, j + 1) + (IF Half(n, j) % 2 = 1 THEN 1 ELSE 0)
      BY <3>1, Halving
    <3>4. Half(n, j + 1) = 1
      BY <1>6, <3>1
    <3> QED
      BY <3>2, <3>3, <3>4
  <2> QED
    BY <1>1, <2>1, <2>2
<1>9. ASSUME n > 1 PROVE K > 0 /\ A < K
  <2>1. K # 0
    BY <1>4, <1>6, <1>9
  <2>2. A # K
    <3>1. SUFFICES ASSUME A = K PROVE FALSE
      OBVIOUS
    <3>2. Half(n, K) > WarpSize
      BY <1>1, <2>1, <3>1
    <3> QED
      BY <1>2, <1>6, <3>2
  <2> QED
    BY <1>1, <1>3, <2>1, <2>2
<1> QED
  BY <1>1, <1>3, <1>4, <1>6, <1>7, <1>8, <1>9 DEF K, A, B

-----------------------------------------------------------------------------
(* Sequences.                                                               *)

\* Sequences of m elements each, one behind the other: element c of the j-th
\* one is found behind j - 1 others.
IsFlat(p, S, ss, m) ==
    /\ p \in Seq(S) /\ Len(p) = Len(ss) * m
    /\ \A j \in 1 .. Len(ss) : \A c \in 1 .. m : p[(j - 1) * m + c] = ss[j][c]

LEMMA Flattened ==
    ASSUME NEW S, NEW ss \in Seq(Seq(S)), NEW m \in Nat, \A j \in 1 .. Len(ss) : Len(ss[j]) = m
    PROVE  IsFlat(FlattenSeq(ss), S, ss, m)
<1> DEFINE N == Len(ss)
           Flat(f, k) == /\ DOMAIN f = 1 .. k
                         /\ \A i \in 1 .. k : f[i] = IF i = 1 THEN ss[i] ELSE f[i - 1] \o ss[i]
           Is(f) == f = [i \in 1 .. N |-> IF i = 1 THEN ss[i] ELSE f[i - 1] \o ss[i]]
           flat == CHOOSE f : Is(f)
<1>1. N \in Nat /\ \A j \in 1 .. N : ss[j] \in Seq(S)
  OBVIOUS
<1>2. FlattenSeq(ss) = IF N = 0 THEN ss ELSE flat[N]
  BY DEF FlattenSeq
<1>3. \E f : Is(f)
  <2> DEFINE Wrong == {k \in Nat : k <= N /\ ~ \E f : Flat(f, k)}
  <2>1. Wrong = {}
    <3>1. SUFFICES ASSUME Wrong # {} PROVE FALSE
      OBVIOUS
    <3>2. PICK k \in Wrong : \A i \in Wrong : k <= i
      BY <3>1, LeastNat
    <3>3. k # 0
      <4>1. Flat([i \in 1 .. 0 |-> 0], 0)
        OBVIOUS
      <4> QED
        BY <4>1
    <3>4. k - 1 \in Nat /\ k \in Nat /\ k - 1 <= N /\ k - 1 < k
      BY <1>1, <3>2, <3>3
    <3>5. PICK f : Flat(f, k - 1)
      <4>1. k - 1 \notin Wrong
        <5> HIDE DEF Wrong
        <5> QED
          BY <3>2, <3>4
      <4> HIDE DEF Flat
      <4> QED
        BY <3>4, <4>1
    <3> DEFINE g == [i \in 1 .. k |-> IF i = k THEN IF k = 1 THEN ss[k] ELSE f[k - 1] \o ss[k]
                                     ELSE f[i]]
    <3>6. \A i \in 1 .. k : i # k => i \in 1 .. k - 1 /\ i - 1 # k /\ (i # 1 => i - 1 \in 1 .. k)
      BY <3>4
    <3>7. k # 1 => k - 1 \in 1 .. k /\ k - 1 # k
      BY <3>4, <3>3
    <3>8. Flat(g, k)
      BY <3>5, <3>6, <3>7
    <3> QED
      BY <3>2, <3>8
  <2>2. PICK f : Flat(f, N)
    <3>1. N \in Nat /\ N <= N
      BY <1>1
    <3> HIDE DEF Flat
    <3>2. N \notin Wrong
      BY <2>1
    <3> QED
      BY <3>1, <3>2
  <2> DEFINE g == [i \in 1 .. N |-> f[i]]
  <2>3. \A i \in 1 .. N : i # 1 => i - 1 \in 1 .. N
    BY <1>1
  <2>4. Is(g)
    BY <2>2, <2>3
  <2> QED
    BY <2>4
<1>4. Is(flat)
  <2> HIDE DEF Is
  <2> QED
    BY <1>3
<1>5. \A i \in 1 .. N : flat[i] = IF i = 1 THEN ss[i] ELSE flat[i - 1] \o ss[i]
  <2> HIDE DEF flat
  <2> QED
    BY <1>4
<1> HIDE DEF flat, N
<1> DEFINE Good(k) == /\ flat[k] \in Seq(S)
                      /\ Len(flat[k]) = k * m
                      /\ \A j \in 1 .. k : \A c \in 1 .. m : flat[k][(j - 1) * m + c] = ss[j][c]
           Wrong == {k \in 1 .. N : ~ Good(k)}
<1>6. Wrong = {}
  <2>1. SUFFICES ASSUME Wrong # {} PROVE FALSE
    OBVIOUS
  <2>2. Wrong \in SUBSET Nat
    BY <1>1
  <2>3. PICK k \in Wrong : \A i \in Wrong : k <= i
    <3> HIDE DEF Wrong
    <3> QED
      BY <2>1, <2>2, LeastNat
  <2>4. k \in 1 .. N /\ ss[k] \in Seq(S) /\ Len(ss[k]) = m
    BY <1>1 DEF N
  <2>5. CASE k = 1
    <3>1. flat[k] = ss[1]
      BY <1>5, <2>4, <2>5
    <3>2. 1 * m = m /\ \A c \in 1 .. m : (1 - 1) * m + c = c
      BY SMT
    <3>3. Good(k)
      BY <2>4, <2>5, <3>1, <3>2
    <3> QED
      BY <3>3
  <2>6. CASE k # 1
    <3> DEFINE h == k - 1
    <3>1. h \in 1 .. N /\ h + 1 = k /\ h \in Nat /\ Good(h)
      <4>1. h \in 1 .. N /\ h < k
        BY <1>1, <2>4, <2>6
      <4>2. h \notin Wrong
        <5> HIDE DEF Wrong
        <5> QED
          BY <1>1, <2>3, <2>4, <4>1
      <4> QED
        BY <1>1, <2>4, <4>1, <4>2
    <3>2. flat[k] = flat[h] \o ss[k]
      BY <1>5, <2>4, <2>6
    <3> DEFINE a == flat[h]  b == ss[k]  q == h * m
    <3>3. a \in Seq(S) /\ Len(a) = q /\ b \in Seq(S) /\ Len(b) = m /\ q \in Nat
      BY <2>4, <3>1
    <3>4. flat[k] \in Seq(S) /\ Len(flat[k]) = q + m
      <4>1. a \o b \in Seq(S)
        BY <3>3, ConcatProperties
      <4>2. Len(a \o b) = Len(a) + Len(b)
        BY <3>3, ConcatProperties
      <4> QED
        BY <3>2, <3>3, <4>1, <4>2
    <3>5. q + m = k * m
      BY <3>1, SMT
    <3>6. ASSUME NEW j \in 1 .. k, NEW c \in 1 .. m
          PROVE  flat[k][(j - 1) * m + c] = ss[j][c]
      <4> DEFINE p == (j - 1) * m + c
      <4>1. CASE j = k
        <5>1. p = q + c
          BY <3>1, <4>1
        <5>2. (a \o b)[q + c] = b[c]
          <6> HIDE DEF a, b, q
          <6> QED
            BY <3>3
        <5> QED
          BY <3>2, <4>1, <5>1, <5>2
      <4>2. CASE j # k
        <5>1. j \in 1 .. h /\ j \in Nat
          BY <3>1, <4>2
        <5>2. p \in Nat /\ p >= 1 /\ p <= q
          <6>1. PICK d \in Nat : h = (j - 1) + 1 + d
            BY <5>1, <3>1
          <6>2. h * m = (j - 1) * m + m + d * m
            BY <5>1, <6>1, SMT
          <6>3. (j - 1) * m \in Nat /\ d * m \in Nat
            BY <5>1, <6>1, SMT
          <6> DEFINE x == (j - 1) * m  y == d * m
          <6>4. q = x + m + y /\ p = x + c /\ x \in Nat /\ y \in Nat
            BY <6>2, <6>3
          <6> HIDE DEF x, y, p, q
          <6> QED
            BY <6>4
        <5>3. (a \o b)[p] = a[p]
          <6> HIDE DEF a, b, q, p
          <6> QED
            BY <3>3, <5>2
        <5>4. a[p] = ss[j][c]
          BY <3>1, <5>1
        <5> QED
          BY <3>2, <5>3, <5>4
      <4> QED
        BY <4>1, <4>2
    <3>7. Good(k)
      BY <3>4, <3>5, <3>6
    <3> QED
      BY <3>7
  <2> QED
    BY <2>5, <2>6
<1>7. CASE N = 0
  <2>1. ss = <<>> /\ 0 * m = 0
    BY <1>7 DEF N
  <2>2. FlattenSeq(ss) = <<>>
    BY <1>2, <1>7, <2>1
  <2>3. <<>> \in Seq(S) /\ Len(<<>>) = 0 /\ Len(ss) = 0 /\ \A j \in 1 .. Len(ss) : FALSE
    BY <2>1
  <2> QED
    BY <2>1, <2>2, <2>3 DEF IsFlat
<1>8. CASE N # 0
  <2>1. N \in 1 .. N /\ FlattenSeq(ss) = flat[N]
    BY <1>1, <1>2, <1>8
  <2>2. Good(N)
    BY <1>6, <2>1
  <2> QED
    BY <2>1, <2>2, Zenon DEF IsFlat, N
<1> QED
  BY <1>7, <1>8

-----------------------------------------------------------------------------
(* The instructions of the kernels.                                         *)

AddAt(n, j) == [op |-> "add", stride |-> Half(n, j)]
CarryAt(n, j) == [op |-> "carry", old |-> Half(n, j - 1)]
Simple(op) == [op |-> op]

Steps ==
    {Simple(op) : op \in {"store", "clear", "barrier", "report_row", "report_sum", "report"}}
        \cup {AddAt(n, j) : n \in Nat, j \in Nat \ {0}} \cup {CarryAt(n, j) : n \in Nat, j \in Nat \ {0}}

LEMMA FunctionSeq ==
    ASSUME NEW S, NEW d \in Nat, NEW f \in [1 .. d -> S]
    PROVE  f \in Seq(S) /\ Len(f) = d
  OBVIOUS

LEMMA ShortSeqs ==
    ASSUME NEW S, NEW x \in S, NEW y \in S, NEW z \in S
    PROVE  /\ <<x>> \in Seq(S) /\ Len(<<x>>) = 1 /\ <<x>>[1] = x
           /\ <<x>> \o <<y>> \in Seq(S) /\ Len(<<x>> \o <<y>>) = 2
           /\ (<<x>> \o <<y>>)[1] = x /\ (<<x>> \o <<y>>)[2] = y
           /\ <<x>> \o (<<y>> \o <<z>>) \in Seq(S) /\ Len(<<x>> \o (<<y>> \o <<z>>)) = 3
           /\ (<<x>> \o (<<y>> \o <<z>>))[1] = x /\ (<<x>> \o (<<y>> \o <<z>>))[2] = y
           /\ (<<x>> \o (<<y>> \o <<z>>))[3] = z
<1>1. /\ <<x>> \in Seq(S) /\ Len(<<x>>) = 1 /\ <<x>>[1] = x
      /\ <<y>> \in Seq(S) /\ Len(<<y>>) = 1 /\ <<y>>[1] = y
      /\ <<z>> \in Seq(S) /\ Len(<<z>>) = 1 /\ <<z>>[1] = z
  OBVIOUS
<1> DEFINE s == <<x>>  t == <<y>>  u == <<z>>
<1> HIDE DEF s, t, u
<1>2. /\ s \in Seq(S) /\ Len(s) = 1 /\ s[1] = x
      /\ t \in Seq(S) /\ Len(t) = 1 /\ t[1] = y
      /\ u \in Seq(S) /\ Len(u) = 1 /\ u[1] = z
  BY <1>1 DEF s, t, u
<1>3. s \o t \in Seq(S) /\ Len(s \o t) = 2 /\ (s \o t)[1] = x /\ (s \o t)[2] = y
  BY <1>2, ConcatProperties
<1>4. t \o u \in Seq(S) /\ Len(t \o u) = 2 /\ (t \o u)[1] = y /\ (t \o u)[2] = z
  BY <1>2, ConcatProperties
<1>5. /\ s \o (t \o u) \in Seq(S) /\ Len(s \o (t \o u)) = 3 /\ (s \o (t \o u))[1] = x
      /\ (s \o (t \o u))[2] = y /\ (s \o (t \o u))[3] = z
  <2> DEFINE v == t \o u
  <2>1. v \in Seq(S) /\ Len(v) = 2 /\ v[1] = y /\ v[2] = z
    BY <1>4
  <2> HIDE DEF v
  <2>2. s \o v \in Seq(S) /\ Len(s \o v) = 3 /\ (s \o v)[1] = x /\ (s \o v)[2] = y /\ (s \o v)[3] = z
    <3>1. /\ s \o v \in Seq(S) /\ Len(s \o v) = 1 + 2
          /\ \A i \in 1 .. 1 + 2 : (s \o v)[i] = IF i <= 1 THEN s[i] ELSE v[i - 1]
      <4>1. /\ s \o v \in Seq(S) /\ Len(s \o v) = Len(s) + Len(v)
            /\ \A i \in 1 .. Len(s) + Len(v) :
                   (s \o v)[i] = IF i <= Len(s) THEN s[i] ELSE v[i - Len(s)]
        BY <1>2, <2>1, ConcatProperties
      <4>2. Len(s) = 1 /\ Len(v) = 2
        BY <1>2, <2>1
      <4> HIDE DEF v
      <4> QED
        BY <4>1, <4>2, Zenon
    <3>2. 1 \in 1 .. 1 + 2 /\ 2 \in 1 .. 1 + 2 /\ 3 \in 1 .. 1 + 2 /\ 2 - 1 = 1 /\ 3 - 1 = 2
      BY SMT
    <3>3. (s \o v)[1] = s[1] /\ (s \o v)[2] = v[2 - 1] /\ (s \o v)[3] = v[3 - 1]
      BY <3>1, <3>2
    <3> QED
      BY <1>2, <2>1, <3>1, <3>2, <3>3
  <2> QED
    BY <2>2 DEF v
<1> QED
  BY <1>1, <1>3, <1>5 DEF s, t, u

LEMMA RoundsAre ==
    ASSUME NEW n \in Nat, NEW j \in Nat \ {0}, NEW s,
           s = [old |-> Half(n, j - 1), stride |-> Half(n, j)]
    PROVE  /\ AddStep(s) \in Seq(Steps) /\ Len(AddStep(s)) = 1
           /\ AddStep(s)[1] = AddAt(n, j)
           /\ CarryAddStep(s) \in Seq(Steps) /\ Len(CarryAddStep(s)) = 2
           /\ CarryAddStep(s)[1] = CarryAt(n, j) /\ CarryAddStep(s)[2] = AddAt(n, j)
           /\ SyncAdd(s) \in Seq(Steps) /\ Len(SyncAdd(s)) = 2
           /\ SyncAdd(s)[1] = Simple("barrier") /\ SyncAdd(s)[2] = AddAt(n, j)
           /\ SyncCarryAdd(s) \in Seq(Steps) /\ Len(SyncCarryAdd(s)) = 3
           /\ SyncCarryAdd(s)[1] = Simple("barrier") /\ SyncCarryAdd(s)[2] = CarryAt(n, j)
           /\ SyncCarryAdd(s)[3] = AddAt(n, j)
<1>1. AddAt(n, j) \in Steps /\ CarryAt(n, j) \in Steps /\ Simple("barrier") \in Steps
  BY DEF Steps
<1>2. AddStep(s) = <<AddAt(n, j)>>
  BY DEF AddStep, AddAt
<1>3. CarryAddStep(s) = <<CarryAt(n, j)>> \o <<AddAt(n, j)>>
  BY <1>2 DEF CarryAddStep, CarryAt
<1>4. SyncAdd(s) = <<Simple("barrier")>> \o <<AddAt(n, j)>>
  BY <1>2 DEF SyncAdd, Do, Simple
<1>5. SyncCarryAdd(s) = <<Simple("barrier")>> \o (<<CarryAt(n, j)>> \o <<AddAt(n, j)>>)
  BY <1>3 DEF SyncCarryAdd, Do, Simple
<1> HIDE DEF Steps, AddAt, CarryAt, Simple
<1>6. <<AddAt(n, j)>> \in Seq(Steps) /\ Len(<<AddAt(n, j)>>) = 1 /\ <<AddAt(n, j)>>[1] = AddAt(n, j)
  BY <1>1
<1> DEFINE x == Simple("barrier")  y == CarryAt(n, j)  z == AddAt(n, j)
<1>7. x \in Steps /\ y \in Steps /\ z \in Steps
  BY <1>1
<1> HIDE DEF x, y, z
<1>8. /\ <<y>> \o <<z>> \in Seq(Steps) /\ Len(<<y>> \o <<z>>) = 2
      /\ (<<y>> \o <<z>>)[1] = y /\ (<<y>> \o <<z>>)[2] = z
  BY <1>7, ShortSeqs
<1>9. /\ <<x>> \o <<z>> \in Seq(Steps) /\ Len(<<x>> \o <<z>>) = 2
      /\ (<<x>> \o <<z>>)[1] = x /\ (<<x>> \o <<z>>)[2] = z
  BY <1>7, ShortSeqs
<1>10. /\ <<x>> \o (<<y>> \o <<z>>) \in Seq(Steps) /\ Len(<<x>> \o (<<y>> \o <<z>>)) = 3
       /\ (<<x>> \o (<<y>> \o <<z>>))[1] = x /\ (<<x>> \o (<<y>> \o <<z>>))[2] = y
       /\ (<<x>> \o (<<y>> \o <<z>>))[3] = z
  BY <1>7, ShortSeqs
<1> QED
  BY <1>2, <1>3, <1>4, <1>5, <1>6, <1>8, <1>9, <1>10, Zenon DEF x, y, z

LEMMA StridesAre ==
    ASSUME NEW n \in Nat, NEW a \in Nat, NEW b \in Nat, a <= b
    PROVE  /\ Strides(n, a + 1, b) \in Seq([old : Nat, stride : Nat])
           /\ Len(Strides(n, a + 1, b)) = b - a
           /\ \A k \in 1 .. b - a : Strides(n, a + 1, b)[k] =
                  [old |-> Half(n, (a + k) - 1), stride |-> Half(n, a + k)]
<1>1. b - (a + 1) + 1 = b - a /\ b - a \in Nat
  BY SMT
<1>2. \A k \in 1 .. b - a : (a + 1) + k - 1 = a + k /\ a + k \in Nat /\ (a + k) - 1 \in Nat
  BY SMT
<1>3. Strides(n, a + 1, b) = [k \in 1 .. b - a |->
          [old |-> Half(n, (a + k) - 1), stride |-> Half(n, a + k)]]
  BY <1>1, <1>2 DEF Strides, Half
<1>4. \A k \in 1 .. b - a : Half(n, (a + k) - 1) \in Nat /\ Half(n, a + k) \in Nat
  BY <1>2, Halving
<1> DEFINE d == b - a  E(k) == [old |-> Half(n, (a + k) - 1), stride |-> Half(n, a + k)]
<1>5. d \in Nat /\ \A k \in 1 .. d : E(k) \in [old : Nat, stride : Nat]
  BY <1>1, <1>4
<1>6. Strides(n, a + 1, b) = [k \in 1 .. d |-> E(k)]
  BY <1>3
<1> HIDE DEF d, E
<1>7. Strides(n, a + 1, b) \in [1 .. d -> [old : Nat, stride : Nat]]
  BY <1>5, <1>6, Zenon
<1>8. /\ Strides(n, a + 1, b) \in Seq([old : Nat, stride : Nat])
      /\ Len(Strides(n, a + 1, b)) = d
  BY <1>5, <1>7, FunctionSeq
<1>9. \A k \in 1 .. d : Strides(n, a + 1, b)[k] = E(k)
  BY <1>6, Zenon
<1> QED
  BY <1>8, <1>9 DEF d, E

LEMMA AddLoop ==
    ASSUME NEW n \in Nat, NEW a \in Nat, NEW b \in Nat, a <= b
    PROVE  /\ Loop(Strides(n, a + 1, b), AddStep) \in Seq(Steps)
           /\ Len(Loop(Strides(n, a + 1, b), AddStep)) = b - a
           /\ \A k \in 1 .. b - a :
                  /\ Loop(Strides(n, a + 1, b), AddStep)[k] = AddAt(n, a + k)
<1> DEFINE s == Strides(n, a + 1, b)  d == b - a
           ss == [j \in DOMAIN s |-> AddStep(s[j])]
<1>1. d \in Nat /\ s \in Seq([old : Nat, stride : Nat]) /\ Len(s) = d
  <2>1. d \in Nat
    BY SMT
  <2>2. s \in Seq([old : Nat, stride : Nat]) /\ Len(s) = d
    BY StridesAre, Zenon
  <2> QED
    BY <2>1, <2>2
<1>2. ASSUME NEW k \in 1 .. d
      PROVE  /\ AddStep(s[k]) \in Seq(Steps) /\ Len(AddStep(s[k])) = 1
             /\ AddStep(s[k])[1] = AddAt(n, a + k)
  <2> DEFINE j == a + k
  <2>1. j \in Nat \ {0}
    BY <1>1, SMT
  <2>2. s[k] = [old |-> Half(n, j - 1), stride |-> Half(n, j)]
    BY StridesAre, Zenon
  <2> HIDE DEF s, j, d
  <2>3. AddAt(n, j) = AddAt(n, a + k) /\ CarryAt(n, j) = CarryAt(n, a + k)
    BY DEF j
  <2> DEFINE t == s[k]
  <2> HIDE DEF t
  <2>4. t = [old |-> Half(n, j - 1), stride |-> Half(n, j)]
    BY <2>2 DEF t
  <2>5. /\ AddStep(t) \in Seq(Steps) /\ Len(AddStep(t)) = 1
        /\ AddStep(t)[1] = AddAt(n, j)
    <3>1. AddStep(t) = <<AddAt(n, j)>> /\ AddAt(n, j) \in Steps
      BY <2>1, <2>4 DEF AddStep, AddAt, Steps
    <3> QED
      BY <3>1
  <2> QED
    BY <2>3, <2>5, Zenon DEF t
<1>3. DOMAIN s = 1 .. d
  BY <1>1
<1> HIDE DEF s, d
<1>4. ss \in [1 .. d -> Seq(Steps)] /\ \A k \in 1 .. d : ss[k] = AddStep(s[k])
  BY <1>2, <1>3, Zenon
<1> HIDE DEF ss
<1>5. ss \in Seq(Seq(Steps)) /\ Len(ss) = d
  BY <1>1, <1>4, FunctionSeq, Zenon
<1>6. \A k \in 1 .. Len(ss) : Len(ss[k]) = 1
  BY <1>2, <1>4, <1>5, Zenon
<1>7. 1 \in Nat
  BY SMT
<1>8. /\ FlattenSeq(ss) \in Seq(Steps) /\ Len(FlattenSeq(ss)) = d * 1
      /\ \A j \in 1 .. d : \A c \in 1 .. 1 : FlattenSeq(ss)[(j - 1) * 1 + c] = ss[j][c]
  <2>1. IsFlat(FlattenSeq(ss), Steps, ss, 1)
    BY <1>5, <1>6, <1>7, Flattened, Zenon
  <2> QED
    BY <1>5, <2>1, Zenon DEF IsFlat
<1>12. ASSUME NEW k \in 1 .. d, NEW c \in 1 .. 1
       PROVE  FlattenSeq(ss)[(k - 1) * 1 + c] = AddStep(s[k])[c]
  BY <1>4, <1>8, Zenon
<1>9. Loop(s, AddStep) = FlattenSeq(ss)
  BY DEF Loop, ss
<1>10. ASSUME NEW k \in 1 .. d
       PROVE FlattenSeq(ss)[k] = AddAt(n, a + k)
  <2>1. FlattenSeq(ss)[k] = AddAt(n, a + k)
    <3>1. (k - 1) * 1 + 1 = k /\ 1 \in 1 .. 1
      BY <1>1, SMT
    <3> QED
      BY <1>2, <1>12, <3>1, Zenon
  <2> QED
    BY <2>1
<1>11. d * 1 = d
  BY <1>1, SMT
<1> QED
  BY <1>5, <1>8, <1>9, <1>10, <1>11, Zenon DEF s, d

LEMMA CarryAddLoop ==
    ASSUME NEW n \in Nat, NEW a \in Nat, NEW b \in Nat, a <= b
    PROVE  /\ Loop(Strides(n, a + 1, b), CarryAddStep) \in Seq(Steps)
           /\ Len(Loop(Strides(n, a + 1, b), CarryAddStep)) = 2 * (b - a)
           /\ \A k \in 1 .. b - a :
                  /\ Loop(Strides(n, a + 1, b), CarryAddStep)[2 * k - 1] = CarryAt(n, a + k)
                  /\ Loop(Strides(n, a + 1, b), CarryAddStep)[2 * k] = AddAt(n, a + k)
<1> DEFINE s == Strides(n, a + 1, b)  d == b - a
           ss == [j \in DOMAIN s |-> CarryAddStep(s[j])]
<1>1. d \in Nat /\ s \in Seq([old : Nat, stride : Nat]) /\ Len(s) = d
  <2>1. d \in Nat
    BY SMT
  <2>2. s \in Seq([old : Nat, stride : Nat]) /\ Len(s) = d
    BY StridesAre, Zenon
  <2> QED
    BY <2>1, <2>2
<1>2. ASSUME NEW k \in 1 .. d
      PROVE  /\ CarryAddStep(s[k]) \in Seq(Steps) /\ Len(CarryAddStep(s[k])) = 2
             /\ CarryAddStep(s[k])[1] = CarryAt(n, a + k)
             /\ CarryAddStep(s[k])[2] = AddAt(n, a + k)
  <2> DEFINE j == a + k
  <2>1. j \in Nat \ {0}
    BY <1>1, SMT
  <2>2. s[k] = [old |-> Half(n, j - 1), stride |-> Half(n, j)]
    BY StridesAre, Zenon
  <2> HIDE DEF s, j, d
  <2>3. AddAt(n, j) = AddAt(n, a + k) /\ CarryAt(n, j) = CarryAt(n, a + k)
    BY DEF j
  <2> DEFINE t == s[k]
  <2> HIDE DEF t
  <2>4. t = [old |-> Half(n, j - 1), stride |-> Half(n, j)]
    BY <2>2 DEF t
  <2>5. /\ CarryAddStep(t) \in Seq(Steps) /\ Len(CarryAddStep(t)) = 2
        /\ CarryAddStep(t)[1] = CarryAt(n, j)
        /\ CarryAddStep(t)[2] = AddAt(n, j)
    BY <2>1, <2>4, RoundsAre, SMTT(20)
  <2> QED
    BY <2>3, <2>5, Zenon DEF t
<1>3. DOMAIN s = 1 .. d
  BY <1>1
<1> HIDE DEF s, d
<1>4. ss \in [1 .. d -> Seq(Steps)] /\ \A k \in 1 .. d : ss[k] = CarryAddStep(s[k])
  BY <1>2, <1>3, Zenon
<1> HIDE DEF ss
<1>5. ss \in Seq(Seq(Steps)) /\ Len(ss) = d
  BY <1>1, <1>4, FunctionSeq, Zenon
<1>6. \A k \in 1 .. Len(ss) : Len(ss[k]) = 2
  BY <1>2, <1>4, <1>5, Zenon
<1>7. 2 \in Nat
  BY SMT
<1>8. /\ FlattenSeq(ss) \in Seq(Steps) /\ Len(FlattenSeq(ss)) = d * 2
      /\ \A j \in 1 .. d : \A c \in 1 .. 2 : FlattenSeq(ss)[(j - 1) * 2 + c] = ss[j][c]
  <2>1. IsFlat(FlattenSeq(ss), Steps, ss, 2)
    BY <1>5, <1>6, <1>7, Flattened, Zenon
  <2> QED
    BY <1>5, <2>1, Zenon DEF IsFlat
<1>12. ASSUME NEW k \in 1 .. d, NEW c \in 1 .. 2
       PROVE  FlattenSeq(ss)[(k - 1) * 2 + c] = CarryAddStep(s[k])[c]
  BY <1>4, <1>8, Zenon
<1>9. Loop(s, CarryAddStep) = FlattenSeq(ss)
  BY DEF Loop, ss
<1>10. ASSUME NEW k \in 1 .. d
       PROVE  /\ FlattenSeq(ss)[2 * k - 1] = CarryAt(n, a + k)
              /\ FlattenSeq(ss)[2 * k] = AddAt(n, a + k)
  <2>1. FlattenSeq(ss)[2 * k - 1] = CarryAt(n, a + k)
    <3>1. (k - 1) * 2 + 1 = 2 * k - 1 /\ 1 \in 1 .. 2
      BY <1>1, SMT
    <3> QED
      BY <1>2, <1>12, <3>1, Zenon
  <2>2. FlattenSeq(ss)[2 * k] = AddAt(n, a + k)
    <3>1. (k - 1) * 2 + 2 = 2 * k /\ 2 \in 1 .. 2
      BY <1>1, SMT
    <3> QED
      BY <1>2, <1>12, <3>1, Zenon
  <2> QED
    BY <2>1, <2>2
<1>11. d * 2 = 2 * d
  BY <1>1, SMT
<1> QED
  BY <1>5, <1>8, <1>9, <1>10, <1>11, Zenon DEF s, d

LEMMA SyncAddLoop ==
    ASSUME NEW n \in Nat, NEW a \in Nat, NEW b \in Nat, a <= b
    PROVE  /\ Loop(Strides(n, a + 1, b), SyncAdd) \in Seq(Steps)
           /\ Len(Loop(Strides(n, a + 1, b), SyncAdd)) = 2 * (b - a)
           /\ \A k \in 1 .. b - a :
                  /\ Loop(Strides(n, a + 1, b), SyncAdd)[2 * k - 1] = Simple("barrier")
                  /\ Loop(Strides(n, a + 1, b), SyncAdd)[2 * k] = AddAt(n, a + k)
<1> DEFINE s == Strides(n, a + 1, b)  d == b - a
           ss == [j \in DOMAIN s |-> SyncAdd(s[j])]
<1>1. d \in Nat /\ s \in Seq([old : Nat, stride : Nat]) /\ Len(s) = d
  <2>1. d \in Nat
    BY SMT
  <2>2. s \in Seq([old : Nat, stride : Nat]) /\ Len(s) = d
    BY StridesAre, Zenon
  <2> QED
    BY <2>1, <2>2
<1>2. ASSUME NEW k \in 1 .. d
      PROVE  /\ SyncAdd(s[k]) \in Seq(Steps) /\ Len(SyncAdd(s[k])) = 2
             /\ SyncAdd(s[k])[1] = Simple("barrier")
             /\ SyncAdd(s[k])[2] = AddAt(n, a + k)
  <2> DEFINE j == a + k
  <2>1. j \in Nat \ {0}
    BY <1>1, SMT
  <2>2. s[k] = [old |-> Half(n, j - 1), stride |-> Half(n, j)]
    BY StridesAre, Zenon
  <2> HIDE DEF s, j, d
  <2>3. AddAt(n, j) = AddAt(n, a + k) /\ CarryAt(n, j) = CarryAt(n, a + k)
    BY DEF j
  <2> DEFINE t == s[k]
  <2> HIDE DEF t
  <2>4. t = [old |-> Half(n, j - 1), stride |-> Half(n, j)]
    BY <2>2 DEF t
  <2>5. /\ SyncAdd(t) \in Seq(Steps) /\ Len(SyncAdd(t)) = 2
        /\ SyncAdd(t)[1] = Simple("barrier")
        /\ SyncAdd(t)[2] = AddAt(n, j)
    BY <2>1, <2>4, RoundsAre, SMTT(20)
  <2> QED
    BY <2>3, <2>5, Zenon DEF t
<1>3. DOMAIN s = 1 .. d
  BY <1>1
<1> HIDE DEF s, d
<1>4. ss \in [1 .. d -> Seq(Steps)] /\ \A k \in 1 .. d : ss[k] = SyncAdd(s[k])
  BY <1>2, <1>3, Zenon
<1> HIDE DEF ss
<1>5. ss \in Seq(Seq(Steps)) /\ Len(ss) = d
  BY <1>1, <1>4, FunctionSeq, Zenon
<1>6. \A k \in 1 .. Len(ss) : Len(ss[k]) = 2
  BY <1>2, <1>4, <1>5, Zenon
<1>7. 2 \in Nat
  BY SMT
<1>8. /\ FlattenSeq(ss) \in Seq(Steps) /\ Len(FlattenSeq(ss)) = d * 2
      /\ \A j \in 1 .. d : \A c \in 1 .. 2 : FlattenSeq(ss)[(j - 1) * 2 + c] = ss[j][c]
  <2>1. IsFlat(FlattenSeq(ss), Steps, ss, 2)
    BY <1>5, <1>6, <1>7, Flattened, Zenon
  <2> QED
    BY <1>5, <2>1, Zenon DEF IsFlat
<1>12. ASSUME NEW k \in 1 .. d, NEW c \in 1 .. 2
       PROVE  FlattenSeq(ss)[(k - 1) * 2 + c] = SyncAdd(s[k])[c]
  BY <1>4, <1>8, Zenon
<1>9. Loop(s, SyncAdd) = FlattenSeq(ss)
  BY DEF Loop, ss
<1>10. ASSUME NEW k \in 1 .. d
       PROVE  /\ FlattenSeq(ss)[2 * k - 1] = Simple("barrier")
              /\ FlattenSeq(ss)[2 * k] = AddAt(n, a + k)
  <2>1. FlattenSeq(ss)[2 * k - 1] = Simple("barrier")
    <3>1. (k - 1) * 2 + 1 = 2 * k - 1 /\ 1 \in 1 .. 2
      BY <1>1, SMT
    <3> QED
      BY <1>2, <1>12, <3>1, Zenon
  <2>2. FlattenSeq(ss)[2 * k] = AddAt(n, a + k)
    <3>1. (k - 1) * 2 + 2 = 2 * k /\ 2 \in 1 .. 2
      BY <1>1, SMT
    <3> QED
      BY <1>2, <1>12, <3>1, Zenon
  <2> QED
    BY <2>1, <2>2
<1>11. d * 2 = 2 * d
  BY <1>1, SMT
<1> QED
  BY <1>5, <1>8, <1>9, <1>10, <1>11, Zenon DEF s, d

LEMMA SyncCarryAddLoop ==
    ASSUME NEW n \in Nat, NEW a \in Nat, NEW b \in Nat, a <= b
    PROVE  /\ Loop(Strides(n, a + 1, b), SyncCarryAdd) \in Seq(Steps)
           /\ Len(Loop(Strides(n, a + 1, b), SyncCarryAdd)) = 3 * (b - a)
           /\ \A k \in 1 .. b - a :
                  /\ Loop(Strides(n, a + 1, b), SyncCarryAdd)[3 * k - 2] = Simple("barrier")
                  /\ Loop(Strides(n, a + 1, b), SyncCarryAdd)[3 * k - 1] = CarryAt(n, a + k)
                  /\ Loop(Strides(n, a + 1, b), SyncCarryAdd)[3 * k] = AddAt(n, a + k)
<1> DEFINE s == Strides(n, a + 1, b)  d == b - a
           ss == [j \in DOMAIN s |-> SyncCarryAdd(s[j])]
<1>1. d \in Nat /\ s \in Seq([old : Nat, stride : Nat]) /\ Len(s) = d
  <2>1. d \in Nat
    BY SMT
  <2>2. s \in Seq([old : Nat, stride : Nat]) /\ Len(s) = d
    BY StridesAre, Zenon
  <2> QED
    BY <2>1, <2>2
<1>2. ASSUME NEW k \in 1 .. d
      PROVE  /\ SyncCarryAdd(s[k]) \in Seq(Steps) /\ Len(SyncCarryAdd(s[k])) = 3
             /\ SyncCarryAdd(s[k])[1] = Simple("barrier")
             /\ SyncCarryAdd(s[k])[2] = CarryAt(n, a + k)
             /\ SyncCarryAdd(s[k])[3] = AddAt(n, a + k)
  <2> DEFINE j == a + k
  <2>1. j \in Nat \ {0}
    BY <1>1, SMT
  <2>2. s[k] = [old |-> Half(n, j - 1), stride |-> Half(n, j)]
    BY StridesAre, Zenon
  <2> HIDE DEF s, j, d
  <2>3. AddAt(n, j) = AddAt(n, a + k) /\ CarryAt(n, j) = CarryAt(n, a + k)
    BY DEF j
  <2> DEFINE t == s[k]
  <2> HIDE DEF t
  <2>4. t = [old |-> Half(n, j - 1), stride |-> Half(n, j)]
    BY <2>2 DEF t
  <2>5. /\ SyncCarryAdd(t) \in Seq(Steps) /\ Len(SyncCarryAdd(t)) = 3
        /\ SyncCarryAdd(t)[1] = Simple("barrier")
        /\ SyncCarryAdd(t)[2] = CarryAt(n, j)
        /\ SyncCarryAdd(t)[3] = AddAt(n, j)
    BY <2>1, <2>4, RoundsAre, SMTT(20)
  <2> QED
    BY <2>3, <2>5, Zenon DEF t
<1>3. DOMAIN s = 1 .. d
  BY <1>1
<1> HIDE DEF s, d
<1>4. ss \in [1 .. d -> Seq(Steps)] /\ \A k \in 1 .. d : ss[k] = SyncCarryAdd(s[k])
  BY <1>2, <1>3, Zenon
<1> HIDE DEF ss
<1>5. ss \in Seq(Seq(Steps)) /\ Len(ss) = d
  BY <1>1, <1>4, FunctionSeq, Zenon
<1>6. \A k \in 1 .. Len(ss) : Len(ss[k]) = 3
  BY <1>2, <1>4, <1>5, Zenon
<1>7. 3 \in Nat
  BY SMT
<1>8. /\ FlattenSeq(ss) \in Seq(Steps) /\ Len(FlattenSeq(ss)) = d * 3
      /\ \A j \in 1 .. d : \A c \in 1 .. 3 : FlattenSeq(ss)[(j - 1) * 3 + c] = ss[j][c]
  <2>1. IsFlat(FlattenSeq(ss), Steps, ss, 3)
    BY <1>5, <1>6, <1>7, Flattened, Zenon
  <2> QED
    BY <1>5, <2>1, Zenon DEF IsFlat
<1>12. ASSUME NEW k \in 1 .. d, NEW c \in 1 .. 3
       PROVE  FlattenSeq(ss)[(k - 1) * 3 + c] = SyncCarryAdd(s[k])[c]
  BY <1>4, <1>8, Zenon
<1>9. Loop(s, SyncCarryAdd) = FlattenSeq(ss)
  BY DEF Loop, ss
<1>10. ASSUME NEW k \in 1 .. d
       PROVE  /\ FlattenSeq(ss)[3 * k - 2] = Simple("barrier")
              /\ FlattenSeq(ss)[3 * k - 1] = CarryAt(n, a + k)
              /\ FlattenSeq(ss)[3 * k] = AddAt(n, a + k)
  <2>1. FlattenSeq(ss)[3 * k - 2] = Simple("barrier")
    <3>1. (k - 1) * 3 + 1 = 3 * k - 2 /\ 1 \in 1 .. 3
      BY <1>1, SMT
    <3> QED
      BY <1>2, <1>12, <3>1, Zenon
  <2>2. FlattenSeq(ss)[3 * k - 1] = CarryAt(n, a + k)
    <3>1. (k - 1) * 3 + 2 = 3 * k - 1 /\ 2 \in 1 .. 3
      BY <1>1, SMT
    <3> QED
      BY <1>2, <1>12, <3>1, Zenon
  <2>3. FlattenSeq(ss)[3 * k] = AddAt(n, a + k)
    <3>1. (k - 1) * 3 + 3 = 3 * k /\ 3 \in 1 .. 3
      BY <1>1, SMT
    <3> QED
      BY <1>2, <1>12, <3>1, Zenon
  <2> QED
    BY <2>1, <2>2, <2>3
<1>11. d * 3 = 3 * d
  BY <1>1, SMT
<1> QED
  BY <1>5, <1>8, <1>9, <1>10, <1>11, Zenon DEF s, d

\* u is s with t behind it.
IsJoin(S, u, s, t) ==
    /\ u \in Seq(S) /\ Len(u) = Len(s) + Len(t)
    /\ \A i \in 1 .. Len(s) : u[i] = s[i]
    /\ \A i \in 1 .. Len(t) : u[Len(s) + i] = t[i]

LEMMA Joined ==
    ASSUME NEW S, NEW s \in Seq(S), NEW t \in Seq(S)
    PROVE  s \o t \in Seq(S) /\ IsJoin(S, s \o t, s, t)
<1>1. /\ s \o t \in Seq(S) /\ Len(s \o t) = Len(s) + Len(t)
      /\ \A i \in 1 .. Len(s) + Len(t) : (s \o t)[i] = IF i <= Len(s) THEN s[i] ELSE t[i - Len(s)]
  BY ConcatProperties
<1>2. Len(s) \in Nat /\ Len(t) \in Nat
  OBVIOUS
<1>3. \A i \in 1 .. Len(s) : i \in 1 .. Len(s) + Len(t) /\ i <= Len(s)
  BY <1>2
<1>4. \A i \in 1 .. Len(t) : /\ Len(s) + i \in 1 .. Len(s) + Len(t) /\ ~ (Len(s) + i <= Len(s))
                             /\ (Len(s) + i) - Len(s) = i
  BY <1>2
<1> QED
  BY <1>1, <1>3, <1>4, Zenon DEF IsJoin

\* A program of five parts.
AreParts(p, a, b, c, d, e) ==
    /\ Len(p) = Len(a) + Len(b) + Len(c) + Len(d) + Len(e)
    /\ \A i \in 1 .. Len(a) : p[i] = a[i]
    /\ \A i \in 1 .. Len(b) : p[Len(a) + i] = b[i]
    /\ \A i \in 1 .. Len(c) : p[Len(a) + Len(b) + i] = c[i]
    /\ \A i \in 1 .. Len(d) : p[Len(a) + Len(b) + Len(c) + i] = d[i]
    /\ \A i \in 1 .. Len(e) : p[Len(a) + Len(b) + Len(c) + Len(d) + i] = e[i]

LEMMA FiveParts ==
    ASSUME NEW S, NEW a \in Seq(S), NEW b \in Seq(S), NEW c \in Seq(S), NEW d \in Seq(S),
           NEW e \in Seq(S), NEW p, p = a \o b \o c \o d \o e
    PROVE  p \in Seq(S) /\ AreParts(p, a, b, c, d, e)
<1> DEFINE la == Len(a)  lb == Len(b)  lc == Len(c)  ld == Len(d)  le == Len(e)
<1>1. la \in Nat /\ lb \in Nat /\ lc \in Nat /\ ld \in Nat /\ le \in Nat
  OBVIOUS
<1>2. PICK x, y, z : x = a \o b /\ y = x \o c /\ z = y \o d
  OBVIOUS
<1>3. x \in Seq(S) /\ IsJoin(S, x, a, b)
  BY <1>2, Joined
<1>4. y \in Seq(S) /\ IsJoin(S, y, x, c)
  BY <1>2, <1>3, Joined
<1>5. z \in Seq(S) /\ IsJoin(S, z, y, d)
  BY <1>2, <1>4, Joined
<1>6. p = z \o e
  BY <1>2
<1>8. p \in Seq(S) /\ IsJoin(S, p, z, e)
  BY <1>5, <1>6, Joined
<1> HIDE DEF la, lb, lc, ld, le
<1>7. /\ p \in Seq(S) /\ Len(p) = la + lb + lc + ld + le
      /\ Len(x) = la + lb /\ Len(y) = la + lb + lc /\ Len(z) = la + lb + lc + ld
  BY <1>3, <1>4, <1>5, <1>8, Zenon DEF IsJoin, la, lb, lc, ld, le
<1>9. ASSUME NEW i \in 1 .. la PROVE p[i] = a[i]
  <2>1. i \in 1 .. Len(x) /\ i \in 1 .. Len(y) /\ i \in 1 .. Len(z)
    BY <1>1, <1>7
  <2>2. p[i] = z[i] /\ z[i] = y[i]
    BY <1>5, <1>8, <2>1, Zenon DEF IsJoin
  <2>3. y[i] = x[i]
    BY <1>4, <2>1, Zenon DEF IsJoin
  <2>4. x[i] = a[i]
    BY <1>3, Zenon DEF IsJoin, la
  <2> QED
    BY <2>2, <2>3, <2>4
<1>10. ASSUME NEW i \in 1 .. lb PROVE p[la + i] = b[i]
  <2>1. la + i \in 1 .. Len(x) /\ la + i \in 1 .. Len(y) /\ la + i \in 1 .. Len(z)
    BY <1>1, <1>7
  <2>2. p[la + i] = z[la + i] /\ z[la + i] = y[la + i]
    BY <1>5, <1>8, <2>1, Zenon DEF IsJoin
  <2>3. y[la + i] = x[la + i]
    BY <1>4, <2>1, Zenon DEF IsJoin
  <2>4. x[la + i] = b[i]
    BY <1>3, Zenon DEF IsJoin, la, lb
  <2> QED
    BY <2>2, <2>3, <2>4
<1>11. ASSUME NEW i \in 1 .. lc PROVE p[la + lb + i] = c[i]
  <2>1. Len(x) + i \in 1 .. Len(y) /\ Len(x) + i \in 1 .. Len(z)
    BY <1>1, <1>7
  <2>2. p[Len(x) + i] = z[Len(x) + i] /\ z[Len(x) + i] = y[Len(x) + i]
    BY <1>5, <1>8, <2>1, Zenon DEF IsJoin
  <2>3. y[Len(x) + i] = c[i]
    BY <1>4, Zenon DEF IsJoin, lc
  <2> QED
    BY <1>7, <2>2, <2>3
<1>12. ASSUME NEW i \in 1 .. ld PROVE p[la + lb + lc + i] = d[i]
  <2>1. Len(y) + i \in 1 .. Len(z)
    BY <1>1, <1>7
  <2> QED
    BY <1>5, <1>7, <1>8, <2>1, Zenon DEF IsJoin, la, lb, lc, ld, le
<1>13. ASSUME NEW i \in 1 .. le PROVE p[la + lb + lc + ld + i] = e[i]
  BY <1>7, <1>8, Zenon DEF IsJoin, la, lb, lc, ld, le
<1> QED
  BY <1>7, <1>9, <1>10, <1>11, <1>12, <1>13, Zenon DEF AreParts, la, lb, lc, ld, le

-----------------------------------------------------------------------------
(* Programs.                                                                *)

(* The kernels that add up in rounds differ in whether they carry the item  *)
(* without a partner (c), in how many rounds begin with a barrier (A), and  *)
(* in whether there is a barrier between these and the others (m).          *)

\* Where round j adds, and where its barrier is.
AddPos(c, A, m, j) ==
    IF c THEN IF j <= A THEN 2 + 3 * j ELSE 2 + 3 * A + m + 2 * (j - A)
    ELSE IF j <= A THEN 1 + 2 * j ELSE 1 + 2 * A + m + (j - A)
SyncPos(c, j) == IF c THEN 3 * j ELSE 2 * j

\* Where the barrier behind them is, and the last addition of K.
MidPos(c, A) == IF c THEN 3 + 3 * A ELSE 2 + 2 * A
EndPos(c, A, m, K) == IF c THEN 2 + 3 * A + m + 2 * (K - A) ELSE 1 + 2 * A + m + (K - A)

IsLayout(p, n, c, A, m, K) ==
    /\ p \in Seq(Steps) /\ Len(p) = EndPos(c, A, m, K) + 2
    /\ p[1] = Simple("store")
    /\ c => p[2] = Simple("clear")
    /\ \A j \in 1 .. K : p[AddPos(c, A, m, j)] = AddAt(n, j)
    /\ c => \A j \in 1 .. K : p[AddPos(c, A, m, j) - 1] = CarryAt(n, j)
    /\ \A j \in 1 .. A : p[SyncPos(c, j)] = Simple("barrier")
    /\ m = 1 => p[MidPos(c, A)] = Simple("barrier")
    /\ p[EndPos(c, A, m, K) + 1] = Simple("report")
    /\ p[EndPos(c, A, m, K) + 2] = Simple("barrier")

LEMMA Singles ==
    ASSUME NEW op \in {"store", "clear", "barrier", "report_row", "report_sum", "report"}
    PROVE  Do(op) \in Seq(Steps) /\ Len(Do(op)) = 1 /\ Do(op)[1] = Simple(op)
<1>1. Simple(op) \in Steps
  BY DEF Steps
<1>2. Do(op) = <<Simple(op)>>
  BY DEF Do, Simple
<1> QED
  BY <1>1, <1>2

LEMMA Ends ==
    End \in Seq(Steps) /\ Len(End) = 2 /\ End[1] = Simple("report") /\ End[2] = Simple("barrier")
<1> DEFINE x == Simple("report")  y == Simple("barrier")
<1>1. x \in Steps /\ y \in Steps
  BY DEF Steps
<1>2. End = <<x>> \o <<y>>
  BY DEF End, Do, Simple
<1> HIDE DEF x, y
<1>3. <<x>> \o <<y>> \in Seq(Steps) /\ Len(<<x>> \o <<y>>) = 2
      /\ (<<x>> \o <<y>>)[1] = x /\ (<<x>> \o <<y>>)[2] = y
  BY <1>1, ShortSeqs
<1> QED
  BY <1>2, <1>3 DEF x, y

LEMMA PlainLayout ==
    ASSUME NEW n \in Nat, NEW A \in Nat, NEW K \in Nat, A <= K, NEW m \in {0, 1},
           NEW l1 \in Seq(Steps), Len(l1) = 2 * A,
           \A k \in 1 .. A : l1[2 * k - 1] = Simple("barrier") /\ l1[2 * k] = AddAt(n, k),
           NEW mid \in Seq(Steps), Len(mid) = m, m = 1 => mid[1] = Simple("barrier"),
           NEW l2 \in Seq(Steps), Len(l2) = K - A,
           \A k \in 1 .. K - A : l2[k] = AddAt(n, A + k)
    PROVE  IsLayout(Do("store") \o l1 \o mid \o l2 \o End, n, FALSE, A, m, K)
<1> DEFINE a == Do("store")
<1>1. a \in Seq(Steps) /\ Len(a) = 1 /\ a[1] = Simple("store")
  BY Singles
<1>2. End \in Seq(Steps) /\ Len(End) = 2 /\ End[1] = Simple("report") /\ End[2] = Simple("barrier")
  BY Ends
<1>3. PICK p : p = a \o l1 \o mid \o l2 \o End
  OBVIOUS
<1> HIDE DEF a
<1>4. p \in Seq(Steps) /\ AreParts(p, a, l1, mid, l2, End)
  <2>1. a \in Seq(Steps) /\ End \in Seq(Steps) /\ p = a \o l1 \o mid \o l2 \o End
    BY <1>1, <1>2, <1>3
  <2> QED
    BY <2>1, FiveParts, Zenon
<1>5. /\ p \in Seq(Steps) /\ Len(p) = 1 + 2 * A + m + (K - A) + 2
      /\ \A i \in 1 .. 1 : p[i] = a[i]
      /\ \A i \in 1 .. 2 * A : p[1 + i] = l1[i]
      /\ \A i \in 1 .. m : p[1 + 2 * A + i] = mid[i]
      /\ \A i \in 1 .. K - A : p[1 + 2 * A + m + i] = l2[i]
      /\ \A i \in 1 .. 2 : p[1 + 2 * A + m + (K - A) + i] = End[i]
  BY <1>1, <1>2, <1>4, Zenon DEF AreParts
<1>6. p[1] = Simple("store")
  <2>1. 1 \in 1 .. 1
    BY SMT
  <2> QED
    BY <1>1, <1>5, <2>1, Zenon
<1>7. ASSUME NEW j \in 1 .. A PROVE p[2 * j] = Simple("barrier") /\ p[1 + 2 * j] = AddAt(n, j)
  <2>1. 2 * j - 1 \in 1 .. 2 * A /\ 1 + (2 * j - 1) = 2 * j /\ 2 * j \in 1 .. 2 * A
    BY SMT
  <2>2. p[1 + (2 * j - 1)] = l1[2 * j - 1] /\ p[1 + 2 * j] = l1[2 * j]
    BY <1>5, <2>1, Zenon
  <2> QED
    BY <2>1, <2>2, Zenon
<1>8. ASSUME m = 1 PROVE p[2 + 2 * A] = Simple("barrier")
  <2>1. 1 \in 1 .. m /\ 1 + 2 * A + 1 = 2 + 2 * A
    BY <1>8, SMT
  <2> QED
    BY <1>5, <1>8, <2>1, Zenon
<1>9. ASSUME NEW j \in A + 1 .. K PROVE p[1 + 2 * A + m + (j - A)] = AddAt(n, j)
  <2>1. j - A \in 1 .. K - A /\ A + (j - A) = j
    BY SMT
  <2> QED
    BY <1>5, <2>1, Zenon
<1>10. /\ p[1 + 2 * A + m + (K - A) + 1] = Simple("report")
       /\ p[1 + 2 * A + m + (K - A) + 2] = Simple("barrier")
  <2>1. 1 \in 1 .. 2 /\ 2 \in 1 .. 2
    BY SMT
  <2> QED
    BY <1>2, <1>5, <2>1, Zenon
<1>11. EndPos(FALSE, A, m, K) = 1 + 2 * A + m + (K - A)
  BY DEF EndPos
<1>12. ASSUME NEW j \in 1 .. K PROVE p[AddPos(FALSE, A, m, j)] = AddAt(n, j)
  <2>1. CASE j <= A
    <3>1. j \in 1 .. A /\ AddPos(FALSE, A, m, j) = 1 + 2 * j
      BY <2>1 DEF AddPos
    <3> QED
      BY <1>7, <3>1
  <2>2. CASE ~ (j <= A)
    <3>1. j \in A + 1 .. K /\ AddPos(FALSE, A, m, j) = 1 + 2 * A + m + (j - A)
      BY <2>2 DEF AddPos
    <3> QED
      BY <1>9, <3>1, Zenon
  <2> QED
    BY <2>1, <2>2
<1>13. \A j \in 1 .. A : SyncPos(FALSE, j) = 2 * j
  BY DEF SyncPos
<1>14. MidPos(FALSE, A) = 2 + 2 * A
  BY DEF MidPos
<1>15. IsLayout(p, n, FALSE, A, m, K)
  BY <1>5, <1>6, <1>7, <1>8, <1>10, <1>11, <1>12, <1>13, <1>14, Zenon DEF IsLayout
<1> QED
  BY <1>3, <1>15 DEF a

LEMMA CarryLayout ==
    ASSUME NEW n \in Nat, NEW A \in Nat, NEW K \in Nat, A <= K, NEW m \in {0, 1},
           NEW l1 \in Seq(Steps), Len(l1) = 3 * A,
           \A k \in 1 .. A : /\ l1[3 * k - 2] = Simple("barrier")
                             /\ l1[3 * k - 1] = CarryAt(n, k) /\ l1[3 * k] = AddAt(n, k),
           NEW mid \in Seq(Steps), Len(mid) = m, m = 1 => mid[1] = Simple("barrier"),
           NEW l2 \in Seq(Steps), Len(l2) = 2 * (K - A),
           \A k \in 1 .. K - A : l2[2 * k - 1] = CarryAt(n, A + k) /\ l2[2 * k] = AddAt(n, A + k)
    PROVE  IsLayout(Do("store") \o Do("clear") \o l1 \o mid \o l2 \o End, n, TRUE, A, m, K)
<1> DEFINE x == Simple("store")  y == Simple("clear")
<1>1. x \in Steps /\ y \in Steps /\ Do("store") = <<x>> /\ Do("clear") = <<y>>
  BY DEF Steps, Do, Simple
<1>2. End \in Seq(Steps) /\ Len(End) = 2 /\ End[1] = Simple("report") /\ End[2] = Simple("barrier")
  BY Ends
<1> HIDE DEF x, y
<1>3. PICK a, p : a = <<x>> \o <<y>> /\ p = a \o l1 \o mid \o l2 \o End
  OBVIOUS
<1>16. a \in Seq(Steps) /\ Len(a) = 2 /\ a[1] = x /\ a[2] = y
  BY <1>1, <1>3, ShortSeqs
<1>4. p \in Seq(Steps) /\ AreParts(p, a, l1, mid, l2, End)
  <2>1. a \in Seq(Steps) /\ End \in Seq(Steps) /\ p = a \o l1 \o mid \o l2 \o End
    BY <1>16, <1>2, <1>3
  <2> QED
    BY <2>1, FiveParts, Zenon
<1>5. /\ p \in Seq(Steps) /\ Len(p) = 2 + 3 * A + m + 2 * (K - A) + 2
      /\ \A i \in 1 .. 2 : p[i] = a[i]
      /\ \A i \in 1 .. 3 * A : p[2 + i] = l1[i]
      /\ \A i \in 1 .. m : p[2 + 3 * A + i] = mid[i]
      /\ \A i \in 1 .. 2 * (K - A) : p[2 + 3 * A + m + i] = l2[i]
      /\ \A i \in 1 .. 2 : p[2 + 3 * A + m + 2 * (K - A) + i] = End[i]
  BY <1>16, <1>2, <1>4, Zenon DEF AreParts
<1>6. p[1] = Simple("store") /\ p[2] = Simple("clear")
  <2>1. 1 \in 1 .. 2 /\ 2 \in 1 .. 2
    BY SMT
  <2> QED
    BY <1>16, <1>5, <2>1, Zenon DEF x, y
<1>7. ASSUME NEW j \in 1 .. A
      PROVE  p[3 * j] = Simple("barrier") /\ p[(2 + 3 * j) - 1] = CarryAt(n, j) /\ p[2 + 3 * j] = AddAt(n, j)
  <2>1. /\ 3 * j - 2 \in 1 .. 3 * A /\ 2 + (3 * j - 2) = 3 * j
        /\ 3 * j - 1 \in 1 .. 3 * A /\ 2 + (3 * j - 1) = (2 + 3 * j) - 1
        /\ 3 * j \in 1 .. 3 * A
    BY SMT
  <2>2. /\ p[2 + (3 * j - 2)] = l1[3 * j - 2] /\ p[2 + (3 * j - 1)] = l1[3 * j - 1]
        /\ p[2 + 3 * j] = l1[3 * j]
    BY <1>5, <2>1, Zenon
  <2> QED
    BY <2>1, <2>2, Zenon
<1>8. ASSUME m = 1 PROVE p[3 + 3 * A] = Simple("barrier")
  <2>1. 1 \in 1 .. m /\ 2 + 3 * A + 1 = 3 + 3 * A
    BY <1>8, SMT
  <2> QED
    BY <1>5, <1>8, <2>1, Zenon
<1>9. ASSUME NEW j \in A + 1 .. K
      PROVE  /\ p[(2 + 3 * A + m + 2 * (j - A)) - 1] = CarryAt(n, j)
             /\ p[2 + 3 * A + m + 2 * (j - A)] = AddAt(n, j)
  <2>1. /\ j - A \in 1 .. K - A /\ A + (j - A) = j
        /\ 2 * (j - A) - 1 \in 1 .. 2 * (K - A) /\ 2 * (j - A) \in 1 .. 2 * (K - A)
        /\ 2 + 3 * A + m + (2 * (j - A) - 1) = (2 + 3 * A + m + 2 * (j - A)) - 1
    BY SMT
  <2>2. /\ p[2 + 3 * A + m + (2 * (j - A) - 1)] = l2[2 * (j - A) - 1]
        /\ p[2 + 3 * A + m + 2 * (j - A)] = l2[2 * (j - A)]
    BY <1>5, <2>1, Zenon
  <2> QED
    BY <2>1, <2>2, Zenon
<1>10. /\ p[2 + 3 * A + m + 2 * (K - A) + 1] = Simple("report")
       /\ p[2 + 3 * A + m + 2 * (K - A) + 2] = Simple("barrier")
  <2>1. 1 \in 1 .. 2 /\ 2 \in 1 .. 2
    BY SMT
  <2> QED
    BY <1>2, <1>5, <2>1, Zenon
<1>11. EndPos(TRUE, A, m, K) = 2 + 3 * A + m + 2 * (K - A)
  BY DEF EndPos
<1>12. ASSUME NEW j \in 1 .. K
       PROVE  p[AddPos(TRUE, A, m, j)] = AddAt(n, j) /\ p[AddPos(TRUE, A, m, j) - 1] = CarryAt(n, j)
  <2>1. CASE j <= A
    <3>1. j \in 1 .. A /\ AddPos(TRUE, A, m, j) = 2 + 3 * j
      BY <2>1 DEF AddPos
    <3> QED
      BY <1>7, <3>1
  <2>2. CASE ~ (j <= A)
    <3>1. j \in A + 1 .. K /\ AddPos(TRUE, A, m, j) = 2 + 3 * A + m + 2 * (j - A)
      BY <2>2 DEF AddPos
    <3> QED
      BY <1>9, <3>1, Zenon
  <2> QED
    BY <2>1, <2>2
<1>13. \A j \in 1 .. A : SyncPos(TRUE, j) = 3 * j
  BY DEF SyncPos
<1>14. MidPos(TRUE, A) = 3 + 3 * A
  BY DEF MidPos
<1>15. IsLayout(p, n, TRUE, A, m, K)
  BY <1>5, <1>6, <1>7, <1>8, <1>10, <1>11, <1>12, <1>13, <1>14, Zenon DEF IsLayout
<1> QED
  BY <1>1, <1>3, <1>15

\* The loops of the kernels.
LEMMA WideLoops ==
    ASSUME NEW n \in Nat, NEW b \in Nat
    PROVE  /\ Loop(Strides(n, 1, b), SyncAdd) \in Seq(Steps)
           /\ Len(Loop(Strides(n, 1, b), SyncAdd)) = 2 * b
           /\ \A k \in 1 .. b : /\ Loop(Strides(n, 1, b), SyncAdd)[2 * k - 1] = Simple("barrier")
                                /\ Loop(Strides(n, 1, b), SyncAdd)[2 * k] = AddAt(n, k)
           /\ Loop(Strides(n, 1, b), SyncCarryAdd) \in Seq(Steps)
           /\ Len(Loop(Strides(n, 1, b), SyncCarryAdd)) = 3 * b
           /\ \A k \in 1 .. b : /\ Loop(Strides(n, 1, b), SyncCarryAdd)[3 * k - 2] = Simple("barrier")
                                /\ Loop(Strides(n, 1, b), SyncCarryAdd)[3 * k - 1] = CarryAt(n, k)
                                /\ Loop(Strides(n, 1, b), SyncCarryAdd)[3 * k] = AddAt(n, k)
<1>1. 0 \in Nat /\ 0 <= b /\ 0 + 1 = 1 /\ b - 0 = b /\ \A k \in 1 .. b : 0 + k = k
  BY SMT
<1>2. /\ Loop(Strides(n, 0 + 1, b), SyncAdd) \in Seq(Steps)
      /\ Len(Loop(Strides(n, 0 + 1, b), SyncAdd)) = 2 * (b - 0)
      /\ \A k \in 1 .. b - 0 :
             /\ Loop(Strides(n, 0 + 1, b), SyncAdd)[2 * k - 1] = Simple("barrier")
             /\ Loop(Strides(n, 0 + 1, b), SyncAdd)[2 * k] = AddAt(n, 0 + k)
  BY <1>1, SyncAddLoop, Zenon
<1>3. /\ Loop(Strides(n, 0 + 1, b), SyncCarryAdd) \in Seq(Steps)
      /\ Len(Loop(Strides(n, 0 + 1, b), SyncCarryAdd)) = 3 * (b - 0)
      /\ \A k \in 1 .. b - 0 :
             /\ Loop(Strides(n, 0 + 1, b), SyncCarryAdd)[3 * k - 2] = Simple("barrier")
             /\ Loop(Strides(n, 0 + 1, b), SyncCarryAdd)[3 * k - 1] = CarryAt(n, 0 + k)
             /\ Loop(Strides(n, 0 + 1, b), SyncCarryAdd)[3 * k] = AddAt(n, 0 + k)
  BY <1>1, SyncCarryAddLoop, Zenon
<1> QED
  BY <1>1, <1>2, <1>3, Zenon

LEMMA NoPart ==
    ASSUME NEW S
    PROVE  <<>> \in Seq(S) /\ Len(<<>>) = 0
  OBVIOUS

LEMMA BarrierPart ==
    /\ Do("barrier") \in Seq(Steps) /\ Len(Do("barrier")) = 1
    /\ Do("barrier")[1] = Simple("barrier")
  BY Singles

LEMMA Layout3 ==
    ASSUME NEW n \in Nat \ {0}
    PROVE  IsLayout(single_scan3(n), n, FALSE, Rounds(n), 0, Rounds(n))
<1> DEFINE K == Rounds(n)
<1>1. K \in Nat /\ K <= K /\ K - K = 0 /\ n \in Nat
  BY RoundsEnd
<1>2. PICK l1 : l1 = Loop(All(n), SyncAdd)
  OBVIOUS
<1>3. All(n) = Strides(n, 1, K)
  BY DEF All, Rounds
<1> HIDE DEF K
<1>4. /\ l1 \in Seq(Steps) /\ Len(l1) = 2 * K
      /\ \A k \in 1 .. K : l1[2 * k - 1] = Simple("barrier") /\ l1[2 * k] = AddAt(n, k)
  <2>1. /\ Loop(Strides(n, 1, K), SyncAdd) \in Seq(Steps) /\ Len(Loop(Strides(n, 1, K), SyncAdd)) = 2 * K
        /\ \A k \in 1 .. K : Loop(Strides(n, 1, K), SyncAdd)[2 * k - 1] = Simple("barrier") /\ Loop(Strides(n, 1, K), SyncAdd)[2 * k] = AddAt(n, k)
    BY <1>1, WideLoops, Zenon
  <2> QED
    BY <1>2, <1>3, <2>1
<1>5. Do("store") \in Seq(Steps) /\ End \in Seq(Steps)
  BY Singles, Ends
<1>6. Do("store") \o l1 \in Seq(Steps)
  BY <1>4, <1>5, ConcatProperties
<1>7. Do("store") \o l1 \o <<>> \o <<>> \o End = single_scan3(n)
  BY <1>2, <1>6, ConcatEmptySeq, Zenon DEF single_scan3
<1>8. \A k \in 1 .. K - K : <<>>[k] = AddAt(n, K + k)
  BY <1>1
<1>9. IsLayout(Do("store") \o l1 \o <<>> \o <<>> \o End, n, FALSE, K, 0, K)
  <2>1. 0 \in {0, 1} /\ ~ (0 = 1)
    OBVIOUS
  <2>2. <<>> \in Seq(Steps) /\ Len(<<>>) = 0
    BY NoPart
  <2> QED
    BY <1>1, <1>4, <1>8, <2>1, <2>2, PlainLayout
<1> QED
  BY <1>7, <1>9 DEF K

LEMMA Layout3_16 ==
    ASSUME NEW n \in Nat \ {0}
    PROVE  IsLayout(single_scan3_16(n), n, FALSE, 0, 1, Rounds(n))
<1> DEFINE K == Rounds(n)
<1>1. /\ K \in Nat /\ 0 <= K /\ K - 0 = K /\ n \in Nat /\ 0 \in Nat /\ 2 * 0 = 0 /\ 0 + 1 = 1
      /\ \A k \in 1 .. K : 0 + k = k
  BY RoundsEnd
<1>2. PICK l2 : l2 = Loop(All(n), AddStep)
  OBVIOUS
<1>3. All(n) = Strides(n, 1, K)
  BY DEF All, Rounds
<1> HIDE DEF K
<1>4. l2 \in Seq(Steps) /\ Len(l2) = K - 0 /\ \A k \in 1 .. K - 0 : l2[k] = AddAt(n, 0 + k)
  <2>1. /\ Loop(Strides(n, 0 + 1, K), AddStep) \in Seq(Steps)
        /\ Len(Loop(Strides(n, 0 + 1, K), AddStep)) = K - 0
        /\ \A k \in 1 .. K - 0 : Loop(Strides(n, 0 + 1, K), AddStep)[k] = AddAt(n, 0 + k)
    BY <1>1, AddLoop, Zenon
  <2> QED
    BY <1>1, <1>2, <1>3, <2>1, Zenon
<1>5. Do("store") \in Seq(Steps) /\ End \in Seq(Steps)
  BY Singles, Ends
<1>6. Do("store") \o <<>> \o Do("barrier") \o l2 \o End = single_scan3_16(n)
  BY <1>2, <1>5, ConcatEmptySeq, Zenon DEF single_scan3_16
<1>7. <<>> \in Seq(Steps) /\ Len(<<>>) = 2 * 0 /\ \A k \in 1 .. 0 : FALSE
  BY <1>1, NoPart
<1>8. IsLayout(Do("store") \o <<>> \o Do("barrier") \o l2 \o End, n, FALSE, 0, 1, K)
  BY <1>1, <1>4, <1>7, BarrierPart, PlainLayout
<1> QED
  BY <1>6, <1>8 DEF K

LEMMA Layout4 ==
    ASSUME NEW n \in Nat \ {0}
    PROVE  IsLayout(single_scan4(n), n, TRUE, Rounds(n), 0, Rounds(n))
<1> DEFINE K == Rounds(n)
<1>1. K \in Nat /\ K <= K /\ K - K = 0 /\ 2 * (K - K) = 0 /\ n \in Nat
  BY RoundsEnd
<1>2. PICK l1 : l1 = Loop(All(n), SyncCarryAdd)
  OBVIOUS
<1>3. All(n) = Strides(n, 1, K)
  BY DEF All, Rounds
<1> HIDE DEF K
<1>4. /\ l1 \in Seq(Steps) /\ Len(l1) = 3 * K
      /\ \A k \in 1 .. K : /\ l1[3 * k - 2] = Simple("barrier")
                           /\ l1[3 * k - 1] = CarryAt(n, k) /\ l1[3 * k] = AddAt(n, k)
  <2>1. /\ Loop(Strides(n, 1, K), SyncCarryAdd) \in Seq(Steps) /\ Len(Loop(Strides(n, 1, K), SyncCarryAdd)) = 3 * K
        /\ \A k \in 1 .. K : /\ Loop(Strides(n, 1, K), SyncCarryAdd)[3 * k - 2] = Simple("barrier")
                             /\ Loop(Strides(n, 1, K), SyncCarryAdd)[3 * k - 1] = CarryAt(n, k) /\ Loop(Strides(n, 1, K), SyncCarryAdd)[3 * k] = AddAt(n, k)
    BY <1>1, WideLoops, Zenon
  <2> QED
    BY <1>2, <1>3, <2>1
<1>5. Do("store") \in Seq(Steps) /\ Do("clear") \in Seq(Steps) /\ End \in Seq(Steps)
  BY Singles, Ends
<1>6. Do("store") \o Do("clear") \o l1 \in Seq(Steps)
  <2>1. Do("store") \o Do("clear") \in Seq(Steps)
    BY <1>5, ConcatProperties
  <2> QED
    BY <1>4, <2>1, ConcatProperties
<1>7. Do("store") \o Do("clear") \o l1 \o <<>> \o <<>> \o End = single_scan4(n)
  BY <1>2, <1>6, ConcatEmptySeq, Zenon DEF single_scan4
<1>8. \A k \in 1 .. K - K : FALSE
  BY <1>1
<1>9. IsLayout(Do("store") \o Do("clear") \o l1 \o <<>> \o <<>> \o End, n, TRUE, K, 0, K)
  <2>1. 0 \in {0, 1} /\ ~ (0 = 1)
    OBVIOUS
  <2>2. <<>> \in Seq(Steps) /\ Len(<<>>) = 0
    BY NoPart
  <2> QED
    BY <1>1, <1>4, <1>8, <2>1, <2>2, CarryLayout
<1> QED
  BY <1>7, <1>9 DEF K

LEMMA Layout5 ==
    ASSUME NEW n \in Nat \ {0}
    PROVE  IsLayout(single_scan5(n), n, FALSE, WideRounds(n), 1, Rounds(n))
<1> DEFINE K == Rounds(n)  A == WideRounds(n)
<1>1. K \in Nat /\ A \in Nat /\ A <= K /\ n \in Nat
  BY RoundsEnd
<1>2. PICK l1, l2 : l1 = Loop(Wide(n), SyncAdd) /\ l2 = Loop(Rest(n), AddStep)
  OBVIOUS
<1>3. Wide(n) = Strides(n, 1, A) /\ Rest(n) = Strides(n, A + 1, K)
  BY DEF Wide, Rest, Rounds, WideRounds
<1> HIDE DEF K, A
<1>4. /\ l1 \in Seq(Steps) /\ Len(l1) = 2 * A
      /\ \A k \in 1 .. A : l1[2 * k - 1] = Simple("barrier") /\ l1[2 * k] = AddAt(n, k)
  <2>1. /\ Loop(Strides(n, 1, A), SyncAdd) \in Seq(Steps) /\ Len(Loop(Strides(n, 1, A), SyncAdd)) = 2 * A
        /\ \A k \in 1 .. A : Loop(Strides(n, 1, A), SyncAdd)[2 * k - 1] = Simple("barrier") /\ Loop(Strides(n, 1, A), SyncAdd)[2 * k] = AddAt(n, k)
    BY <1>1, WideLoops, Zenon
  <2> QED
    BY <1>2, <1>3, <2>1
<1>5. l2 \in Seq(Steps) /\ Len(l2) = K - A /\ \A k \in 1 .. K - A : l2[k] = AddAt(n, A + k)
  <2>1. Loop(Strides(n, A + 1, K), AddStep) \in Seq(Steps) /\ Len(Loop(Strides(n, A + 1, K), AddStep)) = K - A /\ \A k \in 1 .. K - A : Loop(Strides(n, A + 1, K), AddStep)[k] = AddAt(n, A + k)
    BY <1>1, AddLoop, Zenon
  <2> QED
    BY <1>2, <1>3, <2>1
<1>6. Do("store") \o l1 \o Do("barrier") \o l2 \o End = single_scan5(n)
  BY <1>2 DEF single_scan5
<1>7. 1 \in {0, 1}
  OBVIOUS
<1>8. IsLayout(Do("store") \o l1 \o Do("barrier") \o l2 \o End, n, FALSE, A, 1, K)
  BY <1>1, <1>4, <1>5, <1>7, BarrierPart, PlainLayout
<1> QED
  BY <1>6, <1>8 DEF K, A

LEMMA Layout6 ==
    ASSUME NEW n \in Nat \ {0}
    PROVE  IsLayout(single_scan6(n), n, TRUE, WideRounds(n), 1, Rounds(n))
<1> DEFINE K == Rounds(n)  A == WideRounds(n)
<1>1. K \in Nat /\ A \in Nat /\ A <= K /\ n \in Nat
  BY RoundsEnd
<1>2. PICK l1, l2 : l1 = Loop(Wide(n), SyncCarryAdd) /\ l2 = Loop(Rest(n), CarryAddStep)
  OBVIOUS
<1>3. Wide(n) = Strides(n, 1, A) /\ Rest(n) = Strides(n, A + 1, K)
  BY DEF Wide, Rest, Rounds, WideRounds
<1> HIDE DEF K, A
<1>4. /\ l1 \in Seq(Steps) /\ Len(l1) = 3 * A
      /\ \A k \in 1 .. A : /\ l1[3 * k - 2] = Simple("barrier")
                           /\ l1[3 * k - 1] = CarryAt(n, k) /\ l1[3 * k] = AddAt(n, k)
  <2>1. /\ Loop(Strides(n, 1, A), SyncCarryAdd) \in Seq(Steps) /\ Len(Loop(Strides(n, 1, A), SyncCarryAdd)) = 3 * A
        /\ \A k \in 1 .. A : /\ Loop(Strides(n, 1, A), SyncCarryAdd)[3 * k - 2] = Simple("barrier")
                             /\ Loop(Strides(n, 1, A), SyncCarryAdd)[3 * k - 1] = CarryAt(n, k) /\ Loop(Strides(n, 1, A), SyncCarryAdd)[3 * k] = AddAt(n, k)
    BY <1>1, WideLoops, Zenon
  <2> QED
    BY <1>2, <1>3, <2>1
<1>5. /\ l2 \in Seq(Steps) /\ Len(l2) = 2 * (K - A)
      /\ \A k \in 1 .. K - A : l2[2 * k - 1] = CarryAt(n, A + k) /\ l2[2 * k] = AddAt(n, A + k)
  <2>1. /\ Loop(Strides(n, A + 1, K), CarryAddStep) \in Seq(Steps) /\ Len(Loop(Strides(n, A + 1, K), CarryAddStep)) = 2 * (K - A)
        /\ \A k \in 1 .. K - A : Loop(Strides(n, A + 1, K), CarryAddStep)[2 * k - 1] = CarryAt(n, A + k) /\ Loop(Strides(n, A + 1, K), CarryAddStep)[2 * k] = AddAt(n, A + k)
    BY <1>1, CarryAddLoop, Zenon
  <2> QED
    BY <1>2, <1>3, <2>1
<1>6. Do("store") \o Do("clear") \o l1 \o Do("barrier") \o l2 \o End = single_scan6(n)
  BY <1>2 DEF single_scan6
<1>7. 1 \in {0, 1}
  OBVIOUS
<1>8. IsLayout(Do("store") \o Do("clear") \o l1 \o Do("barrier") \o l2 \o End, n, TRUE, A, 1, K)
  BY <1>1, <1>4, <1>5, <1>7, BarrierPart, CarryLayout
<1> QED
  BY <1>6, <1>8 DEF K, A

LEMMA Layout5_unroll ==
    ASSUME NEW n \in Nat, n >= 2
    PROVE  IsLayout(single_scan5_unroll(n), n, FALSE, WideRounds(n), 0, Rounds(n))
<1> DEFINE K == Rounds(n)  A == WideRounds(n)
<1>1. K \in Nat /\ A \in Nat /\ A < K /\ K - 1 \in Nat /\ A <= K - 1 /\ Half(n, K) = 1 /\ Iterations(n, 1) = K - 1
  <2>1. /\ Rounds(n) \in Nat /\ WideRounds(n) \in 0 .. Rounds(n)
        /\ Half(n, Rounds(n)) = 1
        /\ Iterations(n, 1) = IF Rounds(n) = 0 THEN 0 ELSE Rounds(n) - 1
        /\ n > 1 => Rounds(n) > 0 /\ WideRounds(n) < Rounds(n)
    BY RoundsEnd
  <2> QED
    BY <2>1
<1>2. PICK l1, u : l1 = Loop(Wide(n), SyncAdd) /\ u = Loop(Narrow(n), AddStep)
  OBVIOUS
<1>3. Wide(n) = Strides(n, 1, A) /\ Narrow(n) = Strides(n, A + 1, K - 1)
  BY <1>1 DEF Wide, Narrow, WideRounds
<1> HIDE DEF K, A
<1>4. /\ l1 \in Seq(Steps) /\ Len(l1) = 2 * A
      /\ \A k \in 1 .. A : l1[2 * k - 1] = Simple("barrier") /\ l1[2 * k] = AddAt(n, k)
  <2>1. /\ Loop(Strides(n, 1, A), SyncAdd) \in Seq(Steps)
        /\ Len(Loop(Strides(n, 1, A), SyncAdd)) = 2 * A
        /\ \A k \in 1 .. A : /\ Loop(Strides(n, 1, A), SyncAdd)[2 * k - 1] = Simple("barrier")
                             /\ Loop(Strides(n, 1, A), SyncAdd)[2 * k] = AddAt(n, k)
    BY <1>1, WideLoops, Zenon
  <2> QED
    BY <1>2, <1>3, <2>1
<1>5. /\ u \in Seq(Steps) /\ Len(u) = (K - 1) - A
      /\ \A k \in 1 .. (K - 1) - A : u[k] = AddAt(n, A + k)
  <2>1. /\ Loop(Strides(n, A + 1, K - 1), AddStep) \in Seq(Steps)
        /\ Len(Loop(Strides(n, A + 1, K - 1), AddStep)) = (K - 1) - A
        /\ \A k \in 1 .. (K - 1) - A : Loop(Strides(n, A + 1, K - 1), AddStep)[k] = AddAt(n, A + k)
    BY <1>1, AddLoop, Zenon
  <2> QED
    BY <1>2, <1>3, <2>1
<1> DEFINE last == AddStep([old |-> 2, stride |-> 1])
<1>6. last \in Seq(Steps) /\ Len(last) = 1 /\ last[1] = AddAt(n, K)
  <2>1. last = <<AddAt(n, K)>>
    BY <1>1 DEF AddStep, AddAt
  <2>2. AddAt(n, K) \in Steps
    BY <1>1 DEF Steps
  <2> HIDE DEF last
  <2> QED
    BY <2>1, <2>2
<1> HIDE DEF last
<1>7. PICK l2 : l2 = u \o last
  OBVIOUS
<1>8. l2 \in Seq(Steps) /\ IsJoin(Steps, l2, u, last)
  BY <1>5, <1>6, <1>7, Joined
<1>9. Len(l2) = K - A /\ \A k \in 1 .. K - A : l2[k] = AddAt(n, A + k)
  <2>1. Len(l2) = (K - 1) - A + 1
    BY <1>5, <1>6, <1>8, Zenon DEF IsJoin
  <2>2. ASSUME NEW k \in 1 .. K - A PROVE l2[k] = AddAt(n, A + k)
    <3>1. CASE k \in 1 .. (K - 1) - A
      BY <1>5, <1>8, <3>1, Zenon DEF IsJoin
    <3>2. CASE k = (K - 1) - A + 1
      <4>1. l2[(K - 1) - A + 1] = last[1]
        <5>1. 1 \in 1 .. 1
          OBVIOUS
        <5> QED
          BY <1>5, <1>6, <1>8, <5>1, Zenon DEF IsJoin
      <4>2. A + k = K
        BY <1>1, <3>2
      <4> QED
        BY <1>6, <3>2, <4>1, <4>2, Zenon
    <3> QED
      BY <1>1, <3>1, <3>2
  <2> QED
    BY <1>1, <2>1, <2>2
<1>10. Do("store") \in Seq(Steps) /\ End \in Seq(Steps)
  BY Singles, Ends
<1>11. PICK a : a = Do("store") \o l1
  OBVIOUS
<1>12. a \in Seq(Steps)
  BY <1>4, <1>10, <1>11, ConcatProperties
<1>13. (a \o u) \o last = a \o l2
  <2>1. u \in Seq(Steps) /\ last \in Seq(Steps)
    BY <1>5, <1>6
  <2>2. (a \o u) \o last = a \o (u \o last)
    BY <1>12, <2>1, ConcatAssociative
  <2> QED
    BY <1>7, <2>2, Zenon
<1>14. a \o <<>> = a
  BY <1>12, ConcatEmptySeq, Zenon
<1>15. Do("store") \o l1 \o <<>> \o l2 \o End = single_scan5_unroll(n)
  <2>1. single_scan5_unroll(n) = ((a \o u) \o last) \o End
    BY <1>2, <1>11, Zenon DEF single_scan5_unroll, last
  <2>2. Do("store") \o l1 \o <<>> \o l2 \o End = ((a \o <<>>) \o l2) \o End
    BY <1>11, Zenon
  <2> QED
    BY <1>13, <1>14, <2>1, <2>2, Zenon
<1>16. <<>> \in Seq(Steps) /\ Len(<<>>) = 0 /\ 0 \in {0, 1} /\ ~ (0 = 1) /\ A <= K
  BY <1>1, NoPart
<1>17. IsLayout(Do("store") \o l1 \o <<>> \o l2 \o End, n, FALSE, A, 0, K)
  BY <1>1, <1>4, <1>8, <1>9, <1>16, PlainLayout
<1> QED
  BY <1>15, <1>17 DEF K, A

\* The rounds a kernel begins with a barrier, and the barriers between them
\* and the others.
Synced(l) == CASE l.kernel \in {"single_scan3", "single_scan4"} -> Rounds(l.local_worksize)
               [] l.kernel = "single_scan3_16" -> 0
               [] OTHER -> WideRounds(l.local_worksize)
Between(l) == IF l.kernel \in {"single_scan3_16", "single_scan5", "single_scan6"} THEN 1 ELSE 0

\* The kernels that add up in rounds.
Adds(l) == l.kernel \in {"single_scan3", "single_scan3_16", "single_scan4", "single_scan5",
                         "single_scan5_unroll", "single_scan6"}

LEMMA ProgramLayout ==
    ASSUME NEW l, WithinLimits(l), Adds(l)
    PROVE  IsLayout(Program(l), l.local_worksize, Carrying(l), Synced(l), Between(l),
                    Rounds(l.local_worksize))
<1> DEFINE n == l.local_worksize
<1>1. n \in Nat \ {0}
  BY DEF WithinLimits
<1>2. CASE l.kernel = "single_scan3"
  <2>1. Program(l) = single_scan3(n) /\ Carrying(l) = FALSE /\ Synced(l) = Rounds(n) /\ Between(l) = 0
    BY <1>2 DEF Program, Carrying, Synced, Between
  <2> QED
    BY <1>1, <2>1, Layout3
<1>3. CASE l.kernel = "single_scan3_16"
  <2>1. Program(l) = single_scan3_16(n) /\ Carrying(l) = FALSE /\ Synced(l) = 0 /\ Between(l) = 1
    BY <1>3 DEF Program, Carrying, Synced, Between
  <2> QED
    BY <1>1, <2>1, Layout3_16
<1>4. CASE l.kernel = "single_scan4"
  <2>1. Program(l) = single_scan4(n) /\ Carrying(l) = TRUE /\ Synced(l) = Rounds(n) /\ Between(l) = 0
    BY <1>4 DEF Program, Carrying, Synced, Between
  <2> QED
    BY <1>1, <2>1, Layout4
<1>5. CASE l.kernel = "single_scan5"
  <2>1. Program(l) = single_scan5(n) /\ Carrying(l) = FALSE /\ Synced(l) = WideRounds(n) /\ Between(l) = 1
    BY <1>5 DEF Program, Carrying, Synced, Between
  <2> QED
    BY <1>1, <2>1, Layout5
<1>6. CASE l.kernel = "single_scan5_unroll"
  <2>1. /\ Program(l) = single_scan5_unroll(n) /\ Carrying(l) = FALSE
        /\ Synced(l) = WideRounds(n) /\ Between(l) = 0
    BY <1>6 DEF Program, Carrying, Synced, Between
  <2>2. n \in Nat /\ n >= 2
    BY <1>6, WarpSizeAssumption DEF WithinLimits
  <2> QED
    BY <2>1, <2>2, Layout5_unroll
<1>7. CASE l.kernel = "single_scan6"
  <2>1. Program(l) = single_scan6(n) /\ Carrying(l) = TRUE /\ Synced(l) = WideRounds(n) /\ Between(l) = 1
    BY <1>7 DEF Program, Carrying, Synced, Between
  <2> QED
    BY <1>1, <2>1, Layout6
<1> QED
  BY <1>2, <1>3, <1>4, <1>5, <1>6, <1>7 DEF Adds

\* Every instruction has its place.
LEMMA Places ==
    ASSUME NEW c \in BOOLEAN, NEW K \in Nat, NEW A \in 0 .. K, NEW m \in {0, 1},
           NEW i \in 1 .. EndPos(c, A, m, K) + 2
    PROVE  \/ i = 1
           \/ c /\ i = 2
           \/ \E j \in 1 .. K : i = AddPos(c, A, m, j)
           \/ c /\ \E j \in 1 .. K : i = AddPos(c, A, m, j) - 1
           \/ \E j \in 1 .. A : i = SyncPos(c, j)
           \/ m = 1 /\ i = MidPos(c, A)
           \/ i = EndPos(c, A, m, K) + 1
           \/ i = EndPos(c, A, m, K) + 2
<1>1. CASE c
  <2>1. EndPos(c, A, m, K) = 2 + 3 * A + m + 2 * (K - A)
    BY <1>1 DEF EndPos
  <2>2. CASE i > 2 /\ i <= 2 + 3 * A
    <3>1. PICK j \in 1 .. A : i = 3 * j \/ i = 3 * j + 1 \/ i = 3 * j + 2
      <4>1. \E j \in 1 .. A : i = 3 * j \/ i = 3 * j + 1 \/ i = 3 * j + 2
        <5> DEFINE q == i \div 3  r == i % 3
        <5>1. i = 3 * q + r /\ q \in Nat /\ r \in 0 .. 2
          BY <2>1
        <5> HIDE DEF q, r
        <5>2. q \in 1 .. A /\ (i = 3 * q \/ i = 3 * q + 1 \/ i = 3 * q + 2)
          BY <2>2, <5>1
        <5> QED
          BY <5>2
      <4> QED
        BY <4>1
    <3>2. j \in 1 .. K /\ AddPos(c, A, m, j) = 2 + 3 * j /\ SyncPos(c, j) = 3 * j
      BY <1>1 DEF AddPos, SyncPos
    <3>3. i = SyncPos(c, j) \/ i = AddPos(c, A, m, j) - 1 \/ i = AddPos(c, A, m, j)
      BY <3>1, <3>2
    <3> QED
      BY <1>1, <3>2, <3>3, Zenon
  <2>3. CASE i > 2 + 3 * A + m /\ i <= 2 + 3 * A + m + 2 * (K - A)
    <3>1. PICK d \in 1 .. K - A : i = 2 + 3 * A + m + 2 * d \/ i = 2 + 3 * A + m + 2 * d - 1
      <4> DEFINE e == i - (2 + 3 * A + m)  q == (e + 1) \div 2
      <4>1. e \in 1 .. 2 * (K - A)
        BY <2>1, <2>3
      <4> HIDE DEF e
      <4>2. q \in 1 .. K - A /\ (e = 2 * q \/ e = 2 * q - 1)
        BY <4>1
      <4> HIDE DEF q
      <4>3. i = 2 + 3 * A + m + 2 * q \/ i = 2 + 3 * A + m + 2 * q - 1
        BY <2>1, <4>2 DEF e
      <4> QED
        BY <4>2, <4>3
    <3> DEFINE j == A + d
    <3>2. j \in 1 .. K /\ ~ (j <= A) /\ j - A = d
      OBVIOUS
    <3>3. AddPos(c, A, m, j) = 2 + 3 * A + m + 2 * d
      BY <1>1, <3>2 DEF AddPos
    <3> HIDE DEF j
    <3>4. i = AddPos(c, A, m, j) \/ i = AddPos(c, A, m, j) - 1
      BY <3>1, <3>3
    <3> QED
      BY <1>1, <3>2, <3>4
  <2>4. MidPos(c, A) = 3 + 3 * A
    BY <1>1 DEF MidPos
  <2>5. \/ i = 1 \/ i = 2 \/ (i > 2 /\ i <= 2 + 3 * A) \/ (m = 1 /\ i = 3 + 3 * A)
        \/ (i > 2 + 3 * A + m /\ i <= 2 + 3 * A + m + 2 * (K - A))
        \/ i = 2 + 3 * A + m + 2 * (K - A) + 1 \/ i = 2 + 3 * A + m + 2 * (K - A) + 2
    <3>1. i \in Nat /\ i >= 1 /\ i <= 2 + 3 * A + m + 2 * (K - A) + 2
      BY <2>1
    <3>2. m = 0 \/ m = 1
      OBVIOUS
    <3> QED
      BY <3>1, <3>2
  <2> QED
    BY <1>1, <2>1, <2>2, <2>3, <2>4, <2>5, Zenon
<1>2. CASE ~c
  <2>1. EndPos(c, A, m, K) = 1 + 2 * A + m + (K - A)
    BY <1>2 DEF EndPos
  <2>2. CASE i > 1 /\ i <= 1 + 2 * A
    <3>1. PICK j \in 1 .. A : i = 2 * j \/ i = 2 * j + 1
      <4> DEFINE q == i \div 2
      <4>1. q \in 1 .. A /\ (i = 2 * q \/ i = 2 * q + 1)
        BY <2>1, <2>2
      <4> HIDE DEF q
      <4> QED
        BY <4>1
    <3>2. j \in 1 .. K /\ AddPos(c, A, m, j) = 1 + 2 * j /\ SyncPos(c, j) = 2 * j
      BY <1>2 DEF AddPos, SyncPos
    <3> QED
      BY <3>1, <3>2
  <2>3. CASE i > 1 + 2 * A + m /\ i <= 1 + 2 * A + m + (K - A)
    <3> DEFINE d == i - (1 + 2 * A + m)  j == A + d
    <3>1. j \in 1 .. K /\ ~ (j <= A) /\ i = 1 + 2 * A + m + (j - A)
      BY <2>1, <2>3
    <3>2. AddPos(c, A, m, j) = 1 + 2 * A + m + (j - A)
      BY <1>2, <3>1 DEF AddPos
    <3> HIDE DEF j
    <3> QED
      BY <3>1, <3>2
  <2>4. MidPos(c, A) = 2 + 2 * A
    BY <1>2 DEF MidPos
  <2> QED
    BY <2>1, <2>2, <2>3, <2>4
<1> QED
  BY <1>1, <1>2

\* An instruction of round r.
OfRound(c, A, m, i, r) == i = AddPos(c, A, m, r) \/ (c /\ i = AddPos(c, A, m, r) - 1)
IsRound(p, n, c, A, m, i, r) ==
    \/ i = AddPos(c, A, m, r) /\ p[i] = AddAt(n, r)
    \/ c /\ i = AddPos(c, A, m, r) - 1 /\ p[i] = CarryAt(n, r)

\* What an instruction is, and where.
IsKnown(p, n, c, A, m, K, i) ==
    \/ i = 1 /\ p[i] = Simple("store")
    \/ c /\ i = 2 /\ p[i] = Simple("clear")
    \/ p[i] = Simple("barrier")
    \/ \E r \in 1 .. K : IsRound(p, n, c, A, m, i, r)
    \/ i = EndPos(c, A, m, K) + 1 /\ p[i] = Simple("report")

\* There is no barrier between i and j.
NoneBetween(c, A, m, i, j) ==
    /\ \A t \in 1 .. A : ~ (i < SyncPos(c, t) /\ SyncPos(c, t) < j)
    /\ m = 1 => ~ (i < MidPos(c, A) /\ MidPos(c, A) < j)

LEMMA Kinds ==
    ASSUME NEW p, NEW n, NEW c \in BOOLEAN, NEW K \in Nat, NEW A \in 0 .. K, NEW m \in {0, 1},
           IsLayout(p, n, c, A, m, K), NEW i \in 1 .. Len(p)
    PROVE  IsKnown(p, n, c, A, m, K, i)
<1>1. Len(p) = EndPos(c, A, m, K) + 2
  BY DEF IsLayout
<1>2. \/ i = 1
      \/ c /\ i = 2
      \/ \E j \in 1 .. K : i = AddPos(c, A, m, j)
      \/ c /\ \E j \in 1 .. K : i = AddPos(c, A, m, j) - 1
      \/ \E j \in 1 .. A : i = SyncPos(c, j)
      \/ m = 1 /\ i = MidPos(c, A)
      \/ i = EndPos(c, A, m, K) + 1
      \/ i = EndPos(c, A, m, K) + 2
  BY <1>1, Places
<1> QED
  BY <1>2, Zenon DEF IsLayout, IsKnown, IsRound

\* Two rounds no barrier separates.
LEMMA SameSegment ==
    ASSUME NEW c \in BOOLEAN, NEW K \in Nat, NEW A \in 0 .. K, NEW m \in {0, 1}, A = K \/ m = 1,
           NEW r \in 1 .. K, NEW s \in 1 .. K, NEW i, NEW j,
           OfRound(c, A, m, i, r), OfRound(c, A, m, j, s),
           NoneBetween(c, A, m, i, j), NoneBetween(c, A, m, j, i)
    PROVE  r = s \/ (r > A /\ s > A)
<1> USE DEF OfRound, NoneBetween
<1>2. ASSUME r < s, r <= A PROVE FALSE
  <2>1. CASE s <= A
    <3>1. s \in 1 .. A /\ i < SyncPos(c, s) /\ SyncPos(c, s) < j
      BY <1>2, <2>1 DEF SyncPos, AddPos
    <3> QED
      BY <3>1
  <2>2. CASE s > A
    <3>1. i < MidPos(c, A) /\ MidPos(c, A) < j /\ m = 1
      BY <1>2, <2>2 DEF MidPos, AddPos
    <3> QED
      BY <3>1
  <2> QED
    BY <2>1, <2>2
<1>3. ASSUME s < r, s <= A PROVE FALSE
  <2>1. CASE r <= A
    <3>1. r \in 1 .. A /\ j < SyncPos(c, r) /\ SyncPos(c, r) < i
      BY <1>3, <2>1 DEF SyncPos, AddPos
    <3> QED
      BY <3>1
  <2>2. CASE r > A
    <3>1. j < MidPos(c, A) /\ MidPos(c, A) < i /\ m = 1
      BY <1>3, <2>2 DEF MidPos, AddPos
    <3> QED
      BY <3>1
  <2> QED
    BY <2>1, <2>2
<1>4. CASE r < s
  <2>1. ~ (r <= A)
    BY <1>2, <1>4
  <2> QED
    BY <1>4, <2>1
<1>5. CASE s < r
  <2>1. ~ (s <= A)
    BY <1>3, <1>5
  <2> QED
    BY <1>5, <2>1
<1>6. r < s \/ s < r \/ r = s
  BY SMT
<1> QED
  BY <1>4, <1>5, <1>6

\* A round no barrier separates from the report.
LEMMA LastSegment ==
    ASSUME NEW c \in BOOLEAN, NEW K \in Nat, NEW A \in 0 .. K, NEW m \in {0, 1}, A = K \/ m = 1,
           NEW r \in 1 .. K, NEW i,
           OfRound(c, A, m, i, r), NoneBetween(c, A, m, i, EndPos(c, A, m, K) + 1)
    PROVE  r > A \/ (r = K /\ A = K)
<1> USE DEF OfRound, NoneBetween
<1>1. ASSUME r <= A, m = 1 PROVE FALSE
  <2>1. i < MidPos(c, A) /\ MidPos(c, A) < EndPos(c, A, m, K) + 1
    BY <1>1 DEF MidPos, AddPos, EndPos
  <2> QED
    BY <1>1, <2>1
<1>2. ASSUME r <= A, m = 0, r # K PROVE FALSE
  <2>1. A = K /\ r + 1 \in 1 .. A
    BY <1>2
  <2>2. i < SyncPos(c, r + 1) /\ SyncPos(c, r + 1) < EndPos(c, A, m, K) + 1
    BY <1>2, <2>1 DEF SyncPos, AddPos, EndPos
  <2> QED
    BY <2>1, <2>2
<1>3. m = 0 \/ m = 1
  OBVIOUS
<1>4. CASE r <= A
  <2>1. m = 0 /\ r = K
    BY <1>1, <1>2, <1>3, <1>4
  <2> QED
    BY <1>4, <2>1
<1>5. CASE ~ (r <= A)
  <2>1. r > A
    BY <1>5, SMT
  <2> QED
    BY <2>1
<1> QED
  BY <1>4, <1>5

\* What no barrier separates from the store at the beginning.
LEMMA FirstSegment ==
    ASSUME NEW c \in BOOLEAN, NEW K \in Nat \ {0}, NEW A \in 0 .. K, NEW m \in {0, 1}, A = K \/ m = 1,
           NEW i \in 1 .. EndPos(c, A, m, K) + 1,
           NoneBetween(c, A, m, 1, i)
    PROVE  /\ i # EndPos(c, A, m, K) + 1
           /\ \A r \in 1 .. K : ~ OfRound(c, A, m, i, r)
<1> USE DEF OfRound, NoneBetween
<1>1. ASSUME NEW r \in 1 .. K, i = EndPos(c, A, m, K) + 1 \/ OfRound(c, A, m, i, r)
      PROVE  FALSE
  <2>1. CASE A # 0
    <3>1. 1 \in 1 .. A /\ 1 < SyncPos(c, 1) /\ SyncPos(c, 1) < i
      BY <1>1, <2>1 DEF SyncPos, AddPos, EndPos
    <3> QED
      BY <3>1
  <2>2. CASE A = 0
    <3>1. m = 1 /\ 1 < MidPos(c, A) /\ MidPos(c, A) < i
      BY <1>1, <2>2 DEF MidPos, AddPos, EndPos
    <3> QED
      BY <3>1
  <2> QED
    BY <2>1, <2>2
<1>2. K \in 1 .. K
  OBVIOUS
<1> QED
  BY <1>1, <1>2

-----------------------------------------------------------------------------
(* What the warps touch.                                                    *)

\* What a warp reads and writes when it executes an instruction.
AddingBy(ins, w) == {i \in Items(w) : i < ins.stride}
CarriesBy(ins, w) == ins.old % 2 = 1 /\ ins.old - 1 \in Items(w)

ReadsBy(ins, w) ==
    CASE ins.op = "add" -> AddingBy(ins, w) \cup {i + ins.stride : i \in AddingBy(ins, w)}
      [] ins.op = "carry" /\ CarriesBy(ins, w) -> {-1, ins.old - 1}
      [] ins.op = "report" /\ 0 \in Items(w) -> {-1, 0}
      [] ins.op = "report_sum" /\ 0 \in Items(w) -> 0 .. launch.bs_len - 1
      [] OTHER -> {}

WritesBy(ins, w) ==
    CASE ins.op = "store" -> Items(w)
      [] ins.op = "add" -> AddingBy(ins, w)
      [] ins.op = "carry" /\ CarriesBy(ins, w) -> {-1}
      [] OTHER -> {}

LEMMA AccessesBy ==
    ASSUME NEW g, NEW w, Busy(g, w)
    PROVE  /\ Reads(g, w) = ReadsBy(Instruction(g, w), w)
           /\ Writes(g, w) = WritesBy(Instruction(g, w), w)
  BY DEF Reads, Writes, ReadsBy, WritesBy, Adding, AddingBy, Carries, CarriesBy

LEMMA ItemFacts ==
    ASSUME NEW l, l = launch, WithinLimits(l), NEW v \in Warps(l), NEW w \in Warps(l)
    PROVE  /\ \A i \in Items(v) : i \in 0 .. l.local_worksize - 1
           /\ \A i \in Items(v) : i \in Items(w) => v = w
           /\ \A i \in Items(v) : i < WarpSize => v = 0
           /\ \A i \in 0 .. l.local_worksize - 1 : i \div WarpSize \in Warps(l) /\ i \in Items(i \div WarpSize)
           /\ v # w => l.local_worksize > WarpSize
<1> DEFINE n == l.local_worksize
<1>1. n \in Nat \ {0} /\ WarpSize \in Nat \ {0}
  BY WarpSizeAssumption DEF WithinLimits
<1>2. \A u : Items(u) = {i \in 0 .. n - 1 : i \div WarpSize = u}
  BY DEF Items
<1>3. v \in 0 .. (n - 1) \div WarpSize /\ w \in 0 .. (n - 1) \div WarpSize
  BY DEF Warps
<1>4. Warps(l) = 0 .. (n - 1) \div WarpSize
  BY DEF Warps
<1> HIDE DEF n
<1>5. \A i \in Nat : i < WarpSize => i \div WarpSize = 0
  BY <1>1
<1>6. ASSUME v # w PROVE n > WarpSize
  <2>1. SUFFICES ASSUME n <= WarpSize PROVE FALSE
    BY <1>1
  <2>2. (n - 1) \div WarpSize = 0
    BY <1>1, <1>5, <2>1
  <2> QED
    BY <1>3, <1>6, <2>2
<1>7. ASSUME NEW i \in 0 .. n - 1 PROVE i \div WarpSize \in 0 .. (n - 1) \div WarpSize
  <2> DEFINE q == i \div WarpSize  r == i % WarpSize  q1 == (n - 1) \div WarpSize  r1 == (n - 1) % WarpSize
  <2>1. PICK W \in Nat \ {0} : W = WarpSize
    BY <1>1
  <2>2. /\ q \in Nat /\ i \div W = q /\ i % W = r /\ (n - 1) \div W = q1 /\ (n - 1) % W = r1
        /\ r \in 0 .. W - 1 /\ q1 \in Nat /\ r1 \in 0 .. W - 1
    BY <1>1, <2>1
  <2>3. i = W * q + r /\ n - 1 = W * q1 + r1
    BY <1>1, <2>1, <2>2
  <2> HIDE DEF q, r, q1, r1
  <2>4. q <= q1
    <3>1. SUFFICES ASSUME q > q1 PROVE FALSE
      BY <2>2
    <3>2. PICK d \in Nat : q = q1 + 1 + d
      <4>1. q - q1 - 1 \in Nat /\ q = q1 + 1 + (q - q1 - 1)
        BY <2>2, <3>1
      <4> QED
        BY <4>1
    <3>3. W * q = W * q1 + W + W * d /\ W * d >= 0
      BY <2>2, <3>2
    <3> DEFINE a == W * q  b == W * q1  e == W * d
    <3>4. a = b + W + e /\ e >= 0 /\ i = a + r /\ n - 1 = b + r1 /\ e \in Int /\ b \in Int
      BY <2>2, <2>3, <3>3
    <3> HIDE DEF a, b, e
    <3> QED
      BY <1>1, <2>2, <3>4
  <2> QED
    BY <2>2, <2>4 DEF q, q1
<1>8. /\ \A i \in Items(v) : i \in 0 .. n - 1
      /\ \A i \in Items(v) : i \in Items(w) => v = w
      /\ \A i \in Items(v) : i < WarpSize => v = 0
  <2>1. ASSUME NEW i \in Items(v) PROVE i \in 0 .. n - 1 /\ i \in Nat /\ v = i \div WarpSize
    BY <1>1, <1>2
  <2>2. \A i \in Items(w) : w = i \div WarpSize
    BY <1>2
  <2> QED
    BY <1>5, <2>1, <2>2, Zenon
<1>9. \A i \in 0 .. n - 1 : i \div WarpSize \in Warps(l) /\ i \in Items(i \div WarpSize)
  BY <1>2, <1>4, <1>7, Zenon
<1> QED
  BY <1>6, <1>8, <1>9, Zenon DEF n

LEMMA SimpleAccesses ==
    ASSUME NEW w
    PROVE  /\ WritesBy(Simple("store"), w) = Items(w) /\ ReadsBy(Simple("store"), w) = {}
           /\ \A op \in {"clear", "barrier", "report_row"} :
                  WritesBy(Simple(op), w) = {} /\ ReadsBy(Simple(op), w) = {}
           /\ WritesBy(Simple("report"), w) = {} /\ WritesBy(Simple("report_sum"), w) = {}
           /\ \A x \in ReadsBy(Simple("report"), w) : x \in {-1, 0} /\ 0 \in Items(w)
<1>1. \A op : Simple(op).op = op
  BY DEF Simple
<1> QED
  BY <1>1 DEF ReadsBy, WritesBy

LEMMA AddAccesses ==
    ASSUME NEW n, NEW r, NEW w
    PROVE  /\ \A x \in WritesBy(AddAt(n, r), w) : x \in Items(w) /\ x < Half(n, r)
           /\ \A x \in ReadsBy(AddAt(n, r), w) :
                  \/ x \in Items(w) /\ x < Half(n, r)
                  \/ \E i \in Items(w) : i < Half(n, r) /\ x = i + Half(n, r)
<1>1. AddAt(n, r).op = "add" /\ AddAt(n, r).stride = Half(n, r)
  BY DEF AddAt
<1> QED
  BY <1>1 DEF ReadsBy, WritesBy, AddingBy

LEMMA CarryAccesses ==
    ASSUME NEW n, NEW r, NEW w
    PROVE  /\ \A x \in WritesBy(CarryAt(n, r), w) :
                  x = -1 /\ Half(n, r - 1) % 2 = 1 /\ Half(n, r - 1) - 1 \in Items(w)
           /\ \A x \in ReadsBy(CarryAt(n, r), w) :
                  x \in {-1, Half(n, r - 1) - 1} /\ Half(n, r - 1) % 2 = 1 /\ Half(n, r - 1) - 1 \in Items(w)
<1>1. CarryAt(n, r).op = "carry" /\ CarryAt(n, r).old = Half(n, r - 1)
  BY DEF CarryAt
<1> QED
  BY <1>1 DEF ReadsBy, WritesBy, CarriesBy

LEMMA RestHas ==
    ASSUME NEW n \in Nat \ {0}, NEW r \in WideRounds(n) + 1 .. Rounds(n)
    PROVE  [old |-> Half(n, r - 1), stride |-> Half(n, r)] \in ToSet(Rest(n))
<1>1. PICK A, K : A = WideRounds(n) /\ K = Rounds(n)
  OBVIOUS
<1>2. A \in Nat /\ K \in Nat /\ A <= K /\ n \in Nat /\ Rest(n) = Strides(n, A + 1, K)
  BY <1>1, RoundsEnd DEF Rest, WideRounds, Rounds
<1>3. PICK k \in 1 .. K - A : A + k = r
  <2>1. r - A \in 1 .. K - A /\ A + (r - A) = r
    BY <1>1, <1>2
  <2> QED
    BY <2>1
<1>4. \A j \in 1 .. K - A : Strides(n, A + 1, K)[j] =
          [old |-> Half(n, (A + j) - 1), stride |-> Half(n, A + j)]
  <2>1. A \in Nat /\ K \in Nat /\ A <= K /\ n \in Nat
    BY <1>2
  <2> QED
    BY <2>1, StridesAre, Zenon
<1>5. Strides(n, A + 1, K)[k] = [old |-> Half(n, (A + k) - 1), stride |-> Half(n, A + k)]
  BY <1>4, Zenon
<1>6. /\ Strides(n, A + 1, K) \in Seq([old : Nat, stride : Nat])
      /\ Len(Strides(n, A + 1, K)) = K - A
  BY <1>2, StridesAre
<1>7. k \in DOMAIN Rest(n)
  BY <1>2, <1>6
<1>8. Rest(n)[k] = [old |-> Half(n, r - 1), stride |-> Half(n, r)]
  BY <1>2, <1>3, <1>5, Zenon
<1>9. Rest(n)[k] \in ToSet(Rest(n))
  BY <1>7 DEF ToSet
<1> QED
  BY <1>8, <1>9, Zenon

\* What the limits mean for the rounds of a kernel that needs several warps.
LEMMA RoundFacts ==
    ASSUME NEW l, WithinLimits(l), Adds(l), NEW n, n = l.local_worksize,
           NEW c, c = Carrying(l), NEW A, A = Synced(l), NEW m, m = Between(l), NEW K, K = Rounds(n)
    PROVE  /\ n \in Nat \ {0} /\ c \in BOOLEAN /\ K \in Nat /\ A \in 0 .. K /\ m \in {0, 1}
           /\ Half(n, 0) = n /\ Half(n, K) = 1
           /\ \A r \in 1 .. K : /\ Half(n, r) \in Nat \ {0} /\ Half(n, r - 1) \in Nat
                                /\ Half(n, r - 1) = 2 * Half(n, r) + (Half(n, r - 1) % 2)
                                /\ Half(n, r - 1) % 2 \in {0, 1}
           /\ c => WarpSize > 2
           /\ n > WarpSize =>
                  /\ K > 0
                  /\ A = K \/ m = 1
                  /\ \A r \in A + 1 .. K : Half(n, r) <= WarpSize
                  /\ c => \A r \in A + 1 .. K : Half(n, r - 1) % 2 = 0 \/ Half(n, r - 1) <= WarpSize
<1>1. n \in Nat \ {0} /\ c \in BOOLEAN /\ m \in {0, 1} /\ (c => WarpSize > 2)
  <2>1. n \in Nat \ {0} /\ m \in {0, 1}
    BY DEF WithinLimits, Between
  <2>2. c \in BOOLEAN
    <3>1. Carrying(l) \in BOOLEAN
      BY DEF Carrying
    <3> QED
      BY <3>1
  <2>3. c => WarpSize > 2
    BY Zenon DEF WithinLimits
  <2> QED
    BY <2>1, <2>2, <2>3
<1>2. /\ K \in Nat /\ WideRounds(n) \in 0 .. K /\ Half(n, 0) = n /\ Half(n, K) = 1
      /\ \A j \in 1 .. K : Half(n, j) \in Nat \ {0}
      /\ \A j \in WideRounds(n) + 1 .. K : Half(n, j) <= WarpSize
      /\ n > 1 => K > 0
  BY <1>1, RoundsEnd
<1>3. A \in 0 .. K
  BY <1>2 DEF Synced
<1>4. ASSUME NEW r \in 1 .. K
      PROVE  /\ Half(n, r) \in Nat \ {0} /\ Half(n, r - 1) \in Nat
             /\ Half(n, r - 1) = 2 * Half(n, r) + (Half(n, r - 1) % 2)
             /\ Half(n, r - 1) % 2 \in {0, 1}
  <2> DEFINE d == r - 1
  <2>1. d \in Nat /\ d + 1 = r
    BY <1>2
  <2> HIDE DEF d
  <2>2. /\ Half(n, d) \in Nat
        /\ Half(n, d) = 2 * Half(n, d + 1) + (IF Half(n, d) % 2 = 1 THEN 1 ELSE 0)
    BY <1>1, <2>1, Halving
  <2> DEFINE a == Half(n, d)  b == Half(n, d + 1)
  <2>3. b \in Nat \ {0} /\ a \in Nat /\ a = 2 * b + (IF a % 2 = 1 THEN 1 ELSE 0)
    BY <1>2, <2>1, <2>2
  <2> HIDE DEF a, b
  <2>4. a = 2 * b + (a % 2) /\ a % 2 \in {0, 1}
    BY <2>3
  <2> QED
    BY <2>1, <2>3, <2>4, Zenon DEF a, b, d
<1>5. ASSUME n > WarpSize
      PROVE  /\ K > 0 /\ (A = K \/ m = 1)
             /\ \A r \in A + 1 .. K : Half(n, r) <= WarpSize
             /\ c => \A r \in A + 1 .. K : Half(n, r - 1) % 2 = 0 \/ Half(n, r - 1) <= WarpSize
  <2>1. K > 0
    BY <1>1, <1>2, <1>5, WarpSizeAssumption
  <2>2. l.kernel \in {"single_scan3", "single_scan4", "single_scan5", "single_scan6"}
    BY <1>1, <1>5, WarpSizeAssumption DEF Adds, WithinLimits
  <2>3. CASE l.kernel \in {"single_scan3", "single_scan4"}
    <3>1. A = K
      BY <2>3 DEF Synced
    <3> QED
      BY <1>2, <2>1, <3>1
  <2>4. CASE l.kernel \in {"single_scan5", "single_scan6"}
    <3>1. A = WideRounds(n) /\ m = 1
      BY <2>4 DEF Synced, Between
    <3>2. ASSUME c, NEW r \in A + 1 .. K
          PROVE  Half(n, r - 1) % 2 = 0 \/ Half(n, r - 1) <= WarpSize
      <4>1. l.kernel = "single_scan6"
        BY <2>4, <3>2 DEF Carrying
      <4>2. \A s \in ToSet(Rest(n)) : s.old % 2 = 0 \/ s.old <= WarpSize
        BY <4>1 DEF WithinLimits
      <4>3. [old |-> Half(n, r - 1), stride |-> Half(n, r)] \in ToSet(Rest(n))
        BY <1>1, <3>1, RestHas
      <4> QED
        BY <4>2, <4>3
    <3> QED
      BY <1>2, <2>1, <3>1, <3>2
  <2> QED
    BY <2>2, <2>3, <2>4
<1> QED
  BY <1>1, <1>2, <1>3, <1>4, <1>5

\* Instructions of one round do not disturb each other.
LEMMA RoundIsFree ==
    ASSUME NEW l, l = launch, WithinLimits(l), NEW v \in Warps(l), NEW w \in Warps(l), v # w,
           NEW n, NEW r, NEW h \in Nat \ {0}, h = Half(n, r), NEW old \in Nat, old = Half(n, r - 1),
           old = 2 * h + (old % 2),
           NEW a \in {AddAt(n, r), CarryAt(n, r)}, NEW b \in {AddAt(n, r), CarryAt(n, r)}
    PROVE  WritesBy(a, v) \cap (ReadsBy(b, w) \cup WritesBy(b, w)) = {}
<1> SUFFICES ASSUME NEW x \in WritesBy(a, v), x \in ReadsBy(b, w) \/ x \in WritesBy(b, w)
             PROVE  FALSE
  OBVIOUS
<1>1. /\ \A i \in Items(v) : i \in Nat /\ (i \in Items(w) => v = w)
      /\ \A i \in Items(w) : i \in Nat
  BY ItemFacts DEF WithinLimits
<1>2. /\ a = AddAt(n, r) => x \in Items(v) /\ x < h
      /\ a = CarryAt(n, r) => x = -1 /\ old % 2 = 1 /\ old - 1 \in Items(v)
  BY AddAccesses, CarryAccesses
<1>3. /\ b = AddAt(n, r) => \/ x \in Items(w) /\ x < h
                            \/ \E i \in Items(w) : i < h /\ x = i + h
      /\ b = CarryAt(n, r) => x \in {-1, old - 1} /\ old % 2 = 1 /\ old - 1 \in Items(w)
  BY AddAccesses, CarryAccesses
<1>4. CASE a = AddAt(n, r)
  <2>1. x \in Items(v) /\ x \in Nat /\ x < h /\ x \notin Items(w)
    BY <1>1, <1>2, <1>4
  <2>2. \A i \in Items(w) : x # i + h
    <3>1. \A i \in Nat : ~ (i + h < h)
      OBVIOUS
    <3> QED
      BY <1>1, <2>1, <3>1
  <2>3. b # AddAt(n, r)
    BY <1>3, <2>1, <2>2, Zenon
  <2>4. (x = old - 1 /\ old - 1 \in Items(w)) \/ x = -1
    BY <1>3, <2>3
  <2> QED
    BY <2>1, <2>4
<1>5. CASE a = CarryAt(n, r)
  <2>1. x = -1 /\ old % 2 = 1 /\ old - 1 \in Items(v)
    BY <1>2, <1>5
  <2>2. \A i \in Items(w) : i # -1 /\ i + h # -1
    BY <1>1
  <2>3. b = CarryAt(n, r)
    BY <1>3, <2>1, <2>2
  <2>4. old - 1 \in Items(w)
    BY <1>3, <2>3
  <2> QED
    BY <1>1, <2>1, <2>4
<1> QED
  BY <1>4, <1>5

\* The rounds that begin without a barrier are those of warp 0.
LEMMA RestIsAlone ==
    ASSUME NEW l, l = launch, WithinLimits(l), NEW w \in Warps(l),
           NEW n, NEW r, NEW h \in Nat \ {0}, h = Half(n, r), NEW old \in Nat, old = Half(n, r - 1),
           NEW a, (a = AddAt(n, r) /\ h <= WarpSize)
                  \/ (a = CarryAt(n, r) /\ (old % 2 = 0 \/ old <= WarpSize)),
           NEW x, x \in ReadsBy(a, w) \/ x \in WritesBy(a, w)
    PROVE  w = 0
<1>1. \A i \in Items(w) : i \in Nat /\ (i < WarpSize => w = 0)
  BY ItemFacts DEF WithinLimits
<1>2. WarpSize \in Nat
  BY WarpSizeAssumption
<1>3. a = AddAt(n, r) => \E i \in Items(w) : i < h
  BY AddAccesses
<1>4. a = CarryAt(n, r) => old % 2 = 1 /\ old - 1 \in Items(w)
  BY CarryAccesses
<1> QED
  BY <1>1, <1>2, <1>3, <1>4

\* No barrier from i to j, or from j to i.
Together(i, j) ==
    \A b \in DOMAIN kernel : kernel[b].op = "barrier" => ~ (i < b /\ b < j) /\ ~ (j < b /\ b < i)

\* Warps that no barrier separates do not disturb each other: kernels that add
\* up in rounds.
LEMMA RoundsAreFree ==
    ASSUME NEW l, l = launch, WithinLimits(l), Adds(l), kernel = Program(l),
           NEW v \in Warps(l), NEW w \in Warps(l), v # w,
           NEW i \in DOMAIN kernel, NEW j \in DOMAIN kernel, Together(i, j)
    PROVE  WritesBy(kernel[i], v) \cap (ReadsBy(kernel[j], w) \cup WritesBy(kernel[j], w)) = {}
<1>1. PICK n, c, A, m, K : /\ n = l.local_worksize /\ c = Carrying(l) /\ A = Synced(l)
                           /\ m = Between(l) /\ K = Rounds(n)
  OBVIOUS
<1>2. /\ n \in Nat \ {0} /\ c \in BOOLEAN /\ K \in Nat /\ A \in 0 .. K /\ m \in {0, 1}
      /\ Half(n, K) = 1
      /\ \A r \in 1 .. K : /\ Half(n, r) \in Nat \ {0} /\ Half(n, r - 1) \in Nat
                           /\ Half(n, r - 1) = 2 * Half(n, r) + (Half(n, r - 1) % 2)
      /\ c => WarpSize > 2
  BY <1>1, RoundFacts
<1>17. c \in BOOLEAN /\ K \in Nat /\ A \in 0 .. K /\ m \in {0, 1}
  BY <1>2
<1>3. n > WarpSize
  BY <1>1, ItemFacts
<1>4. /\ K > 0
      /\ A = K \/ m = 1
      /\ \A r \in A + 1 .. K : Half(n, r) <= WarpSize
      /\ c => \A r \in A + 1 .. K : Half(n, r - 1) % 2 = 0 \/ Half(n, r - 1) <= WarpSize
  BY <1>1, <1>3, RoundFacts
<1>5. IsLayout(kernel, n, c, A, m, K)
  BY <1>1, ProgramLayout
<1>6. WarpSize \in Nat \ {0}
  BY WarpSizeAssumption
<1>7. /\ \A x \in Items(v) : x \in Nat /\ x \notin Items(w) /\ (x < WarpSize => v = 0)
      /\ \A x \in Items(w) : x \in Nat /\ (x < WarpSize => w = 0)
  BY ItemFacts DEF WithinLimits
<1>8. kernel \in Seq(Steps) /\ Len(kernel) = EndPos(c, A, m, K) + 2 /\ DOMAIN kernel = 1 .. Len(kernel)
  BY <1>5 DEF IsLayout
<1>9. EndPos(c, A, m, K) \in Nat
  BY <1>2 DEF EndPos
\* What Together means for the barriers.
<1>10. NoneBetween(c, A, m, i, j) /\ NoneBetween(c, A, m, j, i)
  <2>1. \A t \in 1 .. A : SyncPos(c, t) \in 1 .. EndPos(c, A, m, K) + 2
    BY <1>2 DEF SyncPos, EndPos
  <2>2. m = 1 => MidPos(c, A) \in 1 .. EndPos(c, A, m, K) + 2
    BY <1>2 DEF MidPos, EndPos
  <2>3. Simple("barrier").op = "barrier"
    BY DEF Simple
  <2>4. /\ \A t \in 1 .. A : kernel[SyncPos(c, t)] = Simple("barrier")
        /\ m = 1 => kernel[MidPos(c, A)] = Simple("barrier")
    BY <1>5 DEF IsLayout
  <2>5. /\ \A t \in 1 .. A : SyncPos(c, t) \in DOMAIN kernel /\ kernel[SyncPos(c, t)].op = "barrier"
        /\ m = 1 => MidPos(c, A) \in DOMAIN kernel /\ kernel[MidPos(c, A)].op = "barrier"
    BY <1>8, <2>1, <2>2, <2>3, <2>4
  <2> QED
    BY <2>5 DEF Together, NoneBetween
<1> DEFINE InRound(k, r) == IsRound(kernel, n, c, A, m, k, r)
<1>11. IsKnown(kernel, n, c, A, m, K, i) /\ IsKnown(kernel, n, c, A, m, K, j)
  BY <1>5, <1>8, <1>17, Kinds
<1>18. \A k, r : InRound(k, r) => OfRound(c, A, m, k, r) /\ (kernel[k] = AddAt(n, r) \/ (c /\ kernel[k] = CarryAt(n, r)))
  BY DEF IsRound, OfRound
<1>19. \A r \in 1 .. K : \A k : OfRound(c, A, m, k, r) => k <= EndPos(c, A, m, K) + 1
  BY <1>2 DEF AddPos, EndPos, OfRound
<1> HIDE DEF InRound
<1>12. SUFFICES ASSUME NEW x \in WritesBy(kernel[i], v),
                       x \in ReadsBy(kernel[j], w) \/ x \in WritesBy(kernel[j], w)
                PROVE  FALSE
  OBVIOUS
<1>13. ASSUME NEW k \in DOMAIN kernel, NEW r \in 1 .. K, InRound(k, r), r > A, NEW u \in Warps(l), NEW y,
              y \in ReadsBy(kernel[k], u) \/ y \in WritesBy(kernel[k], u)
       PROVE  u = 0
  <2>1. r \in A + 1 .. K
    BY <1>2, <1>13
  <2>2. Half(n, r) <= WarpSize /\ (c => Half(n, r - 1) % 2 = 0 \/ Half(n, r - 1) <= WarpSize)
    BY <1>4, <2>1
  <2>3. Half(n, r) \in Nat \ {0} /\ Half(n, r - 1) \in Nat
    BY <1>2
  <2>4. \/ kernel[k] = AddAt(n, r) /\ Half(n, r) <= WarpSize
        \/ (kernel[k] = CarryAt(n, r) /\ (Half(n, r - 1) % 2 = 0 \/ Half(n, r - 1) <= WarpSize))
    BY <1>13, <1>18, <2>2, Zenon
  <2> QED
    BY <1>13, <2>3, <2>4, RestIsAlone
<1>14. ASSUME kernel[i] = Simple("store"), i = 1 PROVE FALSE
  <2>1. x \in Items(v)
    BY <1>12, <1>14, SimpleAccesses
  <2>2. CASE kernel[j] = Simple("store")
    BY <1>7, <1>12, <2>1, <2>2, SimpleAccesses
  <2>3. CASE kernel[j] = Simple("clear") \/ kernel[j] = Simple("barrier")
    BY <1>12, <2>3, SimpleAccesses
  <2>4. CASE (\E r \in 1 .. K : InRound(j, r)) \/ j = EndPos(c, A, m, K) + 1
    <3>1. j \in 1 .. EndPos(c, A, m, K) + 1
      BY <1>8, <1>9, <1>18, <1>19, <2>4
    <3>2. NoneBetween(c, A, m, 1, j)
      BY <1>10, <1>14
    <3>3. K \in Nat \ {0} /\ (A = K \/ m = 1)
      BY <1>2, <1>4
    <3>4. /\ j # EndPos(c, A, m, K) + 1
          /\ \A r \in 1 .. K : ~ OfRound(c, A, m, j, r)
      BY <1>17, <3>1, <3>2, <3>3, FirstSegment
    <3> QED
      BY <1>18, <2>4, <3>4
  <2> QED
    BY <1>11, <2>2, <2>3, <2>4 DEF IsKnown, InRound
<1>15. ASSUME NEW r \in 1 .. K, InRound(i, r) PROVE FALSE
  <2>1. CASE kernel[j] = Simple("store") /\ j = 1
    <3>1. i \in 1 .. EndPos(c, A, m, K) + 1
      BY <1>8, <1>9, <1>15, <1>18, <1>19
    <3>2. NoneBetween(c, A, m, 1, i)
      BY <1>10, <2>1
    <3>3. K \in Nat \ {0} /\ (A = K \/ m = 1)
      BY <1>2, <1>4
    <3>4. \A s \in 1 .. K : ~ OfRound(c, A, m, i, s)
      BY <1>17, <3>1, <3>2, <3>3, FirstSegment
    <3> QED
      BY <1>15, <1>18, <3>4
  <2>2. CASE kernel[j] = Simple("clear") \/ kernel[j] = Simple("barrier")
    BY <1>12, <2>2, SimpleAccesses
  <2>3. ASSUME NEW s \in 1 .. K, InRound(j, s) PROVE FALSE
    <3>1. r = s \/ (r > A /\ s > A)
      <4>1. OfRound(c, A, m, i, r) /\ OfRound(c, A, m, j, s)
        BY <1>15, <1>18, <2>3
      <4>2. A = K \/ m = 1
        BY <1>4
      <4> QED
        BY <1>10, <1>17, <4>1, <4>2, SameSegment
    <3>2. CASE r > A /\ s > A
      <4>1. v = 0
        BY <1>13, <1>15, <3>2
      <4>2. w = 0
        BY <1>12, <1>13, <2>3, <3>2
      <4> QED
        BY <4>1, <4>2
    <3>3. CASE r = s
      <4>1. kernel[i] \in {AddAt(n, r), CarryAt(n, r)} /\ kernel[j] \in {AddAt(n, r), CarryAt(n, r)}
        BY <1>15, <1>18, <2>3, <3>3
      <4>2. /\ Half(n, r) \in Nat \ {0} /\ Half(n, r - 1) \in Nat
            /\ Half(n, r - 1) = 2 * Half(n, r) + (Half(n, r - 1) % 2)
        BY <1>2
      <4>3. WritesBy(kernel[i], v) \cap (ReadsBy(kernel[j], w) \cup WritesBy(kernel[j], w)) = {}
        BY <4>1, <4>2, RoundIsFree
      <4> QED
        BY <1>12, <4>3
    <3> QED
      BY <3>1, <3>2, <3>3
  <2>4. CASE j = EndPos(c, A, m, K) + 1 /\ kernel[j] = Simple("report")
    <3>1. x \in {-1, 0} /\ 0 \in Items(w)
      BY <1>12, <2>4, SimpleAccesses
    <3>2. w = 0
      BY <1>6, <1>7, <3>1
    <3>3. r > A \/ (r = K /\ A = K)
      <4>1. OfRound(c, A, m, i, r) /\ NoneBetween(c, A, m, i, EndPos(c, A, m, K) + 1)
        BY <1>10, <1>15, <1>18, <2>4
      <4>2. A = K \/ m = 1
        BY <1>4
      <4> QED
        BY <1>17, <4>1, <4>2, LastSegment
    <3>4. CASE r > A
      <4>1. v = 0
        BY <1>13, <1>15, <3>4
      <4> QED
        BY <3>2, <4>1
    <3>5. CASE r = K
      <4>1. CASE kernel[i] = AddAt(n, r)
        <5>1. x \in Items(v) /\ x < 1
          BY <1>2, <3>5, <4>1, AddAccesses
        <5> QED
          BY <1>6, <1>7, <3>2, <5>1
      <4>2. CASE c /\ kernel[i] = CarryAt(n, r)
        <5>1. Half(n, r - 1) % 2 = 1 /\ Half(n, r - 1) - 1 \in Items(v)
          BY <4>2, CarryAccesses
        <5>2. Half(n, r - 1) - 1 = 2
          BY <1>2, <3>5, <5>1
        <5> QED
          BY <1>2, <1>6, <1>7, <3>2, <4>2, <5>1, <5>2
      <4> QED
        BY <1>15, <1>18, <4>1, <4>2
    <3> QED
      BY <3>3, <3>4, <3>5
  <2> QED
    BY <1>11, <2>1, <2>2, <2>3, <2>4 DEF IsKnown, InRound
<1>16. ASSUME kernel[i] \in {Simple("clear"), Simple("barrier"), Simple("report")} PROVE FALSE
  BY <1>12, <1>16, SimpleAccesses
<1> QED
  BY <1>11, <1>14, <1>15, <1>16 DEF IsKnown, InRound

\* single_scan2, where item 0 adds up alone.
LEMMA Layout2 ==
    /\ single_scan2 \in Seq(Steps) /\ Len(single_scan2) = 4
    /\ single_scan2[1] = Simple("store") /\ single_scan2[2] = Simple("barrier")
    /\ single_scan2[3] = Simple("report_sum") /\ single_scan2[4] = Simple("barrier")
<1>1. PICK a, b, d, e : /\ a = Do("store") /\ b = Do("barrier") /\ d = Do("report_sum")
                        /\ e = <<>>
  OBVIOUS
<1>2. /\ a \in Seq(Steps) /\ Len(a) = 1 /\ a[1] = Simple("store")
      /\ b \in Seq(Steps) /\ Len(b) = 1 /\ b[1] = Simple("barrier")
      /\ d \in Seq(Steps) /\ Len(d) = 1 /\ d[1] = Simple("report_sum")
      /\ e \in Seq(Steps) /\ Len(e) = 0
  BY <1>1, Singles, NoPart
<1>3. a \o b \o d \o b \in Seq(Steps)
  <2>1. a \o b \in Seq(Steps)
    BY <1>2, ConcatProperties
  <2>2. a \o b \o d \in Seq(Steps)
    BY <1>2, <2>1, ConcatProperties
  <2> QED
    BY <1>2, <2>2, ConcatProperties
<1>4. PICK p : p = a \o b \o d \o b \o e
  OBVIOUS
<1>5. p = single_scan2
  BY <1>1, <1>3, <1>4, ConcatEmptySeq, Zenon DEF single_scan2
<1>6. p \in Seq(Steps) /\ AreParts(p, a, b, d, b, e)
  BY <1>2, <1>4, FiveParts, Zenon
<1>7. Len(a) = 1 /\ Len(b) = 1 /\ Len(d) = 1 /\ Len(e) = 0
  BY <1>2
<1>8. Len(p) = 4 /\ p[1] = a[1] /\ p[2] = b[1] /\ p[3] = d[1] /\ p[4] = b[1]
  <2>1. Len(p) = Len(a) + Len(b) + Len(d) + Len(b) + Len(e)
    BY <1>6 DEF AreParts
  <2>2. p[1] = a[1]
    BY <1>6, <1>7 DEF AreParts
  <2>3. p[1 + 1] = b[1]
    BY <1>6, <1>7 DEF AreParts
  <2>4. p[1 + 1 + 1] = d[1]
    BY <1>6, <1>7 DEF AreParts
  <2>5. p[1 + 1 + 1 + 1] = b[1]
    BY <1>6, <1>7 DEF AreParts
  <2> QED
    BY <1>7, <2>1, <2>2, <2>3, <2>4, <2>5
<1> QED
  BY <1>2, <1>5, <1>6, <1>8, Zenon

LEMMA Layout1 ==
    /\ single_scan1 \in Seq(Steps) /\ Len(single_scan1) = 1
    /\ single_scan1[1] = Simple("report_row")
  BY Singles DEF single_scan1

\* What single_scan0 does with its location is what single_scan1 does.
LEMMA SameRow == single_scan0 = single_scan1
  BY DEF single_scan0, single_scan1

LEMMA KernelKinds ==
    ASSUME NEW l, WithinLimits(l)
    PROVE  \/ Alone(l) /\ Program(l) = single_scan1 /\ l.local_worksize = 1
           \/ ~ Alone(l) /\ l.kernel = "single_scan2" /\ Program(l) = single_scan2
           \/ ~ Alone(l) /\ Adds(l)
<1>1. CASE l.kernel \in {"single_scan0", "single_scan1"}
  <2>1. Program(l) = single_scan1
    BY <1>1, SameRow DEF Program
  <2> QED
    BY <1>1, <2>1 DEF WithinLimits, Alone
<1>2. CASE l.kernel = "single_scan2"
  BY <1>2 DEF Program, Alone
<1>3. CASE Adds(l)
  BY <1>3 DEF Adds, Alone
<1> QED
  BY <1>1, <1>2, <1>3 DEF WithinLimits, Kernels, Adds

\* Warps that no barrier separates do not disturb each other.
LEMMA NoConflict ==
    ASSUME NEW l, l = launch, WithinLimits(l), kernel = Program(l),
           NEW v \in Warps(l), NEW w \in Warps(l), v # w,
           NEW i \in DOMAIN kernel, NEW j \in DOMAIN kernel, Together(i, j)
    PROVE  WritesBy(kernel[i], v) \cap (ReadsBy(kernel[j], w) \cup WritesBy(kernel[j], w)) = {}
<1>1. CASE Alone(l) /\ l.local_worksize = 1
  <2>1. l.local_worksize > WarpSize
    BY ItemFacts
  <2> QED
    BY <1>1, <2>1, WarpSizeAssumption
<1>2. CASE Program(l) = single_scan2
  <2>1. /\ DOMAIN kernel = 1 .. 4 /\ kernel[1] = Simple("store") /\ kernel[2] = Simple("barrier")
        /\ kernel[3] = Simple("report_sum") /\ kernel[4] = Simple("barrier")
    BY <1>2, Layout2
  <2>2. kernel[2].op = "barrier"
    BY <2>1 DEF Simple
  <2>3. ~ (i = 1 /\ j = 3)
    BY <2>1, <2>2 DEF Together
  <2>4. i \in 1 .. 4 /\ j \in 1 .. 4
    BY <2>1
  <2>5. CASE i = 1
    <3>1. WritesBy(kernel[i], v) = Items(v)
      BY <2>1, <2>5, SimpleAccesses
    <3>2. ReadsBy(kernel[j], w) \cup WritesBy(kernel[j], w) \in {Items(w), {}}
      BY <2>1, <2>3, <2>4, <2>5, SimpleAccesses
    <3>3. Items(v) \cap Items(w) = {}
      BY ItemFacts
    <3> QED
      BY <3>1, <3>2, <3>3
  <2>6. CASE i # 1
    <3>1. WritesBy(kernel[i], v) = {}
      BY <2>1, <2>4, <2>6, SimpleAccesses
    <3> QED
      BY <3>1
  <2> QED
    BY <2>5, <2>6
<1>3. CASE Adds(l)
  BY <1>3, RoundsAreFree
<1> QED
  BY <1>1, <1>2, <1>3, KernelKinds

\* Where a kernel reports, and that all but those whose items are alone end
\* with a barrier.
ReportPos(l) == IF Alone(l) THEN 1 ELSE Len(Program(l)) - 1

LEMMA ProgramFacts ==
    ASSUME NEW l, WithinLimits(l)
    PROVE  /\ Program(l) \in Seq(Steps) /\ Len(Program(l)) \in Nat \ {0}
           /\ DOMAIN Program(l) = 1 .. Len(Program(l))
           /\ Alone(l) => Len(Program(l)) = 1
           /\ ~ Alone(l) => Len(Program(l)) > 2 /\ Program(l)[Len(Program(l))] = Simple("barrier")
           /\ ReportPos(l) \in DOMAIN Program(l)
           /\ \A i \in DOMAIN Program(l) :
                  Program(l)[i].op \in {"report_row", "report_sum", "report"} <=> i = ReportPos(l)
<1>1. /\ \A op : Simple(op).op = op
      /\ \A n, r : AddAt(n, r).op = "add" /\ CarryAt(n, r).op = "carry"
  BY DEF Simple, AddAt, CarryAt
<1>2. CASE Alone(l) /\ Program(l) = single_scan1
  BY <1>1, <1>2, Layout1 DEF ReportPos
<1>3. CASE ~ Alone(l) /\ Program(l) = single_scan2
  <2>1. /\ Program(l) \in Seq(Steps) /\ Len(Program(l)) = 4 /\ DOMAIN Program(l) = 1 .. 4
        /\ Program(l)[1].op = "store" /\ Program(l)[2].op = "barrier"
        /\ Program(l)[3].op = "report_sum" /\ Program(l)[4].op = "barrier"
        /\ Program(l)[4] = Simple("barrier")
    BY <1>1, <1>3, Layout2
  <2>2. ReportPos(l) = 3
    BY <1>3, <2>1 DEF ReportPos
  <2>3. \A i \in 1 .. 4 : i = 1 \/ i = 2 \/ i = 3 \/ i = 4
    OBVIOUS
  <2> QED
    BY <1>3, <2>1, <2>2, <2>3
<1>4. CASE ~ Alone(l) /\ Adds(l)
  <2>1. PICK n, c, A, m, K : /\ n = l.local_worksize /\ c = Carrying(l) /\ A = Synced(l)
                             /\ m = Between(l) /\ K = Rounds(n)
    OBVIOUS
  <2>2. c \in BOOLEAN /\ K \in Nat /\ A \in 0 .. K /\ m \in {0, 1}
    BY <1>4, <2>1, RoundFacts
  <2>3. PICK p : p = Program(l)
    OBVIOUS
  <2>4. IsLayout(p, n, c, A, m, K)
    BY <1>4, <2>1, <2>3, ProgramLayout
  <2>5. EndPos(c, A, m, K) \in Nat \ {0}
    BY <2>2 DEF EndPos
  <2>6. /\ p \in Seq(Steps) /\ Len(p) = EndPos(c, A, m, K) + 2 /\ DOMAIN p = 1 .. Len(p)
        /\ p[EndPos(c, A, m, K) + 1] = Simple("report")
        /\ p[EndPos(c, A, m, K) + 2] = Simple("barrier")
    BY <2>4 DEF IsLayout
  <2>7. ReportPos(l) = EndPos(c, A, m, K) + 1
    BY <1>4, <2>3, <2>5, <2>6 DEF ReportPos
  <2>8. ASSUME NEW i \in DOMAIN p
        PROVE  p[i].op \in {"report_row", "report_sum", "report"} <=> i = ReportPos(l)
    <3>1. IsKnown(p, n, c, A, m, K, i)
      BY <2>2, <2>4, <2>6, Kinds
    <3> QED
      BY <1>1, <2>6, <2>7, <3>1 DEF IsKnown, IsRound
  <2>9. /\ Len(p) \in Nat \ {0} /\ Len(p) > 2 /\ p[Len(p)] = Simple("barrier")
        /\ ReportPos(l) \in DOMAIN p
    BY <2>5, <2>6, <2>7
  <2> QED
    BY <1>4, <2>3, <2>6, <2>8, <2>9
<1> QED
  BY <1>2, <1>3, <1>4, KernelKinds

-----------------------------------------------------------------------------
(* The barriers are enough.                                                 *)

\* Every warp of a running kernel is at one of its instructions.
Placed ==
    /\ mpc \in {"idle", "running", "returned"}
    /\ launch \in Launches
    /\ kernel = Program(launch)
    /\ mpc = "running" =>
           at \in [Groups(launch) -> [Warps(launch) -> [id : Nat, pc : 1 .. Len(kernel)]]]
    /\ mpc # "running" => at = <<>>

\* No barrier separates the places of two warps of a group, and a warp that
\* has begun with the next location has left the others at the last barrier.
InStep ==
    mpc = "running" /\ ~ Alone(launch) =>
        \A g \in Groups(launch) : \A v, w \in Warps(launch) :
            /\ at[g][v].id = at[g][w].id =>
                   \A b \in DOMAIN kernel :
                       kernel[b].op = "barrier" /\ b < at[g][v].pc => b <= at[g][w].pc
            /\ at[g][w].id < at[g][v].id =>
                   /\ at[g][w].pc = Len(kernel)
                   /\ at[g][v].id = at[g][w].id + launch.num_groups
                   /\ \A b \in DOMAIN kernel : kernel[b].op = "barrier" => ~ (b < at[g][v].pc)

LEMMA SizeFacts ==
    ASSUME NEW l, WithinLimits(l)
    PROVE  /\ l.num_groups \in Nat \ {0} /\ l.local_worksize \in Nat \ {0} /\ l.bs_len \in Nat
           /\ Groups(l) = 0 .. l.num_groups - 1
           /\ 0 \in Warps(l) /\ \A w \in Warps(l) : w \in Nat
           /\ Alone(l) => \A w \in Warps(l) : w = 0
           /\ \E k \in Nat : Warps(l) = 0 .. k
<1>1. l.num_groups \in Nat \ {0} /\ l.local_worksize \in Nat \ {0} /\ l.bs_len \in Nat
  BY DEF WithinLimits
<1>2. PICK n \in Nat \ {0}, W \in Nat \ {0} : n = l.local_worksize /\ W = WarpSize
  BY <1>1, WarpSizeAssumption
<1>3. (n - 1) \div W \in Nat
  BY SMT
<1>4. Warps(l) = 0 .. (n - 1) \div W
  BY <1>2 DEF Warps
<1>5. Alone(l) => n = 1
  BY <1>2 DEF WithinLimits
<1>6. n = 1 => (n - 1) \div W = 0
  BY SMT
<1> QED
  BY <1>1, <1>3, <1>4, <1>5, <1>6 DEF Groups

\* A launch within the limits visits the locations in steps of num_groups, with
\* single_scan0, too, whose work items are as many as the locations.
LEMMA AdvanceIs ==
    ASSUME NEW l, WithinLimits(l)
    PROVE  Advance(l) = l.num_groups
  BY DEF Advance, WithinLimits

\* What executing an instruction does.
Moves(g, w, op) ==
    /\ mpc = "running" /\ g \in Groups(launch) /\ w \in Warps(launch)
    /\ kernel[at[g][w].pc].op = op /\ at[g][w].id \in Locations
    /\ at[g][w].pc \in 1 .. Len(kernel) /\ at[g][w].id \in Nat
    /\ at' \in [Groups(launch) -> [Warps(launch) -> [id : Nat, pc : 1 .. Len(kernel)]]]
    /\ at'[g][w] = IF at[g][w].pc < Len(kernel)
                      THEN [id |-> at[g][w].id, pc |-> at[g][w].pc + 1]
                      ELSE [id |-> at[g][w].id + launch.num_groups, pc |-> 1]
    /\ \A h \in Groups(launch) : \A v \in Warps(launch) : h # g \/ v # w => at'[h][v] = at[h][v]

LEMMA Executes ==
    ASSUME Placed, WithinLimits(launch), NEW g, NEW w, NEW op, Execute(g, w, op)
    PROVE  Moves(g, w, op)
<1> DEFINE R == [id : Nat, pc : 1 .. Len(kernel)]
           G == Groups(launch)  V == Warps(launch)
<1>1. mpc = "running" /\ at \in [G -> [V -> R]]
  BY DEF Execute, Placed
<1>2. g \in G /\ w \in V /\ at[g][w].id < Sample
  BY <1>1 DEF Execute, Busy
<1>3. kernel[at[g][w].pc].op = op
  BY DEF Execute, Instruction
<1>4. launch.num_groups \in Nat /\ Len(kernel) \in Nat \ {0}
  BY ProgramFacts, SizeFacts DEF Placed
<1>5. PICK x \in R : x = at[g][w]
  BY <1>1, <1>2
<1>6. x.id \in Nat /\ x.pc \in 1 .. Len(kernel) /\ x = [id |-> x.id, pc |-> x.pc]
  BY <1>5
<1> DEFINE y == IF x.pc < Len(kernel) THEN [id |-> x.id, pc |-> x.pc + 1]
                ELSE [id |-> x.id + launch.num_groups, pc |-> 1]
<1>8. y \in R
  BY <1>4, <1>6
<1>9. at' = [at EXCEPT ![g][w] = y]
  BY <1>5, AdvanceIs DEF Execute
<1> HIDE DEF R, G, V, y
<1>10. at' = [at EXCEPT ![g] = [at[g] EXCEPT ![w] = y]]
  BY <1>9
<1>11. /\ at' \in [G -> [V -> R]] /\ at'[g][w] = y
       /\ \A h \in G : \A v \in V : h # g \/ v # w => at'[h][v] = at[h][v]
  BY <1>1, <1>2, <1>8, <1>10
<1>12. at[g][w].id \in Locations
  BY <1>2, <1>5, <1>6, SampleAssumption DEF Locations
<1> QED
  BY <1>1, <1>2, <1>3, <1>5, <1>6, <1>11, <1>12 DEF R, G, V, y, Moves

\* Every step of a warp executes an instruction and leaves the launch alone;
\* at a barrier it finds no other warp behind.
LEMMA Steppings ==
    ASSUME NEW g, NEW w, Step(g, w)
    PROVE  /\ UNCHANGED <<mpc, launch, kernel, popcount>>
           /\ \E op : /\ Execute(g, w, op)
                      /\ op = "barrier" =>
                             \A v \in DOMAIN at[g] :
                                 \/ at[g][v].id > at[g][w].id
                                 \/ at[g][v].id = at[g][w].id /\ at[g][v].pc >= at[g][w].pc
<1>1. CASE Store(g, w)
  BY <1>1 DEF Store
<1>2. CASE Clear(g, w)
  BY <1>2 DEF Clear
<1>3. CASE Carry(g, w)
  BY <1>3 DEF Carry
<1>4. CASE Add(g, w)
  BY <1>4 DEF Add
<1>5. CASE Report(g, w)
  BY <1>5 DEF Report
<1>6. CASE Barrier(g, w)
  BY <1>6 DEF Barrier
<1> QED
  BY <1>1, <1>2, <1>3, <1>4, <1>5, <1>6 DEF Step

LEMMA PlacedInit ==
    Init => Placed /\ InStep
  BY DEF Init, Placed, InStep

LEMMA CallPlaces ==
    ASSUME \A l \in Launches : WithinLimits(l), Call
    PROVE  Placed' /\ InStep'
<1>1. /\ mpc' = "running" /\ launch' \in Launches /\ kernel' = Program(launch')
      /\ at' = [g \in Groups(launch') |-> [w \in Warps(launch') |-> [id |-> g, pc |-> 1]]]
  BY DEF Call
<1>2. Len(kernel') \in Nat \ {0} /\ DOMAIN kernel' = 1 .. Len(kernel')
  BY <1>1, ProgramFacts
<1>3. \A g \in Groups(launch') : g \in Nat
  BY <1>1, SizeFacts
<1>4. at' \in [Groups(launch') -> [Warps(launch') -> [id : Nat, pc : 1 .. Len(kernel')]]]
  <2>1. \A g \in Groups(launch') : [id |-> g, pc |-> 1] \in [id : Nat, pc : 1 .. Len(kernel')]
    BY <1>2, <1>3
  <2> QED
    BY <1>1, <2>1
<1>5. \A g \in Groups(launch') : \A w \in Warps(launch') : at'[g][w].id = g /\ at'[g][w].pc = 1
  BY <1>1
<1>6. Placed'
  BY <1>1, <1>4 DEF Placed
<1>7. InStep'
  <2>1. \A b \in DOMAIN kernel' : ~ (b < 1)
    BY <1>2
  <2> QED
    BY <1>3, <1>5, <2>1 DEF InStep
<1> QED
  BY <1>6, <1>7

LEMMA StepPlaces ==
    ASSUME \A l \in Launches : WithinLimits(l), Placed, InStep, NEW g, NEW w, Step(g, w)
    PROVE  Placed' /\ InStep'
<1>1. UNCHANGED <<mpc, launch, kernel, popcount>>
  BY Steppings
<1>2. PICK op : /\ Execute(g, w, op)
                /\ op = "barrier" =>
                       \A v \in DOMAIN at[g] :
                           \/ at[g][v].id > at[g][w].id
                           \/ at[g][v].id = at[g][w].id /\ at[g][v].pc >= at[g][w].pc
  BY Steppings
<1>3. WithinLimits(launch)
  BY DEF Placed
<1>4. /\ mpc = "running" /\ g \in Groups(launch) /\ w \in Warps(launch)
      /\ kernel[at[g][w].pc].op = op
      /\ at[g][w].pc \in 1 .. Len(kernel) /\ at[g][w].id \in Nat
      /\ at' \in [Groups(launch) -> [Warps(launch) -> [id : Nat, pc : 1 .. Len(kernel)]]]
      /\ at'[g][w] = IF at[g][w].pc < Len(kernel)
                        THEN [id |-> at[g][w].id, pc |-> at[g][w].pc + 1]
                        ELSE [id |-> at[g][w].id + launch.num_groups, pc |-> 1]
      /\ \A h \in Groups(launch) : \A v \in Warps(launch) : h # g \/ v # w => at'[h][v] = at[h][v]
  BY <1>2, <1>3, Executes DEF Moves
<1>5. Placed'
  BY <1>1, <1>4 DEF Placed
<1>6. InStep'
  <2>1. SUFFICES ASSUME ~ Alone(launch) PROVE InStep'
    BY <1>1 DEF InStep
  <2>2. /\ Len(kernel) \in Nat \ {0} /\ DOMAIN kernel = 1 .. Len(kernel)
        /\ Len(kernel) > 2 /\ kernel[Len(kernel)].op = "barrier"
    BY <1>3, <2>1, ProgramFacts DEF Placed, Simple
  <2>3. launch.num_groups \in Nat \ {0}
    BY <1>3, SizeFacts
  <2>4. \A h \in Groups(launch) : \A v \in Warps(launch) :
            /\ at[h][v].id \in Nat /\ at[h][v].pc \in 1 .. Len(kernel)
            /\ at'[h][v].id \in Nat /\ at'[h][v].pc \in 1 .. Len(kernel)
    BY <1>4 DEF Placed
  <2> DEFINE Ok(x, y) ==
        /\ x.id = y.id => \A b \in DOMAIN kernel : kernel[b].op = "barrier" /\ b < x.pc => b <= y.pc
        /\ y.id < x.id => /\ y.pc = Len(kernel) /\ x.id = y.id + launch.num_groups
                          /\ \A b \in DOMAIN kernel : kernel[b].op = "barrier" => ~ (b < x.pc)
  <2>5. \A h \in Groups(launch) : \A u, v \in Warps(launch) : Ok(at[h][u], at[h][v])
    BY <1>4, <2>1 DEF InStep
  <2>6. \A v \in Warps(launch) : op = "barrier" =>
            \/ at[g][v].id > at[g][w].id
            \/ at[g][v].id = at[g][w].id /\ at[g][v].pc >= at[g][w].pc
    BY <1>2, <1>4 DEF Placed
  <2>7. ASSUME NEW v \in Warps(launch), v # w
        PROVE  Ok(at'[g][w], at'[g][v]) /\ Ok(at'[g][v], at'[g][w])
    <3>1. at'[g][v] = at[g][v]
      BY <1>4, <2>7
    <3>2. PICK x, y, z : x = at[g][w] /\ y = at[g][v] /\ z = at'[g][w]
      OBVIOUS
    <3>3. /\ x.id \in Nat /\ x.pc \in 1 .. Len(kernel) /\ y.id \in Nat /\ y.pc \in 1 .. Len(kernel)
          /\ z = IF x.pc < Len(kernel) THEN [id |-> x.id, pc |-> x.pc + 1]
                 ELSE [id |-> x.id + launch.num_groups, pc |-> 1]
          /\ kernel[x.pc].op = op
          /\ op = "barrier" => y.id > x.id \/ (y.id = x.id /\ y.pc >= x.pc)
      BY <1>4, <2>4, <2>6, <3>2
    <3>4. Ok(x, y) /\ Ok(y, x)
      BY <1>4, <2>5, <3>2
    <3>5. Ok(z, y) /\ Ok(y, z)
      <4>1. CASE x.pc < Len(kernel)
        <5>1. z.id = x.id /\ z.pc = x.pc + 1
          BY <3>3, <4>1
        <5>2. CASE op # "barrier"
          <6>1. \A b \in DOMAIN kernel : kernel[b].op = "barrier" => (b < z.pc <=> b < x.pc)
            BY <2>2, <3>3, <5>1, <5>2
          <6> QED
            BY <2>2, <3>3, <3>4, <4>1, <5>1, <6>1
        <5>3. CASE op = "barrier"
          <6>1. ~ (y.id > x.id)
            BY <3>4, <4>1
          <6>2. y.id = x.id /\ y.pc >= x.pc
            BY <3>3, <5>3, <6>1
          <6> QED
            BY <2>2, <3>3, <3>4, <5>1, <6>2
        <5> QED
          BY <5>2, <5>3
      <4>2. CASE x.pc = Len(kernel)
        <5>1. op = "barrier" /\ z.id = x.id + launch.num_groups /\ z.pc = 1
          BY <2>2, <3>3, <4>2
        <5>2. \A b \in DOMAIN kernel : ~ (b < 1)
          BY <2>2
        <5>3. CASE y.id > x.id
          BY <2>3, <3>3, <3>4, <5>1, <5>2, <5>3
        <5>4. CASE y.id = x.id /\ y.pc >= x.pc
          BY <2>3, <3>3, <3>4, <4>2, <5>1, <5>2, <5>4
        <5> QED
          BY <3>3, <5>1, <5>3, <5>4
      <4> QED
        BY <3>3, <4>1, <4>2
    <3> QED
      BY <3>1, <3>2, <3>5
  <2>8. \A h \in Groups(launch) : \A v \in Warps(launch) : Ok(at'[h][v], at'[h][v])
    BY <2>2, <2>4
  <2>9. \A h \in Groups(launch) : \A u, v \in Warps(launch) : Ok(at'[h][u], at'[h][v])
    <3>1. ASSUME NEW h \in Groups(launch), NEW u \in Warps(launch), NEW v \in Warps(launch)
          PROVE  Ok(at'[h][u], at'[h][v])
      <4> HIDE DEF Ok
      <4>1. CASE u = v
        BY <2>8, <4>1
      <4>2. CASE u # v /\ h = g /\ (u = w \/ v = w)
        BY <2>7, <4>2
      <4>3. CASE h # g \/ (u # w /\ v # w)
        <5>1. at'[h][u] = at[h][u] /\ at'[h][v] = at[h][v]
          BY <1>4, <4>3
        <5> QED
          BY <2>5, <5>1
      <4> QED
        BY <4>1, <4>2, <4>3
    <3> QED
      BY <3>1
  <2> QED
    BY <1>1, <2>9 DEF InStep
<1> QED
  BY <1>5, <1>6

LEMMA ReturnPlaces ==
    ASSUME Placed, Return
    PROVE  Placed' /\ InStep'
  BY DEF Placed, InStep, Return

LEMMA PlacesKept ==
    ASSUME \A l \in Launches : WithinLimits(l), Placed, InStep, [Next]_vars
    PROVE  Placed' /\ InStep'
<1>1. CASE Call
  BY <1>1, CallPlaces
<1>2. CASE Return
  BY <1>2, ReturnPlaces
<1>3. ASSUME NEW g \in DOMAIN at, NEW w \in DOMAIN at[g], Step(g, w) PROVE Placed' /\ InStep'
  BY <1>3, StepPlaces
<1>4. CASE UNCHANGED vars
  BY <1>4 DEF vars, Placed, InStep
<1> QED
  BY <1>1, <1>2, <1>3, <1>4 DEF Next, Run

\* The invariant says enough of the warps.
LEMMA InStepIsFree ==
    ASSUME \A l \in Launches : WithinLimits(l), Placed, InStep
    PROVE  NoRace
<1> SUFFICES ASSUME NEW g \in DOMAIN at, NEW v \in DOMAIN at[g], NEW w \in DOMAIN at[g], v # w
             PROVE  Writes(g, v) \cap (Reads(g, w) \cup Writes(g, w)) = {}
  BY DEF NoRace
<1>1. WithinLimits(launch) /\ kernel = Program(launch)
  BY DEF Placed
<1>2. /\ mpc = "running" /\ g \in Groups(launch) /\ v \in Warps(launch) /\ w \in Warps(launch)
      /\ \A u \in Warps(launch) : at[g][u].id \in Nat /\ at[g][u].pc \in 1 .. Len(kernel)
  BY DEF Placed
<1>3. ~ Alone(launch)
  BY <1>1, <1>2, SizeFacts
<1>4. /\ DOMAIN kernel = 1 .. Len(kernel) /\ Len(kernel) \in Nat
      /\ kernel[Len(kernel)] = Simple("barrier")
  BY <1>1, <1>3, ProgramFacts
<1> DEFINE i == at[g][v].pc  j == at[g][w].pc
<1>5. CASE Busy(g, v) /\ Busy(g, w)
  <2>1. /\ Writes(g, v) = WritesBy(kernel[i], v)
        /\ Reads(g, w) = ReadsBy(kernel[j], w) /\ Writes(g, w) = WritesBy(kernel[j], w)
    BY <1>5, AccessesBy DEF Instruction
  <2>2. CASE at[g][v].id = at[g][w].id
    <3>1. Together(i, j)
      <4>1. \A b \in DOMAIN kernel : kernel[b].op = "barrier" => (b < i => b <= j) /\ (b < j => b <= i)
        BY <1>2, <1>3, <2>2 DEF InStep
      <4> QED
        BY <1>2, <1>4, <4>1 DEF Together
    <3>2. i \in DOMAIN kernel /\ j \in DOMAIN kernel
      BY <1>2, <1>4
    <3> HIDE DEF i, j
    <3> QED
      BY <1>1, <1>2, <2>1, <3>1, <3>2, NoConflict
  <2>3. CASE at[g][w].id < at[g][v].id
    <3>1. j = Len(kernel)
      BY <1>2, <1>3, <2>3 DEF InStep
    <3> QED
      BY <1>4, <2>1, <3>1, SimpleAccesses
  <2>4. CASE at[g][v].id < at[g][w].id
    <3>1. i = Len(kernel)
      BY <1>2, <1>3, <2>4 DEF InStep
    <3> QED
      BY <1>4, <2>1, <3>1, SimpleAccesses
  <2> QED
    BY <1>2, <2>2, <2>3, <2>4
<1>6. CASE ~ (Busy(g, v) /\ Busy(g, w))
  BY <1>6 DEF Reads, Writes
<1> QED
  BY <1>5, <1>6

\* Whatever the sizes of the device and of the kernel, no warp touches a cell
\* of local memory that another one writes, if the kernel is used within its
\* limits: the barriers of scanner_opencl2.cl are enough.
THEOREM BarriersAreEnough ==
    ASSUME \A l \in Launches : WithinLimits(l)
    PROVE  Spec => []NoRace
<1>1. Init => Placed /\ InStep
  BY PlacedInit
<1>2. Placed /\ InStep /\ [Next]_vars => (Placed /\ InStep)'
  BY PlacesKept
<1>3. Placed /\ InStep => NoRace
  BY InStepIsFree
<1> QED
  BY <1>1, <1>2, <1>3, PTL DEF Spec

-----------------------------------------------------------------------------
(* Types, and selected_buf.                                                 *)

\* What the instructions of a kernel ask of local memory.
LEMMA InstructionFacts ==
    ASSUME NEW l, WithinLimits(l), NEW i \in DOMAIN Program(l)
    PROVE  /\ Program(l)[i].op = "add" =>
                  Program(l)[i].stride \in Nat /\ 2 * Program(l)[i].stride <= l.local_worksize
           /\ Program(l)[i].op = "carry" =>
                  Program(l)[i].old \in Nat /\ Program(l)[i].old <= l.local_worksize
<1>1. /\ \A op : Simple(op).op = op
      /\ \A n, r : /\ AddAt(n, r).op = "add" /\ CarryAt(n, r).op = "carry"
                   /\ AddAt(n, r).stride = Half(n, r) /\ CarryAt(n, r).old = Half(n, r - 1)
  BY DEF Simple, AddAt, CarryAt
<1>2. CASE Program(l) = single_scan1
  BY <1>1, <1>2, Layout1
<1>3. CASE Program(l) = single_scan2
  <2>1. Program(l)[i].op \in {"store", "barrier", "report_sum"}
    <3>1. i \in 1 .. 4
      BY <1>3, Layout2
    <3>2. i = 1 \/ i = 2 \/ i = 3 \/ i = 4
      BY <3>1
    <3> QED
      BY <1>1, <1>3, <3>2, Layout2
  <2> QED
    BY <2>1
<1>4. CASE Adds(l)
  <2>1. PICK n, c, A, m, K, p : /\ n = l.local_worksize /\ c = Carrying(l) /\ A = Synced(l)
                                /\ m = Between(l) /\ K = Rounds(n) /\ p = Program(l)
    OBVIOUS
  <2>2. /\ n \in Nat \ {0} /\ c \in BOOLEAN /\ K \in Nat /\ A \in 0 .. K /\ m \in {0, 1}
        /\ Half(n, 0) = n
    BY <1>4, <2>1, RoundFacts
  <2>3. \A r \in 1 .. K : /\ Half(n, r) \in Nat /\ Half(n, r - 1) \in Nat
                          /\ Half(n, r - 1) = 2 * Half(n, r) + (Half(n, r - 1) % 2)
                          /\ Half(n, r - 1) % 2 \in {0, 1}
    BY <1>4, <2>1, RoundFacts
  <2>4. \A r \in 1 .. K : Half(n, r - 1) <= n
    <3>1. ASSUME NEW r \in 1 .. K PROVE Half(n, r - 1) <= n
      <4>1. r - 1 \in Nat /\ 0 \in Nat /\ 0 <= r - 1 /\ n \in Nat
        BY <2>2
      <4> QED
        BY <2>2, <4>1, HalvesShrink
    <3> QED
      BY <3>1
  <2>5. \A r \in 1 .. K : 2 * Half(n, r) <= n
    <3>1. ASSUME NEW r \in 1 .. K PROVE 2 * Half(n, r) <= n
      <4>1. PICK a, b, d : a = Half(n, r - 1) /\ b = Half(n, r) /\ d = Half(n, r - 1) % 2
        OBVIOUS
      <4>2. a \in Nat /\ b \in Nat /\ d \in {0, 1} /\ a = 2 * b + d /\ a <= n
        BY <2>3, <2>4, <4>1
      <4>3. 2 * b <= n
        BY <2>2, <4>2
      <4> QED
        BY <4>1, <4>3
    <3> QED
      BY <3>1
  <2>6. IsKnown(p, n, c, A, m, K, i)
    <3>1. IsLayout(p, n, c, A, m, K)
      BY <1>4, <2>1, ProgramLayout
    <3>2. i \in 1 .. Len(p)
      BY <2>1, ProgramFacts
    <3> QED
      BY <2>2, <3>1, <3>2, Kinds
  <2>7. \/ p[i].op \in {"store", "clear", "barrier", "report"}
        \/ \E r \in 1 .. K : p[i] = AddAt(n, r) \/ p[i] = CarryAt(n, r)
    BY <1>1, <2>6 DEF IsKnown, IsRound
  <2>8. CASE p[i].op \in {"store", "clear", "barrier", "report"}
    BY <2>1, <2>8
  <2>9. ASSUME NEW r \in 1 .. K, p[i] = AddAt(n, r) \/ p[i] = CarryAt(n, r)
        PROVE  /\ p[i].op = "add" => p[i].stride \in Nat /\ 2 * p[i].stride <= n
               /\ p[i].op = "carry" => p[i].old \in Nat /\ p[i].old <= n
    BY <1>1, <2>3, <2>4, <2>5, <2>9
  <2> QED
    BY <2>1, <2>7, <2>8, <2>9
<1> QED
  BY <1>2, <1>3, <1>4, KernelKinds

\* A location its group is done with.
Past(x) ==
    \/ x < at[x % launch.num_groups][0].id
    \/ x = at[x % launch.num_groups][0].id /\ at[x % launch.num_groups][0].pc > ReportPos(launch)

\* Local memory holds numbers.
DataOK ==
    /\ popcount \in [Locations -> [0 .. launch.bs_len - 1 -> Nat]]
    /\ mpc = "running" =>
           /\ partial_dist \in [Groups(launch) -> [0 .. launch.local_worksize -> Nat]]
           /\ extra \in [Groups(launch) -> Nat]
    /\ mpc # "running" => partial_dist = <<>> /\ extra = <<>>

\* Every group visits locations of its own, and a location is selected at most
\* once, when its group is done with it.
SelectedOK ==
    /\ selected \in Seq(Locations)
    /\ \A j, k \in 1 .. Len(selected) : selected[j] = selected[k] => j = k
    /\ mpc = "running" =>
           /\ \A g \in Groups(launch) : \A w \in Warps(launch) :
                  at[g][w].id % launch.num_groups = g
           /\ \A k \in 1 .. Len(selected) : Past(selected[k])

LEMMA DataInit ==
    ASSUME \A l \in Launches : WithinLimits(l), Init
    PROVE  DataOK /\ SelectedOK
<1>1. /\ mpc = "idle" /\ partial_dist = <<>> /\ extra = <<>> /\ selected = <<>>
      /\ popcount = [l \in Locations |-> [j \in 0 .. launch.bs_len - 1 |-> 0]]
  BY DEF Init
<1>2. popcount \in [Locations -> [0 .. launch.bs_len - 1 -> Nat]]
  BY <1>1
<1> QED
  BY <1>1, <1>2 DEF DataOK, SelectedOK

LEMMA CallData ==
    ASSUME \A l \in Launches : WithinLimits(l), Call
    PROVE  DataOK' /\ SelectedOK'
<1>1. /\ mpc' = "running" /\ launch' \in Launches /\ selected' = <<>>
      /\ at' = [g \in Groups(launch') |-> [w \in Warps(launch') |-> [id |-> g, pc |-> 1]]]
      /\ partial_dist' = [g \in Groups(launch') |-> [i \in 0 .. launch'.local_worksize |-> Garbage]]
      /\ extra' = [g \in Groups(launch') |-> Garbage]
      /\ popcount' \in [Locations -> {row \in [0 .. launch'.bs_len - 1 -> Counts] : SumFunction(row) <= MaxDistance}]
  BY DEF Call
<1>2. Garbage \in Nat
  BY DEF Garbage
<1>3. popcount' \in [Locations -> [0 .. launch'.bs_len - 1 -> Nat]]
  BY <1>1, CountsAssumption
<1>4. /\ partial_dist' \in [Groups(launch') -> [0 .. launch'.local_worksize -> Nat]]
      /\ extra' \in [Groups(launch') -> Nat]
  BY <1>1, <1>2
<1>5. DataOK'
  BY <1>1, <1>3, <1>4 DEF DataOK
<1>6. ASSUME NEW g \in Groups(launch'), NEW w \in Warps(launch')
      PROVE  at'[g][w].id % launch'.num_groups = g
  <2>1. PICK G \in Nat \ {0} : G = launch'.num_groups /\ g \in 0 .. G - 1
    BY <1>1, SizeFacts
  <2>2. at'[g][w].id = g
    BY <1>1
  <2>3. g % G = g
    BY <2>1
  <2> QED
    BY <2>1, <2>2, <2>3
<1> QED
  BY <1>1, <1>5, <1>6 DEF SelectedOK

\* Adding the number of groups to a location stays within the group.
LEMMA SameGroup ==
    ASSUME NEW G \in Nat \ {0}, NEW x \in Nat
    PROVE  (x + G) % G = x % G /\ x % G \in 0 .. G - 1
<1>1. x % G \in 0 .. G - 1
  OBVIOUS
<1>2. (x + G) % G = x % G
  <2>1. PICK q, r : q = x \div G /\ r = x % G
    OBVIOUS
  <2>2. PICK q1, r1 : q1 = (x + G) \div G /\ r1 = (x + G) % G
    OBVIOUS
  <2>3. q \in Nat /\ r \in 0 .. G - 1 /\ q1 \in Nat /\ r1 \in 0 .. G - 1
    BY <2>1, <2>2
  <2>4. x = G * q + r /\ x + G = G * q1 + r1
    BY <2>1, <2>2
  <2>5. PICK e \in Int : e = q1 - q - 1
    BY <2>3
  <2>6. G * e = r - r1
    <3>1. q1 = q + 1 + e
      BY <2>3, <2>5
    <3>2. G * q1 = G * q + G + G * e
      BY <2>3, <2>5, <3>1
    <3>3. PICK a, b, d \in Int : a = G * q1 /\ b = G * q /\ d = G * e
      BY <2>3
    <3> QED
      BY <2>3, <2>4, <3>2, <3>3
  <2>7. e = 0
    <3>1. ASSUME e >= 1 PROVE FALSE
      <4>1. G * e >= G
        BY <3>1
      <4> QED
        BY <2>3, <2>6, <4>1
    <3>2. ASSUME e <= -1 PROVE FALSE
      <4>1. G * e <= -G
        BY <3>2
      <4> QED
        BY <2>3, <2>6, <4>1
    <3> QED
      BY <3>1, <3>2
  <2>8. r = r1
    BY <2>3, <2>6, <2>7
  <2> QED
    BY <2>1, <2>2, <2>8
<1> QED
  BY <1>1, <1>2

\* Between two numbers with the same remainder lies a multiple.
LEMMA NextInGroup ==
    ASSUME NEW G \in Nat \ {0}, NEW x \in Nat, NEW z \in Nat, x < z, z % G = x % G
    PROVE  x + G <= z
<1>1. PICK q, r : q = x \div G /\ r = x % G
  OBVIOUS
<1>2. PICK s : s = z \div G
  OBVIOUS
<1>3. q \in Nat /\ s \in Nat /\ r \in 0 .. G - 1
  BY <1>1, <1>2
<1>4. x = G * q + r /\ z = G * s + r
  BY <1>1, <1>2
<1>5. PICK e \in Int : e = s - q - 1
  BY <1>3
<1>6. s = q + 1 + e
  BY <1>3, <1>5
<1>7. G * s = G * q + G + G * e
  BY <1>3, <1>5, <1>6
<1>8. PICK a, b, d \in Int : a = G * s /\ b = G * q /\ d = G * e
  BY <1>3
<1>9. e >= 0
  <2>1. SUFFICES ASSUME e <= -1 PROVE FALSE
    OBVIOUS
  <2>2. G * e <= -G
    BY <2>1
  <2> QED
    BY <1>3, <1>4, <1>7, <1>8, <2>2
<1>10. d >= 0
  <2>1. G * e >= 0
    BY <1>9
  <2> QED
    BY <1>8, <2>1
<1> QED
  BY <1>3, <1>4, <1>7, <1>8, <1>10

\* A warp that executes an instruction stays with the locations of its group;
\* what is past remains so, and reporting a location makes it past, and only
\* that one.
LEMMA PastMoves ==
    ASSUME Placed, SelectedOK, WithinLimits(launch), NEW g, NEW w, NEW op, Execute(g, w, op),
           UNCHANGED <<mpc, launch, kernel>>
    PROVE  /\ \A h \in Groups(launch) : \A v \in Warps(launch) : at'[h][v].id % launch.num_groups = h
           /\ \A x \in Locations : Past(x) => Past(x)'
           /\ w = 0 /\ at[g][w].pc = ReportPos(launch) =>
                  \A x \in {at[g][w].id} : ~ Past(x) /\ Past(x)'
           /\ \A x \in Locations :
                  Past(x)' => Past(x) \/ (w = 0 /\ at[g][w].pc = ReportPos(launch) /\ x = at[g][w].id)
<1>1. /\ mpc = "running" /\ g \in Groups(launch) /\ w \in Warps(launch)
      /\ kernel[at[g][w].pc].op = op /\ at[g][w].id \in Locations
      /\ at[g][w].pc \in 1 .. Len(kernel) /\ at[g][w].id \in Nat
      /\ at' \in [Groups(launch) -> [Warps(launch) -> [id : Nat, pc : 1 .. Len(kernel)]]]
      /\ at'[g][w] = IF at[g][w].pc < Len(kernel)
                        THEN [id |-> at[g][w].id, pc |-> at[g][w].pc + 1]
                        ELSE [id |-> at[g][w].id + launch.num_groups, pc |-> 1]
      /\ \A h \in Groups(launch) : \A v \in Warps(launch) : h # g \/ v # w => at'[h][v] = at[h][v]
  <2>1. Moves(g, w, op)
    BY Executes
  <2> QED
    BY <2>1 DEF Moves
<1>2. PICK G, N, R, x, y : /\ G = launch.num_groups /\ N = Len(kernel) /\ R = ReportPos(launch)
                           /\ x = at[g][w] /\ y = at'[g][w]
  OBVIOUS
<1>3. G \in Nat \ {0} /\ Groups(launch) = 0 .. G - 1 /\ 0 \in Warps(launch)
  BY <1>2, SizeFacts
<1>4. N \in Nat \ {0} /\ R \in 1 .. N /\ (N = R => N = 1)
  <2>1. kernel = Program(launch)
    BY DEF Placed
  <2>2. /\ Len(kernel) \in Nat \ {0} /\ DOMAIN kernel = 1 .. Len(kernel)
        /\ Alone(launch) => Len(kernel) = 1
        /\ ReportPos(launch) \in DOMAIN kernel
    BY <2>1, ProgramFacts
  <2>3. ~ Alone(launch) => ReportPos(launch) = Len(kernel) - 1
    BY <2>1 DEF ReportPos
  <2> QED
    BY <1>2, <2>2, <2>3
<1>5. /\ x.id \in Nat /\ x.pc \in 1 .. N
      /\ x.pc < N => y.id = x.id /\ y.pc = x.pc + 1
      /\ x.pc = N => y.id = x.id + G /\ y.pc = 1
  BY <1>1, <1>2
<1>6. \A h \in Groups(launch) : \A v \in Warps(launch) : at[h][v].id % G = h
  BY <1>1, <1>2 DEF SelectedOK
<1>7. y.id % G = g
  <2>1. x.id % G = g
    BY <1>1, <1>2, <1>6
  <2>2. (x.id + G) % G = x.id % G
    BY <1>3, <1>5, SameGroup
  <2> QED
    BY <1>4, <1>5, <2>1, <2>2
<1>8. \A h \in Groups(launch) : \A v \in Warps(launch) : at'[h][v].id % G = h
  <2>1. \A h \in Groups(launch) : \A v \in Warps(launch) : h # g \/ v # w => at'[h][v] = at[h][v]
    BY <1>1
  <2>2. at'[g][w].id % G = g
    BY <1>2, <1>7
  <2> QED
    BY <1>6, <2>1, <2>2, Zenon
<1>9. ASSUME NEW z \in Locations, Past(z) PROVE Past(z)'
  <2>1. PICK h \in Groups(launch) : h = z % G
    BY <1>3, SampleAssumption DEF Locations
  <2>2. z < at[h][0].id \/ (z = at[h][0].id /\ at[h][0].pc > R)
    BY <1>2, <1>9, <2>1 DEF Past
  <2>3. z < at'[h][0].id \/ (z = at'[h][0].id /\ at'[h][0].pc > R)
    <3>1. CASE h # g \/ w # 0
      BY <1>1, <1>3, <2>2, <3>1
    <3>2. CASE h = g /\ w = 0
      <4>1. z \in Int
        BY DEF Locations
      <4>2. z < x.id \/ (z = x.id /\ x.pc > R)
        BY <1>2, <2>2, <3>2
      <4>3. z < y.id \/ (z = y.id /\ y.pc > R)
        BY <1>3, <1>4, <1>5, <4>1, <4>2
      <4> QED
        BY <1>2, <3>2, <4>3
    <3> QED
      BY <3>1, <3>2
  <2> QED
    BY <1>2, <2>1, <2>3 DEF Past
<1>10. ASSUME w = 0, x.pc = R, NEW z \in {x.id} PROVE ~ Past(z) /\ Past(z)'
  <2>1. z = x.id /\ z % G = g
    BY <1>1, <1>2, <1>6, <1>10
  <2>2. ~ (z < x.id \/ (z = x.id /\ x.pc > R))
    BY <1>4, <1>5, <1>10, <2>1
  <2>3. ~ Past(z)
    BY <1>2, <1>10, <2>1, <2>2 DEF Past
  <2>4. z < y.id \/ (z = y.id /\ y.pc > R)
    BY <1>3, <1>4, <1>5, <1>10, <2>1
  <2>5. Past(z)'
    BY <1>2, <1>10, <2>1, <2>4 DEF Past
  <2> QED
    BY <2>3, <2>5
<1>11. ASSUME NEW z \in Locations, Past(z)', ~ Past(z) PROVE w = 0 /\ x.pc = R /\ z = x.id
  <2>1. PICK h \in Groups(launch) : h = z % G
    BY <1>3, SampleAssumption DEF Locations
  <2>2. ~ (z < at[h][0].id \/ (z = at[h][0].id /\ at[h][0].pc > R))
    BY <1>2, <1>11, <2>1 DEF Past
  <2>3. z < at'[h][0].id \/ (z = at'[h][0].id /\ at'[h][0].pc > R)
    BY <1>2, <1>11, <2>1 DEF Past
  <2>4. h = g /\ w = 0
    BY <1>1, <1>3, <2>2, <2>3
  <2>5. ~ (z < x.id) /\ ~ (z = x.id /\ x.pc > R)
    BY <1>2, <2>2, <2>4
  <2>6. z < y.id \/ (z = y.id /\ y.pc > R)
    BY <1>2, <2>3, <2>4
  <2>7. z \in Nat
    BY DEF Locations
  <2>8. CASE x.pc < N
    BY <1>4, <1>5, <2>4, <2>5, <2>6, <2>7, <2>8
  <2>9. CASE ~ (x.pc < N)
    <3>1. x.pc = N /\ z < x.id + G
      BY <1>3, <1>4, <1>5, <2>6, <2>7, <2>9
    <3>2. z = x.id
      <4>1. z % G = x.id % G
        BY <1>1, <1>2, <1>6, <2>1, <2>4
      <4>2. x.id < z => x.id + G <= z
        BY <1>3, <1>5, <2>7, <4>1, NextInGroup
      <4> QED
        BY <1>3, <1>5, <2>5, <2>7, <3>1, <4>2
    <3> QED
      BY <1>4, <2>4, <2>5, <3>1, <3>2
  <2> QED
    BY <2>8, <2>9
<1> QED
  BY <1>1, <1>2, <1>8, <1>9, <1>10, <1>11

\* Only item 0 reports a location, and a location of the launch.
LEMMA ReportKeeps ==
    ASSUME Placed, SelectedOK, WithinLimits(launch), NEW g, NEW w, Report(g, w)
    PROVE  SelectedOK'
<1>1. PICK op \in {"report_row", "report_sum", "report"} : Execute(g, w, op)
  BY DEF Report
<1>2. launch' = launch /\ mpc' = mpc /\ kernel' = kernel
  BY DEF Report
<1>3. /\ mpc = "running" /\ g \in Groups(launch) /\ w \in Warps(launch)
      /\ kernel[at[g][w].pc].op = op /\ at[g][w].id \in Locations /\ at[g][w].pc \in 1 .. Len(kernel)
  BY <1>1, Executes DEF Moves
<1>4. at[g][w].pc = ReportPos(launch)
  BY <1>3, ProgramFacts DEF Placed
<1>5. /\ \A h \in Groups(launch) : \A v \in Warps(launch) : at'[h][v].id % launch.num_groups = h
      /\ \A x \in Locations : Past(x) => Past(x)'
      /\ w = 0 => \A x \in {at[g][w].id} : ~ Past(x) /\ Past(x)'
  BY <1>1, <1>2, <1>4, PastMoves
<1>6. /\ selected \in Seq(Locations)
      /\ \A j, k \in 1 .. Len(selected) : selected[j] = selected[k] => j = k
      /\ \A k \in 1 .. Len(selected) : selected[k] \in Locations /\ Past(selected[k])
  BY <1>3 DEF SelectedOK
<1>7. CASE selected' = selected
  <2>1. \A k \in 1 .. Len(selected) : Past(selected[k])'
    <3>1. ASSUME NEW k \in 1 .. Len(selected) PROVE Past(selected[k])'
      <4>1. PICK x \in Locations : x = selected[k] /\ Past(x)
        BY <1>6
      <4>2. Past(x)'
        BY <1>5, <4>1
      <4> QED
        BY <1>7, <4>1, <4>2
    <3> QED
      BY <3>1
  <2> QED
    BY <1>2, <1>5, <1>6, <1>7, <2>1 DEF SelectedOK
<1>8. CASE selected' # selected
  <2>1. 0 \in Items(w) /\ selected' = Append(selected, at[g][w].id)
    BY <1>8 DEF Report
  <2>2. w = 0
    <3>1. 0 < WarpSize /\ 0 \in Warps(launch)
      BY SizeFacts, WarpSizeAssumption
    <3> QED
      BY <1>3, <2>1, <3>1, ItemFacts
  <2>3. PICK x \in Locations : x = at[g][w].id
    BY <1>3
  <2>4. ~ Past(x) /\ Past(x)'
    BY <1>5, <2>2, <2>3
  <2>5. PICK s, n : s = selected /\ n = Len(selected)
    OBVIOUS
  <2>6. /\ s \in Seq(Locations) /\ n = Len(s) /\ n \in Nat /\ selected' = Append(s, x)
    BY <1>6, <2>1, <2>3, <2>5
  <2>7. /\ selected' \in Seq(Locations) /\ Len(selected') = n + 1
        /\ selected'[n + 1] = x /\ \A k \in 1 .. n : selected'[k] = selected[k]
    BY <2>5, <2>6
  <2>8. \A k \in 1 .. n : selected[k] # x
    BY <1>6, <2>4, <2>5
  <2>9. \A k \in 1 .. n + 1 : k \in 1 .. n \/ k = n + 1
    BY <2>6
  <2>10. \A j, k \in 1 .. Len(selected') : selected'[j] = selected'[k] => j = k
    BY <1>6, <2>5, <2>7, <2>8, <2>9
  <2>11. ASSUME NEW k \in 1 .. Len(selected') PROVE Past(selected[k])'
    <3>1. CASE k = n + 1
      BY <2>4, <2>7, <3>1
    <3>2. CASE k \in 1 .. n
      <4>1. PICK y \in Locations : y = selected[k] /\ Past(y)
        BY <1>6, <2>5, <3>2
      <4>2. Past(y)' /\ selected'[k] = y
        BY <1>5, <2>7, <3>2, <4>1
      <4> QED
        BY <4>2
    <3> QED
      BY <2>7, <2>9, <2>11, <3>1, <3>2
  <2> QED
    BY <1>2, <1>5, <2>7, <2>10, <2>11 DEF SelectedOK
<1> QED
  BY <1>7, <1>8

\* The other steps of a warp leave selected_buf alone.
LEMMA OthersKeep ==
    ASSUME Placed, SelectedOK, WithinLimits(launch), NEW g, NEW w, NEW op, Execute(g, w, op),
           UNCHANGED <<mpc, launch, kernel, selected>>
    PROVE  SelectedOK'
<1>1. mpc = "running"
  BY Executes DEF Moves
<1>2. /\ \A h \in Groups(launch) : \A v \in Warps(launch) : at'[h][v].id % launch.num_groups = h
      /\ \A x \in Locations : Past(x) => Past(x)'
  BY PastMoves
<1>3. ASSUME NEW k \in 1 .. Len(selected) PROVE Past(selected[k])'
  <2>1. PICK x \in Locations : x = selected[k] /\ Past(x)
    BY <1>1 DEF SelectedOK
  <2>2. Past(x)'
    BY <1>2, <2>1
  <2> QED
    BY <2>1, <2>2
<1> QED
  BY <1>1, <1>2, <1>3 DEF SelectedOK

\* Every step of a warp leaves numbers in local memory.
LEMMA StepData ==
    ASSUME Placed, DataOK, SelectedOK, WithinLimits(launch), NEW g, NEW w, Step(g, w)
    PROVE  DataOK' /\ SelectedOK'
<1>1. UNCHANGED <<mpc, launch, kernel, popcount>>
  BY Steppings
<1>2. kernel = Program(launch) /\ DOMAIN kernel = 1 .. Len(kernel)
  BY ProgramFacts DEF Placed
<1>3. ASSUME NEW op, Execute(g, w, op)
      PROVE  /\ mpc = "running" /\ g \in Groups(launch) /\ w \in Warps(launch)
             /\ at[g][w].pc \in DOMAIN Program(launch) /\ Instruction(g, w) = Program(launch)[at[g][w].pc]
             /\ Program(launch)[at[g][w].pc].op = op /\ at[g][w].id \in Locations
  <2>1. /\ mpc = "running" /\ g \in Groups(launch) /\ w \in Warps(launch)
        /\ kernel[at[g][w].pc].op = op /\ at[g][w].id \in Locations
        /\ at[g][w].pc \in 1 .. Len(kernel)
    <3>1. Moves(g, w, op)
      BY <1>3, Executes
    <3> QED
      BY <3>1 DEF Moves
  <2> QED
    BY <1>2, <2>1 DEF Instruction
<1>4. PICK n \in Nat \ {0} : n = launch.local_worksize
  BY SizeFacts
<1>5. \A v \in Warps(launch) : \A i \in Items(v) : i \in 0 .. n - 1
  BY <1>4, ItemFacts
<1>6. mpc = "running" => /\ partial_dist \in [Groups(launch) -> [0 .. n -> Nat]]
                         /\ extra \in [Groups(launch) -> Nat]
  BY <1>4 DEF DataOK
<1>7. ASSUME mpc = "running", partial_dist' \in [Groups(launch) -> [0 .. n -> Nat]],
             extra' \in [Groups(launch) -> Nat]
      PROVE  DataOK'
  BY <1>1, <1>4, <1>7 DEF DataOK
<1>8. CASE Store(g, w)
  <2>1. Execute(g, w, "store") /\ UNCHANGED <<extra, selected>>
    BY <1>8 DEF Store
  <2>2. SelectedOK'
    BY <1>1, <2>1, OthersKeep
  <2>3. mpc = "running" /\ g \in Groups(launch) /\ at[g][w].id \in Locations
    BY <1>3, <2>1
  <2>4. popcount[at[g][w].id] \in [0 .. launch.bs_len - 1 -> Nat] /\ launch.bs_len \in Nat
    BY <2>3, SizeFacts DEF DataOK
  <2>5. \A i \in 0 .. n : i < launch.bs_len => popcount[at[g][w].id][i] \in Nat
    BY <2>4
  <2>6. partial_dist' = [partial_dist EXCEPT ![g] =
           [i \in DOMAIN partial_dist[g] |->
               IF i \notin Items(w) THEN partial_dist[g][i]
               ELSE IF i < launch.bs_len THEN popcount[at[g][w].id][i] ELSE 0]]
    BY <1>8 DEF Store
  <2>7. partial_dist' \in [Groups(launch) -> [0 .. n -> Nat]]
    <3>1. partial_dist[g] \in [0 .. n -> Nat]
      BY <1>6, <2>3
    <3>2. [i \in DOMAIN partial_dist[g] |->
               IF i \notin Items(w) THEN partial_dist[g][i]
               ELSE IF i < launch.bs_len THEN popcount[at[g][w].id][i] ELSE 0] \in [0 .. n -> Nat]
      BY <2>5, <3>1
    <3> QED
      BY <1>6, <2>3, <2>6, <3>2
  <2> QED
    BY <1>6, <1>7, <2>1, <2>2, <2>3, <2>7
<1>9. CASE Clear(g, w)
  <2>1. Execute(g, w, "clear") /\ UNCHANGED <<partial_dist, selected>> /\ extra' = [extra EXCEPT ![g] = 0]
    BY <1>9 DEF Clear
  <2>2. SelectedOK'
    BY <1>1, <2>1, OthersKeep
  <2>3. mpc = "running"
    BY <1>3, <2>1
  <2> QED
    BY <1>6, <1>7, <2>1, <2>2, <2>3
<1>10. CASE Carry(g, w)
  <2>1. Execute(g, w, "carry") /\ UNCHANGED <<partial_dist, selected>>
    BY <1>10 DEF Carry
  <2>2. SelectedOK'
    BY <1>1, <2>1, OthersKeep
  <2>3. mpc = "running" /\ g \in Groups(launch) /\ w \in Warps(launch)
    BY <1>3, <2>1
  <2>4. PICK o : o = Instruction(g, w).old
    OBVIOUS
  <2>5. \/ extra' = extra
        \/ o - 1 \in Items(w) /\ extra' = [extra EXCEPT ![g] = extra[g] + partial_dist[g][o - 1]]
    BY <1>10, <2>4 DEF Carry, Carries
  <2>6. extra' \in [Groups(launch) -> Nat]
    <3>1. CASE extra' = extra
      BY <1>6, <2>3, <3>1
    <3>2. CASE o - 1 \in Items(w) /\ extra' = [extra EXCEPT ![g] = extra[g] + partial_dist[g][o - 1]]
      <4>1. PICK c : c = o - 1
        OBVIOUS
      <4>2. c \in 0 .. n
        BY <1>5, <2>3, <3>2, <4>1
      <4>3. partial_dist[g][c] \in Nat /\ extra[g] \in Nat
        BY <1>6, <2>3, <4>2
      <4>4. extra[g] + partial_dist[g][c] \in Nat
        BY <4>3
      <4> QED
        BY <1>6, <2>3, <3>2, <4>1, <4>4
    <3> QED
      BY <2>5, <3>1, <3>2
  <2> QED
    BY <1>6, <1>7, <2>1, <2>2, <2>3, <2>6
<1>11. CASE Add(g, w)
  <2>1. Execute(g, w, "add") /\ UNCHANGED <<extra, selected>>
    BY <1>11 DEF Add
  <2>2. SelectedOK'
    BY <1>1, <2>1, OthersKeep
  <2>3. mpc = "running" /\ g \in Groups(launch) /\ w \in Warps(launch)
    BY <1>3, <2>1
  <2>4. PICK s \in Nat : s = Instruction(g, w).stride /\ 2 * s <= n
    BY <1>3, <1>4, <2>1, InstructionFacts
  <2>5. \A i \in Adding(g, w) : i \in 0 .. n /\ i + s \in 0 .. n
    BY <1>5, <2>3, <2>4 DEF Adding
  <2>6. partial_dist' = [partial_dist EXCEPT ![g] =
           [i \in DOMAIN partial_dist[g] |->
               IF i \in Adding(g, w) THEN partial_dist[g][i] + partial_dist[g][i + s]
               ELSE partial_dist[g][i]]]
    BY <1>11, <2>4 DEF Add
  <2>7. partial_dist' \in [Groups(launch) -> [0 .. n -> Nat]]
    <3>1. partial_dist[g] \in [0 .. n -> Nat]
      BY <1>6, <2>3
    <3>2. [i \in DOMAIN partial_dist[g] |->
               IF i \in Adding(g, w) THEN partial_dist[g][i] + partial_dist[g][i + s]
               ELSE partial_dist[g][i]] \in [0 .. n -> Nat]
      BY <2>5, <3>1
    <3> QED
      BY <1>6, <2>3, <2>6, <3>2
  <2> QED
    BY <1>6, <1>7, <2>1, <2>2, <2>3, <2>7
<1>12. CASE Report(g, w)
  <2>1. PICK op : Execute(g, w, op) /\ UNCHANGED <<partial_dist, extra>>
    BY <1>12 DEF Report
  <2> QED
    BY <1>3, <1>6, <1>7, <1>12, <2>1, ReportKeeps
<1>13. CASE Barrier(g, w)
  <2>1. Execute(g, w, "barrier") /\ UNCHANGED <<partial_dist, extra, selected>>
    BY <1>13 DEF Barrier
  <2> QED
    BY <1>1, <1>3, <1>6, <1>7, <2>1, OthersKeep
<1> QED
  BY <1>8, <1>9, <1>10, <1>11, <1>12, <1>13 DEF Step

LEMMA DataKept ==
    ASSUME \A l \in Launches : WithinLimits(l), Placed, DataOK, SelectedOK, [Next]_vars
    PROVE  DataOK' /\ SelectedOK'
<1>1. CASE Call
  BY <1>1, CallData
<1>2. CASE Return
  BY <1>2 DEF Return, DataOK, SelectedOK
<1>3. ASSUME NEW g \in DOMAIN at, NEW w \in DOMAIN at[g], Step(g, w) PROVE DataOK' /\ SelectedOK'
  BY <1>3, StepData DEF Placed
<1>4. CASE UNCHANGED vars
  BY <1>4 DEF vars, DataOK, SelectedOK, Past
<1> QED
  BY <1>1, <1>2, <1>3, <1>4 DEF Next, Run

\* A sequence without repetitions is not longer than the set is large.
LEMMA FitsIn ==
    ASSUME NEW s \in Seq(Locations), \A j, k \in 1 .. Len(s) : s[j] = s[k] => j = k
    PROVE  Len(s) <= Sample
<1>1. PICK n \in Nat : n = Len(s)
  OBVIOUS
<1>2. IsFiniteSet(Locations) /\ Cardinality(Locations) = Sample
  BY FS_Interval, SampleAssumption DEF Locations
<1>3. IsFiniteSet(1 .. n) /\ Cardinality(1 .. n) = n
  BY FS_Interval
<1>4. s \in [1 .. n -> Locations]
  BY <1>1
<1>5. ASSUME Sample < n PROVE \E x, y \in 1 .. n : x # y /\ s[x] = s[y]
  BY <1>2, <1>3, <1>4, <1>5, FS_PigeonHole
<1> QED
  BY <1>1, <1>5, SampleAssumption

\* Local memory is read where it was allocated and selected_buf, which has an
\* entry for each location, does not overflow.
THEOREM SelectedFits ==
    ASSUME \A l \in Launches : WithinLimits(l)
    PROVE  Spec => []TypeOK
<1>1. Init => Placed /\ DataOK /\ SelectedOK
  BY PlacedInit, DataInit
<1>2. Placed /\ InStep /\ DataOK /\ SelectedOK /\ [Next]_vars => (Placed /\ InStep /\ DataOK /\ SelectedOK)'
  BY PlacesKept, DataKept
<1>3. Placed /\ DataOK /\ SelectedOK => TypeOK
  <2> SUFFICES ASSUME Placed, DataOK, SelectedOK PROVE TypeOK
    OBVIOUS
  <2>1. DOMAIN kernel = 1 .. Len(kernel)
    BY ProgramFacts DEF Placed
  <2>2. \A g \in DOMAIN at : \A w \in DOMAIN at[g] : at[g][w].id \in Nat /\ at[g][w].pc \in DOMAIN kernel
    BY <2>1 DEF Placed
  <2>3. /\ \A g \in DOMAIN partial_dist : partial_dist[g] \in [0 .. launch.local_worksize -> Nat]
        /\ \A g \in DOMAIN extra : extra[g] \in Nat
    BY DEF DataOK, Placed
  <2>4. Len(selected) <= Sample
    BY FitsIn DEF SelectedOK
  <2> QED
    BY <2>2, <2>3, <2>4 DEF Placed, SelectedOK, TypeOK
<1> QED
  BY <1>1, <1>2, <1>3, PlacedInit, PTL DEF Spec

-----------------------------------------------------------------------------
(* Sums.  A sum is the number of cells of a drawing that has a column for   *)
(* each element, so the order in which SumFunctionOnSet takes them plays no *)
(* part.                                                                    *)

Cells(f, S) == UNION {{l} \X (1 .. f[l]) : l \in S}

LEMMA CellsStep ==
    ASSUME NEW S, IsFiniteSet(S), NEW f, \A l \in S : f[l] \in Nat, NEW x \in S
    PROVE  /\ IsFiniteSet(Cells(f, S)) /\ IsFiniteSet(Cells(f, S \ {x}))
           /\ Cardinality(Cells(f, S)) = f[x] + Cardinality(Cells(f, S \ {x}))
<1> DEFINE col(l) == {l} \X (1 .. f[l])
           cols == {col(l) : l \in S}
           g == [l \in S |-> col(l)]
           R == S \ {x}
<1>1. ASSUME NEW l \in S PROVE IsFiniteSet(col(l)) /\ Cardinality(col(l)) = f[l]
  <2>1. IsFiniteSet(1 .. f[l]) /\ Cardinality(1 .. f[l]) = f[l]
    <3>1. PICK k \in Nat : k = f[l]
      OBVIOUS
    <3>2. IsFiniteSet(1 .. k) /\ Cardinality(1 .. k) = IF 1 > k THEN 0 ELSE k - 1 + 1
      BY FS_Interval
    <3> QED
      BY <3>1, <3>2
  <2>2. IsFiniteSet({l}) /\ Cardinality({l}) = 1
    BY FS_Singleton
  <2>3. IsFiniteSet(col(l)) /\ Cardinality(col(l)) = 1 * Cardinality(1 .. f[l])
    BY <2>1, <2>2, FS_Product
  <2> QED
    BY <2>1, <2>3
<1>2. g \in Surjection(S, cols)
  BY DEF Surjection
<1>3. IsFiniteSet(cols)
  BY <1>2, FS_Surjection
<1>4. Cells(f, S) = UNION cols
  BY DEF Cells
<1>5. IsFiniteSet(Cells(f, S))
  <2>1. \A T \in cols : IsFiniteSet(T)
    BY <1>1
  <2> QED
    BY <1>3, <1>4, <2>1, FS_UNION
<1>6. /\ \A p \in Cells(f, R) : \E l \in R : p \in col(l)
      /\ \A l \in R : \A p \in col(l) : p \in Cells(f, R)
  BY DEF Cells
<1>7. /\ \A p \in Cells(f, S) : \E l \in S : p \in col(l)
      /\ \A l \in S : \A p \in col(l) : p \in Cells(f, S)
  BY DEF Cells
<1>8. \A l, m \in S : \A p \in col(l) : p \in col(m) => l = m
  OBVIOUS
<1> HIDE DEF col, cols, g, R
<1>9. S = R \cup {x} /\ x \notin R
  BY DEF R
<1>10. Cells(f, S) = Cells(f, R) \cup col(x) /\ Cells(f, R) \cap col(x) = {}
  <2>1. Cells(f, S) = Cells(f, R) \cup col(x)
    BY <1>6, <1>7, <1>9
  <2>2. Cells(f, R) \cap col(x) = {}
    BY <1>6, <1>8, <1>9
  <2> QED
    BY <2>1, <2>2
<1>11. IsFiniteSet(Cells(f, R))
  BY <1>5, <1>10, FS_Subset
<1>12. Cardinality(Cells(f, S)) = Cardinality(Cells(f, R)) + Cardinality(col(x)) - Cardinality({})
  BY <1>1, <1>10, <1>11, FS_Union
<1>13. Cardinality(Cells(f, R)) \in Nat
  BY <1>11, FS_CardinalityType
<1> QED
  BY <1>1, <1>5, <1>11, <1>12, <1>13, FS_EmptySet DEF R

\* No set can be the smallest whose sum is not the number of its cells.
LEMMA SumIsCells ==
    ASSUME NEW S, IsFiniteSet(S), NEW f, \A l \in S : f[l] \in Nat
    PROVE  SumFunctionOnSet(f, S) = Cardinality(Cells(f, S))
<1> DEFINE First(s) == CHOOSE x \in s : TRUE
           Sums(fold) == fold = [s \in SUBSET S |->
                             IF s = {} THEN 0 ELSE f[First(s)] + fold[s \ {First(s)}]]
           drawn == [s \in SUBSET S |-> Cardinality(Cells(f, s))]
<1>1. SumFunctionOnSet(f, S) = (CHOOSE fold : Sums(fold))[S]
  BY DEF SumFunctionOnSet, FoldFunctionOnSet, MapThenFoldSet
<1>2. \A s \in SUBSET S : s # {} => First(s) \in s
  OBVIOUS
<1>3. \A s \in SUBSET S : IsFiniteSet(s) /\ Cardinality(s) \in Nat
  BY FS_Subset, FS_CardinalityType
<1>4. ASSUME NEW s \in SUBSET S
      PROVE  /\ Cardinality(Cells(f, {})) = 0
             /\ s # {} => Cardinality(Cells(f, s)) = f[First(s)] + Cardinality(Cells(f, s \ {First(s)}))
  <2>1. Cells(f, {}) = {}
    BY DEF Cells
  <2>2. Cardinality({}) = 0
    BY FS_EmptySet
  <2>3. ASSUME s # {}
        PROVE  Cardinality(Cells(f, s)) = f[First(s)] + Cardinality(Cells(f, s \ {First(s)}))
    <3>1. PICK x \in s : x = First(s)
      BY <1>2, <2>3
    <3>2. IsFiniteSet(s) /\ \A l \in s : f[l] \in Nat
      BY <1>3
    <3>3. Cardinality(Cells(f, s)) = f[x] + Cardinality(Cells(f, s \ {x}))
      BY <3>2, CellsStep
    <3> QED
      BY <3>1, <3>3
  <2> QED
    BY <2>1, <2>2, <2>3
<1> HIDE DEF First
<1>5. Sums(drawn)
  <2>1. \A s \in SUBSET S : s \ {First(s)} \in SUBSET S
    OBVIOUS
  <2>2. \A s \in SUBSET S :
            Cardinality(Cells(f, s)) = IF s = {} THEN 0 ELSE f[First(s)] + drawn[s \ {First(s)}]
    BY <1>4, <2>1
  <2> QED
    BY <2>2
<1> HIDE DEF drawn
<1>6. ASSUME NEW fold, Sums(fold), NEW s \in SUBSET S
      PROVE  fold[s] = Cardinality(Cells(f, s))
  <2> DEFINE Wrong == {Cardinality(t) : t \in {u \in SUBSET S : fold[u] # Cardinality(Cells(f, u))}}
  <2>1. SUFFICES ASSUME Wrong # {} PROVE FALSE
    OBVIOUS
  <2>2. Wrong \in SUBSET Nat
    BY <1>3
  <2>3. PICK n \in Wrong : \A m \in Wrong : n <= m
    <3> HIDE DEF Wrong
    <3> QED
      BY <2>1, <2>2, LeastNat
  <2>4. PICK t \in SUBSET S : Cardinality(t) = n /\ fold[t] # Cardinality(Cells(f, t))
    OBVIOUS
  <2>5. fold[t] = IF t = {} THEN 0 ELSE f[First(t)] + fold[t \ {First(t)}]
    BY <1>6
  <2>6. t # {} /\ First(t) \in t
    BY <1>2, <1>4, <2>4, <2>5
  <2> DEFINE r == t \ {First(t)}
  <2>7. r \in SUBSET S /\ Cardinality(r) = n - 1 /\ n \in Nat /\ n - 1 \in Nat
    <3>1. IsFiniteSet(t) /\ Cardinality(t) \in Nat
      BY <1>3
    <3>2. Cardinality(r) = Cardinality(t) - 1
      BY <2>6, <3>1, FS_RemoveElement
    <3> QED
      BY <1>3, <2>4, <3>1, <3>2
  <2>8. fold[r] = Cardinality(Cells(f, r))
    <3>1. n - 1 \notin Wrong
      <4> HIDE DEF Wrong
      <4> QED
        BY <2>3, <2>7
    <3> QED
      BY <2>7, <3>1
  <2> QED
    BY <1>4, <2>4, <2>5, <2>6, <2>8
<1>7. Sums(CHOOSE fold : Sums(fold))
  <2> HIDE DEF Sums
  <2> QED
    BY <1>5
<1> HIDE DEF Sums
<1> QED
  BY <1>1, <1>6, <1>7

\* The sum of the first m values of f.
Total(f, m) == SumFunctionOnSet(f, 0 .. m - 1)

LEMMA TotalStep ==
    ASSUME NEW m \in Nat, NEW f, \A i \in 0 .. m : f[i] \in Nat
    PROVE  /\ Total(f, 0) = 0 /\ Total(f, m) \in Nat
           /\ Total(f, m + 1) = Total(f, m) + f[m]
<1> DEFINE S == 0 .. m  R == 0 .. m - 1
<1>1. IsFiniteSet(S) /\ IsFiniteSet(R) /\ IsFiniteSet({})
  BY FS_Interval, FS_EmptySet
<1>2. m \in S /\ R = S \ {m} /\ R \subseteq S /\ 0 .. (m + 1) - 1 = S /\ 0 .. 0 - 1 = {}
  OBVIOUS
<1>3. Total(f, 0) = Cardinality(Cells(f, {}))
  <2>1. \A i \in {} : f[i] \in Nat
    OBVIOUS
  <2> QED
    BY <1>1, <1>2, <2>1, SumIsCells DEF Total
<1>4. Total(f, m) = Cardinality(Cells(f, R)) /\ Total(f, m + 1) = Cardinality(Cells(f, S))
  <2> HIDE DEF S, R
  <2>1. (\A i \in S : f[i] \in Nat) /\ (\A i \in R : f[i] \in Nat)
    BY <1>2 DEF S
  <2>2. SumFunctionOnSet(f, R) = Cardinality(Cells(f, R)) /\ SumFunctionOnSet(f, S) = Cardinality(Cells(f, S))
    BY <1>1, <2>1, SumIsCells
  <2> QED
    BY <1>2, <2>2 DEF Total, R
<1>5. Cells(f, {}) = {}
  BY DEF Cells
<1>6. /\ IsFiniteSet(Cells(f, R))
      /\ Cardinality(Cells(f, S)) = f[m] + Cardinality(Cells(f, R))
  <2> HIDE DEF R
  <2> QED
    BY <1>1, <1>2, CellsStep
<1>7. Cardinality(Cells(f, R)) \in Nat
  BY <1>6, FS_CardinalityType
<1>8. Total(f, 0) = 0
  BY <1>3, <1>5, FS_EmptySet
<1>9. Total(f, m) \in Nat /\ Total(f, m + 1) = f[m] + Total(f, m)
  BY <1>4, <1>6, <1>7
<1>10. f[m] \in Nat
  BY <1>2
<1> QED
  BY <1>8, <1>9, <1>10

\* Functions that agree have the same sum.
LEMMA TotalAgrees ==
    ASSUME NEW m \in Nat, NEW f, NEW g, \A i \in 0 .. m - 1 : f[i] \in Nat /\ f[i] = g[i]
    PROVE  Total(f, m) = Total(g, m) /\ Total(f, m) \in Nat
<1> DEFINE S == 0 .. m - 1
<1>1. IsFiniteSet(S)
  BY FS_Interval
<1>2. \A i \in S : f[i] \in Nat /\ f[i] = g[i] /\ g[i] \in Nat
  OBVIOUS
<1>3. {{l} \X (1 .. f[l]) : l \in S} = {{l} \X (1 .. g[l]) : l \in S}
  <2>1. \A l \in S : {l} \X (1 .. f[l]) = {l} \X (1 .. g[l])
    BY <1>2
  <2> HIDE DEF S
  <2> QED
    BY <2>1
<1> HIDE DEF S
<1>4. SumFunctionOnSet(f, S) = SumFunctionOnSet(g, S)
  BY <1>1, <1>2, <1>3, SumIsCells DEF Cells
<1>5. SumFunctionOnSet(f, S) = Cardinality(Cells(f, S))
  BY <1>1, <1>2, SumIsCells
<1>6. Cardinality(Cells(f, S)) \in Nat
  <2>1. CASE S = {}
    <3>1. Cells(f, S) = {}
      BY <2>1 DEF Cells
    <3> QED
      BY <3>1, FS_EmptySet
  <2>2. CASE S # {}
    <3>1. IsFiniteSet(Cells(f, S))
      BY <1>1, <1>2, <2>2, CellsStep
    <3> QED
      BY <3>1, FS_CardinalityType
  <2> QED
    BY <2>1, <2>2
<1> QED
  BY <1>4, <1>5, <1>6 DEF Total, S

\* Adding the upper half to the lower half.
LEMMA FoldOnce ==
    ASSUME NEW b \in Nat, NEW f, NEW h, \A i \in 0 .. 2 * b - 1 : f[i] \in Nat,
           \A i \in 0 .. b - 1 : h[i] = f[i] + f[i + b]
    PROVE  Total(h, b) = Total(f, 2 * b)
<1> DEFINE Ok(m) == /\ Total(h, m) \in Nat /\ Total(f, b) \in Nat /\ Total(f, m) \in Nat /\ Total(f, b + m) \in Nat
                    /\ Total(h, m) + Total(f, b) = Total(f, m) + Total(f, b + m)
           Wrong == {m \in Nat : m <= b /\ ~ Ok(m)}
<1>1. /\ \A i \in 0 .. b - 1 : h[i] \in Nat /\ f[i] \in Nat /\ f[b + i] \in Nat /\ h[i] = f[i] + f[b + i]
  <2>1. ASSUME NEW i \in 0 .. b - 1
        PROVE  h[i] \in Nat /\ f[i] \in Nat /\ f[b + i] \in Nat /\ h[i] = f[i] + f[b + i]
    <3>1. i \in 0 .. 2 * b - 1 /\ i + b \in 0 .. 2 * b - 1 /\ i + b = b + i
      OBVIOUS
    <3>2. f[i] \in Nat /\ f[i + b] \in Nat
      BY <3>1
    <3> QED
      BY <3>1, <3>2
  <2> QED
    BY <2>1
<1>2. Total(f, b) \in Nat
  <2>1. \A i \in 0 .. b - 1 : f[i] \in Nat /\ f[i] = f[i]
    BY <1>1
  <2> QED
    BY <2>1, TotalAgrees
<1>3. Ok(0)
  <2>1. \A g : Total(g, 0) = 0
    <3>1. ASSUME NEW g PROVE Total(g, 0) = 0
      <4>1. 0 .. 0 - 1 = {} /\ IsFiniteSet({}) /\ Cells(g, {}) = {} /\ \A i \in {} : g[i] \in Nat
        BY FS_EmptySet DEF Cells
      <4> QED
        BY <4>1, SumIsCells, FS_EmptySet DEF Total
    <3> QED
      BY <3>1
  <2>2. b + 0 = b
    OBVIOUS
  <2> QED
    BY <1>2, <2>1, <2>2
<1>4. ASSUME NEW m \in 0 .. b - 1, Ok(m) PROVE Ok(m + 1)
  <2>1. m \in Nat /\ b + m \in Nat /\ b + (m + 1) = (b + m) + 1
    OBVIOUS
  <2>2. \A i \in 0 .. m : h[i] \in Nat /\ f[i] \in Nat
    BY <1>1
  <2>3. \A i \in 0 .. b + m : f[i] \in Nat
    OBVIOUS
  <2>4. Total(h, m + 1) = Total(h, m) + h[m] /\ Total(f, m + 1) = Total(f, m) + f[m]
    BY <2>1, <2>2, TotalStep
  <2>5. Total(f, (b + m) + 1) = Total(f, b + m) + f[b + m]
    BY <2>1, <2>3, TotalStep
  <2>6. h[m] \in Nat /\ f[m] \in Nat /\ f[b + m] \in Nat /\ h[m] = f[m] + f[b + m]
    BY <1>1
  <2> QED
    BY <1>4, <2>1, <2>4, <2>5, <2>6
<1> HIDE DEF Ok
<1>5. Wrong = {}
  <2>1. SUFFICES ASSUME Wrong # {} PROVE FALSE
    OBVIOUS
  <2>2. PICK m \in Wrong : \A k \in Wrong : m <= k
    BY <2>1, LeastNat
  <2>3. m \in Nat /\ m # 0
    BY <1>3, <2>2
  <2>4. m - 1 \in 0 .. b - 1 /\ (m - 1) + 1 = m /\ m - 1 \notin Wrong
    BY <2>2, <2>3
  <2> QED
    BY <1>4, <2>2, <2>4
<1>6. Ok(b)
  BY <1>5
<1>7. b + b = 2 * b
  OBVIOUS
<1> QED
  BY <1>6, <1>7 DEF Ok

\* What F makes of x when it is applied K times.
IsIteration(V, K, x, F) == V[0] = x /\ \A r \in 1 .. K : V[r] = F[<<r, V[r - 1]>>]

LEMMA Iterated ==
    ASSUME NEW K \in Nat, NEW D, NEW x \in D, NEW F \in [(1 .. K) \X D -> D]
    PROVE  \E V \in [0 .. K -> D] : IsIteration(V, K, x, F)
<1> DEFINE Ok(k) == \E V \in [0 .. k -> D] : V[0] = x /\ \A r \in 1 .. k : V[r] = F[<<r, V[r - 1]>>]
           Wrong == {k \in Nat : k <= K /\ ~ Ok(k)}
<1>1. Ok(0)
  <2>1. [r \in 0 .. 0 |-> x] \in [0 .. 0 -> D] /\ [r \in 0 .. 0 |-> x][0] = x
    OBVIOUS
  <2>2. \A r \in 1 .. 0 : FALSE
    OBVIOUS
  <2> QED
    BY <2>1, <2>2
<1>2. ASSUME NEW k \in 0 .. K - 1, Ok(k) PROVE Ok(k + 1)
  <2>1. PICK V \in [0 .. k -> D] : V[0] = x /\ \A r \in 1 .. k : V[r] = F[<<r, V[r - 1]>>]
    BY <1>2
  <2>2. V[k] \in D /\ k + 1 \in 1 .. K
    OBVIOUS
  <2>3. PICK y \in D : y = F[<<k + 1, V[k]>>]
    BY <2>2
  <2> DEFINE U == [r \in 0 .. k + 1 |-> IF r = k + 1 THEN y ELSE V[r]]
  <2>4. U \in [0 .. k + 1 -> D] /\ U[0] = x
    BY <2>1
  <2>5. ASSUME NEW r \in 1 .. k + 1 PROVE U[r] = F[<<r, U[r - 1]>>]
    <3>1. U[r - 1] = V[r - 1]
      OBVIOUS
    <3>2. CASE r = k + 1
      <4>1. r - 1 = k /\ U[r] = y
        BY <3>2
      <4> QED
        BY <2>3, <3>1, <3>2, <4>1
    <3>3. CASE r \in 1 .. k
      BY <2>1, <3>1, <3>3
    <3> QED
      BY <3>2, <3>3
  <2> HIDE DEF U
  <2> QED
    BY <2>4, <2>5
<1> HIDE DEF Ok
<1>3. Wrong = {}
  <2>1. SUFFICES ASSUME Wrong # {} PROVE FALSE
    OBVIOUS
  <2>2. PICK m \in Wrong : \A k \in Wrong : m <= k
    BY <2>1, LeastNat
  <2>3. m \in Nat /\ m # 0
    BY <1>1, <2>2
  <2>4. m - 1 \in 0 .. K - 1 /\ (m - 1) + 1 = m /\ m - 1 \notin Wrong
    BY <2>2, <2>3
  <2> QED
    BY <1>2, <2>2, <2>4
<1>4. Ok(K)
  BY <1>3
<1> QED
  BY <1>4 DEF Ok, IsIteration

LEMMA RoundHalves ==
    ASSUME NEW n \in Nat \ {0}, NEW r \in 1 .. Rounds(n)
    PROVE  /\ Half(n, r) \in Nat \ {0} /\ Half(n, r - 1) \in Nat \ {0}
           /\ Half(n, r - 1) = 2 * Half(n, r) + (Half(n, r - 1) % 2)
           /\ Half(n, r - 1) % 2 \in {0, 1} /\ Half(n, r - 1) <= n /\ r - 1 \in 0 .. Rounds(n)
<1>1. Rounds(n) \in Nat /\ Half(n, r) \in Nat \ {0} /\ Half(n, 0) = n
  BY RoundsEnd
<1>2. PICK d \in Nat : d = r - 1 /\ d + 1 = r
  BY <1>1
<1>3. Half(n, d) = 2 * Half(n, d + 1) + (IF Half(n, d) % 2 = 1 THEN 1 ELSE 0) /\ Half(n, d) \in Nat
  BY <1>2, Halving
<1>4. Half(n, d) <= n
  <2>1. 0 \in Nat /\ 0 <= d /\ n \in Nat
    BY <1>2
  <2> QED
    BY <1>1, <1>2, <2>1, HalvesShrink
<1>5. PICK a, b : a = Half(n, d) /\ b = Half(n, d + 1)
  OBVIOUS
<1>6. b \in Nat \ {0} /\ a \in Nat /\ a = 2 * b + (IF a % 2 = 1 THEN 1 ELSE 0)
  BY <1>1, <1>2, <1>3, <1>5
<1>7. a = 2 * b + (a % 2) /\ a % 2 \in {0, 1} /\ a \in Nat \ {0}
  BY <1>6
<1> QED
  BY <1>1, <1>2, <1>4, <1>5, <1>6, <1>7

\* What the n cells of a group hold after each round, and what extra does.
IsValues(V, f, n) ==
    /\ V \in [0 .. Rounds(n) -> [0 .. n - 1 -> Nat]]
    /\ V[0] = f
    /\ \A r \in 1 .. Rounds(n) : \A i \in 0 .. n - 1 :
           V[r][i] = IF i < Half(n, r) THEN V[r - 1][i] + V[r - 1][i + Half(n, r)] ELSE V[r - 1][i]

IsExtras(E, V, n) ==
    /\ E \in [0 .. Rounds(n) -> Nat]
    /\ E[0] = 0
    /\ \A r \in 1 .. Rounds(n) :
           E[r] = E[r - 1] + IF Half(n, r - 1) % 2 = 1 THEN V[r - 1][Half(n, r - 1) - 1] ELSE 0

Values(f, n) == CHOOSE V : IsValues(V, f, n)
Extras(f, n) == CHOOSE E : IsExtras(E, Values(f, n), n)

LEMMA ValuesExist ==
    ASSUME NEW n \in Nat \ {0}, NEW f \in [0 .. n - 1 -> Nat]
    PROVE  IsValues(Values(f, n), f, n) /\ IsExtras(Extras(f, n), Values(f, n), n)
<1>1. PICK K \in Nat : K = Rounds(n)
  BY RoundsEnd
<1>2. \E V : IsValues(V, f, n)
  <2> DEFINE D == [0 .. n - 1 -> Nat]
             Folded(r, u) == [i \in 0 .. n - 1 |->
                                 IF i < Half(n, r) THEN u[i] + u[i + Half(n, r)] ELSE u[i]]
             F == [p \in (1 .. K) \X D |-> Folded(p[1], p[2])]
  <2>1. ASSUME NEW r \in 1 .. K, NEW u \in D
        PROVE  /\ F[<<r, u>>] \in D
               /\ \A i \in 0 .. n - 1 : F[<<r, u>>][i] = IF i < Half(n, r) THEN u[i] + u[i + Half(n, r)] ELSE u[i]
    <3>1. Half(n, r) \in Nat /\ 2 * Half(n, r) <= n
      <4>1. PICK a, b, d : a = Half(n, r - 1) /\ b = Half(n, r) /\ d = Half(n, r - 1) % 2
        OBVIOUS
      <4>2. b \in Nat /\ a \in Nat /\ a = 2 * b + d /\ d \in {0, 1} /\ a <= n
        BY <1>1, <4>1, RoundHalves
      <4>3. b \in Nat /\ 2 * b <= n
        BY <4>2
      <4> QED
        BY <4>1, <4>3
    <3>6. F[<<r, u>>] = Folded(r, u)
      <4> HIDE DEF Folded
      <4> QED
        OBVIOUS
    <3> HIDE DEF F
    <3>2. F[<<r, u>>] = [i \in 0 .. n - 1 |-> IF i < Half(n, r) THEN u[i] + u[i + Half(n, r)] ELSE u[i]]
      BY <3>6
    <3>3. ASSUME NEW i \in 0 .. n - 1
          PROVE  u[i] \in Nat /\ (i < Half(n, r) => u[i + Half(n, r)] \in Nat)
      <4>1. \A k \in 0 .. n - 1 : u[k] \in Nat
        OBVIOUS
      <4>2. i < Half(n, r) => i + Half(n, r) \in 0 .. n - 1
        <5> HIDE DEF D
        <5> QED
          BY <3>1
      <4> QED
        BY <4>1, <4>2, Zenon
    <3>4. F[<<r, u>>] \in D
      <4>1. [i \in 0 .. n - 1 |-> IF i < Half(n, r) THEN u[i] + u[i + Half(n, r)] ELSE u[i]] \in [0 .. n - 1 -> Nat]
        BY <3>3
      <4> QED
        BY <3>2, <4>1
    <3>5. \A i \in 0 .. n - 1 : F[<<r, u>>][i] = IF i < Half(n, r) THEN u[i] + u[i + Half(n, r)] ELSE u[i]
      BY <3>2
    <3> QED
      BY <3>4, <3>5
  <2> HIDE DEF D, Folded
  <2>2. F \in [(1 .. K) \X D -> D]
    <3>1. F = [p \in (1 .. K) \X D |-> F[p]]
      OBVIOUS
    <3>2. \A p \in (1 .. K) \X D : \E r \in 1 .. K, u \in D : p = <<r, u>>
      OBVIOUS
    <3> HIDE DEF F
    <3>3. \A p \in (1 .. K) \X D : F[p] \in D
      BY <2>1, <3>2
    <3> QED
      BY <3>1, <3>3
  <2> HIDE DEF F
  <2>3. f \in D
    BY DEF D
  <2>4. PICK V \in [0 .. K -> D] : IsIteration(V, K, f, F)
    BY <2>2, <2>3, Iterated
  <2>5. V[0] = f /\ \A r \in 1 .. K : V[r - 1] \in D /\ V[r] = F[<<r, V[r - 1]>>]
    BY <2>4 DEF IsIteration
  <2>6. \A r \in 1 .. K : \A i \in 0 .. n - 1 :
            V[r][i] = IF i < Half(n, r) THEN V[r - 1][i] + V[r - 1][i + Half(n, r)] ELSE V[r - 1][i]
    <3>1. ASSUME NEW r \in 1 .. K, NEW i \in 0 .. n - 1
          PROVE  V[r][i] = IF i < Half(n, r) THEN V[r - 1][i] + V[r - 1][i + Half(n, r)] ELSE V[r - 1][i]
      <4>1. PICK u \in D : u = V[r - 1] /\ V[r] = F[<<r, u>>]
        BY <2>5
      <4> QED
        BY <2>1, <4>1
    <3> QED
      BY <3>1
  <2>7. IsValues(V, f, n)
    BY <1>1, <2>4, <2>5, <2>6 DEF IsValues, D
  <2> QED
    BY <2>7
<1>3. PICK V : V = Values(f, n) /\ IsValues(V, f, n)
  BY <1>2 DEF Values
<1>4. \E E : IsExtras(E, V, n)
  <2> DEFINE e(r) == IF Half(n, r - 1) % 2 = 1 THEN V[r - 1][Half(n, r - 1) - 1] ELSE 0
             F == [p \in (1 .. K) \X Nat |-> p[2] + e(p[1])]
  <2>1. \A r \in 1 .. K : e(r) \in Nat
    <3>1. ASSUME NEW r \in 1 .. K PROVE e(r) \in Nat
      <4>1. PICK a : a = Half(n, r - 1)
        OBVIOUS
      <4>2. a \in Nat \ {0} /\ a <= n /\ r - 1 \in 0 .. Rounds(n)
        BY <1>1, <4>1, RoundHalves
      <4>3. a - 1 \in 0 .. n - 1
        BY <4>2
      <4>4. V[r - 1] \in [0 .. n - 1 -> Nat]
        BY <1>3, <4>2 DEF IsValues
      <4>5. V[r - 1][a - 1] \in Nat
        BY <4>3, <4>4
      <4> QED
        BY <4>1, <4>5
    <3> QED
      BY <3>1
  <2> HIDE DEF e
  <2>2. \A r \in 1 .. K : \A x \in Nat : F[<<r, x>>] = x + e(r)
    OBVIOUS
  <2>3. F \in [(1 .. K) \X Nat -> Nat]
    BY <2>1
  <2> HIDE DEF F
  <2>4. PICK E \in [0 .. K -> Nat] : IsIteration(E, K, 0, F)
    BY <2>3, Iterated
  <2>5. E[0] = 0 /\ \A r \in 1 .. K : E[r - 1] \in Nat /\ E[r] = F[<<r, E[r - 1]>>]
    BY <2>4 DEF IsIteration
  <2>6. \A r \in 1 .. K : E[r] = E[r - 1] + e(r)
    BY <2>2, <2>5
  <2>7. IsExtras(E, V, n)
    BY <1>1, <2>4, <2>5, <2>6 DEF IsExtras, e
  <2> QED
    BY <2>7
<1> QED
  BY <1>3, <1>4 DEF Extras

\* What the values of a round are, and what they are made of.
LEMMA ValuesAre ==
    ASSUME NEW n \in Nat \ {0}, NEW f \in [0 .. n - 1 -> Nat], NEW V, NEW E,
           IsValues(V, f, n), IsExtras(E, V, n)
    PROVE  /\ V[0] = f /\ E[0] = 0
           /\ \A r \in 0 .. Rounds(n) : V[r] \in [0 .. n - 1 -> Nat] /\ E[r] \in Nat
           /\ \A r \in 1 .. Rounds(n) :
                  /\ \A i \in 0 .. n - 1 : i < Half(n, r) => V[r][i] = V[r - 1][i] + V[r - 1][i + Half(n, r)]
                  /\ \A i \in 0 .. n - 1 : ~ (i < Half(n, r)) => V[r][i] = V[r - 1][i]
                  /\ Half(n, r - 1) % 2 = 1 => E[r] = E[r - 1] + V[r - 1][Half(n, r - 1) - 1]
                  /\ Half(n, r - 1) % 2 # 1 => E[r] = E[r - 1]
<1>2. /\ V[0] = f /\ E[0] = 0
      /\ \A r \in 0 .. Rounds(n) : V[r] \in [0 .. n - 1 -> Nat] /\ E[r] \in Nat
  BY DEF IsValues, IsExtras
<1>3. ASSUME NEW r \in 1 .. Rounds(n)
      PROVE  /\ \A i \in 0 .. n - 1 : i < Half(n, r) => V[r][i] = V[r - 1][i] + V[r - 1][i + Half(n, r)]
             /\ \A i \in 0 .. n - 1 : ~ (i < Half(n, r)) => V[r][i] = V[r - 1][i]
  BY DEF IsValues
<1>4. ASSUME NEW r \in 1 .. Rounds(n)
      PROVE  /\ Half(n, r - 1) % 2 = 1 => E[r] = E[r - 1] + V[r - 1][Half(n, r - 1) - 1]
             /\ Half(n, r - 1) % 2 # 1 => E[r] = E[r - 1]
  <2>1. E[r] = E[r - 1] + IF Half(n, r - 1) % 2 = 1 THEN V[r - 1][Half(n, r - 1) - 1] ELSE 0
    BY DEF IsExtras
  <2>2. E[r - 1] \in Nat
    <3>1. r - 1 \in 0 .. Rounds(n)
      BY RoundHalves
    <3> QED
      BY <1>2, <3>1
  <2> QED
    BY <2>1, <2>2
<1> QED
  BY <1>2, <1>3, <1>4

\* Nothing is lost: the cells that still count and extra have the sum of all
\* words between them, after each round.
LEMMA NothingLost ==
    ASSUME NEW n \in Nat \ {0}, NEW f \in [0 .. n - 1 -> Nat], NEW V, NEW E,
           IsValues(V, f, n), IsExtras(E, V, n)
    PROVE  V[Rounds(n)][0] + E[Rounds(n)] = Total(f, n)
<1>1. PICK K \in Nat : K = Rounds(n) /\ Half(n, 0) = n /\ Half(n, K) = 1
  BY RoundsEnd
<1>2. /\ V[0] = f /\ E[0] = 0
      /\ \A r \in 0 .. K : V[r] \in [0 .. n - 1 -> Nat] /\ E[r] \in Nat
  BY <1>1, ValuesAre
<1> DEFINE Ok(r) == Total(V[r], Half(n, r)) + E[r] = Total(f, n)
           Wrong == {r \in Nat : r <= K /\ ~ Ok(r)}
<1>3. Ok(0)
  <2>1. Total(f, n) \in Nat
    <3>1. \A i \in 0 .. n - 1 : f[i] \in Nat /\ f[i] = f[i]
      OBVIOUS
    <3> QED
      BY <3>1, TotalAgrees
  <2> QED
    BY <1>1, <1>2, <2>1
<1>4. ASSUME NEW r \in 1 .. K, Ok(r - 1) PROVE Ok(r)
  <2>1. PICK a, b, d : a = Half(n, r - 1) /\ b = Half(n, r) /\ d = Half(n, r - 1) % 2
    OBVIOUS
  <2>2. a \in Nat \ {0} /\ b \in Nat \ {0} /\ a = 2 * b + d /\ d \in {0, 1} /\ a <= n /\ r - 1 \in 0 .. K
    BY <1>1, <2>1, RoundHalves
  <2>3. PICK u, v, x, y : u = V[r - 1] /\ v = V[r] /\ x = E[r - 1] /\ y = E[r]
    OBVIOUS
  <2>4. u \in [0 .. n - 1 -> Nat] /\ v \in [0 .. n - 1 -> Nat] /\ x \in Nat /\ y \in Nat
    <3>1. r \in 0 .. K
      OBVIOUS
    <3> QED
      BY <1>2, <2>2, <2>3, <3>1, Zenon
  <2>5. /\ \A i \in 0 .. n - 1 : i < b => v[i] = u[i] + u[i + b]
        /\ d = 1 => y = x + u[a - 1]
        /\ d # 1 => y = x
    <3>1. r \in 1 .. Rounds(n)
      BY <1>1
    <3>2. \A i \in 0 .. n - 1 : V[r][i] =
              IF i < Half(n, r) THEN V[r - 1][i] + V[r - 1][i + Half(n, r)] ELSE V[r - 1][i]
      BY <3>1 DEF IsValues
    <3>3. E[r] = E[r - 1] + IF Half(n, r - 1) % 2 = 1 THEN V[r - 1][Half(n, r - 1) - 1] ELSE 0
      BY <3>1 DEF IsExtras
    <3>4. \A i \in 0 .. n - 1 : v[i] = IF i < b THEN u[i] + u[i + b] ELSE u[i]
      BY <2>1, <2>3, <3>2
    <3>5. y = x + IF d = 1 THEN u[a - 1] ELSE 0
      BY <2>1, <2>3, <3>3
    <3> QED
      BY <2>4, <3>4, <3>5
  <2>6. Total(v, b) = Total(u, 2 * b)
    <3>1. \A i \in 0 .. 2 * b - 1 : u[i] \in Nat
      BY <2>2, <2>4
    <3>2. \A i \in 0 .. b - 1 : v[i] = u[i] + u[i + b]
      BY <2>2, <2>5
    <3> QED
      BY <2>2, <3>1, <3>2, FoldOnce
  <2>7. Total(u, 2 * b) \in Nat
    <3>1. 2 * b \in Nat /\ \A i \in 0 .. 2 * b - 1 : u[i] \in Nat /\ u[i] = u[i]
      BY <2>2, <2>4
    <3> QED
      BY <3>1, TotalAgrees
  <2>8. CASE d = 1
    <3>1. PICK m \in Nat : m = 2 * b /\ a = m + 1 /\ a - 1 = m /\ \A i \in 0 .. m : u[i] \in Nat
      BY <2>2, <2>4, <2>8
    <3>2. u[m] \in Nat
      BY <3>1
    <3>5. Total(u, m + 1) = Total(u, m) + u[m]
      BY <3>1, TotalStep
    <3>3. Total(u, a) + x = Total(f, n)
      BY <1>4, <2>1, <2>3
    <3>4. Total(v, b) + y = Total(f, n)
      <4>1. PICK t, e : t = Total(u, m) /\ e = u[m]
        OBVIOUS
      <4>2. t \in Nat /\ e \in Nat /\ Total(v, b) = t /\ y = x + e /\ (t + e) + x = Total(f, n)
        BY <2>5, <2>6, <2>7, <2>8, <3>1, <3>2, <3>3, <3>5, <4>1
      <4>3. t + (x + e) = (t + e) + x
        BY <2>4, <4>2
      <4> QED
        BY <4>2, <4>3
    <3> QED
      BY <2>1, <2>3, <3>4
  <2>9. CASE d = 0
    <3>1. a = 2 * b
      BY <2>2, <2>9
    <3>2. Total(u, a) + x = Total(f, n)
      BY <1>4, <2>1, <2>3
    <3>3. Total(v, b) + y = Total(f, n)
      BY <2>5, <2>6, <2>9, <3>1, <3>2
    <3> QED
      BY <2>1, <2>3, <3>3
  <2> QED
    BY <2>2, <2>8, <2>9
<1> HIDE DEF Ok
<1>5. Wrong = {}
  <2>1. SUFFICES ASSUME Wrong # {} PROVE FALSE
    OBVIOUS
  <2>2. PICK m \in Wrong : \A k \in Wrong : m <= k
    BY <2>1, LeastNat
  <2>3. m \in Nat /\ m # 0
    BY <1>3, <2>2
  <2>4. m \in 1 .. K /\ m - 1 \notin Wrong /\ m - 1 \in 0 .. K
    BY <2>2, <2>3
  <2> QED
    BY <1>4, <2>2, <2>4
<1>6. Ok(K)
  BY <1>5
<1>7. Total(V[K], 1) = V[K][0]
  <2>1. V[K] \in [0 .. n - 1 -> Nat] /\ 0 \in 0 .. n - 1
    BY <1>2
  <2>2. \A i \in 0 .. 0 : V[K][i] \in Nat
    BY <2>1
  <2>3. PICK u : u = V[K]
    OBVIOUS
  <2>4. Total(u, 0) = 0 /\ Total(u, 0 + 1) = Total(u, 0) + u[0]
    <3>1. \A i \in 0 .. 0 : u[i] \in Nat
      BY <2>2, <2>3
    <3> QED
      BY <3>1, TotalStep
  <2>5. u[0] \in Nat /\ 0 + 1 = 1
    BY <2>1, <2>3
  <2> QED
    BY <2>3, <2>4, <2>5
<1> QED
  BY <1>1, <1>6, <1>7 DEF Ok

\* A cell that no later round adds to keeps its value.
LEMMA CellRests ==
    ASSUME NEW n \in Nat \ {0}, NEW f \in [0 .. n - 1 -> Nat], NEW V, IsValues(V, f, n),
           NEW p \in 0 .. Rounds(n), NEW q \in 0 .. Rounds(n), p <= q, NEW i \in 0 .. n - 1,
           p < Rounds(n) => Half(n, p + 1) <= i
    PROVE  V[q][i] = V[p][i]
<1>1. PICK K \in Nat : K = Rounds(n)
  BY RoundsEnd
<1> DEFINE Wrong == {d \in Nat : p + d <= K /\ V[p + d][i] # V[p][i]}
<1>2. Wrong = {}
  <2>1. SUFFICES ASSUME Wrong # {} PROVE FALSE
    OBVIOUS
  <2>2. PICK m \in Wrong : \A k \in Wrong : m <= k
    BY <2>1, LeastNat
  <2>3. p + 0 = p
    OBVIOUS
  <2>4. m \in Nat /\ m # 0
    BY <2>2, <2>3
  <2>5. PICK r \in 1 .. K : r = p + m /\ r - 1 = p + (m - 1) /\ p + 1 <= r
    BY <1>1, <2>2, <2>4
  <2>6. V[r - 1][i] = V[p][i]
    <3>1. m - 1 \in Nat /\ p + (m - 1) <= K
      BY <1>1, <2>2, <2>4
    <3>2. m - 1 \notin Wrong
      <4> HIDE DEF Wrong
      <4> QED
        BY <2>2, <2>4
    <3> QED
      BY <2>5, <3>1, <3>2
  <2>7. ~ (i < Half(n, r))
    <3>1. p < Rounds(n)
      BY <1>1, <2>5
    <3>2. p + 1 \in Nat /\ r \in Nat /\ n \in Nat /\ p + 1 <= r
      BY <1>1, <2>5
    <3>3. Half(n, r) \in Nat /\ Half(n, p + 1) \in Nat /\ Half(n, r) <= Half(n, p + 1)
      BY <3>2, HalvesShrink
    <3>4. Half(n, p + 1) <= i
      BY <3>1
    <3> QED
      BY <3>3, <3>4
  <2>8. V[r][i] = V[r - 1][i]
    <3>1. IsValues(V, f, n) /\ r \in 1 .. Rounds(n)
      BY <1>1
    <3> QED
      BY <2>7, <3>1 DEF IsValues
  <2> QED
    BY <2>2, <2>5, <2>6, <2>8
<1>3. q - p \in Nat /\ p + (q - p) = q /\ q <= K
  BY <1>1
<1>4. q - p \notin Wrong
  BY <1>2
<1> QED
  BY <1>3, <1>4

\* extra changes only in rounds that leave an item without a partner.
LEMMA ExtraRests ==
    ASSUME NEW n \in Nat \ {0}, NEW V, NEW E, IsExtras(E, V, n),
           NEW p \in 0 .. Rounds(n), NEW q \in 0 .. Rounds(n), p <= q,
           \A r \in p + 1 .. q : Half(n, r - 1) % 2 # 1
    PROVE  E[q] = E[p]
<1>1. PICK K \in Nat : K = Rounds(n)
  BY RoundsEnd
<1> DEFINE Wrong == {d \in Nat : p + d <= q /\ E[p + d] # E[p]}
<1>2. Wrong = {}
  <2>1. SUFFICES ASSUME Wrong # {} PROVE FALSE
    OBVIOUS
  <2>2. PICK m \in Wrong : \A k \in Wrong : m <= k
    BY <2>1, LeastNat
  <2>3. p + 0 = p
    OBVIOUS
  <2>4. m \in Nat /\ m # 0
    BY <2>2, <2>3
  <2>5. PICK r \in p + 1 .. q : r = p + m /\ r - 1 = p + (m - 1) /\ r \in 1 .. K
    BY <1>1, <2>2, <2>4
  <2>6. E[r - 1] = E[p]
    <3>1. m - 1 \in Nat /\ p + (m - 1) <= q
      BY <1>1, <2>2, <2>4
    <3>2. m - 1 \notin Wrong
      <4> HIDE DEF Wrong
      <4> QED
        BY <2>2, <2>4
    <3> QED
      BY <2>5, <3>1, <3>2
  <2>7. E[r] = E[r - 1]
    <3>1. Half(n, r - 1) % 2 # 1
      BY <2>5
    <3> QED
      <4>3. r - 1 \in 0 .. K
        BY <1>1, <2>5
      <4>1. E[r - 1] \in Nat
        BY <1>1, <4>3, Zenon DEF IsExtras
      <4>2. E[r] = E[r - 1] + IF Half(n, r - 1) % 2 = 1 THEN V[r - 1][Half(n, r - 1) - 1] ELSE 0
        BY <1>1, <2>5 DEF IsExtras
      <4> QED
        BY <3>1, <4>1, <4>2
  <2> QED
    BY <2>2, <2>5, <2>6, <2>7
<1>3. q - p \in Nat /\ p + (q - p) = q
  BY <1>1
<1>4. q - p \notin Wrong
  BY <1>2
<1> QED
  BY <1>3, <1>4

\* Halves of a power of 2 are even until they are 1.
LEMMA PowersHalve ==
    ASSUME NEW e \in Nat, NEW n, n = 2 ^ e
    PROVE  n \in Nat \ {0} /\ \A r \in 1 .. Rounds(n) : Half(n, r - 1) % 2 # 1
<1>1. n \in Nat \ {0}
  BY Power2
<1>2. PICK K \in Nat : K = Rounds(n) /\ Half(n, 0) = n /\ \A j \in 1 .. K : Half(n, j) \in Nat \ {0}
  BY <1>1, RoundsEnd
<1> DEFINE Ok(r) == r <= e => Half(n, r) = 2 ^ (e - r)
           Wrong == {r \in Nat : ~ Ok(r)}
<1>3. ASSUME NEW r \in Nat, r <= e
      PROVE  2 ^ (e - r) \in Nat \ {0} /\ (r < e => 2 ^ (e - r) = 2 * 2 ^ (e - (r + 1)))
  <2>1. e - r \in Nat /\ (r < e => e - (r + 1) \in Nat /\ (e - (r + 1)) + 1 = e - r)
    BY <1>3
  <2>2. 2 ^ (e - r) \in Nat \ {0}
    BY <2>1, Power2
  <2>3. ASSUME r < e PROVE 2 ^ (e - r) = 2 * 2 ^ (e - (r + 1))
    <3>1. PICK d \in Nat : d = e - (r + 1) /\ d + 1 = e - r
      BY <2>1, <2>3
    <3>2. 2 ^ (d + 1) = 2 * 2 ^ d
      BY Power2
    <3> QED
      BY <3>1, <3>2
  <2> QED
    BY <2>2, <2>3
<1>4. Ok(0)
  <2>1. e - 0 = e
    OBVIOUS
  <2> QED
    BY <1>2, <2>1
<1>5. ASSUME NEW r \in Nat, Ok(r) PROVE Ok(r + 1)
  <2>1. SUFFICES ASSUME r + 1 <= e PROVE Half(n, r + 1) = 2 ^ (e - (r + 1))
    OBVIOUS
  <2>2. r <= e /\ r < e
    BY <2>1
  <2>3. PICK a, b, c : a = Half(n, r) /\ b = Half(n, r + 1) /\ c = 2 ^ (e - (r + 1))
    OBVIOUS
  <2>4. a = 2 * c
    BY <1>3, <1>5, <2>2, <2>3
  <2>5. c \in Nat
    <3>1. e - (r + 1) \in Nat
      BY <2>1
    <3> QED
      BY <2>3, <3>1, Power2
  <2>6. a \in Nat /\ b \in Nat /\ a = 2 * b + (IF a % 2 = 1 THEN 1 ELSE 0)
    BY <1>1, <2>3, Halving
  <2>7. b = c
    BY <2>4, <2>5, <2>6
  <2> QED
    BY <2>3, <2>7
<1> HIDE DEF Ok
<1>6. Wrong = {}
  <2>1. SUFFICES ASSUME Wrong # {} PROVE FALSE
    OBVIOUS
  <2>2. PICK m \in Wrong : \A k \in Wrong : m <= k
    BY <2>1, LeastNat
  <2>3. m \in Nat /\ m # 0
    BY <1>4, <2>2
  <2>4. m - 1 \in Nat /\ (m - 1) + 1 = m /\ m - 1 \notin Wrong
    BY <2>2, <2>3
  <2> QED
    BY <1>5, <2>2, <2>4
<1>7. ASSUME NEW r \in 1 .. K PROVE Half(n, r - 1) % 2 # 1
  <2>1. PICK d \in Nat : d = r - 1 /\ d + 1 = r
    OBVIOUS
  <2>2. PICK a, b : a = Half(n, d) /\ b = Half(n, d + 1)
    OBVIOUS
  <2>3. b \in Nat \ {0}
    BY <1>2, <2>1, <2>2
  <2>4. a \in Nat /\ a = 2 * b + (IF a % 2 = 1 THEN 1 ELSE 0)
    BY <1>1, <2>2, Halving
  <2>5. \A q \in Nat : Ok(q)
    BY <1>6
  <2>6. CASE d < e
    <3>1. a = 2 ^ (e - d)
      BY <2>2, <2>5, <2>6 DEF Ok
    <3>2. PICK c : c = 2 ^ (e - (d + 1))
      OBVIOUS
    <3>3. a = 2 * c
      BY <1>3, <2>6, <3>1, <3>2
    <3>4. c \in Nat
      <4>1. e - (d + 1) \in Nat
        BY <2>6
      <4> QED
        BY <3>2, <4>1, Power2
    <3>5. a % 2 # 1
      BY <3>3, <3>4
    <3> QED
      BY <2>1, <2>2, <3>5
  <2>7. CASE e <= d
    <3>1. Half(n, e) = 1
      <4>1. e <= e /\ e - e = 0 /\ 2 ^ 0 = 1
        BY SMT
      <4> QED
        BY <2>5, <4>1 DEF Ok
    <3>2. n \in Nat /\ e <= d
      BY <1>1, <2>7
    <3>3. Half(n, d) <= Half(n, e) /\ Half(n, d) \in Nat
      BY <3>2, HalvesShrink
    <3> QED
      BY <2>2, <2>3, <2>4, <3>1, <3>3
  <2> QED
    BY <2>6, <2>7
<1> QED
  BY <1>1, <1>2, <1>7

\* Cells that hold 0 do not count.
LEMMA PaddingAddsNothing ==
    ASSUME NEW b \in Nat, NEW n \in Nat, b <= n, NEW row \in [0 .. b - 1 -> Nat], NEW f,
           f = [i \in 0 .. n - 1 |-> IF i < b THEN row[i] ELSE 0]
    PROVE  Total(f, n) = SumFunction(row)
<1>1. f \in [0 .. n - 1 -> Nat] /\ \A i \in 0 .. n - 1 : f[i] = IF i < b THEN row[i] ELSE 0
  OBVIOUS
<1>2. Total(f, b) = SumFunction(row) /\ Total(f, b) \in Nat
  <2>1. \A i \in 0 .. b - 1 : f[i] \in Nat /\ f[i] = row[i]
    OBVIOUS
  <2>2. Total(f, b) = Total(row, b) /\ Total(f, b) \in Nat
    BY <2>1, TotalAgrees
  <2>3. DOMAIN row = 0 .. b - 1
    OBVIOUS
  <2> QED
    BY <2>2, <2>3 DEF Total, SumFunction
<1> DEFINE Wrong == {d \in Nat : b + d <= n /\ Total(f, b + d) # Total(f, b)}
<1>3. Wrong = {}
  <2>1. SUFFICES ASSUME Wrong # {} PROVE FALSE
    OBVIOUS
  <2>2. PICK m \in Wrong : \A k \in Wrong : m <= k
    BY <2>1, LeastNat
  <2>3. b + 0 = b
    OBVIOUS
  <2>4. m \in Nat /\ m # 0
    BY <2>2, <2>3
  <2>5. PICK k \in Nat : k = b + (m - 1) /\ k + 1 = b + m /\ k \in 0 .. n - 1 /\ ~ (k < b)
    BY <2>2, <2>4
  <2>6. Total(f, k) = Total(f, b)
    <3>1. m - 1 \in Nat /\ b + (m - 1) <= n
      BY <2>2, <2>4
    <3>2. m - 1 \notin Wrong
      <4> HIDE DEF Wrong
      <4> QED
        BY <2>2, <2>4
    <3> QED
      BY <2>5, <3>1, <3>2
  <2>7. \A i \in 0 .. k : f[i] \in Nat
    BY <1>1, <2>5
  <2>8. Total(f, k + 1) = Total(f, k) + f[k] /\ Total(f, k) \in Nat
    BY <2>7, TotalStep
  <2>9. f[k] = 0
    BY <1>1, <2>5
  <2> QED
    BY <2>2, <2>5, <2>6, <2>8, <2>9
<1>4. n - b \in Nat /\ b + (n - b) = n /\ b + (n - b) <= n
  OBVIOUS
<1>5. n - b \notin Wrong
  BY <1>3
<1> QED
  BY <1>2, <1>4, <1>5

-----------------------------------------------------------------------------
(* How far a warp is.                                                       *)

\* Where round j of a kernel adds; it carries one instruction earlier.
Pos(l, j) == AddPos(Carrying(l), Synced(l), Between(l), j)

RoundsOf(l) == IF Adds(l) THEN Rounds(l.local_worksize) ELSE 0

\* A warp at instruction i has executed the additions of r rounds.
Added(l, i, r) ==
    /\ r # 0 => Pos(l, r) < i
    /\ r # RoundsOf(l) => i <= Pos(l, r + 1)

LEMMA PosGrows ==
    ASSUME NEW c \in BOOLEAN, NEW K \in Nat, NEW A \in 0 .. K, NEW m \in {0, 1},
           NEW r \in 1 .. K
    PROVE  /\ AddPos(c, A, m, r) \in Nat
           /\ AddPos(c, A, m, r) > 1 /\ AddPos(c, A, m, r) < EndPos(c, A, m, K) + 1
           /\ c => AddPos(c, A, m, r) > 3
           /\ \A s \in 1 .. K : r < s => /\ AddPos(c, A, m, r) < AddPos(c, A, m, s)
                                         /\ c => AddPos(c, A, m, r) < AddPos(c, A, m, s) - 1
<1>1. CASE c
  BY <1>1 DEF AddPos, EndPos
<1>2. CASE ~ c
  BY <1>2 DEF AddPos, EndPos
<1> QED
  BY <1>1, <1>2

\* The instructions of the kernels that add up in rounds.
LEMMA Instructions ==
    ASSUME NEW l, WithinLimits(l), Adds(l), NEW i \in DOMAIN Program(l)
    PROVE  /\ i = 1 => Program(l)[i].op = "store"
           /\ Program(l)[i].op = "store" => i = 1
           /\ Program(l)[i].op = "clear" => Carrying(l) /\ i = 2
           /\ Carrying(l) /\ i = 2 => Program(l)[i].op = "clear"
           /\ Program(l)[i].op = "add" =>
                  \E r \in 1 .. Rounds(l.local_worksize) :
                      i = Pos(l, r) /\ Program(l)[i].stride = Half(l.local_worksize, r)
           /\ Program(l)[i].op = "carry" =>
                  Carrying(l) /\ \E r \in 1 .. Rounds(l.local_worksize) :
                      i = Pos(l, r) - 1 /\ Program(l)[i].old = Half(l.local_worksize, r - 1)
           /\ \A r \in 1 .. Rounds(l.local_worksize) : i = Pos(l, r) => Program(l)[i].op = "add"
           /\ Carrying(l) => \A r \in 1 .. Rounds(l.local_worksize) :
                                 i = Pos(l, r) - 1 => Program(l)[i].op = "carry"
           /\ i = ReportPos(l) => Program(l)[i].op = "report"
<1>1. /\ \A op : Simple(op).op = op
      /\ \A n, r : /\ AddAt(n, r).op = "add" /\ CarryAt(n, r).op = "carry"
                   /\ AddAt(n, r).stride = Half(n, r) /\ CarryAt(n, r).old = Half(n, r - 1)
  BY DEF Simple, AddAt, CarryAt
<1>2. PICK n, c, A, m, K, p : /\ n = l.local_worksize /\ c = Carrying(l) /\ A = Synced(l)
                              /\ m = Between(l) /\ K = Rounds(n) /\ p = Program(l)
  OBVIOUS
<1>3. c \in BOOLEAN /\ K \in Nat /\ A \in 0 .. K /\ m \in {0, 1}
  BY <1>2, RoundFacts
<1>4. IsLayout(p, n, c, A, m, K)
  BY <1>2, ProgramLayout
<1>5. i \in 1 .. Len(p)
  BY <1>2, ProgramFacts
<1>6. IsKnown(p, n, c, A, m, K, i)
  BY <1>3, <1>4, <1>5, Kinds
<1>7. \A r : Pos(l, r) = AddPos(c, A, m, r)
  BY <1>2 DEF Pos
<1>8. EndPos(c, A, m, K) \in Nat /\ EndPos(c, A, m, K) + 1 = ReportPos(l)
  <2>1. EndPos(c, A, m, K) \in Nat
    BY <1>3 DEF EndPos
  <2>2. Len(p) = EndPos(c, A, m, K) + 2
    BY <1>4 DEF IsLayout
  <2>3. ~ Alone(l)
    BY DEF Alone, Adds
  <2> QED
    BY <1>2, <2>1, <2>2, <2>3 DEF ReportPos
<1>9. /\ p[1] = Simple("store")
      /\ c => p[2] = Simple("clear")
      /\ \A j \in 1 .. K : p[AddPos(c, A, m, j)] = AddAt(n, j)
      /\ c => \A j \in 1 .. K : p[AddPos(c, A, m, j) - 1] = CarryAt(n, j)
      /\ p[EndPos(c, A, m, K) + 1] = Simple("report")
  BY <1>4 DEF IsLayout
<1>10. /\ p[i].op = "store" => i = 1
       /\ p[i].op = "clear" => c /\ i = 2
       /\ p[i].op = "add" => \E r \in 1 .. K : i = AddPos(c, A, m, r) /\ p[i] = AddAt(n, r)
       /\ p[i].op = "carry" => c /\ \E r \in 1 .. K : i = AddPos(c, A, m, r) - 1 /\ p[i] = CarryAt(n, r)
  BY <1>1, <1>6 DEF IsKnown, IsRound
<1>11. /\ i = 1 => p[i].op = "store"
       /\ c /\ i = 2 => p[i].op = "clear"
       /\ \A r \in 1 .. K : i = AddPos(c, A, m, r) => p[i].op = "add"
       /\ c => \A r \in 1 .. K : i = AddPos(c, A, m, r) - 1 => p[i].op = "carry"
       /\ i = EndPos(c, A, m, K) + 1 => p[i].op = "report"
  BY <1>1, <1>9
<1>12. /\ p[i].op = "add" => \E r \in 1 .. K : i = Pos(l, r) /\ p[i].stride = Half(n, r)
       /\ p[i].op = "carry" => c /\ \E r \in 1 .. K : i = Pos(l, r) - 1 /\ p[i].old = Half(n, r - 1)
  BY <1>1, <1>7, <1>10
<1> QED
  BY <1>2, <1>7, <1>8, <1>10, <1>11, <1>12

\* The rounds are in order.
LEMMA PosOrder ==
    ASSUME NEW l, WithinLimits(l), Adds(l), NEW r \in 1 .. Rounds(l.local_worksize)
    PROVE  /\ Pos(l, r) \in Nat /\ Pos(l, r) > 1 /\ Pos(l, r) < ReportPos(l)
           /\ Carrying(l) => Pos(l, r) > 3
           /\ \A s \in 1 .. Rounds(l.local_worksize) :
                  r < s => Pos(l, r) < Pos(l, s) /\ (Carrying(l) => Pos(l, r) < Pos(l, s) - 1)
           /\ Synced(l) \in 0 .. Rounds(l.local_worksize)
           /\ ReportPos(l) = Len(Program(l)) - 1 /\ Len(Program(l)) \in Nat
<1>2. PICK n, c, A, m, K, p : /\ n = l.local_worksize /\ c = Carrying(l) /\ A = Synced(l)
                              /\ m = Between(l) /\ K = Rounds(n) /\ p = Program(l)
  OBVIOUS
<1>3. c \in BOOLEAN /\ K \in Nat /\ A \in 0 .. K /\ m \in {0, 1}
  BY <1>2, RoundFacts
<1>4. IsLayout(p, n, c, A, m, K)
  BY <1>2, ProgramLayout
<1>5. EndPos(c, A, m, K) \in Nat /\ EndPos(c, A, m, K) + 1 = ReportPos(l) /\ ReportPos(l) = Len(p) - 1
      /\ Len(p) \in Nat
  <2>1. EndPos(c, A, m, K) \in Nat
    BY <1>3 DEF EndPos
  <2>2. Len(p) = EndPos(c, A, m, K) + 2
    BY <1>4 DEF IsLayout
  <2>3. ~ Alone(l)
    BY DEF Alone, Adds
  <2> QED
    BY <1>2, <2>1, <2>2, <2>3 DEF ReportPos
<1>6. \A s : Pos(l, s) = AddPos(c, A, m, s)
  BY <1>2 DEF Pos
<1>7. /\ AddPos(c, A, m, r) \in Nat
      /\ AddPos(c, A, m, r) > 1 /\ AddPos(c, A, m, r) < EndPos(c, A, m, K) + 1
      /\ c => AddPos(c, A, m, r) > 3
      /\ \A s \in 1 .. K : r < s => /\ AddPos(c, A, m, r) < AddPos(c, A, m, s)
                                    /\ c => AddPos(c, A, m, r) < AddPos(c, A, m, s) - 1
  BY <1>2, <1>3, PosGrows
<1> QED
  BY <1>2, <1>3, <1>5, <1>6, <1>7

\* Before a round there is a barrier, and the rounds that begin with one and
\* come before that round are before that barrier.
LEMMA BarrierBefore ==
    ASSUME NEW l, WithinLimits(l), Adds(l), l.local_worksize > WarpSize,
           NEW r \in 1 .. Rounds(l.local_worksize)
    PROVE  \E b \in DOMAIN Program(l) :
               /\ Program(l)[b].op = "barrier" /\ 1 < b /\ b < Pos(l, r)
               /\ Carrying(l) => 2 < b /\ b < Pos(l, r) - 1
               /\ \A s \in 1 .. Rounds(l.local_worksize) : s < r /\ s <= Synced(l) => Pos(l, s) < b
<1>2. PICK n, c, A, m, K, p : /\ n = l.local_worksize /\ c = Carrying(l) /\ A = Synced(l)
                              /\ m = Between(l) /\ K = Rounds(n) /\ p = Program(l)
  OBVIOUS
<1>3. c \in BOOLEAN /\ K \in Nat /\ A \in 0 .. K /\ m \in {0, 1} /\ (A = K \/ m = 1) /\ r \in 1 .. K
  BY <1>2, RoundFacts
<1>4. IsLayout(p, n, c, A, m, K)
  BY <1>2, ProgramLayout
<1>5. /\ \A j \in 1 .. A : p[SyncPos(c, j)] = Simple("barrier")
      /\ m = 1 => p[MidPos(c, A)] = Simple("barrier")
      /\ Len(p) = EndPos(c, A, m, K) + 2 /\ DOMAIN p = 1 .. Len(p)
  BY <1>4 DEF IsLayout
<1>6. Simple("barrier").op = "barrier"
  BY DEF Simple
<1>7. \E b \in 1 .. EndPos(c, A, m, K) + 2 :
          /\ p[b] = Simple("barrier") /\ 1 < b /\ b < AddPos(c, A, m, r)
          /\ c => 2 < b /\ b < AddPos(c, A, m, r) - 1
          /\ \A s \in 1 .. K : s < r /\ s <= A => AddPos(c, A, m, s) < b
  <2>1. CASE r <= A
    <3>1. PICK b : b = SyncPos(c, r) /\ p[b] = Simple("barrier")
      BY <1>3, <1>5, <2>1
    <3>2. CASE c
      BY <1>3, <2>1, <3>1, <3>2 DEF SyncPos, AddPos, EndPos
    <3>3. CASE ~ c
      BY <1>3, <2>1, <3>1, <3>3 DEF SyncPos, AddPos, EndPos
    <3> QED
      BY <3>2, <3>3
  <2>2. CASE r > A
    <3>1. PICK b : b = MidPos(c, A) /\ p[b] = Simple("barrier") /\ m = 1
      BY <1>3, <1>5, <2>2
    <3>2. CASE c
      BY <1>3, <2>2, <3>1, <3>2 DEF MidPos, AddPos, EndPos
    <3>3. CASE ~ c
      BY <1>3, <2>2, <3>1, <3>3 DEF MidPos, AddPos, EndPos
    <3> QED
      BY <3>2, <3>3
  <2> QED
    BY <1>3, <2>1, <2>2
<1>8. \A s : Pos(l, s) = AddPos(c, A, m, s)
  BY <1>2 DEF Pos
<1>9. PICK b \in 1 .. EndPos(c, A, m, K) + 2 :
          /\ p[b] = Simple("barrier") /\ 1 < b /\ b < AddPos(c, A, m, r)
          /\ c => 2 < b /\ b < AddPos(c, A, m, r) - 1
          /\ \A s \in 1 .. K : s < r /\ s <= A => AddPos(c, A, m, s) < b
  BY <1>7
<1>10. b \in DOMAIN Program(l) /\ Program(l)[b].op = "barrier"
  BY <1>2, <1>5, <1>6, <1>9
<1> QED
  BY <1>2, <1>8, <1>9, <1>10

LEMMA BarrierBeforeReport ==
    ASSUME NEW l, WithinLimits(l), Adds(l), l.local_worksize > WarpSize
    PROVE  \E b \in DOMAIN Program(l) :
               /\ Program(l)[b].op = "barrier" /\ b < ReportPos(l)
               /\ \A s \in 1 .. Rounds(l.local_worksize) :
                      s < Rounds(l.local_worksize) /\ s <= Synced(l) => Pos(l, s) < b
<1>1. Rounds(l.local_worksize) \in Nat /\ Rounds(l.local_worksize) > 0
  BY RoundFacts
<1>2. PICK K : K = Rounds(l.local_worksize) /\ K \in 1 .. K
  BY <1>1
<1>3. PICK b \in DOMAIN Program(l) :
               /\ Program(l)[b].op = "barrier" /\ 1 < b /\ b < Pos(l, K)
               /\ \A s \in 1 .. K : s < K /\ s <= Synced(l) => Pos(l, s) < b
  BY <1>2, BarrierBefore
<1>4. Pos(l, K) \in Nat /\ Pos(l, K) < ReportPos(l) /\ ReportPos(l) \in Nat /\ b \in Nat
  BY <1>2, ProgramFacts, PosOrder
<1> QED
  BY <1>2, <1>3, <1>4

\* How many rounds a warp has added up changes with an addition only.
LEMMA AddedMoves ==
    ASSUME NEW l, WithinLimits(l), Adds(l), NEW i \in 1 .. Len(Program(l)),
           NEW s \in 0 .. RoundsOf(l), Added(l, i + 1, s)
    PROVE  /\ \A r \in 1 .. RoundsOf(l) : i = Pos(l, r) => s = r /\ Added(l, i, r - 1)
           /\ (\A r \in 1 .. RoundsOf(l) : i # Pos(l, r)) => Added(l, i, s)
<1>1. PICK K : K = RoundsOf(l) /\ K = Rounds(l.local_worksize) /\ K \in Nat
  BY RoundFacts DEF RoundsOf
<1>2. \A r \in 1 .. K : /\ Pos(l, r) \in Nat
                        /\ \A q \in 1 .. K : r < q => Pos(l, r) < Pos(l, q)
  BY <1>1, PosOrder
<1>3. i \in Nat
  BY ProgramFacts
<1>4. /\ s # 0 => Pos(l, s) < i + 1
      /\ s # K => i + 1 <= Pos(l, s + 1)
  BY <1>1 DEF Added
<1>5. ASSUME NEW r \in 1 .. K, i = Pos(l, r) PROVE s = r /\ Added(l, i, r - 1)
  <2>1. ~ (s < r)
    <3>1. SUFFICES ASSUME s < r PROVE FALSE
      OBVIOUS
    <3>2. s + 1 \in 1 .. K /\ s # K /\ (s + 1 < r \/ s + 1 = r)
      BY <1>1, <3>1
    <3>3. i + 1 <= Pos(l, s + 1) /\ Pos(l, s + 1) <= Pos(l, r) /\ Pos(l, s + 1) \in Nat
      BY <1>2, <1>4, <3>2
    <3> QED
      BY <1>3, <1>5, <3>3
  <2>2. ~ (r < s)
    <3>1. SUFFICES ASSUME r < s PROVE FALSE
      OBVIOUS
    <3>2. s \in 1 .. K /\ s # 0
      BY <1>1, <3>1
    <3>3. Pos(l, s) < i + 1 /\ Pos(l, r) < Pos(l, s) /\ Pos(l, s) \in Nat
      BY <1>2, <1>4, <3>1, <3>2
    <3> QED
      BY <1>3, <1>5, <3>3
  <2>3. s = r
    BY <1>1, <2>1, <2>2
  <2>4. r - 1 # 0 => Pos(l, r - 1) < i
    <3>1. r - 1 # 0 => r - 1 \in 1 .. K /\ r - 1 < r
      BY <1>1
    <3> QED
      BY <1>2, <1>5, <3>1
  <2>5. (r - 1) + 1 = r /\ i <= Pos(l, r)
    BY <1>1, <1>3, <1>5
  <2> QED
    BY <2>3, <2>4, <2>5 DEF Added
<1>6. ASSUME \A r \in 1 .. K : i # Pos(l, r) PROVE Added(l, i, s)
  <2>1. ASSUME s # 0 PROVE Pos(l, s) < i
    <3>1. s \in 1 .. K
      BY <1>1, <2>1
    <3> QED
      BY <1>2, <1>3, <1>4, <1>6, <2>1, <3>1
  <2>2. ASSUME s # K PROVE i <= Pos(l, s + 1)
    <3>1. s + 1 \in 1 .. K
      BY <1>1, <2>2
    <3> QED
      BY <1>2, <1>3, <1>4, <2>2, <3>1
  <2> QED
    BY <1>1, <2>1, <2>2 DEF Added
<1> QED
  BY <1>1, <1>5, <1>6

\* A warp has always added up some number of rounds.
LEMMA AddedSome ==
    ASSUME NEW l, WithinLimits(l), NEW i \in Nat
    PROVE  \E s \in 0 .. RoundsOf(l) : Added(l, i, s)
<1>1. PICK K \in Nat : K = RoundsOf(l) /\ (K # 0 => Adds(l) /\ K = Rounds(l.local_worksize))
  BY RoundFacts DEF RoundsOf
<1>2. \A r \in 1 .. K : Pos(l, r) \in Nat
  BY <1>1, PosOrder
<1> DEFINE S == {s \in Nat : s <= K /\ (s # K => i <= Pos(l, s + 1))}
<1>3. K \in S
  BY <1>1
<1>4. PICK s \in S : \A q \in S : s <= q
  BY <1>3, LeastNat
<1>5. ASSUME s # 0 PROVE Pos(l, s) < i
  <2>1. s - 1 \in Nat /\ s - 1 <= K /\ s - 1 # K /\ (s - 1) + 1 = s /\ s \in 1 .. K
    BY <1>1, <1>4, <1>5
  <2>2. s - 1 \notin S
    <3> HIDE DEF S
    <3> QED
      BY <1>4, <2>1
  <2>3. ~ (i <= Pos(l, s))
    BY <2>1, <2>2
  <2> QED
    BY <1>2, <2>1, <2>3
<1> QED
  BY <1>1, <1>4, <1>5 DEF Added

-----------------------------------------------------------------------------
(* What the cells hold.                                                     *)

\* The counts a group adds up for location x, and what its cells and extra
\* hold after each round.
Words(x) == [i \in 0 .. launch.local_worksize - 1 |-> IF i < launch.bs_len THEN popcount[x][i] ELSE 0]
ValuesOf(x) == Values(Words(x), launch.local_worksize)
ExtrasOf(x) == Extras(Words(x), launch.local_worksize)

\* The cells of warp w hold what the rounds it has executed make of the words.
Holds(g, w) ==
    \A r \in 0 .. RoundsOf(launch) : Added(launch, at[g][w].pc, r) =>
        \A i \in Items(w) : partial_dist[g][i] = ValuesOf(at[g][w].id)[r][i]

CellsOK ==
    mpc = "running" /\ ~ Alone(launch) =>
        \A g \in Groups(launch) : \A w \in Warps(launch) :
            at[g][w].id \in Locations /\ at[g][w].pc > 1 => Holds(g, w)

LEMMA ValuesOfAre ==
    ASSUME DataOK, WithinLimits(launch), NEW x \in Locations
    PROVE  /\ launch.local_worksize \in Nat \ {0}
           /\ Words(x) \in [0 .. launch.local_worksize - 1 -> Nat]
           /\ IsValues(ValuesOf(x), Words(x), launch.local_worksize)
           /\ IsExtras(ExtrasOf(x), ValuesOf(x), launch.local_worksize)
<1>1. launch.local_worksize \in Nat \ {0} /\ launch.bs_len \in Nat
  BY SizeFacts
<1>2. popcount[x] \in [0 .. launch.bs_len - 1 -> Nat]
  BY DEF DataOK
<1>3. Words(x) \in [0 .. launch.local_worksize - 1 -> Nat]
  BY <1>1, <1>2 DEF Words
<1> QED
  BY <1>1, <1>3, ValuesExist DEF ValuesOf, ExtrasOf

\* Behind a barrier within a location, a warp knows that all others of its
\* group have come to that barrier, as long as one of them has not left.
LEMMA Caught ==
    ASSUME Placed, InStep, WithinLimits(launch), mpc = "running", ~ Alone(launch),
           NEW g \in Groups(launch), NEW u \in Warps(launch), NEW v \in Warps(launch),
           NEW b \in DOMAIN kernel, kernel[b].op = "barrier", b < at[g][u].pc,
           NEW z \in Warps(launch), at[g][z].id = at[g][u].id, at[g][z].pc < Len(kernel)
    PROVE  at[g][v].id = at[g][u].id /\ b <= at[g][v].pc
<1>1. \A w \in Warps(launch) : at[g][w].id \in Nat /\ at[g][w].pc \in 1 .. Len(kernel)
  BY DEF Placed
<1>2. ~ (at[g][z].id < at[g][v].id)
  <2>1. at[g][z].id < at[g][v].id => at[g][z].pc = Len(kernel)
    BY DEF InStep
  <2> QED
    BY <1>1, <2>1
<1>3. ~ (at[g][v].id < at[g][u].id)
  <2>1. at[g][v].id < at[g][u].id => ~ (b < at[g][u].pc)
    BY DEF InStep
  <2> QED
    BY <2>1
<1>4. at[g][v].id = at[g][u].id
  BY <1>1, <1>2, <1>3
<1>5. at[g][u].id = at[g][v].id => (kernel[b].op = "barrier" /\ b < at[g][u].pc => b <= at[g][v].pc)
  BY DEF InStep
<1> QED
  BY <1>4, <1>5

\* What a round adds has been added up before.
LEMMA PartnerReady ==
    ASSUME Placed, InStep, DataOK, CellsOK, WithinLimits(launch), Adds(launch), mpc = "running",
           NEW g \in Groups(launch), NEW w \in Warps(launch), at[g][w].id \in Locations,
           NEW r \in 1 .. Rounds(launch.local_worksize), at[g][w].pc = Pos(launch, r),
           NEW i \in Items(w), i < Half(launch.local_worksize, r)
    PROVE  LET c == i + Half(launch.local_worksize, r)
           IN  partial_dist[g][c] = ValuesOf(at[g][w].id)[r - 1][c]
<1>1. PICK n, A, K, x, h, c : /\ n = launch.local_worksize /\ A = Synced(launch) /\ K = Rounds(n)
                              /\ x = at[g][w].id /\ h = Half(n, r) /\ c = i + h
  OBVIOUS
<1>2. ~ Alone(launch) /\ K = RoundsOf(launch) /\ kernel = Program(launch)
  BY <1>1 DEF Adds, Alone, RoundsOf, Placed
<1>3. n \in Nat \ {0} /\ K \in Nat /\ A \in 0 .. K /\ r \in 1 .. K
  BY <1>1, RoundFacts
<1>4. /\ i \in 0 .. n - 1 /\ (i < WarpSize => w = 0)
      /\ \A j \in 0 .. n - 1 : j \div WarpSize \in Warps(launch) /\ j \in Items(j \div WarpSize)
  BY <1>1, ItemFacts
<1>5. h \in Nat /\ c \in 0 .. n - 1 /\ h <= c
  <2>1. PICK a, d : a = Half(n, r - 1) /\ d = Half(n, r - 1) % 2
    OBVIOUS
  <2>2. h \in Nat \ {0} /\ a \in Nat /\ a = 2 * h + d /\ d \in {0, 1} /\ a <= n
    BY <1>1, <1>3, <2>1, RoundHalves
  <2>3. i < h /\ i \in Nat
    BY <1>1, <1>4
  <2> QED
    BY <1>1, <1>3, <2>2, <2>3
<1>6. PICK v \in Warps(launch) : c \in Items(v)
  BY <1>4, <1>5
<1>7. PICK F, V : F = Words(x) /\ V = ValuesOf(x) /\ IsValues(V, F, n) /\ F \in [0 .. n - 1 -> Nat]
  BY <1>1, ValuesOfAre
<1>13. \A p, q \in 0 .. Rounds(n) :
          p <= q /\ (p < Rounds(n) => Half(n, p + 1) <= c) => V[q][c] = V[p][c]
  BY <1>3, <1>5, <1>7, CellRests
<1>8. \A s \in 1 .. K : Pos(launch, s) \in Nat
  BY <1>1, PosOrder
<1>9. Pos(launch, r) \in Nat /\ Pos(launch, r) > 1 /\ Pos(launch, r) < Len(kernel)
  <2>1. /\ Pos(launch, r) \in Nat /\ Pos(launch, r) > 1 /\ Pos(launch, r) < ReportPos(launch)
        /\ ReportPos(launch) = Len(Program(launch)) - 1 /\ Len(Program(launch)) \in Nat
    BY PosOrder
  <2> QED
    BY <1>2, <2>1
<1>10. \A u \in Warps(launch) : at[g][u].id = x /\ at[g][u].pc > 1 => Holds(g, u)
  BY <1>1, <1>2 DEF CellsOK
<1>11. CASE v = w
  <2>1. Added(launch, Pos(launch, r), r - 1) /\ r - 1 \in 0 .. K
    <3>1. r - 1 # 0 => r - 1 \in 1 .. K /\ r - 1 < r
      BY <1>3
    <3>2. r - 1 # 0 => Pos(launch, r - 1) < Pos(launch, r)
      BY <1>1, <1>3, <3>1, PosOrder
    <3>3. (r - 1) + 1 = r /\ Pos(launch, r) <= Pos(launch, r)
      BY <1>3, <1>9
    <3> QED
      BY <1>3, <3>2, <3>3 DEF Added
  <2>2. Holds(g, w)
    BY <1>1, <1>9, <1>10
  <2>3. partial_dist[g][c] = ValuesOf(x)[r - 1][c]
    BY <1>1, <1>2, <1>6, <1>11, <2>1, <2>2 DEF Holds
  <2> QED
    BY <1>1, <2>3
<1>12. CASE v # w
  <2>1. n > WarpSize
    BY <1>1, <1>12, ItemFacts
  <2>2. PICK b \in DOMAIN kernel :
            /\ kernel[b].op = "barrier" /\ 1 < b /\ b < Pos(launch, r)
            /\ \A s \in 1 .. K : s < r /\ s <= A => Pos(launch, s) < b
    BY <1>1, <1>2, <2>1, BarrierBefore
  <2>3. at[g][v].id = x /\ b <= at[g][v].pc
    BY <1>1, <1>2, <1>9, <2>2, Caught
  <2>4. PICK q : q = at[g][v].pc /\ q \in Nat /\ b \in Nat /\ b <= q
    <3>1. at[g][v].pc \in Nat /\ b \in Nat
      BY <1>2, ProgramFacts DEF Placed
    <3> QED
      BY <2>3, <3>1
  <2>5. PICK s \in 0 .. K : Added(launch, q, s)
    BY <1>2, <2>4, AddedSome
  <2>6. Holds(g, v)
    BY <1>10, <2>2, <2>3, <2>4
  <2>7. partial_dist[g][c] = V[s][c]
    BY <1>2, <1>6, <1>7, <2>3, <2>4, <2>5, <2>6 DEF Holds
  <2>8. \A t \in 0 .. K - 1 : t + 1 < r /\ t + 1 <= A => s # t
    <3>1. ASSUME NEW t \in 0 .. K - 1, t + 1 < r, t + 1 <= A, s = t PROVE FALSE
      <4>1. q <= Pos(launch, t + 1)
        BY <1>2, <2>5, <3>1 DEF Added
      <4>2. t + 1 \in 1 .. K
        BY <1>3
      <4>3. Pos(launch, t + 1) < b /\ Pos(launch, t + 1) \in Nat
        BY <1>8, <2>2, <3>1, <4>2
      <4> QED
        BY <2>4, <4>1, <4>3
    <3> QED
      BY <3>1
  <2>9. V[s][c] = V[r - 1][c]
    <3>1. CASE r <= A
      <4>1. r - 1 <= s /\ r - 1 \in 0 .. K /\ s \in 0 .. K /\ (r - 1) + 1 = r
        <5>1. ~ (s < r - 1)
          BY <1>3, <2>8, <3>1
        <5> QED
          BY <1>3, <5>1
      <4>2. PICK p : p = r - 1
        OBVIOUS
      <4>3. p \in 0 .. Rounds(n) /\ s \in 0 .. Rounds(n) /\ p <= s
        BY <1>1, <4>1, <4>2
      <4>4. p < Rounds(n) => Half(n, p + 1) <= c
        BY <1>1, <1>5, <4>1, <4>2
      <4>5. V[s][c] = V[p][c]
        BY <1>13, <4>3, <4>4, Zenon
      <4> QED
        BY <4>2, <4>5
    <3>2. CASE r > A
      <4>1. \A j \in A + 1 .. K : Half(n, j) <= WarpSize /\ Half(n, j) \in Nat
        BY <1>1, <1>3, <2>1, RoundFacts
      <4>2. h <= WarpSize /\ Half(n, A + 1) <= WarpSize /\ A < K
        BY <1>1, <1>3, <3>2, <4>1
      <4>3. w = 0
        <5>1. i < WarpSize
          BY <1>1, <1>4, <1>5, <4>2, WarpSizeAssumption
        <5> QED
          BY <1>4, <5>1
      <4>4. ~ (c < WarpSize)
        <5>1. c < WarpSize => v = 0
          BY <1>6, ItemFacts
        <5> QED
          BY <1>12, <4>3, <5>1
      <4>5. Half(n, A + 1) <= c
        <5>1. Half(n, A + 1) \in Nat /\ WarpSize \in Nat
          BY <1>3, <4>1, <4>2, WarpSizeAssumption
        <5> QED
          BY <1>5, <4>2, <4>4, <5>1
      <4>6. A <= s /\ A <= r - 1 /\ A \in 0 .. Rounds(n) /\ s \in 0 .. Rounds(n) /\ r - 1 \in 0 .. Rounds(n)
        <5>1. ~ (s < A)
          BY <1>3, <2>8, <3>2
        <5> QED
          BY <1>1, <1>3, <3>2, <5>1
      <4>7. V[s][c] = V[A][c]
        <5>1. A < Rounds(n) => Half(n, A + 1) <= c
          BY <4>5
        <5> QED
          BY <1>13, <4>6, <5>1, Zenon
      <4>8. V[r - 1][c] = V[A][c]
        <5>1. PICK p : p = r - 1
          OBVIOUS
        <5>2. p \in 0 .. Rounds(n) /\ A <= p
          BY <4>6, <5>1
        <5>3. A < Rounds(n) => Half(n, A + 1) <= c
          BY <4>5
        <5>4. V[p][c] = V[A][c]
          BY <1>13, <4>6, <5>2, <5>3, Zenon
        <5> QED
          BY <5>1, <5>4
      <4> QED
        BY <4>7, <4>8
    <3> QED
      BY <1>3, <3>1, <3>2
  <2>10. partial_dist[g][c] = ValuesOf(x)[r - 1][c]
    BY <1>7, <2>7, <2>9
  <2> QED
    BY <1>1, <2>10
<1> QED
  BY <1>11, <1>12

\* The first instruction, and only that, stores; single_scan2 does not add.
LEMMA StoreIsFirst ==
    ASSUME NEW l, WithinLimits(l), ~ Alone(l), NEW i \in DOMAIN Program(l)
    PROVE  /\ Program(l)[i].op = "store" <=> i = 1
           /\ Program(l)[i].op = "add" => Adds(l)
           /\ Program(l)[i].op \in {"clear", "carry"} => Adds(l) /\ Carrying(l)
<1>1. CASE Program(l) = single_scan2
  <2>1. /\ i \in 1 .. 4 /\ Program(l)[1] = Simple("store") /\ Program(l)[2] = Simple("barrier")
        /\ Program(l)[3] = Simple("report_sum") /\ Program(l)[4] = Simple("barrier")
    BY <1>1, Layout2
  <2> QED
    BY <2>1 DEF Simple
<1>2. CASE Adds(l)
  BY <1>2, Instructions
<1> QED
  BY <1>1, <1>2, KernelKinds

\* What an instruction writes to the cells.
Wrote(g, w, op) ==
    LET n == launch.local_worksize
        s == Instruction(g, w).stride
    IN  /\ \A h \in Groups(launch) : \A i \in 0 .. n - 1 :
               h # g \/ i \notin Items(w) => partial_dist'[h][i] = partial_dist[h][i]
        /\ op = "store" => \A i \in Items(w) : partial_dist'[g][i] = Words(at[g][w].id)[i]
        /\ op = "add" => \A i \in Items(w) :
                             /\ i < s => partial_dist'[g][i] = partial_dist[g][i] + partial_dist[g][i + s]
                             /\ ~ (i < s) => partial_dist'[g][i] = partial_dist[g][i]
        /\ op \notin {"store", "add"} => partial_dist' = partial_dist

LEMMA Writing ==
    ASSUME Placed, DataOK, WithinLimits(launch), NEW g, NEW w, Step(g, w)
    PROVE  \E op : Execute(g, w, op) /\ Wrote(g, w, op)
<1>1. PICK n \in Nat \ {0} : n = launch.local_worksize
  BY SizeFacts
<1>2. PICK o : Execute(g, w, o)
  BY Steppings
<1>3. mpc = "running" /\ g \in Groups(launch) /\ w \in Warps(launch)
  BY <1>2, Executes DEF Moves
<1>4. \A i \in Items(w) : i \in 0 .. n - 1
  BY <1>1, <1>3, ItemFacts
<1>5. partial_dist \in [Groups(launch) -> [0 .. n -> Nat]]
  BY <1>1, <1>3 DEF DataOK
<1>6. PICK s : s = Instruction(g, w).stride
  OBVIOUS
<1>7. CASE Store(g, w)
  <2>1. Execute(g, w, "store")
    BY <1>7 DEF Store
  <2>2. PICK row : row = [i \in DOMAIN partial_dist[g] |->
               IF i \notin Items(w) THEN partial_dist[g][i]
               ELSE IF i < launch.bs_len THEN popcount[at[g][w].id][i] ELSE 0]
    OBVIOUS
  <2>3. partial_dist' = [partial_dist EXCEPT ![g] = row]
    BY <1>7, <2>2 DEF Store
  <2>4. /\ \A i \in 0 .. n - 1 : i \notin Items(w) => row[i] = partial_dist[g][i]
        /\ \A i \in Items(w) : row[i] = IF i < launch.bs_len THEN popcount[at[g][w].id][i] ELSE 0
    BY <1>3, <1>4, <1>5, <2>2
  <2>5. /\ partial_dist'[g] = row
        /\ \A h \in Groups(launch) : h # g => partial_dist'[h] = partial_dist[h]
    BY <1>3, <1>5, <2>3
  <2>6. \A i \in Items(w) : partial_dist'[g][i] = Words(at[g][w].id)[i]
    BY <1>1, <1>4, <2>4, <2>5 DEF Words
  <2>7. \A h \in Groups(launch) : \A i \in 0 .. n - 1 :
               h # g \/ i \notin Items(w) => partial_dist'[h][i] = partial_dist[h][i]
    BY <2>4, <2>5
  <2>8. Wrote(g, w, "store")
    BY <1>1, <2>6, <2>7 DEF Wrote
  <2> QED
    BY <2>1, <2>8
<1>8. CASE Add(g, w)
  <2>1. Execute(g, w, "add")
    BY <1>8 DEF Add
  <2>2. PICK row : row = [i \in DOMAIN partial_dist[g] |->
               IF i \in Adding(g, w) THEN partial_dist[g][i] + partial_dist[g][i + s]
               ELSE partial_dist[g][i]]
    OBVIOUS
  <2>3. partial_dist' = [partial_dist EXCEPT ![g] = row]
    BY <1>6, <1>8, <2>2 DEF Add
  <2>4. \A i \in 0 .. n - 1 :
            /\ i \in Items(w) /\ i < s => row[i] = partial_dist[g][i] + partial_dist[g][i + s]
            /\ i \notin Items(w) \/ ~ (i < s) => row[i] = partial_dist[g][i]
    BY <1>3, <1>5, <1>6, <2>2 DEF Adding
  <2>5. /\ partial_dist'[g] = row
        /\ \A h \in Groups(launch) : h # g => partial_dist'[h] = partial_dist[h]
    BY <1>3, <1>5, <2>3
  <2>6. \A i \in Items(w) :
            /\ i < s => partial_dist'[g][i] = partial_dist[g][i] + partial_dist[g][i + s]
            /\ ~ (i < s) => partial_dist'[g][i] = partial_dist[g][i]
    BY <1>4, <2>4, <2>5
  <2>7. \A h \in Groups(launch) : \A i \in 0 .. n - 1 :
               h # g \/ i \notin Items(w) => partial_dist'[h][i] = partial_dist[h][i]
    BY <2>4, <2>5
  <2>8. Wrote(g, w, "add")
    BY <1>1, <1>6, <2>6, <2>7 DEF Wrote
  <2> QED
    BY <2>1, <2>8
<1>9. ASSUME NEW op \in {"clear", "carry", "report_row", "report_sum", "report", "barrier"},
             Execute(g, w, op), partial_dist' = partial_dist
      PROVE  Wrote(g, w, op)
  BY <1>9 DEF Wrote
<1>10. CASE Clear(g, w)
  BY <1>9, <1>10 DEF Clear
<1>11. CASE Carry(g, w)
  BY <1>9, <1>11 DEF Carry
<1>12. CASE Report(g, w)
  BY <1>9, <1>12 DEF Report
<1>13. CASE Barrier(g, w)
  BY <1>9, <1>13 DEF Barrier
<1> QED
  BY <1>7, <1>8, <1>10, <1>11, <1>12, <1>13 DEF Step

\* An addition of a warp completes a round.
LEMMA RoundCompleted ==
    ASSUME Placed, InStep, DataOK, CellsOK, WithinLimits(launch), ~ Alone(launch),
           NEW g, NEW w, NEW op, Moves(g, w, op), Wrote(g, w, op), at[g][w].pc < Len(kernel),
           NEW r \in 0 .. RoundsOf(launch), Added(launch, at[g][w].pc + 1, r), NEW i \in Items(w)
    PROVE  partial_dist'[g][i] = ValuesOf(at[g][w].id)[r][i]
<1>1. PICK n, K, x, pc : n = launch.local_worksize /\ K = RoundsOf(launch) /\ x = at[g][w].id
                         /\ pc = at[g][w].pc
  OBVIOUS
<1>2. /\ mpc = "running" /\ g \in Groups(launch) /\ w \in Warps(launch)
      /\ kernel[pc].op = op /\ x \in Locations /\ pc \in 1 .. Len(kernel)
  BY <1>1 DEF Moves
<1>3. n \in Nat \ {0} /\ i \in 0 .. n - 1
  BY <1>1, <1>2, SizeFacts, ItemFacts
<1>4. PICK F, V : F = Words(x) /\ V = ValuesOf(x) /\ IsValues(V, F, n) /\ F \in [0 .. n - 1 -> Nat]
  BY <1>1, <1>2, ValuesOfAre
<1>5. kernel = Program(launch) /\ pc \in DOMAIN Program(launch) /\ Len(kernel) \in Nat
  BY <1>2, ProgramFacts DEF Placed
<1>6. pc > 1 => Holds(g, w)
  BY <1>1, <1>2 DEF CellsOK
<1>7. K \in Nat /\ (K # 0 => Adds(launch) /\ K = Rounds(n)) /\ (~ Adds(launch) => K = 0)
      /\ (Adds(launch) => K = Rounds(n))
  BY <1>1, RoundFacts DEF RoundsOf
<1>8. CASE op = "store"
  <2>1. pc = 1
    BY <1>2, <1>5, <1>8, StoreIsFirst
  <2>2. r = 0
    <3>1. ASSUME r # 0 PROVE FALSE
      <4>1. Adds(launch) /\ r \in 1 .. Rounds(n)
        BY <1>1, <1>7, <3>1
      <4>2. Pos(launch, r) \in Nat /\ Pos(launch, r) > 1
        BY <1>1, <4>1, PosOrder
      <4>3. Pos(launch, r) < 1 + 1
        BY <1>1, <2>1, <3>1 DEF Added
      <4> QED
        BY <4>2, <4>3
    <3> QED
      BY <3>1
  <2>3. partial_dist'[g][i] = Words(x)[i]
    BY <1>1, <1>8 DEF Wrote
  <2>4. V[0] = F
    BY <1>4 DEF IsValues
  <2> QED
    BY <1>1, <1>4, <2>2, <2>3, <2>4
<1>9. CASE op = "add"
  <2>1. Adds(launch)
    BY <1>2, <1>5, <1>9, StoreIsFirst
  <2>2. PICK t \in 1 .. Rounds(n) : pc = Pos(launch, t) /\ kernel[pc].stride = Half(n, t)
    BY <1>1, <1>2, <1>5, <1>9, <2>1, Instructions
  <2>3. t \in 1 .. RoundsOf(launch)
    BY <1>1, <1>7, <2>1
  <2>4. r = t /\ Added(launch, pc, t - 1)
    BY <1>1, <1>2, <1>5, <2>1, <2>2, <2>3, AddedMoves
  <2>5. PICK h : h = Half(n, t) /\ h = Instruction(g, w).stride
    BY <1>1, <2>2 DEF Instruction
  <2>6. PICK p : p = t - 1 /\ p \in 0 .. RoundsOf(launch)
    BY <1>1, <1>7, <2>3
  <2>7. pc > 1
    BY <1>1, <2>1, <2>2, PosOrder
  <2>8. partial_dist[g][i] = V[p][i]
    BY <1>1, <1>4, <1>6, <2>4, <2>6, <2>7 DEF Holds
  <2>9. i < h => partial_dist[g][i + h] = V[p][i + h]
    BY <1>1, <1>2, <1>4, <2>1, <2>2, <2>5, <2>6, PartnerReady
  <2>10. V[t][i] = IF i < h THEN V[p][i] + V[p][i + h] ELSE V[p][i]
    BY <1>3, <1>4, <2>2, <2>5, <2>6 DEF IsValues
  <2>11. /\ i < h => partial_dist'[g][i] = partial_dist[g][i] + partial_dist[g][i + h]
         /\ ~ (i < h) => partial_dist'[g][i] = partial_dist[g][i]
    BY <1>9, <2>5 DEF Wrote
  <2> QED
    BY <1>1, <1>4, <2>4, <2>8, <2>9, <2>10, <2>11
<1>10. CASE op \notin {"store", "add"}
  <2>1. pc > 1
    <3>1. pc # 1
      BY <1>2, <1>5, <1>10, StoreIsFirst
    <3> QED
      BY <1>2, <3>1
  <2>2. Added(launch, pc, r)
    <3>1. CASE ~ Adds(launch)
      BY <1>1, <1>7, <3>1 DEF Added
    <3>2. CASE Adds(launch)
      <4>1. \A t \in 1 .. RoundsOf(launch) : pc # Pos(launch, t)
        BY <1>1, <1>2, <1>5, <1>7, <1>10, <3>2, Instructions
      <4> QED
        BY <1>1, <1>2, <1>5, <3>2, <4>1, AddedMoves
    <3> QED
      BY <3>1, <3>2
  <2>3. partial_dist[g][i] = V[r][i]
    BY <1>1, <1>4, <1>6, <2>1, <2>2 DEF Holds
  <2>4. partial_dist'[g][i] = partial_dist[g][i]
    BY <1>10 DEF Wrote
  <2> QED
    BY <1>1, <1>4, <2>3, <2>4
<1> QED
  BY <1>8, <1>9, <1>10

LEMMA CellsMove ==
    ASSUME Placed, InStep, DataOK, CellsOK, WithinLimits(launch), NEW g, NEW w, Step(g, w)
    PROVE  CellsOK'
<1>1. launch' = launch /\ mpc' = mpc /\ popcount' = popcount
  BY Steppings
<1>2. PICK op : Execute(g, w, op) /\ Wrote(g, w, op)
  BY Writing
<1>3. Moves(g, w, op)
  BY <1>2, Executes
<1>4. SUFFICES ASSUME ~ Alone(launch), NEW h \in Groups(launch), NEW v \in Warps(launch),
                      at'[h][v].id \in Locations, at'[h][v].pc > 1
               PROVE  Holds(h, v)'
  BY <1>1 DEF CellsOK
<1>5. \A x : ValuesOf(x)' = ValuesOf(x)
  BY <1>1 DEF ValuesOf, Words
<1>6. SUFFICES ASSUME NEW r \in 0 .. RoundsOf(launch), Added(launch, at'[h][v].pc, r), NEW i \in Items(v)
               PROVE  partial_dist'[h][i] = ValuesOf(at'[h][v].id)[r][i]
  <2>1. Items(v)' = Items(v)
    BY <1>1 DEF Items
  <2> QED
    BY <1>1, <1>5, <2>1 DEF Holds
<1>7. /\ mpc = "running" /\ g \in Groups(launch) /\ w \in Warps(launch) /\ at[g][w].pc \in 1 .. Len(kernel)
      /\ at'[g][w] = IF at[g][w].pc < Len(kernel)
                        THEN [id |-> at[g][w].id, pc |-> at[g][w].pc + 1]
                        ELSE [id |-> at[g][w].id + launch.num_groups, pc |-> 1]
      /\ h # g \/ v # w => at'[h][v] = at[h][v]
  BY <1>3 DEF Moves
<1>8. CASE h # g \/ v # w
  <2>1. i \in 0 .. launch.local_worksize - 1 /\ (h = g => i \notin Items(w))
    BY <1>7, <1>8, ItemFacts
  <2>2. partial_dist'[h][i] = partial_dist[h][i]
    BY <1>2, <2>1 DEF Wrote
  <2>3. at'[h][v] = at[h][v]
    BY <1>7, <1>8
  <2>4. Holds(h, v)
    BY <1>4, <1>7, <2>3 DEF CellsOK
  <2>5. partial_dist[h][i] = ValuesOf(at[h][v].id)[r][i]
    BY <1>6, <2>3, <2>4 DEF Holds
  <2> QED
    BY <2>2, <2>3, <2>5
<1>9. CASE h = g /\ v = w
  <2>1. at[g][w].pc < Len(kernel)
    <3>1. ~ (at[g][w].pc < Len(kernel)) => at'[g][w].pc = 1
      BY <1>7
    <3> QED
      BY <1>4, <1>9, <3>1
  <2>2. at'[g][w].id = at[g][w].id /\ at'[g][w].pc = at[g][w].pc + 1
    BY <1>7, <2>1
  <2>3. Added(launch, at[g][w].pc + 1, r) /\ i \in Items(w)
    BY <1>6, <1>9, <2>2
  <2>4. partial_dist'[g][i] = ValuesOf(at[g][w].id)[r][i]
    BY <1>2, <1>3, <1>4, <2>1, <2>3, RoundCompleted
  <2> QED
    BY <1>9, <2>2, <2>4
<1> QED
  BY <1>8, <1>9

LEMMA CellsKept ==
    ASSUME \A l \in Launches : WithinLimits(l), Placed, InStep, DataOK, CellsOK, [Next]_vars
    PROVE  CellsOK'
<1>1. CASE Call
  BY <1>1 DEF Call, CellsOK
<1>2. CASE Return
  BY <1>2 DEF Return, CellsOK
<1>3. ASSUME NEW g \in DOMAIN at, NEW w \in DOMAIN at[g], Step(g, w) PROVE CellsOK'
  BY <1>3, CellsMove DEF Placed
<1>4. CASE UNCHANGED vars
  <2>1. UNCHANGED <<mpc, launch, popcount, at, partial_dist>>
    BY <1>4 DEF vars
  <2>2. \A x : ValuesOf(x)' = ValuesOf(x)
    BY <2>1 DEF ValuesOf, Words
  <2>3. \A g, w : Holds(g, w)' <=> Holds(g, w)
    <3>1. \A w : Items(w)' = Items(w)
      BY <2>1 DEF Items
    <3> QED
      BY <2>1, <2>2, <3>1 DEF Holds
  <2> QED
    BY <2>1, <2>3 DEF CellsOK
<1> QED
  BY <1>1, <1>2, <1>3, <1>4 DEF Next, Run

-----------------------------------------------------------------------------
(* What extra holds.                                                        *)

\* Round j leaves an item without a partner, the last one that still counts.
Unpaired(j) == Half(launch.local_worksize, j - 1) % 2 = 1
LastOf(j) == Half(launch.local_worksize, j - 1) - 1

\* With the warps of the group at ws, the warp of that item has carried it to
\* extra for location x.
HasCarried(ws, x, j) ==
    \A v \in Warps(launch) :
        LastOf(j) \in Items(v) => ws[v].id = x /\ ws[v].pc >= Pos(launch, j)

\* extra, which holds e, has what the first q rounds leave over.
CarriedUpTo(ws, e, x, q) ==
    /\ e = ExtrasOf(x)[q]
    /\ \A j \in 1 .. RoundsOf(launch) : Unpaired(j) => (j <= q <=> HasCarried(ws, x, j))

\* From clearing to reporting, extra has been carried to up to some round.
ExtraOK ==
    mpc = "running" /\ Adds(launch) /\ Carrying(launch) =>
        \A g \in Groups(launch) : \A w \in Warps(launch) :
            at[g][w].id \in Locations /\ 2 < at[g][w].pc /\ at[g][w].pc <= ReportPos(launch) =>
                \E q \in 0 .. RoundsOf(launch) : CarriedUpTo(at[g], extra[g], at[g][w].id, q)

LEMMA LastFacts ==
    ASSUME WithinLimits(launch), Adds(launch), Carrying(launch), NEW j \in 1 .. RoundsOf(launch)
    PROVE  /\ RoundsOf(launch) = Rounds(launch.local_worksize)
           /\ LastOf(j) \in 0 .. launch.local_worksize - 1
           /\ \E v \in Warps(launch) : LastOf(j) \in Items(v)
           /\ \A v, w \in Warps(launch) : LastOf(j) \in Items(v) /\ LastOf(j) \in Items(w) => v = w
           /\ launch.local_worksize > WarpSize /\ Unpaired(j)
                  /\ (j > Synced(launch) \/ j = RoundsOf(launch)) =>
                  \A v \in Warps(launch) : LastOf(j) \in Items(v) => v = 0
<1>1. PICK n, c, A, m, K : /\ n = launch.local_worksize /\ c = Carrying(launch) /\ A = Synced(launch)
                           /\ m = Between(launch) /\ K = Rounds(n)
  OBVIOUS
<1>2. K = RoundsOf(launch)
  BY <1>1 DEF RoundsOf
<1>3. n \in Nat \ {0} /\ K \in Nat /\ A \in 0 .. K /\ j \in 1 .. Rounds(n) /\ WarpSize \in Nat /\ WarpSize > 2
  <2>1. n \in Nat \ {0} /\ K \in Nat /\ A \in 0 .. K /\ (c => WarpSize > 2)
    BY <1>1, RoundFacts
  <2> QED
    BY <1>1, <1>2, <2>1, WarpSizeAssumption
<1>4. PICK a, h : a = Half(n, j - 1) /\ h = Half(n, j)
  OBVIOUS
<1>5. a \in Nat \ {0} /\ a <= n /\ h \in Nat \ {0} /\ a = 2 * h + (a % 2)
  BY <1>3, <1>4, RoundHalves
<1>6. LastOf(j) = a - 1 /\ a - 1 \in 0 .. n - 1
  BY <1>1, <1>2, <1>3, <1>4, <1>5 DEF LastOf
<1>7. PICK z : z = a - 1
  OBVIOUS
<1>8. \E v \in Warps(launch) : z \in Items(v)
  <2>1. PICK v \in Warps(launch) : TRUE
    BY SizeFacts
  <2>2. \A i \in 0 .. n - 1 : i \div WarpSize \in Warps(launch) /\ i \in Items(i \div WarpSize)
    BY <1>1, <1>2, <2>1, ItemFacts
  <2> QED
    BY <1>6, <1>7, <2>2
<1>9. \A v, w \in Warps(launch) : z \in Items(v) /\ z \in Items(w) => v = w
  BY ItemFacts
<1>10. ASSUME n > WarpSize, Unpaired(j), j > A \/ j = K PROVE z < WarpSize
  <2>1. a % 2 = 1
    BY <1>1, <1>2, <1>4, <1>10 DEF Unpaired
  <2>2. CASE j > A
    <3>1. \A r \in A + 1 .. K : Half(n, r - 1) % 2 = 0 \/ Half(n, r - 1) <= WarpSize
      <4>1. n > WarpSize =>
                (Carrying(launch) => \A r \in A + 1 .. K : Half(n, r - 1) % 2 = 0 \/ Half(n, r - 1) <= WarpSize)
        BY <1>1, RoundFacts
      <4> QED
        BY <1>10, <4>1
    <3>2. j \in A + 1 .. K
      BY <1>1, <1>2, <1>3, <2>2
    <3>3. a <= WarpSize
      BY <1>4, <2>1, <3>1, <3>2
    <3> QED
      BY <1>3, <1>5, <1>7, <3>3
  <2>3. CASE j = K
    <3>1. Half(n, K) = 1
      BY <1>1, RoundFacts
    <3>2. a = 3
      BY <1>4, <1>5, <2>1, <2>3, <3>1
    <3> QED
      BY <1>3, <1>7, <3>2
  <2> QED
    BY <1>10, <2>2, <2>3
<1>11. \A v \in Warps(launch) : z \in Items(v) /\ z < WarpSize => v = 0
  BY ItemFacts
<1> QED
  BY <1>1, <1>2, <1>6, <1>7, <1>8, <1>9, <1>10, <1>11

\* When a warp carries an item, those of all rounds before have been carried.
LEMMA EarlierCarried ==
    ASSUME Placed, InStep, WithinLimits(launch), Adds(launch), Carrying(launch), mpc = "running",
           NEW g \in Groups(launch), NEW u \in Warps(launch), NEW j \in 1 .. RoundsOf(launch),
           Unpaired(j), LastOf(j) \in Items(u), at[g][u].pc = Pos(launch, j) - 1,
           NEW k \in 1 .. RoundsOf(launch), k < j, Unpaired(k)
    PROVE  HasCarried(at[g], at[g][u].id, k)
<1>1. PICK n, c, A, m, K : /\ n = launch.local_worksize /\ c = Carrying(launch) /\ A = Synced(launch)
                           /\ m = Between(launch) /\ K = Rounds(n)
  OBVIOUS
<1>2. K = RoundsOf(launch)
  BY <1>1 DEF RoundsOf
<1>3. K \in Nat /\ A \in 0 .. K /\ j \in 1 .. K /\ k \in 1 .. K
  <2>1. K \in Nat /\ A \in 0 .. K
    BY <1>1, RoundFacts
  <2> QED
    BY <1>2, <2>1
<1>4. /\ Pos(launch, k) \in Nat /\ Pos(launch, j) \in Nat /\ Pos(launch, k) < Pos(launch, j) - 1
      /\ Pos(launch, j) < ReportPos(launch) /\ ReportPos(launch) = Len(Program(launch)) - 1
      /\ Len(Program(launch)) \in Nat
  BY <1>1, <1>2, <1>3, PosOrder
<1>5. kernel = Program(launch) /\ ~ Alone(launch)
  BY DEF Placed, Adds, Alone
<1>6. SUFFICES ASSUME NEW v \in Warps(launch), LastOf(k) \in Items(v)
               PROVE  at[g][v].id = at[g][u].id /\ at[g][v].pc >= Pos(launch, k)
  BY DEF HasCarried
<1>7. CASE v = u
  BY <1>4, <1>7
<1>8. CASE v # u
  <2>1. n > WarpSize
    BY <1>1, <1>2, <1>8, ItemFacts
  <2>2. k <= A
    <3>1. SUFFICES ASSUME k > A PROVE FALSE
      BY <1>3
    <3>2. v = 0
      BY <1>1, <1>2, <1>3, <1>6, <2>1, <3>1, LastFacts
    <3>3. j > A
      BY <1>3, <3>1
    <3>4. u = 0
      BY <1>1, <1>2, <1>3, <2>1, <3>3, LastFacts
    <3> QED
      BY <1>8, <3>2, <3>4
  <2>3. PICK b \in DOMAIN kernel :
            /\ kernel[b].op = "barrier" /\ b < Pos(launch, j) - 1
            /\ \A s \in 1 .. K : s < j /\ s <= A => Pos(launch, s) < b
    BY <1>1, <1>2, <1>3, <1>5, <2>1, BarrierBefore
  <2>4. b \in Nat /\ at[g][v].pc \in Nat
    BY <1>5, ProgramFacts DEF Placed
  <2>5. b < at[g][u].pc /\ at[g][u].pc < Len(kernel)
    BY <1>4, <1>5, <2>3
  <2>6. at[g][v].id = at[g][u].id /\ b <= at[g][v].pc
    BY <1>5, <2>3, <2>5, Caught
  <2>7. Pos(launch, k) < b
    BY <1>3, <2>2, <2>3
  <2> QED
    BY <1>4, <2>4, <2>6, <2>7
<1> QED
  BY <1>7, <1>8

\* When the first warp reports, all items without a partner have been carried.
LEMMA AllCarried ==
    ASSUME Placed, InStep, WithinLimits(launch), Adds(launch), Carrying(launch), mpc = "running",
           NEW g \in Groups(launch), 0 \in Warps(launch), at[g][0].pc = ReportPos(launch),
           NEW k \in 1 .. RoundsOf(launch), Unpaired(k)
    PROVE  HasCarried(at[g], at[g][0].id, k)
<1>1. PICK n, c, A, m, K : /\ n = launch.local_worksize /\ c = Carrying(launch) /\ A = Synced(launch)
                           /\ m = Between(launch) /\ K = Rounds(n)
  OBVIOUS
<1>2. K = RoundsOf(launch)
  BY <1>1 DEF RoundsOf
<1>3. K \in Nat /\ A \in 0 .. K /\ k \in 1 .. K
  <2>1. K \in Nat /\ A \in 0 .. K
    BY <1>1, RoundFacts
  <2> QED
    BY <1>2, <2>1
<1>4. /\ Pos(launch, k) \in Nat /\ Pos(launch, k) < ReportPos(launch)
      /\ ReportPos(launch) = Len(Program(launch)) - 1 /\ Len(Program(launch)) \in Nat
  BY <1>1, <1>2, <1>3, PosOrder
<1>5. kernel = Program(launch) /\ ~ Alone(launch)
  BY DEF Placed, Adds, Alone
<1>6. SUFFICES ASSUME NEW v \in Warps(launch), LastOf(k) \in Items(v)
               PROVE  at[g][v].id = at[g][0].id /\ at[g][v].pc >= Pos(launch, k)
  BY DEF HasCarried
<1>7. CASE v = 0
  BY <1>4, <1>7
<1>8. CASE v # 0
  <2>1. n > WarpSize
    BY <1>1, <1>2, <1>8, ItemFacts
  <2>2. k <= A /\ k < K
    <3>1. ~ (k > A \/ k = K)
      BY <1>1, <1>2, <1>6, <1>8, <2>1, LastFacts
    <3> QED
      BY <1>3, <3>1
  <2>3. PICK b \in DOMAIN kernel :
            /\ kernel[b].op = "barrier" /\ b < ReportPos(launch)
            /\ \A s \in 1 .. K : s < K /\ s <= A => Pos(launch, s) < b
    BY <1>1, <1>2, <1>5, <2>1, BarrierBeforeReport
  <2>4. b \in Nat /\ at[g][v].pc \in Nat
    BY <1>5, ProgramFacts DEF Placed
  <2>5. b < at[g][0].pc /\ at[g][0].pc < Len(kernel)
    BY <1>4, <1>5, <2>3
  <2>6. at[g][v].id = at[g][0].id /\ b <= at[g][v].pc
    BY <1>5, <2>3, <2>5, Caught
  <2>7. Pos(launch, k) < b
    BY <1>3, <2>2, <2>3
  <2> QED
    BY <1>4, <2>4, <2>6, <2>7
<1> QED
  BY <1>7, <1>8

\* Between the rounds in which it has been carried to, extra does not change.
LEMMA NothingMissing ==
    ASSUME DataOK, WithinLimits(launch), Adds(launch), Carrying(launch), NEW x \in Locations,
           NEW q \in 0 .. RoundsOf(launch), NEW ws, NEW e, CarriedUpTo(ws, e, x, q),
           NEW p \in 0 .. RoundsOf(launch), q <= p,
           \A k \in 1 .. RoundsOf(launch) : k <= p /\ Unpaired(k) => HasCarried(ws, x, k)
    PROVE  e = ExtrasOf(x)[p]
<1>1. PICK n, K : n = launch.local_worksize /\ K = Rounds(n) /\ K = RoundsOf(launch) /\ K \in Nat
  BY RoundFacts DEF RoundsOf
<1>2. PICK F, V, E : /\ F = Words(x) /\ V = ValuesOf(x) /\ E = ExtrasOf(x) /\ n \in Nat \ {0}
                     /\ F \in [0 .. n - 1 -> Nat] /\ IsValues(V, F, n) /\ IsExtras(E, V, n)
  BY <1>1, ValuesOfAre
<1>3. ASSUME NEW k \in q + 1 .. p PROVE Half(n, k - 1) % 2 # 1
  <2>1. k \in 1 .. RoundsOf(launch) /\ k <= p /\ ~ (k <= q)
    BY <1>1, <1>3
  <2>2. Unpaired(k) => HasCarried(ws, x, k) /\ (k <= q <=> HasCarried(ws, x, k))
    BY <2>1 DEF CarriedUpTo
  <2>3. ~ Unpaired(k)
    BY <2>1, <2>2
  <2> QED
    BY <1>1, <2>3 DEF Unpaired
<1>4. q \in 0 .. Rounds(n) /\ p \in 0 .. Rounds(n)
  BY <1>1
<1>5. E[p] = E[q]
  BY <1>2, <1>3, <1>4, ExtraRests
<1> QED
  BY <1>2, <1>5 DEF CarriedUpTo

\* What an instruction writes to extra; a barrier lets a warp go on when none
\* is behind.
WroteExtra(g, u, op) ==
    /\ \A h \in Groups(launch) : h # g => extra'[h] = extra[h]
    /\ op = "clear" => extra'[g] = 0
    /\ op = "carry" /\ Carries(g, u) =>
           extra'[g] = extra[g] + partial_dist[g][Instruction(g, u).old - 1]
    /\ op # "clear" /\ ~ (op = "carry" /\ Carries(g, u)) => extra' = extra
    /\ op = "barrier" =>
           \A v \in Warps(launch) :
               \/ at[g][v].id > at[g][u].id
               \/ at[g][v].id = at[g][u].id /\ at[g][v].pc >= at[g][u].pc

LEMMA WritingExtra ==
    ASSUME Placed, DataOK, WithinLimits(launch), NEW g, NEW u, Step(g, u)
    PROVE  \E op : Execute(g, u, op) /\ WroteExtra(g, u, op)
<1>1. PICK o : Execute(g, u, o)
  BY Steppings
<1>2. mpc = "running" /\ g \in Groups(launch) /\ u \in Warps(launch)
  BY <1>1, Executes DEF Moves
<1>3. extra \in [Groups(launch) -> Nat] /\ DOMAIN at[g] = Warps(launch)
  BY <1>2 DEF DataOK, Placed
<1>4. CASE Clear(g, u)
  <2>1. Execute(g, u, "clear") /\ extra' = [extra EXCEPT ![g] = 0]
    BY <1>4 DEF Clear
  <2>2. WroteExtra(g, u, "clear")
    BY <1>2, <1>3, <2>1 DEF WroteExtra
  <2> QED
    BY <2>1, <2>2
<1>5. CASE Carry(g, u)
  <2>1. Execute(g, u, "carry")
    BY <1>5 DEF Carry
  <2>2. PICK e : e = extra[g] + partial_dist[g][Instruction(g, u).old - 1]
    OBVIOUS
  <2>3. /\ Carries(g, u) => extra' = [extra EXCEPT ![g] = e]
        /\ ~ Carries(g, u) => extra' = extra
    BY <1>5, <2>2 DEF Carry
  <2>4. WroteExtra(g, u, "carry")
    <3>1. CASE Carries(g, u)
      BY <1>2, <1>3, <2>2, <2>3, <3>1 DEF WroteExtra
    <3>2. CASE ~ Carries(g, u)
      BY <2>3, <3>2 DEF WroteExtra
    <3> QED
      BY <3>1, <3>2
  <2> QED
    BY <2>1, <2>4
<1>6. CASE Barrier(g, u)
  <2>1. Execute(g, u, "barrier") /\ extra' = extra
    BY <1>6 DEF Barrier
  <2>2. \A v \in Warps(launch) :
           \/ at[g][v].id > at[g][u].id
           \/ at[g][v].id = at[g][u].id /\ at[g][v].pc >= at[g][u].pc
    BY <1>3, <1>6 DEF Barrier
  <2>3. WroteExtra(g, u, "barrier")
    BY <2>1, <2>2 DEF WroteExtra
  <2> QED
    BY <2>1, <2>3
<1>7. ASSUME NEW op \in {"store", "add", "report_row", "report_sum", "report"},
             Execute(g, u, op), extra' = extra
      PROVE  WroteExtra(g, u, op)
  BY <1>7 DEF WroteExtra
<1>8. CASE Store(g, u)
  BY <1>7, <1>8 DEF Store
<1>9. CASE Add(g, u)
  BY <1>7, <1>9 DEF Add
<1>10. CASE Report(g, u)
  BY <1>7, <1>10 DEF Report
<1> QED
  BY <1>4, <1>5, <1>6, <1>8, <1>9, <1>10 DEF Step

\* Which items have been carried changes only when one is carried, as long as
\* some warp has not reported.
LEMMA SameCarried ==
    ASSUME Placed, WithinLimits(launch), Adds(launch), Carrying(launch),
           NEW g, NEW u, NEW op, Moves(g, u, op), WroteExtra(g, u, op),
           ~ (op = "carry" /\ Carries(g, u)),
           NEW z \in Warps(launch), at[g][z].pc <= ReportPos(launch),
           NEW j \in 1 .. RoundsOf(launch), Unpaired(j)
    PROVE  HasCarried(at'[g], at[g][z].id, j) <=> HasCarried(at[g], at[g][z].id, j)
<1>1. PICK N, P, y, i : /\ N = Len(kernel) /\ P = Pos(launch, j) /\ y = at[g][z].id /\ i = at[g][u].pc
  OBVIOUS
<1>2. j \in 1 .. Rounds(launch.local_worksize)
  BY LastFacts
<1>3. P \in Nat /\ P > 3 /\ P < N - 1 /\ N \in Nat /\ ReportPos(launch) = N - 1
  BY <1>1, <1>2, PosOrder DEF Placed
<1>4. /\ mpc = "running" /\ g \in Groups(launch) /\ u \in Warps(launch) /\ i \in 1 .. N
      /\ kernel[i].op = op
      /\ \A v \in Warps(launch) : at[g][v].id \in Nat /\ at[g][v].pc \in 1 .. N
  BY <1>1 DEF Moves, Placed
<1>5. /\ i < N => at'[g][u].id = at[g][u].id /\ at'[g][u].pc = i + 1
      /\ ~ (i < N) => at'[g][u].pc = 1
      /\ \A v \in Warps(launch) : v # u => at'[g][v] = at[g][v]
  BY <1>1 DEF Moves
<1>6. kernel = Program(launch) /\ i \in DOMAIN Program(launch)
  BY <1>1, <1>4, ProgramFacts DEF Placed
<1>7. ASSUME NEW v \in Warps(launch), LastOf(j) \in Items(v)
      PROVE  at'[g][v].id = y /\ at'[g][v].pc >= P <=> at[g][v].id = y /\ at[g][v].pc >= P
  <2>1. CASE v # u
    BY <1>5, <2>1
  <2>2. CASE v = u /\ i < N
    <3>1. i + 1 # P
      <4>1. SUFFICES ASSUME i = P - 1 PROVE FALSE
        BY <1>3, <1>4
      <4>2. op = "carry"
        BY <1>1, <1>2, <1>4, <1>6, <4>1, Instructions
      <4>3. PICK r \in 1 .. Rounds(launch.local_worksize) :
                i = Pos(launch, r) - 1 /\ kernel[i].old = Half(launch.local_worksize, r - 1)
        BY <1>4, <1>6, <4>2, Instructions
      <4>4. r = j
        <5>1. /\ r < j => Pos(launch, r) < Pos(launch, j)
              /\ j < r => Pos(launch, j) < Pos(launch, r)
              /\ Pos(launch, r) \in Nat
          BY <1>2, PosOrder
        <5>2. j \in Nat /\ r \in Nat
          BY <1>2
        <5> QED
          BY <1>1, <1>3, <4>1, <4>3, <5>1, <5>2
      <4>5. Carries(g, u)
        BY <1>1, <1>7, <2>2, <4>3, <4>4 DEF Carries, Instruction, Unpaired, LastOf
      <4> QED
        BY <4>2, <4>5
    <3>2. at'[g][v].id = at[g][v].id /\ at'[g][v].pc = i + 1 /\ at[g][v].pc = i
      BY <1>1, <1>5, <2>2
    <3>3. i + 1 >= P <=> i >= P
      BY <1>3, <1>4, <3>1
    <3> QED
      BY <3>2, <3>3
  <2>3. CASE v = u /\ ~ (i < N)
    <3>1. i = N /\ at'[g][v].pc = 1
      BY <1>3, <1>4, <1>5, <2>3
    <3>2. ~ (at'[g][v].pc >= P)
      BY <1>3, <3>1
    <3>3. kernel[N].op = "barrier"
      <4>1. ~ Alone(launch)
        BY DEF Adds, Alone
      <4> QED
        BY <1>1, <1>6, <4>1, ProgramFacts DEF Simple
    <3>4. at[g][z].id > at[g][u].id \/ (at[g][z].id = at[g][u].id /\ at[g][z].pc >= i)
      BY <1>1, <1>4, <3>1, <3>3 DEF WroteExtra
    <3>5. ~ (at[g][z].pc >= i)
      BY <1>3, <1>4, <3>1
    <3>6. at[g][v].id # y
      BY <1>1, <1>4, <2>3, <3>4, <3>5
    <3> QED
      BY <3>2, <3>6
  <2> QED
    BY <2>1, <2>2, <2>3
<1> QED
  BY <1>1, <1>7 DEF HasCarried

\* When extra is cleared for a location, nothing has been carried for it.
LEMMA ClearStarts ==
    ASSUME Placed, InStep, DataOK, WithinLimits(launch), Adds(launch), Carrying(launch),
           NEW g, NEW u, Moves(g, u, "clear"), WroteExtra(g, u, "clear"),
           NEW w \in Warps(launch), at'[g][w].id \in Locations, 2 < at'[g][w].pc,
           at'[g][w].pc <= ReportPos(launch)
    PROVE  CarriedUpTo(at'[g], extra'[g], at'[g][w].id, 0)
<1>1. PICK N, K, y : N = Len(kernel) /\ K = RoundsOf(launch) /\ y = at'[g][w].id
  OBVIOUS
<1>2. /\ mpc = "running" /\ g \in Groups(launch) /\ u \in Warps(launch) /\ at[g][u].pc \in 1 .. N
      /\ kernel[at[g][u].pc].op = "clear"
      /\ at[g][u].pc < N => at'[g][u].id = at[g][u].id /\ at'[g][u].pc = at[g][u].pc + 1
      /\ \A v \in Warps(launch) : v # u => at'[g][v] = at[g][v]
  BY <1>1 DEF Moves
<1>3. kernel = Program(launch) /\ DOMAIN kernel = 1 .. N /\ N \in Nat /\ N > 2 /\ ReportPos(launch) = N - 1
      /\ ~ Alone(launch)
  <2>1. ~ Alone(launch)
    BY DEF Adds, Alone
  <2> QED
    BY <1>1, <2>1, ProgramFacts DEF Placed, ReportPos
<1>4. at[g][u].pc = 2
  BY <1>2, <1>3, Instructions
<1>5. at'[g][u].id = at[g][u].id /\ at'[g][u].pc = 3
  BY <1>2, <1>3, <1>4
<1>6. at[g][w].id = y /\ at[g][w].pc < N
  <2>1. CASE w = u
    BY <1>1, <1>3, <1>4, <1>5, <2>1
  <2>2. CASE w # u
    <3>1. at[g][w] = at'[g][w] /\ at[g][w].pc \in Nat
      BY <1>1, <1>2, <1>3, <2>2 DEF Placed
    <3> QED
      BY <1>1, <1>3, <3>1
  <2> QED
    BY <2>1, <2>2
<1>7. ASSUME NEW j \in 1 .. K PROVE ~ HasCarried(at'[g], y, j)
  <2>1. PICK v \in Warps(launch) : LastOf(j) \in Items(v)
    BY <1>1, LastFacts
  <2>2. SUFFICES ASSUME at'[g][v].id = y, at'[g][v].pc >= Pos(launch, j) PROVE FALSE
    BY <2>1 DEF HasCarried
  <2>3. j \in 1 .. Rounds(launch.local_worksize)
    BY <1>1, LastFacts
  <2>4. Pos(launch, j) \in Nat /\ Pos(launch, j) > 3
    BY <2>3, PosOrder
  <2>5. v # u
    BY <1>5, <2>2, <2>4
  <2>6. launch.local_worksize > WarpSize
    BY <1>2, <2>5, ItemFacts
  <2>7. PICK b \in DOMAIN kernel : kernel[b].op = "barrier" /\ 2 < b /\ b < Pos(launch, j) - 1
    BY <1>3, <2>3, <2>6, BarrierBefore
  <2>8. at[g][v].id = y /\ at[g][v].pc >= Pos(launch, j) /\ at[g][v].pc \in Nat /\ b \in Nat
    BY <1>2, <1>3, <2>2, <2>5 DEF Placed
  <2>9. b < at[g][v].pc
    BY <2>4, <2>7, <2>8
  <2>10. b <= at[g][u].pc
    BY <1>1, <1>2, <1>3, <1>6, <2>7, <2>8, <2>9, Caught
  <2> QED
    BY <1>4, <2>7, <2>8, <2>10
<1>8. extra'[g] = 0
  BY DEF WroteExtra
<1>9. ExtrasOf(y)[0] = 0
  BY <1>1, ValuesOfAre DEF IsExtras
<1>10. \A j \in 1 .. K : ~ (j <= 0)
  <2>1. K \in Nat
    BY <1>1, RoundFacts DEF RoundsOf
  <2> QED
    BY <2>1
<1> QED
  BY <1>1, <1>7, <1>8, <1>9, <1>10 DEF CarriedUpTo

\* A warp carries the item of the next round that leaves one over.
LEMMA CarryAdds ==
    ASSUME Placed, InStep, DataOK, CellsOK, ExtraOK,
           WithinLimits(launch), Adds(launch), Carrying(launch),
           NEW g, NEW u, Moves(g, u, "carry"), WroteExtra(g, u, "carry"), Carries(g, u),
           NEW w \in Warps(launch), at'[g][w].id \in Locations, 2 < at'[g][w].pc,
           at'[g][w].pc <= ReportPos(launch)
    PROVE  \E q \in 0 .. RoundsOf(launch) : CarriedUpTo(at'[g], extra'[g], at'[g][w].id, q)
<1>1. PICK n, N, K, x, i : /\ n = launch.local_worksize /\ N = Len(kernel) /\ K = RoundsOf(launch)
                           /\ x = at[g][u].id /\ i = at[g][u].pc
  OBVIOUS
<1>2. /\ mpc = "running" /\ g \in Groups(launch) /\ u \in Warps(launch) /\ i \in 1 .. N
      /\ kernel[i].op = "carry" /\ x \in Locations
      /\ i < N => at'[g][u].id = x /\ at'[g][u].pc = i + 1
      /\ \A v \in Warps(launch) : v # u => at'[g][v] = at[g][v]
  BY <1>1 DEF Moves
<1>3. kernel = Program(launch) /\ DOMAIN kernel = 1 .. N /\ N \in Nat /\ N > 2 /\ ReportPos(launch) = N - 1
      /\ ~ Alone(launch)
  <2>1. ~ Alone(launch)
    BY DEF Adds, Alone
  <2> QED
    BY <1>1, <2>1, ProgramFacts DEF Placed, ReportPos
<1>4. PICK j \in 1 .. Rounds(n) : i = Pos(launch, j) - 1 /\ kernel[i].old = Half(n, j - 1)
  <2>1. i \in DOMAIN Program(launch) /\ Program(launch)[i].op = "carry"
    BY <1>2, <1>3
  <2>2. \E r \in 1 .. Rounds(launch.local_worksize) :
            i = Pos(launch, r) - 1 /\ Program(launch)[i].old = Half(launch.local_worksize, r - 1)
    BY <2>1, Instructions, Zenon
  <2> QED
    BY <1>1, <1>3, <2>2
<1>5. K = Rounds(n) /\ K \in Nat /\ j \in 1 .. RoundsOf(launch) /\ n \in Nat \ {0}
  BY <1>1, <1>4, SizeFacts, RoundFacts DEF RoundsOf
<1>6. /\ Pos(launch, j) \in Nat /\ Pos(launch, j) > 3 /\ Pos(launch, j) < N - 1
      /\ \A k \in 1 .. K : /\ Pos(launch, k) \in Nat
                           /\ k < j => Pos(launch, k) < Pos(launch, j) - 1
                           /\ j < k => Pos(launch, j) < Pos(launch, k)
  BY <1>1, <1>3, <1>4, <1>5, PosOrder
<1>7. Unpaired(j) /\ LastOf(j) \in Items(u)
  BY <1>1, <1>4 DEF Carries, Instruction, Unpaired, LastOf
<1>8. at'[g][u].id = x /\ at'[g][u].pc = Pos(launch, j)
  BY <1>2, <1>3, <1>4, <1>6
<1>9. at[g][w].id = x /\ at'[g][w].id = x
  <2>1. CASE w = u
    BY <1>1, <1>8, <2>1
  <2>2. CASE w # u
    <3>1. n > WarpSize
      BY <1>1, <1>2, <2>2, ItemFacts
    <3>2. PICK b \in DOMAIN kernel : kernel[b].op = "barrier" /\ b < Pos(launch, j) - 1
      BY <1>1, <1>3, <1>4, <3>1, BarrierBefore
    <3>3. b < at[g][u].pc /\ at[g][u].pc < Len(kernel)
      BY <1>1, <1>3, <1>4, <1>6, <3>2
    <3>4. at[g][w].id = x
      BY <1>1, <1>2, <1>3, <3>2, <3>3, Caught
    <3> QED
      BY <1>2, <2>2, <3>4
  <2> QED
    BY <2>1, <2>2
<1>10. PICK q \in 0 .. RoundsOf(launch) : CarriedUpTo(at[g], extra[g], x, q)
  <2>1. 2 < i /\ i <= ReportPos(launch)
    BY <1>3, <1>4, <1>6
  <2> QED
    BY <1>1, <1>2, <2>1 DEF ExtraOK
<1>11. \A k \in 1 .. RoundsOf(launch) : k < j /\ Unpaired(k) => HasCarried(at[g], x, k)
  BY <1>1, <1>2, <1>4, <1>5, <1>7, EarlierCarried
<1>12. ~ HasCarried(at[g], x, j)
  <2>1. ~ (at[g][u].pc >= Pos(launch, j))
    BY <1>1, <1>4, <1>6
  <2> QED
    BY <1>2, <1>7, <2>1 DEF HasCarried
<1>13. q < j
  <2>1. ~ (j <= q)
    BY <1>5, <1>7, <1>10, <1>12 DEF CarriedUpTo
  <2> QED
    BY <1>5, <2>1
<1>14. PICK p : p = j - 1
  OBVIOUS
<1>15. p \in 0 .. RoundsOf(launch) /\ q <= p /\ j \in Nat /\ (\A k \in 1 .. RoundsOf(launch) : k <= p <=> k < j)
  BY <1>1, <1>5, <1>13, <1>14
<1>16. extra[g] = ExtrasOf(x)[p]
  <2>1. \A k \in 1 .. RoundsOf(launch) : k <= p /\ Unpaired(k) => HasCarried(at[g], x, k)
    BY <1>11, <1>15
  <2> QED
    BY <1>2, <1>10, <1>15, <2>1, NothingMissing
<1>17. PICK F, V, E : /\ F = Words(x) /\ V = ValuesOf(x) /\ E = ExtrasOf(x) /\ F \in [0 .. n - 1 -> Nat]
                      /\ IsValues(V, F, n) /\ IsExtras(E, V, n)
  BY <1>1, <1>2, ValuesOfAre
<1>18. PICK c : c = LastOf(j) /\ c = Half(n, j - 1) - 1
  BY <1>1 DEF LastOf
<1>19. partial_dist[g][c] = V[p][c]
  <2>1. Holds(g, u)
    <3>1. i > 1
      BY <1>4, <1>6
    <3> QED
      BY <1>1, <1>2, <1>3, <3>1 DEF CellsOK
  <2>2. Added(launch, i, p)
    <3>1. p # 0 => Pos(launch, p) < i
      <4>1. p # 0 => p \in 1 .. K /\ p < j
        BY <1>1, <1>5, <1>14
      <4> QED
        BY <1>4, <1>6, <4>1
    <3>2. p + 1 = j /\ i <= Pos(launch, j)
      BY <1>4, <1>5, <1>6, <1>14
    <3> QED
      BY <3>1, <3>2 DEF Added
  <2>3. c \in Items(u)
    BY <1>7, <1>18
  <2>4. partial_dist[g][c] = ValuesOf(x)[p][c]
    BY <1>1, <1>15, <2>1, <2>2, <2>3 DEF Holds
  <2> QED
    BY <1>17, <2>4
<1>20. E[j] = E[p] + V[p][c]
  <2>1. Half(n, j - 1) % 2 = 1
    BY <1>1, <1>7 DEF Unpaired
  <2>2. \A r \in 1 .. Rounds(n) :
            Half(n, r - 1) % 2 = 1 => E[r] = E[r - 1] + V[r - 1][Half(n, r - 1) - 1]
    <3>1. n \in Nat \ {0} /\ F \in [0 .. n - 1 -> Nat] /\ IsValues(V, F, n) /\ IsExtras(E, V, n)
      BY <1>5, <1>17
    <3> QED
      BY <3>1 DEF IsExtras
  <2>3. E[j] = E[j - 1] + V[j - 1][Half(n, j - 1) - 1]
    BY <1>4, <2>1, <2>2
  <2> QED
    BY <1>14, <1>18, <2>3
<1>21. extra'[g] = ExtrasOf(x)[j]
  <2>1. extra'[g] = extra[g] + partial_dist[g][kernel[i].old - 1]
    BY <1>1 DEF WroteExtra, Instruction
  <2>2. kernel[i].old - 1 = c
    BY <1>4, <1>18
  <2>3. extra'[g] = extra[g] + partial_dist[g][c]
    BY <2>1, <2>2
  <2> QED
    BY <1>16, <1>17, <1>19, <1>20, <2>3
<1>22. ASSUME NEW k \in 1 .. RoundsOf(launch), Unpaired(k)
       PROVE  k <= j <=> HasCarried(at'[g], x, k)
  <2>1. CASE k < j
    <3>1. ASSUME NEW v \in Warps(launch), at[g][v].id = x, at[g][v].pc >= Pos(launch, k)
          PROVE  at'[g][v].id = x /\ at'[g][v].pc >= Pos(launch, k)
      <4>1. CASE v = u
        <5>1. Pos(launch, k) < Pos(launch, j) - 1 /\ Pos(launch, k) \in Nat
          BY <1>1, <1>6, <2>1
        <5> QED
          BY <1>6, <1>8, <4>1, <5>1
      <4>2. CASE v # u
        BY <1>2, <3>1, <4>2
      <4> QED
        BY <4>1, <4>2
    <3>2. HasCarried(at[g], x, k)
      BY <1>11, <1>22, <2>1
    <3>3. HasCarried(at'[g], x, k)
      BY <3>1, <3>2 DEF HasCarried
    <3> QED
      BY <1>15, <2>1, <3>3
  <2>2. CASE k = j
    <3>1. ASSUME NEW v \in Warps(launch), LastOf(j) \in Items(v) PROVE v = u
      BY <1>2, <1>5, <1>7, <3>1, LastFacts
    <3>2. HasCarried(at'[g], x, j)
      BY <1>6, <1>8, <3>1 DEF HasCarried
    <3> QED
      BY <1>15, <2>2, <3>2
  <2>3. CASE j < k
    <3>1. ~ (k <= q) /\ ~ (k <= j)
      BY <1>13, <1>15, <2>3
    <3>2. ~ HasCarried(at[g], x, k)
      BY <1>10, <1>22, <3>1 DEF CarriedUpTo
    <3>3. PICK v \in Warps(launch) : LastOf(k) \in Items(v) /\ ~ (at[g][v].id = x /\ at[g][v].pc >= Pos(launch, k))
      BY <3>2 DEF HasCarried
    <3>4. ~ (at'[g][v].id = x /\ at'[g][v].pc >= Pos(launch, k))
      <4>1. CASE v = u
        <5>1. Pos(launch, j) < Pos(launch, k) /\ Pos(launch, k) \in Nat
          BY <1>1, <1>6, <2>3
        <5> QED
          BY <1>6, <1>8, <4>1, <5>1
      <4>2. CASE v # u
        BY <1>2, <3>3, <4>2
      <4> QED
        BY <4>1, <4>2
    <3>5. ~ HasCarried(at'[g], x, k)
      BY <3>3, <3>4 DEF HasCarried
    <3> QED
      BY <3>1, <3>5
  <2> QED
    BY <1>15, <2>1, <2>2, <2>3
<1>23. CarriedUpTo(at'[g], extra'[g], x, j) /\ j \in 0 .. RoundsOf(launch)
  BY <1>5, <1>21, <1>22 DEF CarriedUpTo
<1> QED
  BY <1>9, <1>23

\* All other instructions leave extra and what has been carried alone.
LEMMA OthersStay ==
    ASSUME Placed, InStep, ExtraOK, WithinLimits(launch), Adds(launch), Carrying(launch),
           NEW g, NEW u, NEW op, Moves(g, u, op), WroteExtra(g, u, op),
           op # "clear", ~ (op = "carry" /\ Carries(g, u)),
           NEW w \in Warps(launch), at'[g][w].id \in Locations, 2 < at'[g][w].pc,
           at'[g][w].pc <= ReportPos(launch)
    PROVE  \E q \in 0 .. RoundsOf(launch) : CarriedUpTo(at'[g], extra'[g], at'[g][w].id, q)
<1>1. PICK N, i, y : N = Len(kernel) /\ i = at[g][u].pc /\ y = at'[g][w].id
  OBVIOUS
<1>2. /\ mpc = "running" /\ g \in Groups(launch) /\ u \in Warps(launch) /\ i \in 1 .. N
      /\ kernel[i].op = op
      /\ i < N => at'[g][u].id = at[g][u].id /\ at'[g][u].pc = i + 1
      /\ ~ (i < N) => at'[g][u].pc = 1
      /\ \A v \in Warps(launch) : v # u => at'[g][v] = at[g][v]
  BY <1>1 DEF Moves
<1>3. kernel = Program(launch) /\ DOMAIN kernel = 1 .. N /\ N \in Nat /\ N > 2 /\ ReportPos(launch) = N - 1
      /\ ~ Alone(launch)
  <2>1. ~ Alone(launch)
    BY DEF Adds, Alone
  <2> QED
    BY <1>1, <2>1, ProgramFacts DEF Placed, ReportPos
<1>4. at[g][w].id = y /\ 2 < at[g][w].pc /\ at[g][w].pc <= ReportPos(launch)
  <2>1. CASE w # u
    BY <1>1, <1>2, <2>1
  <2>2. CASE w = u
    <3>1. i < N /\ at'[g][w].pc = i + 1
      BY <1>2, <2>2
    <3>2. i # 2
      BY <1>2, <1>3, Instructions
    <3> QED
      BY <1>1, <1>2, <1>3, <2>2, <3>1, <3>2
  <2> QED
    BY <2>1, <2>2
<1>5. PICK q \in 0 .. RoundsOf(launch) : CarriedUpTo(at[g], extra[g], y, q)
  BY <1>1, <1>2, <1>4 DEF ExtraOK
<1>6. \A j \in 1 .. RoundsOf(launch) :
          Unpaired(j) => (HasCarried(at'[g], at[g][w].id, j) <=> HasCarried(at[g], at[g][w].id, j))
  BY <1>4, SameCarried
<1>7. \A j \in 1 .. RoundsOf(launch) : Unpaired(j) => (HasCarried(at'[g], y, j) <=> HasCarried(at[g], y, j))
  BY <1>4, <1>6
<1>8. extra'[g] = extra[g]
  BY DEF WroteExtra
<1>9. CarriedUpTo(at'[g], extra'[g], y, q)
  BY <1>5, <1>7, <1>8 DEF CarriedUpTo
<1> QED
  BY <1>1, <1>9

LEMMA ExtraMove ==
    ASSUME Placed, InStep, DataOK, CellsOK, ExtraOK, WithinLimits(launch), NEW g, NEW u, Step(g, u)
    PROVE  ExtraOK'
<1>1. launch' = launch /\ mpc' = mpc /\ popcount' = popcount
  BY Steppings
<1>2. PICK op : Execute(g, u, op) /\ WroteExtra(g, u, op)
  BY WritingExtra
<1>3. Moves(g, u, op)
  BY <1>2, Executes
<1>4. \A j, v, x : /\ ExtrasOf(x)' = ExtrasOf(x) /\ Items(v)' = Items(v) /\ LastOf(j)' = LastOf(j)
                   /\ Unpaired(j)' <=> Unpaired(j)
  BY <1>1 DEF ExtrasOf, Words, Items, LastOf, Unpaired
<1>5. SUFFICES ASSUME mpc = "running", Adds(launch), Carrying(launch),
                      NEW h \in Groups(launch), NEW w \in Warps(launch), at'[h][w].id \in Locations,
                      2 < at'[h][w].pc, at'[h][w].pc <= ReportPos(launch)
               PROVE  \E q \in 0 .. RoundsOf(launch) : CarriedUpTo(at'[h], extra'[h], at'[h][w].id, q)
  BY <1>1, <1>4 DEF ExtraOK, CarriedUpTo, HasCarried
<1>6. CASE h # g
  <2>1. at'[h][w] = at[h][w]
    BY <1>3, <1>6 DEF Moves
  <2>2. extra'[h] = extra[h]
    BY <1>2, <1>6 DEF WroteExtra
  <2>3. PICK q \in 0 .. RoundsOf(launch) : CarriedUpTo(at[h], extra[h], at[h][w].id, q)
    BY <1>5, <2>1 DEF ExtraOK
  <2>4. \A v \in Warps(launch) : at'[h][v] = at[h][v]
    BY <1>3, <1>6 DEF Moves
  <2>5. CarriedUpTo(at'[h], extra'[h], at'[h][w].id, q)
    BY <2>1, <2>2, <2>3, <2>4 DEF CarriedUpTo, HasCarried
  <2> QED
    BY <2>5
<1>7. CASE h = g
  <2>1. CASE op = "clear"
    <3>1. CarriedUpTo(at'[g], extra'[g], at'[g][w].id, 0)
      BY <1>2, <1>3, <1>5, <1>7, <2>1, ClearStarts
    <3>2. 0 \in 0 .. RoundsOf(launch)
      BY RoundFacts DEF RoundsOf
    <3> QED
      BY <1>7, <3>1, <3>2
  <2>2. CASE op = "carry" /\ Carries(g, u)
    BY <1>2, <1>3, <1>5, <1>7, <2>2, CarryAdds
  <2>3. CASE op # "clear" /\ ~ (op = "carry" /\ Carries(g, u))
    BY <1>2, <1>3, <1>5, <1>7, <2>3, OthersStay
  <2> QED
    BY <2>1, <2>2, <2>3
<1> QED
  BY <1>6, <1>7

LEMMA ExtraKept ==
    ASSUME \A l \in Launches : WithinLimits(l), Placed, InStep, DataOK, CellsOK, ExtraOK, [Next]_vars
    PROVE  ExtraOK'
<1>1. CASE Call
  BY <1>1 DEF Call, ExtraOK
<1>2. CASE Return
  BY <1>2 DEF Return, ExtraOK
<1>3. ASSUME NEW g \in DOMAIN at, NEW w \in DOMAIN at[g], Step(g, w) PROVE ExtraOK'
  BY <1>3, ExtraMove DEF Placed
<1>4. CASE UNCHANGED vars
  <2>1. UNCHANGED <<mpc, launch, popcount, at, extra>>
    BY <1>4 DEF vars
  <2>2. \A j, v, x : /\ ExtrasOf(x)' = ExtrasOf(x) /\ Items(v)' = Items(v) /\ LastOf(j)' = LastOf(j)
                     /\ Unpaired(j)' <=> Unpaired(j)
    BY <2>1 DEF ExtrasOf, Words, Items, LastOf, Unpaired
  <2> QED
    BY <2>1, <2>2 DEF ExtraOK, CarriedUpTo, HasCarried
<1> QED
  BY <1>1, <1>2, <1>3, <1>4 DEF Next, Run

-----------------------------------------------------------------------------
(* What is reported.                                                        *)

LEMMA FirstItem ==
    ASSUME WithinLimits(launch), NEW w \in Warps(launch)
    PROVE  0 \in Items(w) <=> w = 0
<1>1. 0 \in 0 .. launch.local_worksize - 1 /\ 0 \in Warps(launch)
  BY SizeFacts
<1>2. 0 \div WarpSize \in Warps(launch) /\ 0 \in Items(0 \div WarpSize)
  BY <1>1, ItemFacts
<1>3. 0 < WarpSize
  BY WarpSizeAssumption
<1>4. 0 \div WarpSize = 0
  BY <1>2, <1>3, ItemFacts
<1>5. \A v \in Warps(launch) : 0 \in Items(v) => v = 0
  BY <1>3, ItemFacts
<1> QED
  BY <1>2, <1>4, <1>5

\* What the kernels report.
LEMMA Reporting ==
    ASSUME NEW l, WithinLimits(l)
    PROVE  /\ Alone(l) => Program(l)[ReportPos(l)].op = "report_row"
           /\ l.kernel = "single_scan2" =>
                  Program(l)[ReportPos(l)].op = "report_sum" /\ ReportPos(l) = 3 /\ RoundsOf(l) = 0
                  /\ Program(l)[2].op = "barrier" /\ DOMAIN Program(l) = 1 .. 4
           /\ Adds(l) => Program(l)[ReportPos(l)].op = "report"
           /\ Alone(l) \/ l.kernel = "single_scan2" \/ Adds(l)
<1>1. CASE Alone(l)
  <2>1. Program(l) = single_scan1 /\ ReportPos(l) = 1
    BY <1>1, KernelKinds DEF ReportPos
  <2>2. ~ Adds(l) /\ l.kernel # "single_scan2"
    BY <1>1 DEF Alone, Adds
  <2> QED
    BY <1>1, <2>1, <2>2, Layout1 DEF Simple
<1>2. CASE l.kernel = "single_scan2"
  <2>1. ~ Adds(l) /\ ~ Alone(l)
    BY <1>2 DEF Alone, Adds
  <2>2. Program(l) = single_scan2
    BY <2>1, KernelKinds
  <2>3. ReportPos(l) = 3 /\ DOMAIN Program(l) = 1 .. 4
    BY <2>1, <2>2, Layout2 DEF ReportPos
  <2>4. Program(l)[3].op = "report_sum" /\ Program(l)[2].op = "barrier"
    BY <2>2, Layout2 DEF Simple
  <2>5. RoundsOf(l) = 0
    BY <2>1 DEF RoundsOf
  <2>6. Program(l)[ReportPos(l)].op = "report_sum"
    BY <2>3, <2>4
  <2> QED
    BY <1>2, <2>1, <2>3, <2>4, <2>5, <2>6
<1>3. CASE Adds(l)
  <2>1. ~ Alone(l) /\ l.kernel # "single_scan2"
    BY <1>3 DEF Alone, Adds
  <2>2. ReportPos(l) \in DOMAIN Program(l)
    BY ProgramFacts
  <2> QED
    BY <1>3, <2>1, <2>2, Instructions
<1> QED
  BY <1>1, <1>2, <1>3, KernelKinds

\* The one item of single_scan2 that adds up finds all counts stored.
LEMMA SumOfAll ==
    ASSUME Placed, InStep, DataOK, CellsOK, WithinLimits(launch), SumsAll(launch), mpc = "running",
           launch.kernel = "single_scan2", NEW g \in Groups(launch), at[g][0].pc = ReportPos(launch),
           at[g][0].id \in Locations
    PROVE  Found(g, 0) = SumFunction(popcount[at[g][0].id])
<1>1. PICK n, m, x, row : n = launch.local_worksize /\ m = launch.bs_len /\ x = at[g][0].id /\ row = popcount[x]
  OBVIOUS
<1>2. n \in Nat \ {0} /\ m \in Nat /\ 0 \in Warps(launch)
  BY <1>1, SizeFacts
<1>3. ~ Alone(launch) /\ m <= n
  BY <1>1 DEF Alone, SumsAll
<1>4. kernel = Program(launch) /\ kernel[3].op = "report_sum" /\ kernel[2].op = "barrier"
      /\ 2 \in DOMAIN kernel /\ Len(kernel) = 4 /\ at[g][0].pc = 3 /\ RoundsOf(launch) = 0
  <2>1. kernel = Program(launch) /\ DOMAIN kernel = 1 .. Len(kernel) /\ Len(kernel) \in Nat
    BY ProgramFacts DEF Placed
  <2>2. DOMAIN kernel = 1 .. 4
    BY <2>1, Reporting
  <2>3. Len(kernel) = 4
    <3>1. PICK N \in Nat : N = Len(kernel) /\ 1 .. N = 1 .. 4
      BY <2>1, <2>2
    <3>2. N \in 1 .. 4
      <4>1. ~ (N < 4)
        <5>1. 4 \in 1 .. N
          BY <3>1
        <5> QED
          BY <5>1
      <4>2. N \in 1 .. N
        BY <4>1
      <4> QED
        BY <3>1, <4>2
    <3>3. 4 \in 1 .. N
      BY <3>1
    <3> QED
      BY <3>1, <3>2, <3>3
  <2> QED
    BY <2>1, <2>2, <2>3, Reporting
<1>5. \A v \in Warps(launch) : at[g][v].id = x /\ 2 <= at[g][v].pc
  <2>1. 2 < at[g][0].pc /\ at[g][0].pc < Len(kernel)
    BY <1>4
  <2> QED
    BY <1>1, <1>2, <1>3, <1>4, <2>1, Caught
<1>6. PICK F, V : F = Words(x) /\ V = ValuesOf(x) /\ IsValues(V, F, n)
  BY <1>1, ValuesOfAre
<1>7. row \in [0 .. m - 1 -> Nat]
  BY <1>1 DEF DataOK
<1>8. ASSUME NEW i \in 0 .. m - 1 PROVE partial_dist[g][i] = row[i] /\ row[i] \in Nat
  <2>1. i \in 0 .. n - 1 /\ i < m
    BY <1>2, <1>3
  <2>2. PICK v \in Warps(launch) : i \in Items(v)
    BY <1>1, <1>2, <2>1, ItemFacts
  <2>3. at[g][v].id = x /\ at[g][v].pc > 1
    <3>1. at[g][v].pc \in Nat /\ 2 <= at[g][v].pc /\ at[g][v].id = x
      BY <1>4, <1>5 DEF Placed
    <3> QED
      BY <3>1
  <2>4. Holds(g, v)
    BY <1>1, <1>3, <2>3 DEF CellsOK
  <2>5. Added(launch, at[g][v].pc, 0) /\ 0 \in 0 .. RoundsOf(launch)
    BY <1>4 DEF Added
  <2>6. partial_dist[g][i] = V[0][i]
    BY <1>6, <2>2, <2>3, <2>4, <2>5 DEF Holds
  <2>7. V[0][i] = row[i]
    BY <1>1, <1>6, <2>1 DEF IsValues, Words
  <2> QED
    BY <1>7, <2>6, <2>7
<1>9. Found(g, 0) = Total(partial_dist[g], m)
  BY <1>1, <1>4 DEF Found, Instruction, Total
<1>10. SumFunction(row) = Total(row, m)
  <2>1. DOMAIN row = 0 .. m - 1
    BY <1>7
  <2> QED
    BY <2>1 DEF SumFunction, Total
<1>11. PICK f : f = partial_dist[g]
  OBVIOUS
<1>12. \A i \in 0 .. m - 1 : row[i] \in Nat /\ row[i] = f[i]
  BY <1>8, <1>11
<1>13. Total(row, m) = Total(f, m)
  BY <1>2, <1>12, TotalAgrees
<1> QED
  BY <1>1, <1>9, <1>10, <1>11, <1>13

\* The kernels that add in rounds end up with the sum of all words.
LEMMA SumOfRounds ==
    ASSUME Placed, InStep, DataOK, CellsOK, ExtraOK, WithinLimits(launch), SumsAll(launch), mpc = "running",
           Adds(launch), NEW g \in Groups(launch), at[g][0].pc = ReportPos(launch), at[g][0].id \in Locations
    PROVE  Found(g, 0) = SumFunction(popcount[at[g][0].id])
<1>1. PICK n, m, x, row, K : /\ n = launch.local_worksize /\ m = launch.bs_len /\ x = at[g][0].id
                             /\ row = popcount[x] /\ K = Rounds(n)
  OBVIOUS
<1>2. n \in Nat \ {0} /\ m \in Nat /\ 0 \in Warps(launch)
  BY <1>1, SizeFacts
<1>3. ~ Alone(launch) /\ m <= n
  BY <1>1 DEF Alone, Adds, SumsAll
<1>4. K \in Nat /\ K = RoundsOf(launch)
  <2>1. K \in Nat
    BY <1>1, RoundFacts
  <2> QED
    BY <1>1, <2>1 DEF RoundsOf
<1>5. PICK F, V, E : /\ F = Words(x) /\ V = ValuesOf(x) /\ E = ExtrasOf(x) /\ F \in [0 .. n - 1 -> Nat]
                     /\ IsValues(V, F, n) /\ IsExtras(E, V, n)
  BY <1>1, ValuesOfAre
<1>6. partial_dist[g][0] = V[K][0]
  <2>1. Added(launch, at[g][0].pc, K)
    <3>1. K # 0 => Pos(launch, K) < ReportPos(launch)
      <4>1. K # 0 => K \in 1 .. Rounds(launch.local_worksize)
        BY <1>1, <1>4
      <4> QED
        BY <4>1, PosOrder
    <3> QED
      BY <1>4, <3>1 DEF Added
  <2>2. at[g][0].pc > 1
    BY <1>3, ProgramFacts DEF ReportPos
  <2>3. Holds(g, 0)
    BY <1>2, <1>3, <2>2 DEF CellsOK
  <2>4. 0 \in Items(0) /\ K \in 0 .. RoundsOf(launch)
    BY <1>2, <1>4, FirstItem
  <2> QED
    BY <1>1, <1>5, <2>1, <2>3, <2>4 DEF Holds
<1>7. V[K][0] + E[K] = SumFunction(row)
  <2>1. V[K][0] + E[K] = Total(F, n)
    BY <1>1, <1>2, <1>5, NothingLost
  <2>2. row \in [0 .. m - 1 -> Nat]
    BY <1>1 DEF DataOK
  <2>3. F = [i \in 0 .. n - 1 |-> IF i < m THEN row[i] ELSE 0]
    BY <1>1, <1>5 DEF Words
  <2>4. Total(F, n) = SumFunction(row)
    BY <1>2, <1>3, <2>2, <2>3, PaddingAddsNothing
  <2> QED
    BY <2>1, <2>4
<1>8. Found(g, 0) = V[K][0] + IF Carrying(launch) THEN extra[g] ELSE 0
  <2>1. Instruction(g, 0).op = "report"
    BY Reporting DEF Placed, Instruction
  <2> QED
    BY <1>6, <2>1 DEF Found
<1>9. CASE Carrying(launch)
  <2>1. PICK q \in 0 .. RoundsOf(launch) : CarriedUpTo(at[g], extra[g], x, q)
    <3>1. 2 < at[g][0].pc /\ at[g][0].pc <= ReportPos(launch)
      <4>1. ReportPos(launch) \in Nat /\ ReportPos(launch) >= 2 /\ ReportPos(launch) \in DOMAIN Program(launch)
        BY <1>3, ProgramFacts DEF ReportPos
      <4>2. ReportPos(launch) # 2
        BY <1>9, <4>1, Instructions, Reporting
      <4> QED
        BY <4>1, <4>2
    <3> QED
      BY <1>1, <1>2, <1>9, <3>1 DEF ExtraOK
  <2>2. \A k \in 1 .. RoundsOf(launch) : Unpaired(k) => HasCarried(at[g], x, k)
    BY <1>1, <1>2, <1>9, AllCarried
  <2>3. extra[g] = ExtrasOf(x)[K]
    <3>1. K \in 0 .. RoundsOf(launch) /\ q <= K
      BY <1>4
    <3> QED
      BY <1>1, <1>9, <2>1, <2>2, <3>1, NothingMissing
  <2> QED
    BY <1>1, <1>5, <1>7, <1>8, <1>9, <2>3
<1>10. CASE ~ Carrying(launch)
  <2>1. PICK e \in 0 .. n : n = 2 ^ e
    BY <1>1, <1>10 DEF Adds, Carrying, WithinLimits, SumsAll, IsPower2
  <2>2. e \in Nat
    BY <1>2
  <2>3. \A r \in 1 .. Rounds(n) : Half(n, r - 1) % 2 # 1
    BY <2>1, <2>2, PowersHalve
  <2>4. E[K] = E[0] /\ E[0] = 0
    <3>4. PICK p : p = 0
      OBVIOUS
    <3>1. p \in 0 .. Rounds(n) /\ K \in 0 .. Rounds(n) /\ p <= K
      BY <1>1, <1>4, <3>4
    <3>2. \A r \in p + 1 .. K : Half(n, r - 1) % 2 # 1
      BY <1>1, <2>3, <3>4
    <3>3. E[K] = E[p]
      <4>1. n \in Nat \ {0} /\ IsExtras(E, V, n)
        BY <1>2, <1>5
      <4> QED
        BY <3>1, <3>2, <4>1, ExtraRests
    <3> QED
      BY <1>2, <1>5, <3>3, <3>4 DEF IsExtras
  <2>5. V[K] \in [0 .. n - 1 -> Nat]
    BY <1>1, <1>4, <1>5 DEF IsValues
  <2>6. V[K][0] \in Nat
    BY <1>2, <2>5
  <2> QED
    BY <1>1, <1>7, <1>8, <1>10, <2>4, <2>6
<1> QED
  BY <1>9, <1>10

\* A group reports the distance of its location.
LEMMA FoundIsRight ==
    ASSUME Placed, InStep, DataOK, CellsOK, ExtraOK, WithinLimits(launch), SumsAll(launch), mpc = "running",
           NEW g \in Groups(launch), at[g][0].pc = ReportPos(launch), at[g][0].id \in Locations
    PROVE  Found(g, 0) = SumFunction(popcount[at[g][0].id])
<1>1. CASE Alone(launch)
  <2>1. Instruction(g, 0).op = "report_row"
    BY <1>1, Reporting DEF Placed, Instruction
  <2> QED
    BY <2>1 DEF Found
<1> QED
  BY <1>1, SumOfAll, SumOfRounds, Reporting

\* What has been selected is what is near among the locations that are past.
Answered ==
    /\ mpc = "running" =>
           \A x \in Locations : x \in ToSet(selected) <=> Past(x) /\ x \in Near
    /\ mpc = "returned" => ToSet(selected) = Near

LEMMA AppendedSet ==
    ASSUME NEW S, NEW s \in Seq(S), NEW e \in S
    PROVE  \A x : x \in ToSet(Append(s, e)) <=> x \in ToSet(s) \/ x = e
<1>1. PICK n \in Nat : n = Len(s)
  OBVIOUS
<1>2. PICK t : t = Append(s, e)
  OBVIOUS
<1>3. /\ DOMAIN s = 1 .. n /\ DOMAIN t = 1 .. n + 1 /\ t[n + 1] = e
      /\ \A i \in 1 .. n : t[i] = s[i]
      /\ \A i \in 1 .. n : i \in 1 .. n + 1
      /\ \A i \in 1 .. n + 1 : i \in 1 .. n \/ i = n + 1
      /\ n + 1 \in 1 .. n + 1
  BY <1>1, <1>2
<1>4. ASSUME NEW x PROVE x \in ToSet(t) <=> x \in ToSet(s) \/ x = e
  <2>1. ASSUME x \in ToSet(t) PROVE x \in ToSet(s) \/ x = e
    BY <1>3, <2>1 DEF ToSet
  <2>2. ASSUME x \in ToSet(s) PROVE x \in ToSet(t)
    BY <1>3, <2>2 DEF ToSet
  <2>3. e \in ToSet(t)
    BY <1>3 DEF ToSet
  <2> QED
    BY <2>1, <2>2, <2>3
<1> QED
  BY <1>2, <1>4

\* What an instruction selects.
Selecting(g, w, op) ==
    \A x \in Locations :
        x \in ToSet(selected') <=>
            \/ x \in ToSet(selected)
            \/ /\ op \in {"report_row", "report_sum", "report"} /\ w = 0
               /\ Found(g, w) <= Radius /\ x = at[g][w].id

LEMMA Selects ==
    ASSUME Placed, SelectedOK, WithinLimits(launch), NEW g, NEW w, Step(g, w)
    PROVE  \E op : Execute(g, w, op) /\ Selecting(g, w, op)
<1>1. CASE Report(g, w)
  <2>1. PICK op \in {"report_row", "report_sum", "report"} : Execute(g, w, op)
    BY <1>1 DEF Report
  <2>2. w \in Warps(launch) /\ at[g][w].id \in Locations
    BY <2>1, Executes DEF Moves
  <2>3. 0 \in Items(w) <=> w = 0
    BY <2>2, FirstItem
  <2>4. selected' = IF w = 0 /\ Found(g, w) <= Radius THEN Append(selected, at[g][w].id) ELSE selected
    BY <1>1, <2>3 DEF Report
  <2>5. selected \in Seq(Locations)
    BY DEF SelectedOK
  <2>6. CASE w = 0 /\ Found(g, w) <= Radius
    <3>1. PICK e \in Locations : e = at[g][w].id
      BY <2>2
    <3>2. selected' = Append(selected, e)
      BY <2>4, <2>6, <3>1
    <3>3. \A x : x \in ToSet(Append(selected, e)) <=> x \in ToSet(selected) \/ x = e
      BY <2>5, AppendedSet
    <3>4. Selecting(g, w, op)
      BY <2>1, <2>6, <3>1, <3>2, <3>3 DEF Selecting
    <3> QED
      BY <2>1, <3>4
  <2>7. CASE ~ (w = 0 /\ Found(g, w) <= Radius)
    <3>1. selected' = selected
      BY <2>4, <2>7
    <3>2. Selecting(g, w, op)
      BY <2>7, <3>1 DEF Selecting
    <3> QED
      BY <2>1, <3>2
  <2> QED
    BY <2>6, <2>7
<1>2. ASSUME NEW op \in {"store", "clear", "carry", "add", "barrier"}, selected' = selected
      PROVE  Selecting(g, w, op)
  BY <1>2 DEF Selecting
<1>3. CASE Store(g, w)
  BY <1>2, <1>3 DEF Store
<1>4. CASE Clear(g, w)
  BY <1>2, <1>4 DEF Clear
<1>5. CASE Carry(g, w)
  BY <1>2, <1>5 DEF Carry
<1>6. CASE Add(g, w)
  BY <1>2, <1>6 DEF Add
<1>7. CASE Barrier(g, w)
  BY <1>2, <1>7 DEF Barrier
<1> QED
  BY <1>1, <1>3, <1>4, <1>5, <1>6, <1>7 DEF Step

LEMMA AnsweredMove ==
    ASSUME Placed, InStep, DataOK, SelectedOK, CellsOK, ExtraOK, Answered,
           WithinLimits(launch), SumsAll(launch), NEW g, NEW w, Step(g, w)
    PROVE  Answered'
<1>1. UNCHANGED <<mpc, launch, kernel, popcount>>
  BY Steppings
<1>2. PICK op : Execute(g, w, op) /\ Selecting(g, w, op)
  BY Selects
<1>3. /\ mpc = "running" /\ g \in Groups(launch) /\ w \in Warps(launch) /\ kernel[at[g][w].pc].op = op
      /\ at[g][w].id \in Locations /\ at[g][w].pc \in 1 .. Len(kernel)
  <2>1. Moves(g, w, op)
    BY <1>2, Executes
  <2> QED
    BY <2>1 DEF Moves
<1>4. op \in {"report_row", "report_sum", "report"} <=> at[g][w].pc = ReportPos(launch)
  BY <1>3, ProgramFacts DEF Placed
<1>5. /\ \A x \in Locations : Past(x) => Past(x)'
      /\ w = 0 /\ at[g][w].pc = ReportPos(launch) =>
             \A x \in {at[g][w].id} : ~ Past(x) /\ Past(x)'
      /\ \A x \in Locations :
             Past(x)' => Past(x) \/ (w = 0 /\ at[g][w].pc = ReportPos(launch) /\ x = at[g][w].id)
  BY <1>1, <1>2, PastMoves
<1>6. Near' = Near
  BY <1>1 DEF Near
<1>7. ASSUME NEW x \in Locations PROVE x \in ToSet(selected') <=> Past(x)' /\ x \in Near
  <2>1. x \in ToSet(selected) <=> Past(x) /\ x \in Near
    BY <1>3 DEF Answered
  <2>2. CASE w = 0 /\ at[g][w].pc = ReportPos(launch) /\ x = at[g][w].id
    <3>1. Found(g, w) = SumFunction(popcount[x])
      BY <1>3, <2>2, FoundIsRight
    <3>2. x \in Near <=> Found(g, w) <= Radius
      BY <3>1 DEF Near
    <3>3. ~ Past(x) /\ Past(x)'
      BY <1>5, <2>2
    <3> QED
      BY <1>2, <1>4, <2>1, <2>2, <3>2, <3>3 DEF Selecting
  <2>3. CASE ~ (w = 0 /\ at[g][w].pc = ReportPos(launch) /\ x = at[g][w].id)
    <3>1. Past(x)' <=> Past(x)
      BY <1>5, <2>3
    <3>2. x \in ToSet(selected') <=> x \in ToSet(selected)
      BY <1>2, <1>4, <2>3 DEF Selecting
    <3> QED
      BY <2>1, <3>1, <3>2
  <2> QED
    BY <2>2, <2>3
<1> QED
  BY <1>1, <1>3, <1>6, <1>7 DEF Answered

LEMMA RestAtMost ==
    ASSUME NEW G \in Nat \ {0}, NEW x \in Nat
    PROVE  x % G <= x
<1>1. PICK q, r : q = x \div G /\ r = x % G
  OBVIOUS
<1>2. q \in Nat /\ r \in 0 .. G - 1 /\ x = G * q + r
  BY <1>1
<1>3. PICK a \in Int : a = G * q
  BY <1>2
<1>4. G * q >= 0
  BY <1>2
<1> QED
  BY <1>1, <1>2, <1>3, <1>4

\* A call finds no location past; when it returns, all are.
LEMMA AnsweredKept ==
    ASSUME \A l \in Launches : WithinLimits(l) /\ SumsAll(l),
           Placed, InStep, DataOK, SelectedOK, CellsOK, ExtraOK, Answered, [Next]_vars
    PROVE  Answered'
<1>1. CASE Call
  <2>1. /\ mpc' = "running" /\ launch' \in Launches /\ selected' = <<>>
        /\ at' = [g \in Groups(launch') |-> [w \in Warps(launch') |-> [id |-> g, pc |-> 1]]]
    BY <1>1 DEF Call
  <2>2. PICK G \in Nat \ {0} : G = launch'.num_groups /\ Groups(launch') = 0 .. G - 1 /\ 0 \in Warps(launch')
    BY <2>1, SizeFacts
  <2>3. ReportPos(launch') \in Nat /\ ReportPos(launch') >= 1
    BY <2>1, ProgramFacts
  <2>4. ASSUME NEW x \in Locations PROVE ~ Past(x)'
    <3>1. x \in Nat
      BY DEF Locations
    <3>2. PICK h \in Groups(launch') : h = x % G
      BY <2>2, <3>1
    <3>3. at'[h][0].id = h /\ at'[h][0].pc = 1
      BY <2>1, <2>2
    <3>4. ~ (x < h)
      <4>1. x % G <= x /\ h \in Nat
        BY <2>2, <3>1, RestAtMost
      <4> QED
        BY <3>1, <3>2, <4>1
    <3>5. ~ (1 > ReportPos(launch'))
      BY <2>3
    <3> QED
      BY <2>2, <3>2, <3>3, <3>4, <3>5 DEF Past
  <2>5. ToSet(<<>>) = {}
    BY DEF ToSet
  <2> QED
    BY <2>1, <2>4, <2>5 DEF Answered
<1>2. CASE Return
  <2>1. /\ mpc = "running" /\ mpc' = "returned" /\ selected' = selected /\ popcount' = popcount
        /\ \A g \in DOMAIN at : \A w \in DOMAIN at[g] : ~ Busy(g, w)
    BY <1>2 DEF Return
  <2>2. PICK G \in Nat \ {0} : G = launch.num_groups /\ Groups(launch) = 0 .. G - 1 /\ 0 \in Warps(launch)
    BY SizeFacts DEF Placed
  <2>3. at \in [Groups(launch) -> [Warps(launch) -> [id : Nat, pc : 1 .. Len(kernel)]]]
    BY <2>1 DEF Placed
  <2>4. ASSUME NEW x \in Locations PROVE Past(x)
    <3>1. x \in Nat /\ x < Sample
      BY SampleAssumption DEF Locations
    <3>2. PICK h \in Groups(launch) : h = x % G
      BY <2>2, <3>1
    <3>3. h \in DOMAIN at /\ 0 \in DOMAIN at[h] /\ at[h][0].id \in Nat
      BY <2>2, <2>3
    <3>4. ~ (at[h][0].id < Sample)
      BY <2>1, <3>3 DEF Busy
    <3>5. x < at[h][0].id
      BY <3>1, <3>3, <3>4, SampleAssumption
    <3> QED
      BY <2>2, <3>2, <3>5 DEF Past
  <2>5. \A x \in Locations : x \in ToSet(selected) <=> x \in Near
    BY <2>1, <2>4 DEF Answered
  <2>6. ToSet(selected) \subseteq Locations
    BY DEF SelectedOK, ToSet
  <2>7. ToSet(selected) = Near
    BY <2>5, <2>6 DEF Near
  <2>8. Near' = Near
    BY <2>1 DEF Near
  <2> QED
    BY <2>1, <2>7, <2>8 DEF Answered
<1>3. ASSUME NEW g \in DOMAIN at, NEW w \in DOMAIN at[g], Step(g, w) PROVE Answered'
  BY <1>3, AnsweredMove DEF Placed
<1>4. CASE UNCHANGED vars
  BY <1>4 DEF vars, Answered, Past, Near
<1> QED
  BY <1>1, <1>2, <1>3, <1>4 DEF Next, Run

\* All that is known of a scan.
IInv == Placed /\ InStep /\ DataOK /\ SelectedOK /\ CellsOK /\ ExtraOK /\ Answered

LEMMA IInvHolds ==
    ASSUME \A l \in Launches : WithinLimits(l) /\ SumsAll(l)
    PROVE  Spec => []IInv
<1>1. Init => IInv
  <2> SUFFICES ASSUME Init PROVE IInv
    OBVIOUS
  <2>1. mpc = "idle"
    BY DEF Init
  <2>2. CellsOK /\ ExtraOK /\ Answered
    BY <2>1 DEF CellsOK, ExtraOK, Answered
  <2> QED
    BY <2>2, PlacedInit, DataInit DEF IInv
<1>2. IInv /\ [Next]_vars => IInv'
  <2> SUFFICES ASSUME IInv, [Next]_vars PROVE IInv'
    OBVIOUS
  <2>1. Placed /\ InStep /\ DataOK /\ SelectedOK /\ CellsOK /\ ExtraOK /\ Answered
    BY DEF IInv
  <2>2. Placed' /\ InStep'
    BY <2>1, PlacesKept
  <2>3. DataOK' /\ SelectedOK'
    BY <2>1, DataKept
  <2>4. CellsOK' /\ ExtraOK'
    BY <2>1, CellsKept, ExtraKept
  <2>5. Answered'
    BY <2>1, AnsweredKept
  <2> QED
    BY <2>2, <2>3, <2>4, <2>5 DEF IInv
<1> QED
  BY <1>1, <1>2, PTL DEF Spec

\* A sequence without repetitions is as long as its set is large.
LEMMA Distinct ==
    ASSUME SelectedOK
    PROVE  Cardinality(ToSet(selected)) = Len(selected)
<1>1. PICK n \in Nat : n = Len(selected) /\ DOMAIN selected = 1 .. n
  BY DEF SelectedOK
<1>2. PICK f : f = [i \in 1 .. n |-> selected[i]]
  OBVIOUS
<1>3. ToSet(selected) = {selected[i] : i \in 1 .. n}
  BY <1>1 DEF ToSet
<1>4. f \in Bijection(1 .. n, ToSet(selected))
  <2>1. \A j, k \in 1 .. n : selected[j] = selected[k] => j = k
    BY <1>1 DEF SelectedOK
  <2>2. f \in [1 .. n -> ToSet(selected)]
    BY <1>2, <1>3
  <2>3. \A j, k \in 1 .. n : f[j] = f[k] => j = k
    BY <1>2, <2>1
  <2>4. \A x \in ToSet(selected) : \E i \in 1 .. n : f[i] = x
    BY <1>2, <1>3
  <2> QED
    BY <2>2, <2>3, <2>4 DEF Bijection, Injection, Surjection, IsInjective
<1>5. ExistsBijection(1 .. n, ToSet(selected))
  BY <1>4 DEF ExistsBijection
<1> QED
  BY <1>1, <1>5, FS_CountingElements

\* A scan on the device returns exactly the near locations, each once, with
\* every kernel whose limits the launch keeps: what test1.c asserts of
\* as_scan_opencl2.
THEOREM GroupScanReturnsNear ==
    ASSUME \A l \in Launches : WithinLimits(l) /\ SumsAll(l)
    PROVE  Spec => []ReturnsNear
<1>1. IInv => ReturnsNear
  <2> SUFFICES ASSUME IInv, mpc = "returned" PROVE ToSet(selected) = Near /\ Len(selected) = Cardinality(Near)
    BY DEF ReturnsNear
  <2>1. ToSet(selected) = Near
    BY DEF IInv, Answered
  <2>2. Cardinality(ToSet(selected)) = Len(selected)
    BY Distinct DEF IInv
  <2> QED
    BY <2>1, <2>2
<1> QED
  BY <1>1, IInvHolds, PTL

\* as_scan_opencl2 keeps the promise of a scanner: between its call and its
\* return nothing is promised, and the return answers it at once.
THEOREM GroupScanImplementsScan ==
    ASSUME \A l \in Launches : WithinLimits(l) /\ SumsAll(l)
    PROVE  Spec => ImplementsScan
<1>1. Init => Contract!Init
  BY DEF Init, Contract!Init, Contract!NoAnswer
<1>2. ASSUME IInv, IInv', [Next]_vars PROVE [Contract!Next]_(Contract!vars)
  <2>1. CASE Call
    <3>1. mpc # "running" /\ mpc' = "running"
      BY <2>1 DEF Call
    <3>2. Near' \in SUBSET Locations
      BY DEF Near
    <3>3. Contract!Call
      BY <3>1, <3>2 DEF Contract!Call, Contract!NoAnswer, Contract!Locations, Locations
    <3> QED
      BY <3>3 DEF Contract!Next
  <2>2. CASE Return
    <3>1. mpc = "running" /\ mpc' = "returned" /\ selected' = selected /\ popcount' = popcount
      BY <2>2 DEF Return
    <3>2. Near' = Near
      BY <3>1 DEF Near
    <3>3. ToSet(selected') = Near'
      BY <1>2, <3>1 DEF IInv, Answered
    <3>4. Cardinality(ToSet(selected)) = Len(selected)
      BY <1>2, Distinct DEF IInv
    <3>5. ToSet(selected) = Near /\ Cardinality(Near) = Len(selected)
      BY <3>1, <3>2, <3>3, <3>4
    <3>6. [locations |-> ToSet(selected'), cnt |-> Len(selected')] = [locations |-> Near, cnt |-> Cardinality(Near)]
      BY <3>1, <3>5
    <3>7. Contract!Cardinality(Near) = Cardinality(Near)
      BY DEF Cardinality, Contract!Cardinality
    <3>8. Contract!Return
      BY <3>1, <3>2, <3>6, <3>7 DEF Contract!Return
    <3> QED
      BY <3>8 DEF Contract!Next
  <2>3. ASSUME NEW g \in DOMAIN at, NEW w \in DOMAIN at[g], Step(g, w) PROVE UNCHANGED Contract!vars
    <3>1. mpc' = mpc /\ popcount' = popcount
      BY <2>3, Steppings
    <3>2. mpc = "running"
      <4>1. PICK op : Execute(g, w, op)
        BY <2>3, Steppings
      <4> QED
        BY <4>1 DEF Execute
    <3>3. Near' = Near
      BY <3>1 DEF Near
    <3> QED
      BY <3>1, <3>2, <3>3 DEF Contract!vars
  <2>4. CASE UNCHANGED vars
    <3>1. mpc' = mpc /\ popcount' = popcount /\ selected' = selected
      BY <2>4 DEF vars
    <3>2. Near' = Near
      BY <3>1 DEF Near
    <3> QED
      BY <3>1, <3>2 DEF Contract!vars
  <2> QED
    BY <1>2, <2>1, <2>2, <2>3, <2>4 DEF Next, Run
<1> QED
  BY <1>1, <1>2, IInvHolds, PTL DEF Spec, ImplementsScan, Contract!Spec

-----------------------------------------------------------------------------
(* Bitstrings: where each bit is kept.                                      *)

\* The last word has at least one bit of the bitstring.
LEMMA Lengths ==
    /\ len \in Nat \ {0}
    /\ bits_remaining \in 0 .. WordBits - 1
    /\ len * WordBits = Bits + bits_remaining
<1> DEFINE q == Bits \div WordBits  r == Bits % WordBits
<1>1. Bits \in Nat /\ WordBits \in Nat /\ Bits > 0 /\ WordBits > 0
  BY WidthsAssumption
<1>2. q \in Nat /\ r \in 0 .. WordBits - 1 /\ Bits = WordBits * q + r
  BY <1>1
<1>3. len = q + (IF q * WordBits < Bits THEN 1 ELSE 0) /\ bits_remaining = len * WordBits - Bits
  BY DEF len, bits_remaining
<1> HIDE DEF q, r
<1>4. q * WordBits = WordBits * q /\ (q + 1) * WordBits = WordBits * q + WordBits
  BY <1>1, <1>2
<1>5. CASE r = 0
  <2>1. len = q /\ bits_remaining = 0
    BY <1>1, <1>2, <1>3, <1>4, <1>5
  <2>2. q # 0
    BY <1>1, <1>2, <1>5
  <2> QED
    BY <1>1, <1>2, <1>4, <1>5, <2>1, <2>2
<1>6. CASE r > 0
  <2>1. len = q + 1 /\ bits_remaining = WordBits - r
    BY <1>1, <1>2, <1>3, <1>4, <1>6
  <2> QED
    BY <1>1, <1>2, <1>4, <1>6, <2>1
<1> QED
  BY <1>2, <1>5, <1>6

\* Each bit is kept in a word of the buffer, at a place of its own that is
\* none of the remaining bits.
LEMMA PlaceOf ==
    ASSUME NEW bit \in BitIndex
    PROVE  /\ offset(bit) \in 0 .. len - 1
           /\ idx(bit) \in 0 .. WordBits - 1
           /\ offset(bit) = len - 1 => idx(bit) >= bits_remaining
           /\ bit = WordBits * offset(bit) + (WordBits - 1 - idx(bit))
<1> DEFINE a == bit \div WordBits  b == bit % WordBits
<1>1. Bits \in Nat /\ WordBits \in Nat /\ WordBits > 0 /\ bit \in Nat /\ bit < Bits
  BY WidthsAssumption DEF BitIndex
<1>2. a \in Nat /\ b \in 0 .. WordBits - 1 /\ bit = WordBits * a + b
  BY <1>1
<1>3. offset(bit) = a /\ idx(bit) = WordBits - 1 - b
  BY DEF offset, idx
<1> HIDE DEF a, b
<1>4. PICK l \in Nat, r \in Nat : l = len /\ r = bits_remaining /\ l > 0 /\ r < WordBits /\ l * WordBits = Bits + r
  <2>1. /\ len \in Nat /\ bits_remaining \in Nat /\ len > 0 /\ bits_remaining < WordBits
        /\ len * WordBits = Bits + bits_remaining
    BY <1>1, Lengths
  <2> QED
    BY <2>1
<1>5. a < l
  <2>1. SUFFICES ASSUME a >= l PROVE FALSE
    BY <1>2, <1>4
  <2>2. PICK d \in Nat : a = l + d
    BY <1>2, <1>4, <2>1
  <2>3. WordBits * a = l * WordBits + WordBits * d /\ WordBits * d >= 0
    BY <1>1, <1>4, <2>2
  <2> QED
    BY <1>1, <1>2, <1>4, <2>3
<1>6. a = l - 1 => WordBits - 1 - b >= r
  <2>1. SUFFICES ASSUME a = l - 1 PROVE WordBits - 1 - b >= r
    OBVIOUS
  <2>2. WordBits * a = l * WordBits - WordBits
    BY <1>1, <1>4, <2>1
  <2> QED
    BY <1>1, <1>2, <1>4, <2>2
<1> QED
  BY <1>1, <1>2, <1>3, <1>4, <1>5, <1>6

\* No two bits have the same place.
LEMMA PlacesDiffer ==
    ASSUME NEW b \in BitIndex, NEW c \in BitIndex, offset(b) = offset(c), idx(b) = idx(c)
    PROVE  b = c
BY PlaceOf

\* Every other place is that of a bit.
LEMMA BitAt ==
    ASSUME NEW j \in 0 .. len - 1, NEW p \in 0 .. WordBits - 1, j = len - 1 => p >= bits_remaining
    PROVE  \E bit \in BitIndex : offset(bit) = j /\ idx(bit) = p
<1> DEFINE b == WordBits - 1 - p  bit == WordBits * j + b
<1>1. Bits \in Nat /\ WordBits \in Nat /\ WordBits > 0
  BY WidthsAssumption
<1>2. PICK l \in Nat, r \in Nat : l = len /\ r = bits_remaining /\ l > 0 /\ r < WordBits /\ l * WordBits = Bits + r
  <2>1. /\ len \in Nat /\ bits_remaining \in Nat /\ len > 0 /\ bits_remaining < WordBits
        /\ len * WordBits = Bits + bits_remaining
    BY <1>1, Lengths
  <2> QED
    BY <2>1
<1>3. j \in Nat /\ j < l /\ b \in 0 .. WordBits - 1 /\ p = WordBits - 1 - b
  BY <1>1, <1>2
<1>4. WordBits * j \in Nat
  BY <1>1, <1>3
<1>5. bit \in Nat /\ bit < Bits
  <2>1. CASE j = l - 1
    <3>1. WordBits * j = l * WordBits - WordBits
      BY <1>1, <1>2, <2>1
    <3> QED
      BY <1>1, <1>2, <1>3, <1>4, <2>1, <3>1
  <2>2. CASE j < l - 1
    <3>1. PICK d \in Nat : l = j + 2 + d
      <4>1. l - 2 - j \in Nat /\ l = j + 2 + (l - 2 - j)
        BY <1>2, <1>3, <2>2
      <4> QED
        BY <4>1
    <3>2. l * WordBits = WordBits * j + WordBits + WordBits + WordBits * d /\ WordBits * d >= 0
      BY <1>1, <1>3, <3>1
    <3> QED
      BY <1>1, <1>2, <1>3, <1>4, <3>2
  <2> QED
    BY <1>2, <1>3, <2>1, <2>2
<1>6. bit \div WordBits = j /\ bit % WordBits = b
  <2> DEFINE y == bit \div WordBits  z == bit % WordBits
  <2>1. y \in Nat /\ z \in 0 .. WordBits - 1 /\ bit = WordBits * y + z
    BY <1>1, <1>5
  <2> HIDE DEF y, z
  <2>2. ~ (y > j)
    <3>1. SUFFICES ASSUME y > j PROVE FALSE
      OBVIOUS
    <3>2. y - j - 1 \in Nat /\ y = j + 1 + (y - j - 1)
      BY <1>3, <2>1, <3>1
    <3>3. PICK d \in Nat : y = j + 1 + d
      BY <3>2
    <3>4. WordBits * y = WordBits * j + WordBits + WordBits * d /\ WordBits * d >= 0
      BY <1>1, <1>3, <3>3
    <3> QED
      BY <1>1, <1>3, <1>4, <2>1, <3>4
  <2>3. ~ (j > y)
    <3>1. SUFFICES ASSUME j > y PROVE FALSE
      OBVIOUS
    <3>2. j - y - 1 \in Nat /\ j = y + 1 + (j - y - 1)
      BY <1>3, <2>1, <3>1
    <3>3. PICK d \in Nat : j = y + 1 + d
      BY <3>2
    <3>4. WordBits * j = WordBits * y + WordBits + WordBits * d /\ WordBits * d >= 0 /\ WordBits * y \in Nat
      BY <1>1, <2>1, <3>3
    <3> QED
      BY <1>1, <1>3, <1>4, <2>1, <3>4
  <2>4. y = j
    BY <1>3, <2>1, <2>2, <2>3
  <2>5. z = b
    BY <1>1, <1>3, <1>4, <2>1, <2>4
  <2> QED
    BY <2>4, <2>5 DEF y, z
<1> QED
  BY <1>1, <1>3, <1>5, <1>6 DEF BitIndex, offset, idx

-----------------------------------------------------------------------------
(* Bitstrings: the distance.                                                *)

\* The remaining bits of a buffer are 0.
Clean(v) == v[len - 1] \cap (0 .. bits_remaining - 1) = {}

\* The words of bs_distance, and the bits in which they differ.
Differing(v, w) == [j \in 0 .. len - 1 |-> SymDiff(v[j], w[j])]
Differences(D, m) == UNION {{j} \X D[j] : j \in 0 .. m - 1}

LEMMA DifferencesStep ==
    ASSUME NEW m \in Nat, NEW D, IsFiniteSet(Differences(D, m)), IsFiniteSet(D[m])
    PROVE  /\ IsFiniteSet(Differences(D, m + 1))
           /\ Cardinality(Differences(D, m + 1)) = Cardinality(Differences(D, m)) + Cardinality(D[m])
<1> DEFINE C == {m} \X D[m]
<1>1. IsFiniteSet({m}) /\ Cardinality({m}) = 1
  BY FS_Singleton
<1>2. IsFiniteSet(C) /\ Cardinality(C) = 1 * Cardinality(D[m])
  BY <1>1, FS_Product
<1>3. Cardinality(D[m]) \in Nat /\ Cardinality(Differences(D, m)) \in Nat
  BY FS_CardinalityType
<1>4. Differences(D, m + 1) = Differences(D, m) \cup C
  <2>1. \A j : j \in 0 .. (m + 1) - 1 <=> j \in 0 .. m - 1 \/ j = m
    OBVIOUS
  <2> QED
    BY <2>1, Zenon DEF Differences
<1>5. Differences(D, m) \cap C = {}
  <2>1. \A j \in 0 .. m - 1 : j # m
    OBVIOUS
  <2> QED
    BY <2>1 DEF Differences
<1>6. Cardinality({}) = 0
  BY FS_EmptySet
<1>7. /\ IsFiniteSet(Differences(D, m) \cup C)
      /\ Cardinality(Differences(D, m) \cup C)
            = Cardinality(Differences(D, m)) + Cardinality(C) - Cardinality(Differences(D, m) \cap C)
  BY <1>2, FS_Union
<1> HIDE DEF C
<1>8. Cardinality(C) = Cardinality(D[m])
  <2>1. \A k \in Nat : 1 * k = k
    OBVIOUS
  <2> QED
    BY <1>2, <1>3, <2>1
<1>9. Cardinality(Differences(D, m + 1)) = Cardinality(Differences(D, m)) + Cardinality(C) - 0
  BY <1>4, <1>5, <1>6, <1>7
<1>10. IsFiniteSet(Differences(D, m + 1))
  BY <1>4, <1>7
<1> QED
  BY <1>3, <1>8, <1>9, <1>10

\* The sum of the numbers of differing bits of each word is their number.
LEMMA DistanceCounts ==
    ASSUME NEW v \in Buffer, NEW w \in Buffer
    PROVE  /\ IsFiniteSet(Differences(Differing(v, w), len))
           /\ bs_distance(v, w) = Cardinality(Differences(Differing(v, w), len))
<1> DEFINE D == Differing(v, w)
           f == [j \in 0 .. len - 1 |-> Cardinality(SymDiff(v[j], w[j]))]
           Ok(m) == /\ IsFiniteSet(Differences(D, m))
                    /\ Total(f, m) = Cardinality(Differences(D, m))
           Wrong == {m \in Nat : m <= len /\ ~ Ok(m)}
<1>1. len \in Nat
  BY Lengths
<1>2. ASSUME NEW j \in 0 .. len - 1
      PROVE  IsFiniteSet(D[j]) /\ f[j] = Cardinality(D[j]) /\ f[j] \in Nat
  <2>1. D[j] = SymDiff(v[j], w[j]) /\ f[j] = Cardinality(SymDiff(v[j], w[j]))
    BY DEF Differing
  <2>2. v[j] \in Word /\ w[j] \in Word
    BY DEF Buffer
  <2>3. D[j] \subseteq 0 .. WordBits - 1
    BY <2>1, <2>2 DEF Word, SymDiff
  <2>4. IsFiniteSet(0 .. WordBits - 1)
    BY WidthsAssumption, FS_Interval
  <2>5. IsFiniteSet(D[j])
    BY <2>3, <2>4, FS_Subset
  <2> QED
    BY <2>1, <2>5, FS_CardinalityType
<1>3. Total(f, 0) = 0
  <2>1. 0 .. 0 - 1 = {} /\ IsFiniteSet({}) /\ Cells(f, {}) = {} /\ \A i \in {} : f[i] \in Nat
    BY FS_EmptySet DEF Cells
  <2> QED
    BY <2>1, SumIsCells, FS_EmptySet DEF Total
<1>4. Ok(0)
  <2>1. Differences(D, 0) = {}
    BY DEF Differences
  <2> QED
    BY <1>3, <2>1, FS_EmptySet
<1> HIDE DEF D, f
<1>5. ASSUME NEW m \in 0 .. len - 1, Ok(m) PROVE Ok(m + 1)
  <2>1. m \in Nat /\ \A i \in 0 .. m : f[i] \in Nat
    BY <1>1, <1>2
  <2>2. Total(f, m + 1) = Total(f, m) + f[m]
    BY <2>1, TotalStep
  <2>3. /\ IsFiniteSet(Differences(D, m + 1))
        /\ Cardinality(Differences(D, m + 1)) = Cardinality(Differences(D, m)) + Cardinality(D[m])
    BY <1>2, <1>5, <2>1, DifferencesStep
  <2> QED
    BY <1>2, <1>5, <2>2, <2>3
<1> HIDE DEF Ok
<1>6. Wrong = {}
  <2>1. SUFFICES ASSUME Wrong # {} PROVE FALSE
    OBVIOUS
  <2>2. PICK m \in Wrong : \A k \in Wrong : m <= k
    BY <2>1, LeastNat
  <2>3. m \in Nat /\ m <= len /\ m # 0
    BY <1>4, <2>2
  <2>4. m - 1 \in 0 .. len - 1 /\ (m - 1) + 1 = m /\ m - 1 \notin Wrong /\ m - 1 \in Nat /\ m - 1 <= len
    BY <1>1, <2>2, <2>3
  <2>5. Ok(m - 1)
    BY <2>4
  <2> QED
    BY <1>5, <2>2, <2>4, <2>5
<1>7. Ok(len)
  BY <1>1, <1>6
<1>8. bs_distance(v, w) = Total(f, len)
  BY DEF bs_distance, SumFunction, Total, f
<1> QED
  BY <1>7, <1>8 DEF Ok, D

\* If no remaining bit is set, the bits that differ are those whose places
\* differ.
LEMMA DistanceOfClean ==
    ASSUME NEW v \in Buffer, NEW w \in Buffer, Clean(v), Clean(w)
    PROVE  bs_distance(v, w) = Hamming(v, w)
<1> DEFINE S == SymDiff(Value(v), Value(w))
           T == Differences(Differing(v, w), len)
           f == [bit \in S |-> <<offset(bit), idx(bit)>>]
<1>1. \A bit \in BitIndex :
          bit \in S <=> idx(bit) \in SymDiff(v[offset(bit)], w[offset(bit)])
  BY DEF Value, bs_get_bit, SymDiff
<1>2. S \subseteq BitIndex
  BY DEF Value, SymDiff
<1>3. \A j, p : <<j, p>> \in T <=> j \in 0 .. len - 1 /\ p \in SymDiff(v[j], w[j])
  <2>1. \A j \in 0 .. len - 1 : Differing(v, w)[j] = SymDiff(v[j], w[j])
    BY DEF Differing
  <2> QED
    BY <2>1 DEF Differences
<1>4. \A t \in T : \E j, p : t = <<j, p>>
  BY DEF Differences
<1> HIDE DEF T, S
<1>5. f \in [S -> T]
  <2>1. ASSUME NEW bit \in S PROVE <<offset(bit), idx(bit)>> \in T
    BY <1>1, <1>2, <1>3, PlaceOf
  <2> QED
    BY <2>1
<1>6. \A b, c \in S : f[b] = f[c] => b = c
  <2>1. ASSUME NEW b \in S, NEW c \in S, f[b] = f[c] PROVE b = c
    <3>1. <<offset(b), idx(b)>> = <<offset(c), idx(c)>>
      BY <2>1
    <3>2. offset(b) = offset(c) /\ idx(b) = idx(c)
      BY <3>1
    <3> QED
      BY <1>2, <3>2, PlacesDiffer
  <2> QED
    BY <2>1
<1>7. \A t \in T : \E bit \in S : f[bit] = t
  <2>1. ASSUME NEW t \in T PROVE \E bit \in S : f[bit] = t
    <3>1. PICK j, p : t = <<j, p>>
      BY <1>4
    <3>2. j \in 0 .. len - 1 /\ p \in SymDiff(v[j], w[j])
      BY <1>3, <3>1
    <3>3. v[j] \in Word /\ w[j] \in Word
      BY <3>2 DEF Buffer
    <3>4. p \in 0 .. WordBits - 1
      BY <3>2, <3>3 DEF Word, SymDiff
    <3>5. ASSUME j = len - 1 PROVE p >= bits_remaining
      <4>1. p \notin 0 .. bits_remaining - 1
        BY <3>2, <3>5 DEF Clean, SymDiff
      <4> QED
        BY <3>4, <4>1, Lengths
    <3>6. PICK bit \in BitIndex : offset(bit) = j /\ idx(bit) = p
      BY <3>2, <3>4, <3>5, BitAt
    <3>7. bit \in S
      BY <1>1, <3>2, <3>6
    <3> QED
      BY <3>1, <3>6, <3>7
  <2> QED
    BY <2>1
<1>8. ExistsBijection(S, T)
  <2> HIDE DEF f
  <2>1. f \in Bijection(S, T)
    BY <1>5, <1>6, <1>7 DEF Bijection, Injection, Surjection, IsInjective
  <2> QED
    BY <2>1 DEF ExistsBijection
<1>9. IsFiniteSet(S)
  <2>1. IsFiniteSet(BitIndex)
    BY WidthsAssumption, FS_Interval DEF BitIndex
  <2> QED
    BY <1>2, <2>1, FS_Subset
<1>10. Cardinality(T) = Cardinality(S)
  BY <1>8, <1>9, FS_Bijection
<1>11. bs_distance(v, w) = Cardinality(T)
  BY DistanceCounts DEF T
<1> QED
  BY <1>10, <1>11 DEF Hamming, S

-----------------------------------------------------------------------------
(* Bitstrings: what the functions store.                                    *)

\* What FlipBit makes of v for each of the bits of s.
FlipAll(v, s) ==
    [j \in 0 .. len - 1 |-> SymDiff(v[j], {idx(bit) : bit \in {b \in s : offset(b) = j}})]

LEMMA FlipOneMore ==
    ASSUME NEW v \in Buffer, NEW s \in SUBSET BitIndex, NEW x \in s
    PROVE  FlipAll(v, s) = FlipBit(FlipAll(v, s \ {x}), x)
<1> DEFINE At(t, j) == {idx(bit) : bit \in {b \in t : offset(b) = j}}
           r == s \ {x}
<1>1. x \in BitIndex /\ offset(x) \in 0 .. len - 1
  BY PlaceOf
<1>2. idx(x) \notin At(r, offset(x))
  BY <1>1, PlacesDiffer
<1>3. \A j : j # offset(x) => At(r, j) = At(s, j)
  OBVIOUS
<1>4. At(s, offset(x)) = At(r, offset(x)) \cup {idx(x)}
  OBVIOUS
<1>5. FlipAll(v, s) = [j \in 0 .. len - 1 |-> SymDiff(v[j], At(s, j))]
      /\ FlipAll(v, r) = [j \in 0 .. len - 1 |-> SymDiff(v[j], At(r, j))]
  BY DEF FlipAll
<1> HIDE DEF At, r
<1>6. FlipBit(FlipAll(v, r), x)
        = [j \in 0 .. len - 1 |-> IF j = offset(x) THEN SymDiff(FlipAll(v, r)[j], {idx(x)}) ELSE FlipAll(v, r)[j]]
  BY <1>1, <1>5 DEF FlipBit
<1>7. ASSUME NEW j \in 0 .. len - 1
      PROVE  FlipAll(v, s)[j] = FlipBit(FlipAll(v, r), x)[j]
  <2>1. CASE j = offset(x)
    <3>1. SymDiff(v[j], At(s, j)) = SymDiff(SymDiff(v[j], At(r, j)), {idx(x)})
      BY <1>2, <1>4, <2>1 DEF SymDiff
    <3> QED
      BY <1>5, <1>6, <2>1, <3>1
  <2>2. CASE j # offset(x)
    BY <1>3, <1>5, <1>6, <2>2
  <2> QED
    BY <2>1, <2>2
<1> QED
  BY <1>5, <1>6, <1>7 DEF r

LEMMA FlipNone ==
    ASSUME NEW v \in Buffer
    PROVE  FlipAll(v, {}) = v
<1>1. \A j : {idx(bit) : bit \in {b \in {} : offset(b) = j}} = {}
  OBVIOUS
<1>2. \A j \in 0 .. len - 1 : SymDiff(v[j], {}) = v[j]
  BY DEF SymDiff
<1>3. v = [j \in 0 .. len - 1 |-> v[j]]
  BY DEF Buffer
<1> QED
  BY <1>1, <1>2, <1>3 DEF FlipAll

\* No set of bits can be the smallest that is flipped otherwise.
LEMMA FlipsAll ==
    ASSUME NEW v \in Buffer, NEW S \in SUBSET BitIndex
    PROVE  FoldSet(LAMBDA bit, u : FlipBit(u, bit), v, S) = FlipAll(v, S)
<1> DEFINE First(s) == CHOOSE x \in s : TRUE
           Flips(fold) == fold = [s \in SUBSET S |->
                              IF s = {} THEN v ELSE FlipBit(fold[s \ {First(s)}], First(s))]
           all == [s \in SUBSET S |-> FlipAll(v, s)]
<1>1. FoldSet(LAMBDA bit, u : FlipBit(u, bit), v, S) = (CHOOSE fold : Flips(fold))[S]
  BY DEF FoldSet, MapThenFoldSet
<1>2. \A s \in SUBSET S : s # {} => First(s) \in s
  OBVIOUS
<1>3. \A s \in SUBSET S : IsFiniteSet(s) /\ Cardinality(s) \in Nat
  <2>1. IsFiniteSet(BitIndex)
    BY WidthsAssumption, FS_Interval DEF BitIndex
  <2> QED
    BY <2>1, FS_Subset, FS_CardinalityType
<1>4. FlipAll(v, {}) = v
  BY FlipNone
<1>5. ASSUME NEW s \in SUBSET S, s # {}
      PROVE  FlipAll(v, s) = FlipBit(FlipAll(v, s \ {First(s)}), First(s))
  <2>1. PICK x \in s : x = First(s)
    BY <1>2, <1>5
  <2> HIDE DEF First
  <2> QED
    BY <2>1, FlipOneMore
<1> HIDE DEF First
<1>6. Flips(all)
  <2>1. \A s \in SUBSET S : s \ {First(s)} \in SUBSET S
    OBVIOUS
  <2>2. \A s \in SUBSET S :
            FlipAll(v, s) = IF s = {} THEN v ELSE FlipBit(all[s \ {First(s)}], First(s))
    BY <1>4, <1>5, <2>1
  <2> QED
    BY <2>2
<1> HIDE DEF all
<1>7. ASSUME NEW fold, Flips(fold), NEW s \in SUBSET S
      PROVE  fold[s] = FlipAll(v, s)
  <2> DEFINE Wrong == {Cardinality(t) : t \in {u \in SUBSET S : fold[u] # FlipAll(v, u)}}
  <2>1. SUFFICES ASSUME Wrong # {} PROVE FALSE
    OBVIOUS
  <2>2. Wrong \in SUBSET Nat
    BY <1>3
  <2>3. PICK n \in Wrong : \A m \in Wrong : n <= m
    <3> HIDE DEF Wrong
    <3> QED
      BY <2>1, <2>2, LeastNat
  <2>4. PICK t \in SUBSET S : Cardinality(t) = n /\ fold[t] # FlipAll(v, t)
    OBVIOUS
  <2>5. fold[t] = IF t = {} THEN v ELSE FlipBit(fold[t \ {First(t)}], First(t))
    BY <1>7
  <2>6. t # {} /\ First(t) \in t
    BY <1>2, <1>4, <2>4, <2>5
  <2> DEFINE r == t \ {First(t)}
  <2>7. r \in SUBSET S /\ Cardinality(r) = n - 1 /\ n \in Nat /\ n - 1 \in Nat
    <3>1. IsFiniteSet(t) /\ Cardinality(t) \in Nat
      BY <1>3
    <3>2. Cardinality(r) = Cardinality(t) - 1
      <4>1. PICK x \in t : x = First(t)
        BY <2>6
      <4>2. Cardinality(t \ {x}) = Cardinality(t) - 1
        BY <3>1, FS_RemoveElement
      <4> QED
        BY <4>1, <4>2
    <3> QED
      BY <1>3, <2>4, <3>1, <3>2
  <2>8. fold[r] = FlipAll(v, r)
    <3>1. n - 1 \notin Wrong
      <4> HIDE DEF Wrong
      <4> QED
        BY <2>3, <2>7
    <3> QED
      BY <2>7, <3>1
  <2> QED
    BY <1>5, <2>4, <2>5, <2>6, <2>8
<1>8. Flips(CHOOSE fold : Flips(fold))
  <2> HIDE DEF Flips
  <2> QED
    BY <1>6
<1> HIDE DEF Flips
<1> QED
  BY <1>1, <1>7, <1>8

\* bs_get_bit sees each bit that is flipped, once, and no other.
LEMMA FlippedBits ==
    ASSUME NEW v \in Buffer, NEW S \in SUBSET BitIndex
    PROVE  /\ FlipAll(v, S) \in Buffer
           /\ Value(FlipAll(v, S)) = SymDiff(Value(v), S)
           /\ Clean(v) => Clean(FlipAll(v, S))
<1> DEFINE At(j) == {idx(bit) : bit \in {b \in S : offset(b) = j}}
<1>1. len - 1 \in 0 .. len - 1 /\ bits_remaining \in Nat
  BY Lengths
<1>2. \A j \in 0 .. len - 1 : FlipAll(v, S)[j] = SymDiff(v[j], At(j))
  BY DEF FlipAll
<1>3. \A j \in 0 .. len - 1 : At(j) \subseteq 0 .. WordBits - 1
  BY PlaceOf
<1>4. FlipAll(v, S) \in Buffer
  <2>1. \A j \in 0 .. len - 1 : v[j] \subseteq 0 .. WordBits - 1
    BY DEF Buffer, Word
  <2>2. \A j \in 0 .. len - 1 : SymDiff(v[j], At(j)) \in Word
    BY <1>3, <2>1 DEF Word, SymDiff
  <2> QED
    BY <2>2 DEF FlipAll, Buffer
<1>5. \A bit \in BitIndex : idx(bit) \in At(offset(bit)) <=> bit \in S
  BY PlacesDiffer
<1>6. At(len - 1) \cap (0 .. bits_remaining - 1) = {}
  <2>1. ASSUME NEW bit \in S, offset(bit) = len - 1 PROVE idx(bit) \notin 0 .. bits_remaining - 1
    BY <1>1, <2>1, PlaceOf
  <2> QED
    BY <2>1
<1> HIDE DEF At
<1>7. Value(FlipAll(v, S)) = SymDiff(Value(v), S)
  <2>1. \A bit \in BitIndex : idx(bit) \in FlipAll(v, S)[offset(bit)] <=> idx(bit) \in SymDiff(v[offset(bit)], At(offset(bit)))
    BY <1>2, PlaceOf
  <2> QED
    BY <1>5, <2>1 DEF Value, bs_get_bit, SymDiff
<1>8. Clean(v) => Clean(FlipAll(v, S))
  BY <1>1, <1>2, <1>6 DEF Clean, SymDiff
<1> QED
  BY <1>4, <1>7, <1>8

\* One word of bs_clear_remaining_bits.
LEMMA Cleared ==
    ASSUME NEW v \in Buffer
    PROVE  /\ bs_clear_remaining_bits(v) \in Buffer
           /\ Clean(bs_clear_remaining_bits(v))
           /\ Value(bs_clear_remaining_bits(v)) = Value(v)
<1> DEFINE u == bs_clear_remaining_bits(v)
<1>1. len - 1 \in 0 .. len - 1 /\ bits_remaining \in Nat
  BY Lengths
<1>2. u = [j \in 0 .. len - 1 |-> IF j = len - 1 THEN v[j] \ (0 .. bits_remaining - 1) ELSE v[j]]
  <2>1. v = [j \in 0 .. len - 1 |-> v[j]]
    BY DEF Buffer
  <2>2. CASE bits_remaining > 0
    BY <1>1, <2>1, <2>2 DEF bs_clear_remaining_bits
  <2>3. CASE bits_remaining = 0
    <3>1. 0 .. bits_remaining - 1 = {} /\ u = v
      BY <2>3 DEF bs_clear_remaining_bits
    <3>2. \A j \in 0 .. len - 1 : v[j] \ {} = v[j]
      OBVIOUS
    <3> QED
      BY <2>1, <3>1, <3>2
  <2> QED
    BY <1>1, <2>2, <2>3
<1> HIDE DEF u
<1>3. \A j \in 0 .. len - 1 : v[j] \subseteq 0 .. WordBits - 1
  BY DEF Buffer, Word
<1>4. u \in Buffer
  BY <1>2, <1>3 DEF Buffer, Word
<1>5. Clean(u)
  BY <1>1, <1>2 DEF Clean
<1>6. \A bit \in BitIndex : idx(bit) \in u[offset(bit)] <=> idx(bit) \in v[offset(bit)]
  BY <1>1, <1>2, PlaceOf
<1>7. Value(u) = Value(v)
  BY <1>6 DEF Value, bs_get_bit
<1> QED
  BY <1>4, <1>5, <1>7 DEF u

\* The words of bs_xor, bs_and, bs_or and bs_not.
Xored(v, w) == [j \in 0 .. len - 1 |-> SymDiff(v[j], w[j])]
Anded(v, w) == [j \in 0 .. len - 1 |-> v[j] \cap w[j]]
Ored(v, w) == [j \in 0 .. len - 1 |-> v[j] \cup w[j]]
Inverted(v) == [j \in 0 .. len - 1 |-> (0 .. WordBits - 1) \ v[j]]

\* Word by word, a function of two bitstrings does to each bit what it does to
\* the bits of a word.
LEMMA WordByWord ==
    ASSUME NEW v \in Buffer, NEW w \in Buffer
    PROVE  /\ Xored(v, w) \in Buffer /\ Anded(v, w) \in Buffer /\ Ored(v, w) \in Buffer /\ Inverted(v) \in Buffer
           /\ Clean(v) /\ Clean(w) => Clean(Xored(v, w)) /\ Clean(Ored(v, w))
           /\ Clean(v) \/ Clean(w) => Clean(Anded(v, w))
           /\ Value(Xored(v, w)) = SymDiff(Value(v), Value(w))
           /\ Value(Anded(v, w)) = Value(v) \cap Value(w)
           /\ Value(Ored(v, w)) = Value(v) \cup Value(w)
           /\ Value(Inverted(v)) = BitIndex \ Value(v)
<1> DEFINE all == Xored(v, w)  both == Anded(v, w)  some == Ored(v, w)  none == Inverted(v)
<1>1. len - 1 \in 0 .. len - 1
  BY Lengths
<1>2. \A j \in 0 .. len - 1 : v[j] \subseteq 0 .. WordBits - 1 /\ w[j] \subseteq 0 .. WordBits - 1
  BY DEF Buffer, Word
<1>3. all \in Buffer /\ both \in Buffer /\ some \in Buffer /\ none \in Buffer
  <2>1. \A j \in 0 .. len - 1 :
            /\ SymDiff(v[j], w[j]) \in Word /\ v[j] \cap w[j] \in Word
            /\ v[j] \cup w[j] \in Word /\ (0 .. WordBits - 1) \ v[j] \in Word
    BY <1>2 DEF Word, SymDiff
  <2> QED
    BY <2>1 DEF Buffer, Xored, Anded, Ored, Inverted
<1>4. \A j \in 0 .. len - 1 :
          /\ all[j] = SymDiff(v[j], w[j]) /\ both[j] = v[j] \cap w[j]
          /\ some[j] = v[j] \cup w[j] /\ none[j] = (0 .. WordBits - 1) \ v[j]
  BY DEF Xored, Anded, Ored, Inverted
<1> HIDE DEF all, both, some, none
<1>5. Clean(v) /\ Clean(w) => Clean(all) /\ Clean(some)
  BY <1>1, <1>4 DEF Clean, SymDiff
<1>6. Clean(v) \/ Clean(w) => Clean(both)
  BY <1>1, <1>4 DEF Clean
<1>7. ASSUME NEW bit \in BitIndex
      PROVE  /\ bit \in Value(all) <=> bit \in SymDiff(Value(v), Value(w))
             /\ bit \in Value(both) <=> bit \in Value(v) \cap Value(w)
             /\ bit \in Value(some) <=> bit \in Value(v) \cup Value(w)
             /\ bit \in Value(none) <=> bit \in BitIndex \ Value(v)
  <2>1. offset(bit) \in 0 .. len - 1 /\ idx(bit) \in 0 .. WordBits - 1
    BY PlaceOf
  <2> QED
    BY <1>4, <2>1 DEF Value, bs_get_bit, SymDiff
<1>8. \A u : Value(u) \subseteq BitIndex
  BY DEF Value
<1>9. Value(all) = SymDiff(Value(v), Value(w))
  BY <1>7, <1>8 DEF SymDiff
<1>10. Value(both) = Value(v) \cap Value(w) /\ Value(some) = Value(v) \cup Value(w)
  BY <1>7, <1>8
<1>11. Value(none) = BitIndex \ Value(v)
  BY <1>7, <1>8
<1> QED
  BY <1>3, <1>5, <1>6, <1>9, <1>10, <1>11 DEF all, both, some, none

\* Words of 0s and of 1s.
LEMMA Constants ==
    LET zeros == [j \in 0 .. len - 1 |-> {}]
        ones == [j \in 0 .. len - 1 |-> 0 .. WordBits - 1]
    IN  /\ zeros \in Buffer /\ Clean(zeros) /\ Value(zeros) = {}
        /\ ones \in Buffer /\ Value(ones) = BitIndex
<1> DEFINE zeros == [j \in 0 .. len - 1 |-> {}]
           ones == [j \in 0 .. len - 1 |-> 0 .. WordBits - 1]
<1>1. len - 1 \in 0 .. len - 1
  BY Lengths
<1>2. zeros \in Buffer /\ ones \in Buffer
  BY DEF Buffer, Word
<1>3. Clean(zeros)
  BY <1>1 DEF Clean
<1>4. Value(zeros) = {}
  BY PlaceOf DEF Value, bs_get_bit
<1>5. Value(ones) = BitIndex
  BY PlaceOf DEF Value, bs_get_bit
<1> QED
  BY <1>2, <1>3, <1>4, <1>5

\* The word bs_set_bit stores.
SetBit(v, bit, value) ==
    [v EXCEPT ![offset(bit)] = IF value = 0 THEN @ \ {idx(bit)} ELSE @ \cup {idx(bit)}]

LEMMA BitIsSet ==
    ASSUME NEW v \in Buffer, NEW bit \in BitIndex, NEW value \in {0, 1}
    PROVE  /\ SetBit(v, bit, value) \in Buffer
           /\ Clean(v) => Clean(SetBit(v, bit, value))
           /\ Value(SetBit(v, bit, value)) = IF value = 0 THEN Value(v) \ {bit} ELSE Value(v) \cup {bit}
<1> DEFINE o == offset(bit)
           i == idx(bit)
           new == IF value = 0 THEN v[o] \ {i} ELSE v[o] \cup {i}
           u == SetBit(v, bit, value)
<1>1. len - 1 \in 0 .. len - 1 /\ bits_remaining \in Nat
  BY Lengths
<1>2. o \in 0 .. len - 1 /\ i \in 0 .. WordBits - 1 /\ (o = len - 1 => i >= bits_remaining)
  BY PlaceOf
<1>3. u = [j \in 0 .. len - 1 |-> IF j = o THEN new ELSE v[j]]
  BY DEF SetBit, Buffer
<1>4. \A j \in 0 .. len - 1 : v[j] \subseteq 0 .. WordBits - 1
  BY DEF Buffer, Word
<1>5. new \in Word
  BY <1>2, <1>4 DEF Word
<1> HIDE DEF u
<1>6. u \in Buffer
  <2> HIDE DEF new
  <2>1. \A j \in 0 .. len - 1 : (IF j = o THEN new ELSE v[j]) \in Word
    BY <1>4, <1>5 DEF Word
  <2> QED
    BY <1>3, <2>1 DEF Buffer
<1>7. Clean(v) => Clean(u)
  <2>1. SUFFICES ASSUME Clean(v) PROVE Clean(u)
    OBVIOUS
  <2>2. CASE o = len - 1
    <3>1. i \notin 0 .. bits_remaining - 1
      BY <1>1, <1>2, <2>2
    <3>2. u[len - 1] = new
      BY <1>1, <1>3, <2>2
    <3> QED
      BY <2>1, <2>2, <3>1, <3>2 DEF Clean
  <2>3. CASE o # len - 1
    BY <1>1, <1>3, <2>1, <2>3 DEF Clean
  <2> QED
    BY <2>2, <2>3
<1>8. ASSUME NEW b \in BitIndex
      PROVE  b \in Value(u) <=> b \in IF value = 0 THEN Value(v) \ {bit} ELSE Value(v) \cup {bit}
  <2>1. offset(b) \in 0 .. len - 1 /\ (offset(b) = o /\ idx(b) = i => b = bit)
    BY PlaceOf, PlacesDiffer
  <2>2. CASE offset(b) = o
    <3>1. u[offset(b)] = new
      BY <1>3, <2>1, <2>2
    <3> QED
      BY <2>1, <2>2, <3>1 DEF Value, bs_get_bit
  <2>3. CASE offset(b) # o
    <3>1. u[offset(b)] = v[offset(b)] /\ b # bit
      BY <1>3, <2>1, <2>3
    <3> QED
      BY <3>1 DEF Value, bs_get_bit
  <2> QED
    BY <2>2, <2>3
<1>9. Value(u) \subseteq BitIndex /\ Value(v) \subseteq BitIndex
  BY DEF Value
<1>10. Value(u) = IF value = 0 THEN Value(v) \ {bit} ELSE Value(v) \cup {bit}
  BY <1>8, <1>9
<1> QED
  BY <1>6, <1>7, <1>10 DEF u

LEMMA BitIsFlipped ==
    ASSUME NEW v \in Buffer, NEW bit \in BitIndex
    PROVE  /\ FlipBit(v, bit) \in Buffer
           /\ Clean(v) => Clean(FlipBit(v, bit))
           /\ SymDiff(Value(FlipBit(v, bit)), Value(v)) = {bit}
<1>1. {bit} \ {bit} = {} /\ bit \in {bit} /\ {bit} \in SUBSET BitIndex
  OBVIOUS
<1>2. FlipAll(v, {bit}) = FlipBit(FlipAll(v, {bit} \ {bit}), bit)
  BY <1>1, FlipOneMore
<1>3. FlipBit(v, bit) = FlipAll(v, {bit})
  BY <1>1, <1>2, FlipNone
<1>4. /\ FlipAll(v, {bit}) \in Buffer
      /\ Value(FlipAll(v, {bit})) = SymDiff(Value(v), {bit})
      /\ Clean(v) => Clean(FlipAll(v, {bit}))
  BY <1>1, FlippedBits
<1>5. SymDiff(SymDiff(Value(v), {bit}), Value(v)) = {bit}
  BY DEF SymDiff
<1> QED
  BY <1>3, <1>4, <1>5

-----------------------------------------------------------------------------
(* Bitstrings: what holds of them.                                          *)

\* A bitstring that no bs_not, bs_average or string has made has no remaining
\* bit set.
CleanOK == \A n \in Names : ~ unclean[n] => Clean(bs[n])

LEMMA AssignKeeps ==
    ASSUME BuffersOK, CleanOK, NEW n \in Names, NEW v \in Buffer, NEW dirty \in BOOLEAN,
           Assign(n, v, dirty), ~ dirty => Clean(v)
    PROVE  (BuffersOK /\ CleanOK)' /\ bs'[n] = v
<1>1. bs' = [bs EXCEPT ![n] = v] /\ unclean' = [unclean EXCEPT ![n] = dirty]
  BY DEF Assign
<1>2. bs \in [Names -> Buffer] /\ unclean \in [Names -> BOOLEAN]
  BY DEF BuffersOK
<1>3. BuffersOK'
  BY <1>1, <1>2 DEF BuffersOK
<1>4. \A k \in Names : bs'[k] = (IF k = n THEN v ELSE bs[k]) /\ unclean'[k] = (IF k = n THEN dirty ELSE unclean[k])
  BY <1>1, <1>2
<1>5. CleanOK'
  BY <1>4 DEF CleanOK, Clean
<1> QED
  BY <1>3, <1>4, <1>5

\* Every function stores a buffer that is clean, unless it is marked.
LEMMA OperationsKeep ==
    ASSUME BuffersOK, CleanOK, [BitstringNext]_bitstrings
    PROVE  (BuffersOK /\ CleanOK)'
<1>1. \A n \in Names : bs[n] \in Buffer /\ unclean[n] \in BOOLEAN /\ (~ unclean[n] => Clean(bs[n]))
  BY DEF BuffersOK, CleanOK
<1>2. CASE UNCHANGED bitstrings
  BY <1>2 DEF bitstrings, BuffersOK, CleanOK, Clean
<1>3. ASSUME NEW n \in Names, bs_init_zeros(n) PROVE (BuffersOK /\ CleanOK)'
  BY <1>3, Constants, AssignKeeps DEF bs_init_zeros
<1>4. ASSUME NEW n \in Names, bs_init_ones(n) PROVE (BuffersOK /\ CleanOK)'
  <2>1. PICK v \in Buffer : v = [j \in 0 .. len - 1 |-> 0 .. WordBits - 1]
    BY Constants
  <2>2. Assign(n, bs_clear_remaining_bits(v), FALSE)
    BY <1>4, <2>1 DEF bs_init_ones
  <2> QED
    BY <2>2, Cleared, AssignKeeps
<1>5. ASSUME NEW n \in Names, bs_init_random(n) PROVE (BuffersOK /\ CleanOK)'
  <2>1. PICK v \in Buffer : Assign(n, bs_clear_remaining_bits(v), FALSE)
    BY <1>5 DEF bs_init_random
  <2> QED
    BY <2>1, Cleared, AssignKeeps
<1>6. ASSUME NEW n \in Names, bs_init_string(n) PROVE (BuffersOK /\ CleanOK)'
  <2>1. PICK v \in Buffer : Assign(n, v, v # bs_clear_remaining_bits(v))
    BY <1>6 DEF bs_init_string
  <2>2. v = bs_clear_remaining_bits(v) => Clean(v)
    BY Cleared
  <2>3. (v # bs_clear_remaining_bits(v)) \in BOOLEAN
    OBVIOUS
  <2> QED
    BY <2>1, <2>2, <2>3, AssignKeeps
<1>7. ASSUME NEW n \in Names, bs_not(n) PROVE (BuffersOK /\ CleanOK)'
  <2>1. Inverted(bs[n]) \in Buffer
    BY <1>1, WordByWord
  <2> QED
    BY <1>7, <2>1, AssignKeeps DEF bs_not, Inverted
<1>8. ASSUME NEW n \in Names, NEW m \in Names, bs_copy(n, m) PROVE (BuffersOK /\ CleanOK)'
  BY <1>1, <1>8, AssignKeeps DEF bs_copy
<1>9. ASSUME NEW n \in Names, NEW m \in Names, bs_xor(n, m) PROVE (BuffersOK /\ CleanOK)'
  <2> DEFINE u == Xored(bs[n], bs[m])
             dirty == unclean[n] \/ unclean[m]
  <2>1. u \in Buffer /\ (Clean(bs[n]) /\ Clean(bs[m]) => Clean(u))
    BY <1>1, WordByWord
  <2>2. Assign(n, u, dirty)
    BY <1>9 DEF bs_xor, Xored
  <2>3. dirty \in BOOLEAN /\ (~ dirty => Clean(bs[n]) /\ Clean(bs[m]))
    BY <1>1
  <2> HIDE DEF u, dirty
  <2> QED
    BY <2>1, <2>2, <2>3, AssignKeeps
<1>10. ASSUME NEW n \in Names, NEW m \in Names, bs_and(n, m) PROVE (BuffersOK /\ CleanOK)'
  <2> DEFINE u == Anded(bs[n], bs[m])
             dirty == unclean[n] /\ unclean[m]
  <2>1. u \in Buffer /\ (Clean(bs[n]) \/ Clean(bs[m]) => Clean(u))
    BY <1>1, WordByWord
  <2>2. Assign(n, u, dirty)
    BY <1>10 DEF bs_and, Anded
  <2>3. dirty \in BOOLEAN /\ (~ dirty => Clean(bs[n]) \/ Clean(bs[m]))
    BY <1>1
  <2> HIDE DEF u, dirty
  <2> QED
    BY <2>1, <2>2, <2>3, AssignKeeps
<1>11. ASSUME NEW n \in Names, NEW m \in Names, bs_or(n, m) PROVE (BuffersOK /\ CleanOK)'
  <2> DEFINE u == Ored(bs[n], bs[m])
             dirty == unclean[n] \/ unclean[m]
  <2>1. u \in Buffer /\ (Clean(bs[n]) /\ Clean(bs[m]) => Clean(u))
    BY <1>1, WordByWord
  <2>2. Assign(n, u, dirty)
    BY <1>11 DEF bs_or, Ored
  <2>3. dirty \in BOOLEAN /\ (~ dirty => Clean(bs[n]) /\ Clean(bs[m]))
    BY <1>1
  <2> HIDE DEF u, dirty
  <2> QED
    BY <2>1, <2>2, <2>3, AssignKeeps
<1>12. ASSUME NEW n \in Names, NEW m \in Names, bs_average(n, m) PROVE (BuffersOK /\ CleanOK)'
  <2>1. PICK v \in Buffer : Assign(n, v, TRUE)
    BY <1>12 DEF bs_average
  <2> QED
    BY <2>1, AssignKeeps
<1>13. ASSUME NEW n \in Names, NEW bit \in BitIndex, bs_flip_bit(n, bit) PROVE (BuffersOK /\ CleanOK)'
  BY <1>1, <1>13, BitIsFlipped, AssignKeeps DEF bs_flip_bit
<1>14. ASSUME NEW n \in Names, NEW bit \in BitIndex, NEW value \in {0, 1}, bs_set_bit(n, bit, value)
       PROVE  (BuffersOK /\ CleanOK)'
  <2>1. Assign(n, SetBit(bs[n], bit, value), unclean[n])
    BY <1>14 DEF bs_set_bit, SetBit
  <2> QED
    BY <1>1, <2>1, BitIsSet, AssignKeeps
<1>15. ASSUME NEW n \in Names, NEW flips \in 0 .. Bits, bs_flip_random_bits(n, flips)
       PROVE  (BuffersOK /\ CleanOK)'
  <2>1. PICK chosen \in SUBSET BitIndex :
            Assign(n, FoldSet(LAMBDA bit, v : FlipBit(v, bit), bs[n], chosen), unclean[n])
    BY <1>15 DEF bs_flip_random_bits, kSubset
  <2>2. FoldSet(LAMBDA bit, v : FlipBit(v, bit), bs[n], chosen) = FlipAll(bs[n], chosen)
    BY <1>1, FlipsAll
  <2>3. Assign(n, FlipAll(bs[n], chosen), unclean[n])
    BY <2>1, <2>2
  <2> QED
    BY <1>1, <2>3, FlippedBits, AssignKeeps
<1> QED
  BY <1>2, <1>3, <1>4, <1>5, <1>6, <1>7, <1>8, <1>9, <1>10, <1>11, <1>12, <1>13, <1>14, <1>15
  DEF BitstringNext

LEMMA AllocIsClean ==
    ASSUME bs_alloc PROVE BuffersOK /\ CleanOK
BY DEF bs_alloc, BuffersOK, CleanOK, Clean

\* No function of bitstring.c sets a bit outside its word, for any number of
\* bits and any widths of a word and of an int.
THEOREM BuffersAreWords == BitstringSpec => []BuffersOK
<1> QED
  BY AllocIsClean, OperationsKeep, PTL DEF BitstringSpec

\* bs_distance, which counts whole words, is the Hamming distance, whichever
\* functions have made the bitstrings, if no remaining bit was let in by
\* bs_not, by bs_average or from a string.
THEOREM DistanceIsExact == BitstringSpec => []DistanceIsHamming
<1>1. BuffersOK /\ CleanOK => DistanceIsHamming
  BY DistanceOfClean DEF BuffersOK, CleanOK, DistanceIsHamming
<1> QED
  BY <1>1, AllocIsClean, OperationsKeep, PTL DEF BitstringSpec

\* Seen through bs_get_bit every function of bitstring.c except bs_average has the
\* effect that its name promises, whether it works on words or on bits.
THEOREM FunctionsAreExact == BitstringSpec => BitsAreExact
<1>1. ASSUME BuffersOK, NEW n \in Names, NEW m \in Names PROVE Exact(n, m)
  <2>1. bs[n] \in Buffer /\ bs[m] \in Buffer
    BY <1>1 DEF BuffersOK
  <2>2. ASSUME NEW v, NEW dirty, Assign(n, v, dirty) PROVE bs'[n] = v
    BY <1>1, <2>2 DEF Assign, BuffersOK
  <2>3. bs_init_zeros(n) => Value(bs'[n]) = {}
    BY <2>2, Constants DEF bs_init_zeros
  <2>4. ASSUME bs_init_ones(n) PROVE Value(bs'[n]) = BitIndex
    <3>1. PICK v \in Buffer : v = [j \in 0 .. len - 1 |-> 0 .. WordBits - 1] /\ Value(v) = BitIndex
      BY Constants
    <3>2. bs'[n] = bs_clear_remaining_bits(v)
      BY <2>2, <2>4, <3>1 DEF bs_init_ones
    <3> QED
      BY <3>1, <3>2, Cleared
  <2>5. bs_copy(n, m) => Value(bs'[n]) = Value(bs[m])
    BY <2>2 DEF bs_copy
  <2>6. bs_not(n) => Value(bs'[n]) = BitIndex \ Value(bs[n])
    <3>1. bs_not(n) => bs'[n] = Inverted(bs[n])
      BY <2>2 DEF bs_not, Inverted
    <3>2. Value(Inverted(bs[n])) = BitIndex \ Value(bs[n])
      BY <2>1, WordByWord
    <3> QED
      BY <3>1, <3>2
  <2>7. bs_xor(n, m) => Value(bs'[n]) = SymDiff(Value(bs[n]), Value(bs[m]))
    <3>1. bs_xor(n, m) => bs'[n] = Xored(bs[n], bs[m])
      BY <2>2 DEF bs_xor, Xored
    <3>2. Value(Xored(bs[n], bs[m])) = SymDiff(Value(bs[n]), Value(bs[m]))
      BY <2>1, WordByWord
    <3> QED
      BY <3>1, <3>2
  <2>8. bs_and(n, m) => Value(bs'[n]) = Value(bs[n]) \cap Value(bs[m])
    <3>1. bs_and(n, m) => bs'[n] = Anded(bs[n], bs[m])
      BY <2>2 DEF bs_and, Anded
    <3>2. Value(Anded(bs[n], bs[m])) = Value(bs[n]) \cap Value(bs[m])
      BY <2>1, WordByWord
    <3> QED
      BY <3>1, <3>2
  <2>9. bs_or(n, m) => Value(bs'[n]) = Value(bs[n]) \cup Value(bs[m])
    <3>1. bs_or(n, m) => bs'[n] = Ored(bs[n], bs[m])
      BY <2>2 DEF bs_or, Ored
    <3>2. Value(Ored(bs[n], bs[m])) = Value(bs[n]) \cup Value(bs[m])
      BY <2>1, WordByWord
    <3> QED
      BY <3>1, <3>2
  <2>10. ASSUME bs_average(n, m), NEW bit \in BitIndex, bs[n][offset(bit)] = bs[m][offset(bit)]
         PROVE  bit \in Value(bs'[n]) <=> bit \in Value(bs[n])
    <3>1. PICK v \in Buffer : /\ \A j \in 0 .. len - 1 : v[j] \in AverageWord(bs[n][j], bs[m][j])
                              /\ Assign(n, v, TRUE)
      BY <2>10 DEF bs_average
    <3>2. offset(bit) \in 0 .. len - 1
      BY PlaceOf
    <3>3. SymDiff(bs[n][offset(bit)], bs[m][offset(bit)]) = {}
      BY <2>10 DEF SymDiff
    <3>4. AverageWord(bs[n][offset(bit)], bs[m][offset(bit)]) = {bs[n][offset(bit)]}
      BY <3>3 DEF AverageWord
    <3>5. v[offset(bit)] = bs[n][offset(bit)]
      BY <3>1, <3>2, <3>4
    <3>6. bs'[n] = v
      BY <2>2, <3>1
    <3> QED
      BY <3>5, <3>6 DEF Value, bs_get_bit
  <2>11. ASSUME NEW bit \in BitIndex, bs_flip_bit(n, bit)
         PROVE  SymDiff(Value(bs'[n]), Value(bs[n])) = {bit}
    BY <2>1, <2>2, <2>11, BitIsFlipped DEF bs_flip_bit
  <2>12. ASSUME NEW bit \in BitIndex, NEW value \in {0, 1}, bs_set_bit(n, bit, value)
         PROVE  Value(bs'[n]) = IF value = 0 THEN Value(bs[n]) \ {bit} ELSE Value(bs[n]) \cup {bit}
    <3>1. Assign(n, SetBit(bs[n], bit, value), unclean[n])
      BY <2>12 DEF bs_set_bit, SetBit
    <3>2. bs'[n] = SetBit(bs[n], bit, value)
      BY <2>2, <3>1
    <3>3. Value(SetBit(bs[n], bit, value)) = IF value = 0 THEN Value(bs[n]) \ {bit} ELSE Value(bs[n]) \cup {bit}
      BY <2>1, BitIsSet
    <3> QED
      BY <3>2, <3>3
  <2>13. ASSUME NEW flips \in 0 .. Bits, bs_flip_random_bits(n, flips)
         PROVE  Hamming(bs'[n], bs[n]) = flips
    <3>1. PICK chosen \in SUBSET BitIndex :
              /\ Cardinality(chosen) = flips
              /\ Assign(n, FoldSet(LAMBDA bit, v : FlipBit(v, bit), bs[n], chosen), unclean[n])
      BY <2>13 DEF bs_flip_random_bits, kSubset
    <3>2. FoldSet(LAMBDA bit, v : FlipBit(v, bit), bs[n], chosen) = FlipAll(bs[n], chosen)
      BY <2>1, FlipsAll
    <3>3. bs'[n] = FlipAll(bs[n], chosen)
      BY <2>2, <3>1, <3>2
    <3>4. Value(bs'[n]) = SymDiff(Value(bs[n]), chosen)
      BY <2>1, <3>3, FlippedBits
    <3>5. SymDiff(SymDiff(Value(bs[n]), chosen), Value(bs[n])) = chosen
      BY DEF SymDiff
    <3> QED
      BY <3>1, <3>4, <3>5 DEF Hamming
  <2>14. ASSUME NEW bit \in BitIndex
         PROVE  /\ bs_set_bit(n, bit, 0) => Value(bs'[n]) = Value(bs[n]) \ {bit}
                /\ bs_set_bit(n, bit, 1) => Value(bs'[n]) = Value(bs[n]) \cup {bit}
    BY <2>12
  <2> QED
    BY <2>3, <2>4, <2>5, <2>6, <2>7, <2>8, <2>9, <2>10, <2>11, <2>13, <2>14 DEF Exact
<1>2. BuffersOK => \A n, m \in Names : Exact(n, m)
  BY <1>1
<1> QED
  BY <1>2, BuffersAreWords, PTL DEF BitstringSpec, BitsAreExact

\* The kernels and bs_distance find the same locations: if popcount is what
\* the words of addresses and target differ in, the locations selected on the
\* device are those within the radius of the target.
THEOREM DeviceSelectsWithinRadius ==
    ASSUME \A l \in Launches : WithinLimits(l) /\ SumsAll(l),
           NEW addresses \in [Locations -> Buffer], \A x \in Locations : Clean(addresses[x]),
           NEW target \in Buffer, Clean(target)
    PROVE  Spec => [](mpc = "returned" /\ popcount = [x \in Locations |->
                          [j \in 0 .. len - 1 |-> Cardinality(SymDiff(addresses[x][j], target[j]))]]
                      => ToSet(selected) = {x \in Locations : Hamming(addresses[x], target) <= Radius})
<1> DEFINE rows == [x \in Locations |->
                       [j \in 0 .. len - 1 |-> Cardinality(SymDiff(addresses[x][j], target[j]))]]
           within == {x \in Locations : Hamming(addresses[x], target) <= Radius}
<1>1. ASSUME NEW x \in Locations PROVE SumFunction(rows[x]) = Hamming(addresses[x], target)
  <2>1. addresses[x] \in Buffer /\ Clean(addresses[x])
    OBVIOUS
  <2>2. bs_distance(addresses[x], target) = Hamming(addresses[x], target)
    BY <2>1, DistanceOfClean
  <2> QED
    BY <2>2 DEF bs_distance
<1> HIDE DEF rows
<1>2. ReturnsNear => (mpc = "returned" /\ popcount = rows => ToSet(selected) = within)
  <2> SUFFICES ASSUME ReturnsNear, mpc = "returned", popcount = rows PROVE ToSet(selected) = within
    OBVIOUS
  <2>1. ToSet(selected) = {x \in Locations : SumFunction(popcount[x]) <= Radius}
    BY DEF ReturnsNear, Near
  <2> QED
    BY <1>1, <2>1
<1> USE DEF rows
<1> QED
  BY <1>2, GroupScanReturnsNear, PTL
==============================================================================
