--------------------------- MODULE SDMemory_proofs ---------------------------
(***************************************************************************)
(* The operations of operations.c, for any number of bits and of hard      *)
(* locations, any calls and any number of them: they implement the memory  *)
(* of module Memory, and a memory that holds one datum recalls it.         *)
(***************************************************************************)
EXTENDS SDMemory, FiniteSetTheorems, TLAPS

-----------------------------------------------------------------------------
(* Sums.  SumFunctionOnSet takes the elements of a set in an order nobody  *)
(* knows.  The sum is the number of the cells of a drawing with a column   *)
(* for each element, those of the positive values less those of the        *)
(* negative ones, in which the order plays no part.                        *)

Cells(f, S) == UNION {{l} \X (1 .. f[l]) : l \in S}

Opposite(f, S) == [l \in S |-> -f[l]]

CellSum(f, S) == Cardinality(Cells(f, S)) - Cardinality(Cells(Opposite(f, S), S))

\* Cells of a smaller set are those of the larger one less a column.
LEMMA CellsStep ==
    ASSUME NEW S, IsFiniteSet(S), NEW f, \A l \in S : f[l] \in Int, NEW x \in S
    PROVE  /\ IsFiniteSet(Cells(f, S)) /\ IsFiniteSet(Cells(f, S \ {x}))
           /\ Cardinality(Cells(f, S)) =
                  Cardinality(Cells(f, S \ {x})) + (IF f[x] > 0 THEN f[x] ELSE 0)
<1> DEFINE col(l) == {l} \X (1 .. f[l])
           cols == {col(l) : l \in S}
           g == [l \in S |-> col(l)]
           R == S \ {x}
<1>1. \A l \in S : IsFiniteSet(col(l)) /\ Cardinality(col(l)) = IF f[l] > 0 THEN f[l] ELSE 0
  <2> SUFFICES ASSUME NEW l \in S
               PROVE  IsFiniteSet(col(l)) /\ Cardinality(col(l)) = IF f[l] > 0 THEN f[l] ELSE 0
    OBVIOUS
  <2>1. /\ IsFiniteSet(1 .. f[l])
        /\ Cardinality(1 .. f[l]) = IF 1 > f[l] THEN 0 ELSE f[l] - 1 + 1
    BY FS_Interval
  <2>2. IsFiniteSet({l}) /\ Cardinality({l}) = 1
    BY FS_Singleton
  <2>3. IsFiniteSet(col(l)) /\ Cardinality(col(l)) = 1 * Cardinality(1 .. f[l])
    BY <2>1, <2>2, FS_Product
  <2> QED
    BY <2>1, <2>3
<1>2. IsFiniteSet(cols)
  <2>1. g \in Surjection(S, cols)
    BY DEF Surjection
  <2> QED
    BY <2>1, FS_Surjection
<1>3. Cells(f, S) = UNION cols
  BY DEF Cells
<1>4. IsFiniteSet(Cells(f, S))
  <2>1. \A T \in cols : IsFiniteSet(T)
    BY <1>1
  <2> QED
    BY <1>2, <1>3, <2>1, FS_UNION
<1>5. \A p \in Cells(f, R) : \E l \in R : p \in col(l)
  BY DEF Cells
<1>6. \A l \in R : \A p \in col(l) : p \in Cells(f, R)
  BY DEF Cells
<1>7. \A p \in Cells(f, S) : \E l \in S : p \in col(l)
  BY DEF Cells
<1>8. \A l \in S : \A p \in col(l) : p \in Cells(f, S)
  BY DEF Cells
<1>9. \A l, m \in S : \A p \in col(l) : p \in col(m) => l = m
  OBVIOUS
<1> HIDE DEF col, cols, g, R
<1>10. S = R \cup {x} /\ x \notin R
  BY DEF R
<1>11. Cells(f, S) = Cells(f, R) \cup col(x)
  BY <1>5, <1>6, <1>7, <1>8, <1>10
<1>12. Cells(f, R) \cap col(x) = {}
  BY <1>5, <1>9, <1>10
<1>13. IsFiniteSet(Cells(f, R))
  BY <1>4, <1>11, FS_Subset
<1>14. Cardinality(Cells(f, S)) = Cardinality(Cells(f, R)) + Cardinality(col(x)) - Cardinality({})
  BY <1>1, <1>11, <1>12, <1>13, FS_Union
<1>15. Cardinality(Cells(f, R)) \in Nat
  BY <1>13, FS_CardinalityType
<1> QED
  BY <1>1, <1>4, <1>13, <1>14, <1>15, FS_EmptySet DEF R

LEMMA CellSumStep ==
    ASSUME NEW S, IsFiniteSet(S), NEW f, \A l \in S : f[l] \in Int
    PROVE  /\ CellSum(f, {}) = 0
           /\ CellSum(f, S) \in Int
           /\ \A x \in S : CellSum(f, S) = f[x] + CellSum(f, S \ {x})
<1>1. Cells(f, {}) = {} /\ Cells(Opposite(f, {}), {}) = {}
  BY DEF Cells
<1>2. CellSum(f, {}) = 0
  BY <1>1, FS_EmptySet DEF CellSum
<1>3. ASSUME NEW x \in S
      PROVE  CellSum(f, S) = f[x] + CellSum(f, S \ {x}) /\ CellSum(f, S) \in Int
  <2> DEFINE h == Opposite(f, S)
             R == S \ {x}
  <2>1. \A l \in S : h[l] \in Int /\ h[l] = -f[l]
    BY DEF Opposite
  <2>2. Cells(Opposite(f, R), R) = Cells(h, R)
    <3>1. \A l \in R : {l} \X (1 .. Opposite(f, R)[l]) = {l} \X (1 .. h[l])
      BY DEF Opposite
    <3>2. {{l} \X (1 .. Opposite(f, R)[l]) : l \in R} = {{l} \X (1 .. h[l]) : l \in R}
      BY <3>1
    <3> QED
      BY <3>2 DEF Cells
  <2> HIDE DEF h, R
  <2>3. /\ IsFiniteSet(Cells(f, S)) /\ IsFiniteSet(Cells(f, R))
        /\ Cardinality(Cells(f, S)) = Cardinality(Cells(f, R)) + (IF f[x] > 0 THEN f[x] ELSE 0)
    BY CellsStep DEF R
  <2>4. /\ IsFiniteSet(Cells(h, S)) /\ IsFiniteSet(Cells(h, R))
        /\ Cardinality(Cells(h, S)) = Cardinality(Cells(h, R)) + (IF h[x] > 0 THEN h[x] ELSE 0)
    BY <2>1, CellsStep DEF R
  <2>5. /\ Cardinality(Cells(f, S)) \in Nat /\ Cardinality(Cells(f, R)) \in Nat
        /\ Cardinality(Cells(h, S)) \in Nat /\ Cardinality(Cells(h, R)) \in Nat
    BY <2>3, <2>4, FS_CardinalityType
  <2>6. CellSum(f, S) = Cardinality(Cells(f, S)) - Cardinality(Cells(h, S))
    BY DEF CellSum, h
  <2>7. CellSum(f, R) = Cardinality(Cells(f, R)) - Cardinality(Cells(h, R))
    BY <2>2 DEF CellSum
  <2> QED
    BY <2>1, <2>3, <2>4, <2>5, <2>6, <2>7 DEF R
<1>4. CellSum(f, S) \in Int
  <2>1. CASE S = {}
    BY <1>2, <2>1
  <2>2. CASE S # {}
    BY <1>3, <2>2
  <2> QED
    BY <2>1, <2>2
<1> QED
  BY <1>2, <1>3, <1>4

\* Whatever element it takes next, the recursion finds the number of the cells:
\* no set can be the smallest for which it does not.
LEMMA SumIsCellSum ==
    ASSUME NEW S, IsFiniteSet(S), NEW f, \A l \in S : f[l] \in Int
    PROVE  SumFunctionOnSet(f, S) = CellSum(f, S)
<1> DEFINE Pick(s) == CHOOSE x \in s : TRUE
           Sums(fold) == fold = [s \in SUBSET S |->
                             IF s = {} THEN 0 ELSE f[Pick(s)] + fold[s \ {Pick(s)}]]
           cells == [s \in SUBSET S |-> CellSum(f, s)]
<1>1. SumFunctionOnSet(f, S) = (CHOOSE fold : Sums(fold))[S]
  BY DEF SumFunctionOnSet, FoldFunctionOnSet, MapThenFoldSet
<1>2. \A s \in SUBSET S : s # {} => Pick(s) \in s
  OBVIOUS
<1>3. \A s \in SUBSET S : IsFiniteSet(s) /\ Cardinality(s) \in Nat
  BY FS_Subset, FS_CardinalityType
<1>4. ASSUME NEW s \in SUBSET S
      PROVE  /\ CellSum(f, {}) = 0
             /\ s # {} => CellSum(f, s) = f[Pick(s)] + CellSum(f, s \ {Pick(s)})
  <2>1. IsFiniteSet(s) /\ \A l \in s : f[l] \in Int
    BY <1>3
  <2>2. CellSum(f, {}) = 0 /\ \A x \in s : CellSum(f, s) = f[x] + CellSum(f, s \ {x})
    BY <2>1, CellSumStep
  <2>3. s # {} => Pick(s) \in s
    BY <1>2
  <2> HIDE DEF Pick
  <2> QED
    BY <2>2, <2>3
<1> HIDE DEF Pick
<1>5. Sums(cells)
  <2>1. \A s \in SUBSET S : s \ {Pick(s)} \in SUBSET S
    OBVIOUS
  <2>2. \A s \in SUBSET S :
            CellSum(f, s) = IF s = {} THEN 0 ELSE f[Pick(s)] + cells[s \ {Pick(s)}]
    BY <1>4, <2>1
  <2> QED
    BY <2>2
<1> HIDE DEF cells
<1>6. ASSUME NEW fold, Sums(fold), NEW s \in SUBSET S
      PROVE  fold[s] = CellSum(f, s)
  <2> DEFINE Wrong == {Cardinality(t) : t \in {u \in SUBSET S : fold[u] # CellSum(f, u)}}
  <2>1. SUFFICES ASSUME Wrong # {} PROVE FALSE
    OBVIOUS
  <2>2. Wrong \subseteq Nat
    BY <1>3
  <2>3. PICK n \in Wrong : \A m \in Wrong : ~ (<<m, n>> \in OpToRel(<, Nat))
    <3> HIDE DEF Wrong
    <3> QED
      BY <2>1, <2>2, WFMin, NatLessThanWellFounded, Zenon
  <2>4. PICK t \in SUBSET S : Cardinality(t) = n /\ fold[t] # CellSum(f, t)
    OBVIOUS
  <2>5. fold[t] = IF t = {} THEN 0 ELSE f[Pick(t)] + fold[t \ {Pick(t)}]
    BY <1>6
  <2>6. t # {} /\ Pick(t) \in t
    BY <1>2, <1>4, <2>4, <2>5
  <2> DEFINE r == t \ {Pick(t)}
  <2>7. r \in SUBSET S /\ Cardinality(r) = n - 1 /\ n \in Nat /\ n - 1 \in Nat
    <3>1. IsFiniteSet(t) /\ Cardinality(t) \in Nat
      BY <1>3
    <3>2. Cardinality(r) = Cardinality(t) - 1
      BY <2>6, <3>1, FS_RemoveElement
    <3> QED
      BY <1>3, <2>4, <3>1, <3>2
  <2>8. fold[r] = CellSum(f, r)
    <3>1. CASE n - 1 \in Wrong
      <4>1. <<n - 1, n>> \in OpToRel(<, Nat)
        BY <2>7 DEF OpToRel
      <4> HIDE DEF Wrong
      <4> QED
        BY <2>3, <3>1, <4>1
    <3>2. CASE n - 1 \notin Wrong
      BY <2>7, <3>2
    <3> QED
      BY <3>1, <3>2
  <2> QED
    BY <1>4, <2>4, <2>5, <2>6, <2>8
<1>7. Sums(CHOOSE fold : Sums(fold))
  <2> HIDE DEF Sums
  <2> QED
    BY <1>5
<1> HIDE DEF Sums
<1> QED
  BY <1>1, <1>6, <1>7

\* The sum of what a function has for the elements of a set, in any order.
LEMMA SumStep ==
    ASSUME NEW S, IsFiniteSet(S), NEW f, \A l \in S : f[l] \in Int
    PROVE  /\ SumFunctionOnSet(f, {}) = 0
           /\ SumFunctionOnSet(f, S) \in Int
           /\ \A x \in S : SumFunctionOnSet(f, S) = f[x] + SumFunctionOnSet(f, S \ {x})
<1>1. \A x \in S : IsFiniteSet(S \ {x})
  BY FS_RemoveElement
<1>2. SumFunctionOnSet(f, {}) = CellSum(f, {})
  BY SumIsCellSum, FS_EmptySet
<1>3. SumFunctionOnSet(f, S) = CellSum(f, S)
  BY SumIsCellSum
<1>4. \A x \in S : SumFunctionOnSet(f, S \ {x}) = CellSum(f, S \ {x})
  BY <1>1, SumIsCellSum
<1> QED
  BY <1>2, <1>3, <1>4, CellSumStep

-----------------------------------------------------------------------------
(* Counters and calls.                                                      *)

LEMMA Ranges ==
    /\ Bits \in Nat /\ CounterMax \in Nat /\ Sample \in Nat /\ Remaining \in Nat
    /\ CounterMin \in Int /\ CounterMin < 0 /\ 0 \in CounterValues
    /\ \A v \in CounterValues : v \in Int
    /\ BitIndex \subseteq 0 .. Bits + Remaining - 1
    /\ IsFiniteSet(Locations) /\ Cardinality(Locations) = Sample
<1>1. Bits \in Nat /\ CounterMax \in Nat /\ Sample \in Nat /\ Remaining \in Nat
  BY BitsAssumption, CounterMaxAssumption, SampleAssumption, RemainingAssumption
<1>2. BitIndex \subseteq 0 .. Bits + Remaining - 1
  BY <1>1 DEF BitIndex
<1>3. IsFiniteSet(0 .. Sample - 1) /\ Cardinality(0 .. Sample - 1) = Sample
  BY <1>1, FS_Interval
<1> QED
  BY <1>1, <1>2, <1>3 DEF CounterMin, CounterValues, Locations

\* What is stored is in the range of a counter_t, and is the value if that is.
LEMMA WrapRange ==
    ASSUME NEW x \in Int
    PROVE  Wrap(x) \in CounterValues /\ (x \in CounterValues => Wrap(x) = x)
<1> DEFINE M == 2 * (CounterMax + 1)
           y == x - CounterMin
<1>1. M \in Nat \ {0} /\ y \in Int /\ CounterMax \in Nat /\ CounterMin = -CounterMax - 1
  BY Ranges DEF CounterMin
<1>2. Wrap(x) = (y % M) + CounterMin
  BY DEF Wrap
<1> HIDE DEF y
<1>3. y % M \in 0 .. M - 1
  BY <1>1
<1>4. y \in 0 .. M - 1 => y % M = y
  BY <1>1
<1> QED
  BY <1>1, <1>2, <1>3, <1>4 DEF CounterValues, y

LEMMA RowTypes ==
    ASSUME NEW row \in Rows, NEW bs
    PROVE  /\ ZeroRow \in Rows
           /\ \A weight \in Int : AddWeighted(row, bs, weight) \in Rows
           /\ SubBitstring(row, bs) \in Rows
           /\ \A other \in Rows : AddCounter(row, other) \in Rows
<1>1. \A b \in BitIndex : row[b] \in CounterValues /\ row[b] \in Int
  BY Ranges DEF Rows
<1>2. ZeroRow \in Rows
  BY Ranges DEF ZeroRow, Rows
<1>3. ASSUME NEW weight \in Int PROVE AddWeighted(row, bs, weight) \in Rows
  <2>1. \A b \in BitIndex : row[b] + (IF b \in bs THEN weight ELSE -weight) \in Int
    BY <1>1
  <2> QED
    BY <2>1, WrapRange DEF AddWeighted, Rows
<1>4. SubBitstring(row, bs) \in Rows
  BY <1>1, Ranges DEF SubBitstring, Rows, CounterValues
<1>5. ASSUME NEW other \in Rows PROVE AddCounter(row, other) \in Rows
  <2>1. \A b \in BitIndex : row[b] + other[b] \in Int
    BY <1>1, Ranges DEF Rows
  <2> QED
    BY <2>1, WrapRange DEF AddCounter, Rows
<1> QED
  BY <1>2, <1>3, <1>4, <1>5

Scans == {"write", "write_sub", "read", "generic_read", "read_counter", "iter_read"}

LEMMA CallTypes ==
    ASSUME NEW c \in Calls
    PROVE  /\ c.op \in Scans \cup {"reset", "init"} /\ c # NoCall
           /\ c.op \in Scans => c.addr \in Buffers /\ c.radius \in Nat
           /\ c.op \in WriteOps => c.datum \in Bitstrings
           /\ c.op = "write" => c.addr \in Bitstrings /\ c.weight \in [0 .. Bits -> Int]
           /\ c.op = "generic_read" => \A v \in CounterValues : SignedPower(v, c.z) \in Int
           /\ c.op = "read_counter" => c.row \in Rows
           /\ c.op = "iter_read" => c.max_iter \in Nat
           /\ c.op = "reset" => c.index \in Locations
           /\ c.op = "init" => c.scanner \in {"linear", "thread", "opencl"} /\ c.fits \in BOOLEAN
<1>1. Bitstrings \subseteq Buffers
  BY Ranges DEF Bitstrings, Buffers
<1>2. CASE c \in [op : {"write"}, addr : Bitstrings, radius : Nat, datum : Bitstrings,
                  weight : [0 .. Bits -> Int]]
  BY <1>1, <1>2 DEF Scans, WriteOps, NoCall
<1>3. CASE c \in [op : {"write_sub"}, addr : Buffers, radius : Nat, datum : Bitstrings]
  BY <1>3 DEF Scans, WriteOps, NoCall
<1>4. CASE c \in [op : {"read"}, addr : Buffers, radius : Nat]
  BY <1>4 DEF Scans, WriteOps, NoCall
<1>5. CASE c \in [op : {"generic_read"}, addr : Buffers, radius : Nat, z : Nat]
  BY <1>5, CallsAssumption DEF Scans, WriteOps, NoCall
<1>6. CASE c \in [op : {"read_counter"}, addr : Buffers, radius : Nat, row : Rows]
  BY <1>6 DEF Scans, WriteOps, NoCall
<1>7. CASE c \in [op : {"iter_read"}, addr : Buffers, radius : Nat, max_iter : Nat]
  BY <1>7 DEF Scans, WriteOps, NoCall
<1>8. CASE c \in [op : {"reset"}, index : Locations]
  BY <1>8 DEF Scans, WriteOps, NoCall
<1>9. CASE c \in [op : {"init"}, scanner : {"linear", "thread", "opencl"}, fits : BOOLEAN]
  BY <1>9 DEF Scans, WriteOps, NoCall
<1> QED
  BY <1>2, <1>3, <1>4, <1>5, <1>6, <1>7, <1>8, <1>9, CallsAssumption

\* The distance of two bitstrings is at most the number of their bits, and 0 only
\* of equal ones.
LEMMA DistanceRange ==
    ASSUME NEW x \in Buffers, NEW y \in Buffers
    PROVE  /\ bs_distance(x, y) \in Nat /\ (bs_distance(x, y) = 0 <=> x = y)
           /\ x \in Bitstrings /\ y \in Bitstrings => bs_distance(x, y) \in 0 .. Bits
<1>1. IsFiniteSet(0 .. Bits + Remaining - 1) /\ IsFiniteSet(0 .. Bits - 1)
      /\ Cardinality(0 .. Bits - 1) = Bits
  <2>1. Bits + Remaining - 1 \in Int /\ Bits - 1 \in Int /\ Bits \in Nat
    BY Ranges
  <2>2. IsFiniteSet(0 .. Bits + Remaining - 1)
    BY <2>1, FS_Interval
  <2>3. /\ IsFiniteSet(0 .. Bits - 1)
        /\ Cardinality(0 .. Bits - 1) = IF 0 > Bits - 1 THEN 0 ELSE Bits - 1 - 0 + 1
    BY <2>1, FS_Interval
  <2> QED
    BY <2>1, <2>2, <2>3
<1>2. SymDiff(x, y) \in SUBSET (0 .. Bits + Remaining - 1)
  BY DEF SymDiff, Buffers
<1>3. IsFiniteSet(SymDiff(x, y)) /\ Cardinality(SymDiff(x, y)) \in Nat
  BY <1>1, <1>2, FS_Subset, FS_CardinalityType
<1>4. Cardinality(SymDiff(x, y)) = 0 <=> SymDiff(x, y) = {}
  BY <1>3, FS_EmptySet
<1>5. SymDiff(x, y) = {} <=> x = y
  BY DEF SymDiff
<1>6. ASSUME x \in Bitstrings, y \in Bitstrings
      PROVE  Cardinality(SymDiff(x, y)) <= Bits
  <2>1. SymDiff(x, y) \in SUBSET (0 .. Bits - 1)
    BY <1>6 DEF SymDiff, Bitstrings, BitIndex
  <2> QED
    BY <1>1, <2>1, FS_Subset
<1> QED
  BY <1>3, <1>4, <1>5, <1>6, Ranges DEF bs_distance

LEMMA ScanTypes ==
    ASSUME NEW bs, NEW radius
    PROVE  /\ sdm_scan(bs, radius) \in SUBSET Locations
           /\ \A S \in SUBSET Locations : IsFiniteSet(S) /\ Cardinality(S) \in 0 .. Sample
<1>1. sdm_scan(bs, radius) \in SUBSET Locations
  BY DEF sdm_scan, as_scan
<1>2. ASSUME NEW S \in SUBSET Locations PROVE IsFiniteSet(S) /\ Cardinality(S) \in 0 .. Sample
  <2>1. IsFiniteSet(S) /\ Cardinality(S) <= Sample
    BY Ranges, FS_Subset
  <2> QED
    BY <2>1, Ranges, FS_CardinalityType
<1> QED
  BY <1>1, <1>2

-----------------------------------------------------------------------------
(* The invariant.                                                           *)

\* Where an operation is, and what it has in hand there.
PhaseInv ==
    /\ pc = "idle" => call = NoCall /\ answer = NoAnswer
    /\ pc # "idle" => call \in Calls
    /\ pc \in {"entered", "loop"} /\ call.op \in Scans \ {"iter_read"} => bs1 = call.addr
    /\ pc = "entered" /\ call.op = "read_counter" => acc = call.row
    /\ pc = "loop" =>
           /\ scanner_type # "none" /\ call.op \in Scans
           /\ call.op = "iter_read" => iter < call.max_iter
           /\ todo \subseteq sdm_scan(bs1, call.radius)
           /\ cnt = Cardinality(sdm_scan(bs1, call.radius))

\* A write in progress is accounted for.
WriteInv ==
    pc \in {"entered", "loop"} /\ call.op = "write" =>
        \/ written = Bitstrings
        \/ call.datum \in written /\ \A k \in 0 .. Bits : call.weight[k] >= 0

\* The sign of v is that of bit b of d, or v is 0.
Fits(v, b, d) == (v > 0 => b \in d) /\ (v < 0 => b \notin d)

\* While nothing but d was written, no counter says anything else, and a read that
\* has met a counter that is not 0 keeps what it said.
SoleInv ==
    exact => \A d \in Bitstrings : written \subseteq {d} =>
        /\ \A l \in Locations : \A b \in BitIndex : Fits(counter[l][b], b, d)
        /\ pc = "loop" /\ call.op = "read" => \A b \in BitIndex :
               /\ Fits(acc[b], b, d)
               /\ \A l \in sdm_scan(bs1, call.radius) \ todo : counter[l][b] # 0 => acc[b] # 0

IInv ==
    /\ TypeOK
    /\ PhaseInv
    /\ WriteInv
    /\ SoleInv
    /\ RecallsSoleDatum

LEMMA InitInv == Init => IInv
<1> SUFFICES ASSUME Init PROVE IInv
  OBVIOUS
<1>1. /\ pc = "idle" /\ call = NoCall /\ answer = NoAnswer /\ exact = TRUE /\ written = {}
      /\ counter = [l \in Locations |-> ZeroRow] /\ acc = ZeroRow
      /\ address \in [Locations -> Bitstrings] /\ scanner_type \in Scanners
      /\ bitstrings_buf = Upload(scanner_type, address)
      /\ todo = {} /\ cnt = 0 /\ bs1 = {} /\ rest2 = {} /\ iter = 0 /\ made = 0
  BY DEF Init
<1>2. TypeOK
  <2>1. ZeroRow \in Rows
    BY Ranges DEF ZeroRow, Rows
  <2>2. scanner_type = "opencl" => bitstrings_buf \in [Locations -> Bitstrings]
    BY <1>1 DEF Upload
  <2>3. NoCall.op = "none" /\ NoAnswer.ret = 0
    BY DEF NoCall, NoAnswer
  <2>4. 0 \in 0 .. Sample /\ 0 \in 0 .. MaxCalls
    BY Ranges, MaxCallsAssumption
  <2> QED
    BY <1>1, <2>1, <2>2, <2>3, <2>4, ScannersAssumption DEF TypeOK, Buffers
<1>3. \A l \in Locations : \A b \in BitIndex : counter[l][b] = 0
  BY <1>1 DEF ZeroRow
<1> QED
  BY <1>1, <1>2, <1>3 DEF IInv, PhaseInv, WriteInv, SoleInv, RecallsSoleDatum, Fits

LEMMA BeginInv == IInv /\ Begin => IInv'
<1> SUFFICES ASSUME IInv, Begin PROVE IInv'
  OBVIOUS
<1>1. /\ pc = "idle" /\ made < MaxCalls /\ made' = made + 1 /\ pc' = "entered" /\ call' \in Calls
      /\ bs1' = IF call'.op \in {"reset", "init"} THEN {} ELSE call'.addr
      /\ acc' = IF call'.op = "read_counter" THEN call'.row ELSE ZeroRow
      /\ rest2' = {} /\ iter' = 0 /\ written' = WrittenAfter(call')
      /\ UNCHANGED <<address, counter, scanner_type, bitstrings_buf, todo, cnt, answer, exact>>
  BY DEF Begin
<1>2. /\ call'.op \in Scans \cup {"reset", "init"} /\ call' # NoCall
      /\ call'.op \in Scans => call'.addr \in Buffers
      /\ call'.op = "write" => call'.datum \in Bitstrings /\ call'.weight \in [0 .. Bits -> Int]
      /\ call'.op = "read_counter" => call'.row \in Rows
      /\ call'.op = "iter_read" => call'.max_iter \in Nat
  BY <1>1, CallTypes DEF WriteOps
<1>3. written \subseteq written' /\ written' \subseteq Bitstrings
  BY <1>1, <1>2 DEF WrittenAfter, IInv, TypeOK
<1>4. TypeOK'
  <2>1. ZeroRow \in Rows /\ ZeroRow \in [BitIndex -> Int]
    BY Ranges DEF ZeroRow, Rows
  <2>2. IF call'.op = "generic_read" THEN acc' \in [BitIndex -> Int] ELSE acc' \in Rows
    BY <1>1, <1>2, <2>1
  <2>3. bs1' \in Buffers /\ rest2' \in Buffers /\ rest2' \cap BitIndex = {}
    BY <1>1, <1>2 DEF Buffers, Scans
  <2>4. iter' \in 0 .. (IF call'.op = "iter_read" THEN call'.max_iter ELSE 0)
    BY <1>1, <1>2
  <2>5. made' \in 0 .. MaxCalls
    BY <1>1, MaxCallsAssumption DEF IInv, TypeOK
  <2> QED
    BY <1>1, <1>3, <2>2, <2>3, <2>4, <2>5 DEF IInv, TypeOK
<1>5. PhaseInv'
  BY <1>1 DEF PhaseInv, Scans
<1>6. WriteInv'
  <2> SUFFICES ASSUME call'.op = "write", \A k \in DOMAIN call'.weight : call'.weight[k] >= 0
               PROVE  call'.datum \in written' /\ \A k \in 0 .. Bits : call'.weight[k] >= 0
    BY <1>1 DEF WriteInv, WrittenAfter
  <2> QED
    BY <1>1, <1>2 DEF WrittenAfter
<1>7. SoleInv'
  BY <1>1, <1>3 DEF IInv, SoleInv
<1>8. RecallsSoleDatum'
  BY <1>1 DEF RecallsSoleDatum
<1> QED
  BY <1>4, <1>5, <1>6, <1>7, <1>8 DEF IInv

\* The steps that return without a scan.
LEMMA InitScannerInv == IInv /\ InitScanner => IInv'
<1> SUFFICES ASSUME IInv, InitScanner PROVE IInv'
  OBVIOUS
<1>1. /\ pc = "entered" /\ call.op = "init" /\ pc' = "returned"
      /\ IF call.fits
            THEN /\ scanner_type' = call.scanner
                 /\ bitstrings_buf' = Upload(call.scanner, address)
                 /\ answer' = [ret |-> 0]
            ELSE /\ answer' \in {[ret |-> -1], [ret |-> -2]}
                 /\ UNCHANGED <<scanner_type, bitstrings_buf>>
      /\ UNCHANGED <<address, counter, call, todo, cnt, acc, bs1, rest2, iter, made, written, exact>>
  BY DEF InitScanner
<1>2. call \in Calls /\ call.scanner \in {"linear", "thread", "opencl"}
  BY <1>1, CallTypes DEF IInv, PhaseInv
<1>3. TypeOK'
  <2>1. scanner_type' \in {"none", "linear", "thread", "opencl"}
    BY <1>1, <1>2 DEF IInv, TypeOK
  <2>2. scanner_type' = "opencl" => bitstrings_buf' \in [Locations -> Bitstrings]
    BY <1>1, <1>2 DEF IInv, TypeOK, Upload
  <2>3. answer'.ret \in {0, -1, -2}
    BY <1>1
  <2>4. answer'.ret \in -2 .. Sample \cup Nat
    BY <2>3, Ranges
  <2> QED
    BY <1>1, <2>1, <2>2, <2>4 DEF IInv, TypeOK
<1>4. PhaseInv' /\ WriteInv' /\ RecallsSoleDatum'
  BY <1>1, <1>2 DEF PhaseInv, WriteInv, RecallsSoleDatum
<1>5. SoleInv'
  BY <1>1 DEF IInv, SoleInv
<1> QED
  BY <1>3, <1>4, <1>5 DEF IInv

LEMMA ResetHardLocationInv == IInv /\ ResetHardLocation => IInv'
<1> SUFFICES ASSUME IInv, ResetHardLocation PROVE IInv'
  OBVIOUS
<1>1. /\ pc = "entered" /\ call.op = "reset" /\ pc' = "returned"
      /\ \E bs \in Bitstrings : address' = [address EXCEPT ![call.index] = bs]
      /\ counter' = [counter EXCEPT ![call.index] = ZeroRow]
      /\ answer' = [ret |-> 0]
      /\ UNCHANGED <<scanner_type, bitstrings_buf, call, todo, cnt, acc, bs1, rest2, iter, made, written, exact>>
  BY DEF ResetHardLocation
<1>2. call \in Calls /\ call.index \in Locations
  BY <1>1, CallTypes DEF IInv, PhaseInv
<1>3. TypeOK'
  <2>1. address' \in [Locations -> Bitstrings]
    BY <1>1, <1>2 DEF IInv, TypeOK
  <2>2. counter' \in [Locations -> Rows]
    <3>1. ZeroRow \in Rows
      BY Ranges DEF ZeroRow, Rows
    <3> QED
      BY <1>1, <1>2, <3>1 DEF IInv, TypeOK
  <2>3. answer'.ret \in -2 .. Sample \cup Nat
    BY <1>1, Ranges
  <2> QED
    BY <1>1, <2>1, <2>2, <2>3 DEF IInv, TypeOK
<1>4. PhaseInv' /\ WriteInv' /\ RecallsSoleDatum'
  BY <1>1, <1>2 DEF PhaseInv, WriteInv, RecallsSoleDatum
<1>5. SoleInv'
  <2>1. \A l \in Locations : counter'[l] = IF l = call.index THEN ZeroRow ELSE counter[l]
    BY <1>1, <1>2 DEF IInv, TypeOK
  <2>2. \A b \in BitIndex : ZeroRow[b] = 0
    BY DEF ZeroRow
  <2> QED
    BY <1>1, <2>1, <2>2 DEF IInv, SoleInv, Fits
<1> QED
  BY <1>3, <1>4, <1>5 DEF IInv

LEMMA IterEndInv == IInv /\ IterEnd => IInv'
<1> SUFFICES ASSUME IInv, IterEnd PROVE IInv'
  OBVIOUS
<1>1. /\ pc = "entered" /\ call.op = "iter_read" /\ pc' = "returned"
      /\ answer' = [ret |-> iter, output |-> bs1]
      /\ UNCHANGED <<address, counter, scanner_type, bitstrings_buf, call, todo, cnt, acc, bs1, rest2, iter, made, written, exact>>
  BY DEF IterEnd, IterationsOver
<1>2. call \in Calls /\ iter \in Nat
  BY <1>1, CallTypes DEF IInv, PhaseInv, TypeOK
<1>3. TypeOK'
  <2>1. answer'.ret \in -2 .. Sample \cup Nat
    BY <1>1, <1>2
  <2> QED
    BY <1>1, <2>1 DEF IInv, TypeOK
<1>4. PhaseInv' /\ WriteInv' /\ RecallsSoleDatum'
  BY <1>1, <1>2 DEF PhaseInv, WriteInv, RecallsSoleDatum
<1>5. SoleInv'
  BY <1>1 DEF IInv, SoleInv
<1> QED
  BY <1>3, <1>4, <1>5 DEF IInv

LEMMA ScanFailsInv == IInv /\ ScanFails => IInv'
<1> SUFFICES ASSUME IInv, ScanFails PROVE IInv'
  OBVIOUS
<1>1. /\ pc = "entered" /\ pc' = "returned" /\ answer' = [ret |-> -1]
      /\ UNCHANGED <<address, counter, scanner_type, bitstrings_buf, call, todo, cnt, acc, bs1, rest2, iter, made, written, exact>>
  BY DEF ScanFails, Scanning
<1>2. call \in Calls
  BY <1>1 DEF IInv, PhaseInv
<1>3. answer'.ret = -1 /\ ~(-1 >= 0) /\ -1 \in -2 .. Sample \cup Nat
  BY <1>1, Ranges
<1>4. TypeOK'
  BY <1>1, <1>3 DEF IInv, TypeOK
<1>5. PhaseInv' /\ WriteInv' /\ RecallsSoleDatum'
  BY <1>1, <1>2, <1>3 DEF PhaseInv, WriteInv, RecallsSoleDatum
<1>6. SoleInv'
  BY <1>1 DEF IInv, SoleInv
<1> QED
  BY <1>4, <1>5, <1>6 DEF IInv

LEMMA ScanInv == IInv /\ Scan => IInv'
<1> SUFFICES ASSUME IInv, Scan PROVE IInv'
  OBVIOUS
<1>1. /\ pc = "entered" /\ call.op \notin {"reset", "init"}
      /\ ~(call.op = "iter_read" /\ iter >= call.max_iter)
      /\ scanner_type # "none" /\ pc' = "loop"
      /\ todo' = sdm_scan(bs1, call.radius) /\ cnt' = Cardinality(todo')
      /\ acc' = IF call.op = "read_counter" THEN acc ELSE ZeroRow
      /\ UNCHANGED <<address, counter, scanner_type, bitstrings_buf, call, bs1, rest2, iter, answer, made, written, exact>>
  BY DEF Scan, Scanning, IterationsOver
<1>2. call \in Calls /\ call.op \in Scans /\ (call.op = "iter_read" => call.max_iter \in Nat)
  BY <1>1, CallTypes DEF IInv, PhaseInv
<1>3. sdm_scan(bs1, call.radius)' = sdm_scan(bs1, call.radius)
  BY <1>1 DEF sdm_scan, as_scan
<1>4. todo' \in SUBSET Locations /\ cnt' \in 0 .. Sample
  BY <1>1, ScanTypes
<1>5. TypeOK'
  <2>1. ZeroRow \in Rows /\ ZeroRow \in [BitIndex -> Int]
    BY Ranges DEF ZeroRow, Rows
  <2>2. IF call.op = "generic_read" THEN acc' \in [BitIndex -> Int] ELSE acc' \in Rows
    BY <1>1, <2>1 DEF IInv, TypeOK
  <2> QED
    BY <1>1, <1>4, <2>2 DEF IInv, TypeOK
<1>6. PhaseInv'
  <2>1. iter \in 0 .. call.max_iter \/ call.op # "iter_read"
    BY DEF IInv, TypeOK
  <2>2. call.op = "iter_read" => iter < call.max_iter
    BY <1>1, <1>2, <2>1
  <2> QED
    BY <1>1, <1>2, <1>3, <2>2 DEF IInv, PhaseInv
<1>7. WriteInv' /\ RecallsSoleDatum'
  BY <1>1 DEF IInv, WriteInv, RecallsSoleDatum
<1>8. SoleInv'
  <2>1. call.op = "read" => \A b \in BitIndex : acc'[b] = 0
    BY <1>1 DEF ZeroRow
  <2> QED
    BY <1>1, <1>3, <2>1 DEF IInv, SoleInv, Fits
<1> QED
  BY <1>5, <1>6, <1>7, <1>8 DEF IInv

\* The weight for the location a write visits.
LEMMA VisitedWeight ==
    ASSUME TypeOK, call \in Calls, call.op = "write", NEW l \in Locations
    PROVE  /\ bs_distance(call.addr, address[l]) \in 0 .. Bits
           /\ call.weight[bs_distance(call.addr, address[l])] \in Int
<1>1. call.addr \in Bitstrings /\ call.weight \in [0 .. Bits -> Int]
  BY CallTypes
<1>2. address[l] \in Bitstrings /\ Bitstrings \subseteq Buffers
  BY Ranges DEF TypeOK, Bitstrings, Buffers
<1> QED
  BY <1>1, <1>2, DistanceRange

LEMMA UpdateRowInv == IInv /\ UpdateRow => IInv'
<1> SUFFICES ASSUME IInv, UpdateRow PROVE IInv'
  OBVIOUS
<1> DEFINE w(l) == call.weight[bs_distance(call.addr, address[l])]
<1>1. PICK l \in todo :
          /\ call.op \in WriteOps /\ pc = "loop" /\ todo' = todo \ {l}
          /\ counter' = [counter EXCEPT ![l] =
                 IF call.op = "write" THEN AddWeighted(@, call.datum, w(l))
                 ELSE SubBitstring(@, call.datum)]
          /\ exact' = (/\ exact
                       /\ call.op = "write" =>
                              \A b \in BitIndex :
                                  {counter[l][b] + w(l), counter[l][b] - w(l)} \subseteq CounterValues)
          /\ UNCHANGED <<address, scanner_type, bitstrings_buf, pc, call, cnt, acc, bs1, rest2, iter, answer, made, written>>
  BY DEF UpdateRow, Visiting
<1>2. call \in Calls /\ l \in Locations /\ counter[l] \in Rows
  BY <1>1 DEF IInv, PhaseInv, TypeOK
<1>3. call.op = "write" => w(l) \in Int /\ bs_distance(call.addr, address[l]) \in 0 .. Bits
  BY <1>2, VisitedWeight DEF IInv
<1>4. sdm_scan(bs1, call.radius)' = sdm_scan(bs1, call.radius)
  BY <1>1 DEF sdm_scan, as_scan
<1>5. \A m \in Locations : counter'[m] =
          IF m = l THEN IF call.op = "write" THEN AddWeighted(counter[l], call.datum, w(l))
                        ELSE SubBitstring(counter[l], call.datum)
          ELSE counter[m]
  BY <1>1, <1>2 DEF IInv, TypeOK
<1>6. TypeOK'
  <2>1. counter'[l] \in Rows
    <3>1. call.op = "write" => AddWeighted(counter[l], call.datum, w(l)) \in Rows
      BY <1>2, <1>3, RowTypes
    <3>2. SubBitstring(counter[l], call.datum) \in Rows
      BY <1>2, RowTypes
    <3> QED
      BY <1>2, <1>5, <3>1, <3>2
  <2>2. counter' \in [Locations -> Rows]
    BY <1>1, <1>2, <2>1, <1>5 DEF IInv, TypeOK
  <2>3. todo' \in SUBSET Locations
    BY <1>1 DEF IInv, TypeOK
  <2>4. exact' \in BOOLEAN
    BY <1>1
  <2> QED
    BY <1>1, <2>2, <2>3, <2>4 DEF IInv, TypeOK
<1>7. PhaseInv'
  BY <1>1, <1>4 DEF IInv, PhaseInv
<1>8. WriteInv' /\ RecallsSoleDatum'
  BY <1>1 DEF IInv, WriteInv, RecallsSoleDatum
<1>9. SoleInv'
  <2> SUFFICES ASSUME exact', NEW d \in Bitstrings, written \subseteq {d},
                      NEW m \in Locations, NEW b \in BitIndex
               PROVE  Fits(counter'[m][b], b, d)
    BY <1>1 DEF SoleInv, WriteOps
  <2>1. Fits(counter[m][b], b, d) /\ Fits(counter[l][b], b, d)
    BY <1>1, <1>2 DEF IInv, SoleInv
  <2>2. counter[l][b] \in Int
    BY <1>2, Ranges DEF Rows
  <2>3. CASE m = l /\ call.op = "write"
    <3>1. counter'[m][b] = Wrap(counter[l][b] + IF b \in call.datum THEN w(l) ELSE -w(l))
      BY <1>2, <1>5, <2>3 DEF AddWeighted
    <3>2. counter[l][b] + w(l) \in CounterValues /\ counter[l][b] - w(l) \in CounterValues
      BY <1>1, <2>3
    <3>3. counter'[m][b] = counter[l][b] + IF b \in call.datum THEN w(l) ELSE -w(l)
      <4>1. /\ counter[l][b] + w(l) \in Int /\ counter[l][b] - w(l) \in Int
            /\ counter[l][b] + (-w(l)) = counter[l][b] - w(l)
        BY <1>3, <2>2, <2>3
      <4> QED
        BY <3>1, <3>2, <4>1, WrapRange
    <3>4. call.datum = d /\ w(l) >= 0
      <4>1. ~(written = Bitstrings)
        <5>1. {} \in Bitstrings /\ {b} \in Bitstrings /\ {b} # {}
          BY DEF Bitstrings
        <5> QED
          BY <5>1
      <4>2. call.datum \in written /\ \A k \in 0 .. Bits : call.weight[k] >= 0
        BY <1>1, <2>3, <4>1 DEF IInv, WriteInv
      <4> QED
        BY <1>3, <2>3, <4>2
    <3> QED
      BY <1>3, <2>1, <2>2, <2>3, <3>3, <3>4 DEF Fits
  <2>4. CASE m = l /\ call.op # "write"
    <3>1. counter'[m][b] = IF b \in call.datum
                              THEN IF counter[l][b] > 0 THEN counter[l][b] - 1 ELSE counter[l][b]
                              ELSE IF counter[l][b] < 0 THEN counter[l][b] + 1 ELSE counter[l][b]
      BY <1>2, <1>5, <2>4 DEF SubBitstring
    <3> QED
      BY <2>1, <2>2, <3>1 DEF Fits
  <2>5. CASE m # l
    BY <1>5, <2>1, <2>5
  <2> QED
    BY <2>3, <2>4, <2>5
<1> QED
  BY <1>6, <1>7, <1>8, <1>9 DEF IInv

LEMMA AddRowInv == IInv /\ AddRow => IInv'
<1> SUFFICES ASSUME IInv, AddRow PROVE IInv'
  OBVIOUS
<1>1. PICK l \in todo :
          /\ call.op \in ReadOps /\ pc = "loop" /\ todo' = todo \ {l}
          /\ acc' = IF call.op = "generic_read"
                       THEN [b \in BitIndex |-> acc[b] + SignedPower(counter[l][b], call.z)]
                       ELSE AddCounter(acc, counter[l])
          /\ exact' = (/\ exact
                       /\ call.op # "generic_read" =>
                              \A b \in BitIndex : acc[b] + counter[l][b] \in CounterValues)
          /\ UNCHANGED <<address, counter, scanner_type, bitstrings_buf, pc, call, cnt, bs1, rest2, iter, answer, made, written>>
  BY DEF AddRow, Visiting
<1>2. call \in Calls /\ l \in Locations /\ counter[l] \in Rows
  BY <1>1 DEF IInv, PhaseInv, TypeOK
<1>3. sdm_scan(bs1, call.radius)' = sdm_scan(bs1, call.radius)
  BY <1>1 DEF sdm_scan, as_scan
<1>4. TypeOK'
  <2>1. CASE call.op = "generic_read"
    <3>1. acc \in [BitIndex -> Int]
      BY <2>1 DEF IInv, TypeOK
    <3>2. \A b \in BitIndex : SignedPower(counter[l][b], call.z) \in Int
      BY <1>2, <2>1, CallTypes DEF Rows
    <3>3. acc' \in [BitIndex -> Int]
      BY <1>1, <2>1, <3>1, <3>2
    <3> QED
      BY <1>1, <2>1, <3>3 DEF IInv, TypeOK
  <2>2. CASE call.op # "generic_read"
    <3>1. acc' \in Rows
      BY <1>1, <1>2, <2>2, RowTypes DEF IInv, TypeOK
    <3> QED
      BY <1>1, <2>2, <3>1 DEF IInv, TypeOK
  <2> QED
    BY <2>1, <2>2
<1>5. PhaseInv'
  BY <1>1, <1>3 DEF IInv, PhaseInv
<1>6. WriteInv' /\ RecallsSoleDatum'
  BY <1>1 DEF IInv, WriteInv, RecallsSoleDatum
<1>7. SoleInv'
  <2>1. exact' => exact
    BY <1>1
  <2> SUFFICES ASSUME exact', NEW d \in Bitstrings, written \subseteq {d}, call.op = "read",
                      NEW b \in BitIndex
               PROVE  /\ Fits(acc'[b], b, d)
                      /\ \A m \in sdm_scan(bs1, call.radius) \ todo' : counter[m][b] # 0 => acc'[b] # 0
    BY <1>1, <1>3, <2>1 DEF IInv, SoleInv
  <2>2. Fits(counter[l][b], b, d) /\ Fits(acc[b], b, d)
        /\ \A m \in sdm_scan(bs1, call.radius) \ todo : counter[m][b] # 0 => acc[b] # 0
    BY <1>1, <1>2 DEF IInv, SoleInv
  <2>3. counter[l][b] \in Int /\ acc[b] \in Int
    BY <1>2, Ranges DEF IInv, TypeOK, Rows
  <2>4. acc'[b] = acc[b] + counter[l][b]
    <3>1. acc'[b] = Wrap(acc[b] + counter[l][b])
      BY <1>1 DEF AddCounter
    <3>2. acc[b] + counter[l][b] \in CounterValues
      BY <1>1
    <3> QED
      BY <2>3, <3>1, <3>2, WrapRange
  <2>5. Fits(acc'[b], b, d)
    BY <2>2, <2>3, <2>4 DEF Fits
  <2>6. acc[b] # 0 \/ counter[l][b] # 0 => acc'[b] # 0
    BY <2>2, <2>3, <2>4 DEF Fits
  <2>7. \A m \in sdm_scan(bs1, call.radius) \ todo' : m = l \/ m \in sdm_scan(bs1, call.radius) \ todo
    BY <1>1
  <2> QED
    BY <2>2, <2>5, <2>6, <2>7
<1> QED
  BY <1>4, <1>5, <1>6, <1>7 DEF IInv

LEMMA ReturnCountInv == IInv /\ ReturnCount => IInv'
<1> SUFFICES ASSUME IInv, ReturnCount PROVE IInv'
  OBVIOUS
<1>1. /\ pc = "loop" /\ call.op \in WriteOps \cup {"read_counter"} /\ pc' = "returned"
      /\ answer'.ret = cnt
      /\ UNCHANGED <<address, counter, scanner_type, bitstrings_buf, call, todo, cnt, acc, bs1, rest2, iter, made, written, exact>>
  BY DEF ReturnCount, LoopOver
<1>2. call \in Calls
  BY <1>1 DEF IInv, PhaseInv
<1>3. TypeOK'
  <2>1. answer'.ret \in -2 .. Sample \cup Nat
    BY <1>1, Ranges DEF IInv, TypeOK
  <2> QED
    BY <1>1, <2>1 DEF IInv, TypeOK
<1>4. PhaseInv' /\ WriteInv' /\ RecallsSoleDatum'
  BY <1>1, <1>2 DEF PhaseInv, WriteInv, RecallsSoleDatum, WriteOps
<1>5. SoleInv'
  BY <1>1 DEF IInv, SoleInv
<1> QED
  BY <1>3, <1>4, <1>5 DEF IInv

\* The end of a read: what it has added up decides each bit of its answer.
LEMMA ReturnBitstringInv == IInv /\ ReturnBitstring => IInv'
<1> SUFFICES ASSUME IInv, ReturnBitstring PROVE IInv'
  OBVIOUS
<1>1. PICK bs \in ToBitstring(acc) :
          /\ pc = "loop" /\ todo = {} /\ call.op \in {"read", "generic_read"} /\ pc' = "returned"
          /\ answer' = [ret |-> cnt, output |-> bs]
          /\ UNCHANGED <<address, counter, scanner_type, bitstrings_buf, call, todo, cnt, acc, bs1, rest2, iter, made, written, exact>>
  BY DEF ReturnBitstring, LoopOver
<1>2. call \in Calls
  BY <1>1 DEF IInv, PhaseInv
<1>3. TypeOK'
  <2>1. answer'.ret \in -2 .. Sample \cup Nat
    BY <1>1, Ranges DEF IInv, TypeOK
  <2> QED
    BY <1>1, <2>1 DEF IInv, TypeOK
<1>4. PhaseInv' /\ WriteInv'
  BY <1>1, <1>2 DEF PhaseInv, WriteInv
<1>5. SoleInv'
  BY <1>1 DEF IInv, SoleInv
<1>6. RecallsSoleDatum'
  <2> SUFFICES ASSUME call.op = "read", exact, Cardinality(written) = 1,
                      \A b \in BitIndex : \E l \in sdm_scan(call.addr, call.radius) : counter[l][b] # 0
               PROVE  written = {bs}
    <3>1. sdm_scan(call.addr, call.radius)' = sdm_scan(call.addr, call.radius)
      BY <1>1 DEF sdm_scan, as_scan
    <3> QED
      BY <1>1, <3>1 DEF RecallsSoleDatum
  <2>1. IsFiniteSet(written)
    <3>1. IsFiniteSet(0 .. Bits - 1)
      BY Ranges, FS_Interval
    <3>2. IsFiniteSet(SUBSET (0 .. Bits - 1))
      BY <3>1, FS_SUBSET
    <3> QED
      BY <3>2, FS_Subset DEF IInv, TypeOK, Bitstrings, BitIndex
  <2>2. PICK d : written = {d}
    BY <2>1, FS_Singleton
  <2>3. d \in Bitstrings /\ bs1 = call.addr
    BY <1>1, <2>2 DEF IInv, TypeOK, PhaseInv, Scans
  <2>4. \A b \in BitIndex : Fits(acc[b], b, d) /\ acc[b] # 0
    BY <1>1, <2>2, <2>3 DEF IInv, SoleInv
  <2>5. \A b \in BitIndex : acc[b] \in Int
    BY Ranges DEF IInv, TypeOK, Rows
  <2>6. \A b \in BitIndex : b \in bs <=> b \in d
    BY <1>1, <2>4, <2>5 DEF Fits, ToBitstring
  <2>7. bs \subseteq BitIndex /\ d \subseteq BitIndex
    BY <2>3 DEF ToBitstring, Bitstrings
  <2>8. bs = d
    BY <2>6, <2>7
  <2> QED
    BY <2>2, <2>8
<1> QED
  BY <1>3, <1>4, <1>5, <1>6 DEF IInv

LEMMA IterateInv == IInv /\ Iterate => IInv'
<1> SUFFICES ASSUME IInv, Iterate PROVE IInv'
  OBVIOUS
<1> DEFINE bs2(bs) == bs \cup rest2
<1>1. PICK bs \in ToBitstring(acc) :
          /\ pc = "loop" /\ todo = {} /\ call.op = "iter_read"
          /\ IF bs_distance(bs1, bs2(bs)) = 0
                THEN /\ answer' = [ret |-> iter, output |-> bs1]
                     /\ pc' = "returned"
                     /\ UNCHANGED <<bs1, rest2, iter>>
                ELSE /\ bs1' = bs2(bs) /\ rest2' = bs1 \ BitIndex /\ iter' = iter + 1
                     /\ pc' = "entered"
                     /\ UNCHANGED answer
          /\ UNCHANGED <<address, counter, scanner_type, bitstrings_buf, call, todo, cnt, acc, made, written, exact>>
  BY DEF Iterate, LoopOver
<1>2. /\ call \in Calls /\ call.max_iter \in Nat /\ iter < call.max_iter /\ iter \in Nat
      /\ bs1 \in Buffers /\ rest2 \in Buffers /\ bs2(bs) \in Buffers
  <2>1. call \in Calls /\ call.max_iter \in Nat /\ iter < call.max_iter
    BY <1>1, CallTypes DEF IInv, PhaseInv
  <2>2. bs \subseteq BitIndex
    BY <1>1 DEF ToBitstring, Bitstrings
  <2>3. bs1 \in Buffers /\ rest2 \in Buffers /\ bs2(bs) \in Buffers
    BY <2>2, Ranges DEF IInv, TypeOK, Buffers
  <2> QED
    BY <1>1, <2>1, <2>3 DEF IInv, TypeOK
<1>3. TypeOK'
  <2>1. bs1' \in Buffers /\ rest2' \in Buffers /\ rest2' \cap BitIndex = {}
    BY <1>1, <1>2 DEF IInv, TypeOK, Buffers
  <2>2. iter' \in 0 .. call.max_iter
    BY <1>1, <1>2 DEF IInv, TypeOK
  <2>3. answer'.ret \in -2 .. Sample \cup Nat
    BY <1>1, <1>2 DEF IInv, TypeOK
  <2> QED
    BY <1>1, <2>1, <2>2, <2>3 DEF IInv, TypeOK
<1>4. PhaseInv' /\ WriteInv' /\ RecallsSoleDatum'
  BY <1>1, <1>2 DEF PhaseInv, WriteInv, RecallsSoleDatum
<1>5. SoleInv'
  BY <1>1 DEF IInv, SoleInv
<1> QED
  BY <1>3, <1>4, <1>5 DEF IInv

LEMMA TakeInv == IInv /\ Take => IInv'
<1> SUFFICES ASSUME IInv, Take PROVE IInv'
  OBVIOUS
<1>1. /\ pc = "returned" /\ pc' = "idle" /\ call' = NoCall /\ todo' = {} /\ cnt' = 0
      /\ acc' = ZeroRow /\ bs1' = {} /\ rest2' = {} /\ iter' = 0 /\ answer' = NoAnswer
      /\ UNCHANGED <<address, counter, scanner_type, bitstrings_buf, made, written, exact>>
  BY DEF Take
<1>2. TypeOK'
  <2>1. ZeroRow \in Rows
    BY Ranges DEF ZeroRow, Rows
  <2>2. NoCall.op = "none" /\ NoAnswer.ret = 0
    BY DEF NoCall, NoAnswer
  <2>3. 0 \in 0 .. Sample
    BY Ranges
  <2> QED
    BY <1>1, <2>1, <2>2, <2>3 DEF IInv, TypeOK, Buffers
<1>3. PhaseInv' /\ WriteInv' /\ RecallsSoleDatum'
  BY <1>1 DEF PhaseInv, WriteInv, RecallsSoleDatum
<1>4. SoleInv'
  BY <1>1 DEF IInv, SoleInv
<1> QED
  BY <1>2, <1>3, <1>4 DEF IInv

LEMMA StutterInv == IInv /\ UNCHANGED vars => IInv'
<1> SUFFICES ASSUME IInv, UNCHANGED vars PROVE IInv'
  OBVIOUS
<1>1. UNCHANGED <<address, counter, scanner_type, bitstrings_buf, pc, call, todo, cnt, acc, bs1, rest2, iter, answer, made, written, exact>>
  BY DEF vars
<1>2. sdm_scan(bs1, call.radius)' = sdm_scan(bs1, call.radius)
      /\ sdm_scan(call.addr, call.radius)' = sdm_scan(call.addr, call.radius)
  BY <1>1 DEF sdm_scan, as_scan
<1>3. TypeOK'
  BY <1>1 DEF IInv, TypeOK
<1>4. PhaseInv' /\ WriteInv'
  BY <1>1, <1>2 DEF IInv, PhaseInv, WriteInv
<1>5. SoleInv'
  BY <1>1, <1>2 DEF IInv, SoleInv
<1>6. RecallsSoleDatum'
  BY <1>1, <1>2 DEF IInv, RecallsSoleDatum
<1> QED
  BY <1>3, <1>4, <1>5, <1>6 DEF IInv

LEMMA NextInv == IInv /\ [Next]_vars => IInv'
BY BeginInv, InitScannerInv, ResetHardLocationInv, IterEndInv, ScanFailsInv, ScanInv, UpdateRowInv,
   AddRowInv, ReturnCountInv, ReturnBitstringInv, IterateInv, TakeInv, StutterInv
   DEF Next, Work

\* The strengthened invariant holds of every sequence of calls.
THEOREM Invariance == Spec => []IInv
BY InitInv, NextInv, PTL DEF Spec

\* Every variable of the memory has its type: counters stay counter_t's, no loop
\* leaves its table of weights and no sdm_iter_read passes max_iter.
THEOREM MemoryTypesCorrect == Spec => []TypeOK
<1>1. IInv => TypeOK
  BY DEF IInv
<1> QED
  BY <1>1, Invariance, PTL

\* Where one datum only was ever written, and nothing wrapped around, a read that
\* finds a counter that is not 0 for each bit returns it.
THEOREM SoleDatumIsRecalled == Spec => []RecallsSoleDatum
<1>1. IInv => RecallsSoleDatum
  BY DEF IInv
<1> QED
  BY <1>1, Invariance, PTL

-----------------------------------------------------------------------------
(* The memory that takes effect at once.  OpenCL scanners are part of this *)
(* only where no location is ever reset, as they keep a copy of the        *)
(* addresses that a reset leaves alone.                                     *)

CopyIsKept ==
    \/ \A c \in Calls : c.op # "reset"
    \/ "opencl" \notin Scanners /\ \A c \in Calls : c.op = "init" => c.scanner # "opencl"

Near(bs) == as_scan(address, bs, call.radius)

\* What each location holds for bit b, as sdm_read and sdm_generic_read2 add it.
Held(b) == [l \in Locations |-> counter[l][b]]
Powers(b) == [l \in Locations |-> SignedPower(counter[l][b], call.z)]

MajorityNear(bs) == ToBitstring([b \in BitIndex |-> Wrap(SumFunctionOnSet(Held(b), Near(bs)))])

\* The bitstring an sdm_iter_read has after j of the reads of chain c.
Unused == call.addr \ BitIndex
Link(c, j) == IF j = 0 THEN call.addr ELSE IF j % 2 = 0 THEN c[j] \cup Unused ELSE c[j]
IsChain(c, n) ==
    \A j \in 1 .. n : c[j] \in MajorityNear(Link(c, j - 1)) /\ Link(c, j) # Link(c, j - 1)

\* The copy of an OpenCL scanner is that of the addresses.
CopyInv == scanner_type = "opencl" => bitstrings_buf = address /\ \A c \in Calls : c.op # "reset"

\* The temporary counter has what the locations visited hold.
Visited == Near(bs1) \ todo
SumInv ==
    pc = "loop" => \A b \in BitIndex :
        /\ call.op \in {"read", "iter_read"} => acc[b] = Wrap(SumFunctionOnSet(Held(b), Visited))
        /\ call.op = "read_counter" =>
               acc[b] = Wrap(call.row[b] + SumFunctionOnSet(Held(b), Visited))
        /\ call.op = "generic_read" => acc[b] = SumFunctionOnSet(Powers(b), Visited)

\* An sdm_iter_read is at the end of a chain of reads.
ChainInv ==
    pc \in {"entered", "loop"} /\ call.op = "iter_read" =>
        /\ rest2 = IF iter % 2 = 1 THEN Unused ELSE {}
        /\ iter > 0 => scanner_type # "none"
        /\ \E c \in [1 .. iter -> Bitstrings] : IsChain(c, iter) /\ bs1 = Link(c, iter)

RInv == CopyInv /\ SumInv /\ ChainInv

\* Remainders do not change with a multiple of the divisor.
LEMMA ModShift ==
    ASSUME NEW a \in Int, NEW q \in Int, NEW M \in Nat \ {0}
    PROVE  (a - M * q) % M = a % M
<1> DEFINE b == a - M * q
           p == a \div M
           s == a % M
           u == b \div M
           t == b % M
           k == p - q - u
<1>1. M * q \in Int /\ b \in Int
  OBVIOUS
<1>2. p \in Int /\ s \in 0 .. M - 1 /\ a = M * p + s
  OBVIOUS
<1> HIDE DEF b
<1>3. u \in Int /\ t \in 0 .. M - 1 /\ b = M * u + t
  BY <1>1
<1>4. b = a - M * q
  BY DEF b
<1> HIDE DEF p, s, u, t
<1>5. k \in Int /\ M * k = M * p - M * q - M * u
  BY <1>2, <1>3
<1>6. M * p \in Int /\ M * u \in Int /\ M * k \in Int /\ M * k = t - s
  BY <1>1, <1>2, <1>3, <1>4, <1>5
<1> HIDE DEF k
<1>7. k >= 1 => M * k >= M
  <2> SUFFICES ASSUME k >= 1 PROVE M * k >= M
    OBVIOUS
  <2>1. PICK j \in Nat : k = j + 1
    BY <1>5, k - 1 \in Nat
  <2>2. M * k = M * j + M /\ M * j \in Nat
    BY <2>1
  <2> QED
    BY <2>2
<1>8. k <= -1 => M * k <= -M
  <2> SUFFICES ASSUME k <= -1 PROVE M * k <= -M
    OBVIOUS
  <2>1. PICK j \in Nat : k = -(j + 1)
    BY <1>5, -k - 1 \in Nat
  <2>2. M * k = -(M * j) - M /\ M * j \in Nat
    BY <2>1
  <2> QED
    BY <2>2
<1>9. k = 0
  BY <1>2, <1>3, <1>5, <1>6, <1>7, <1>8
<1>10. t = s
  BY <1>2, <1>3, <1>6, <1>9
<1> QED
  BY <1>10 DEF b, t, s

\* It does not matter whether a sum wraps around on the way.
LEMMA WrapSum ==
    ASSUME NEW x \in Int, NEW y \in Int
    PROVE  Wrap(Wrap(x) + y) = Wrap(x + y)
<1>1. PICK M \in Nat \ {0} : \A v : Wrap(v) = ((v - CounterMin) % M) + CounterMin
  <2>1. 2 * (CounterMax + 1) \in Nat \ {0}
    BY Ranges
  <2> QED
    BY <2>1 DEF Wrap
<1>2. CounterMin \in Int
  BY Ranges
<1>3. PICK z \in Int : z = x - CounterMin
  BY <1>2
<1>4. z = M * (z \div M) + (z % M) /\ z \div M \in Int /\ z % M \in Int
  OBVIOUS
<1>5. PICK q \in Int, rest \in Int : z = M * q + rest /\ rest = z % M
  BY <1>4
<1>6. PICK m \in Int : m = M * q
  OBVIOUS
<1>7. Wrap(x) = rest + CounterMin
  BY <1>1, <1>3, <1>5
<1>8. (Wrap(x) + y) - CounterMin = ((x + y) - CounterMin) - m
  <2>1. x - CounterMin = m + rest
    BY <1>3, <1>5, <1>6
  <2> QED
    BY <1>2, <1>7, <2>1
<1>9. (x + y) - CounterMin \in Int
  BY <1>2
<1>10. ((Wrap(x) + y) - CounterMin) % M = ((x + y) - CounterMin) % M
  BY <1>6, <1>8, <1>9, ModShift
<1> QED
  BY <1>1, <1>10

\* An operation reaches the locations near its address, whatever the scanner.
LEMMA ScanIsNear ==
    ASSUME CopyInv
    PROVE  \A bs : sdm_scan(bs, call.radius) = Near(bs)
BY DEF CopyInv, sdm_scan, Near

LEMMA SameChain ==
    ASSUME UNCHANGED <<address, counter, call>>
    PROVE  /\ \A bs : Near(bs)' = Near(bs)
           /\ \A b : Held(b)' = Held(b) /\ Powers(b)' = Powers(b)
           /\ \A c, n : (IsChain(c, n)' <=> IsChain(c, n)) /\ Link(c, n)' = Link(c, n)
           /\ Unused' = Unused
<1>1. \A bs : Near(bs)' = Near(bs)
  BY DEF Near, as_scan
<1>2. \A b : Held(b)' = Held(b) /\ Powers(b)' = Powers(b)
  BY DEF Held, Powers
<1>3. \A bs : MajorityNear(bs)' = MajorityNear(bs)
  <2> SUFFICES ASSUME NEW bs PROVE MajorityNear(bs)' = MajorityNear(bs)
    OBVIOUS
  <2> DEFINE sums == [b \in BitIndex |-> Wrap(SumFunctionOnSet(Held(b), Near(bs)))]
  <2>1. MajorityNear(bs) = ToBitstring(sums) /\ MajorityNear(bs)' = ToBitstring(sums')
    BY DEF MajorityNear
  <2>2. sums' = sums
    BY <1>1, <1>2
  <2> QED
    BY <2>1, <2>2
<1>4. Unused' = Unused /\ \A c, n : Link(c, n)' = Link(c, n)
  BY DEF Unused, Link
<1>5. \A c, n : IsChain(c, n)' <=> IsChain(c, n)
  BY <1>3, <1>4 DEF IsChain
<1> QED
  BY <1>1, <1>2, <1>4, <1>5

\* Sums over the locations visited, which are finitely many.
LEMMA VisitedSums ==
    ASSUME TypeOK, NEW S \in SUBSET Locations, NEW b \in BitIndex
    PROVE  /\ SumFunctionOnSet(Held(b), {}) = 0 /\ SumFunctionOnSet(Held(b), S) \in Int
           /\ \A l \in S : SumFunctionOnSet(Held(b), S) =
                              counter[l][b] + SumFunctionOnSet(Held(b), S \ {l})
           /\ call \in Calls /\ call.op = "generic_read" =>
                  /\ SumFunctionOnSet(Powers(b), {}) = 0
                  /\ \A l \in S : SumFunctionOnSet(Powers(b), S) =
                         SignedPower(counter[l][b], call.z) + SumFunctionOnSet(Powers(b), S \ {l})
<1>1. IsFiniteSet(S)
  BY ScanTypes
<1>2. \A l \in Locations : counter[l][b] \in CounterValues
  BY DEF TypeOK, Rows
<1>3. \A l \in S : Held(b)[l] = counter[l][b] /\ Held(b)[l] \in Int
  BY <1>2, Ranges DEF Held
<1>4. ASSUME call \in Calls, call.op = "generic_read"
      PROVE  \A l \in S : /\ Powers(b)[l] = SignedPower(counter[l][b], call.z)
                          /\ Powers(b)[l] \in Int
  BY <1>2, <1>4, CallTypes DEF Powers
<1>5. /\ SumFunctionOnSet(Held(b), {}) = 0 /\ SumFunctionOnSet(Held(b), S) \in Int
      /\ \A l \in S : SumFunctionOnSet(Held(b), S) = Held(b)[l] + SumFunctionOnSet(Held(b), S \ {l})
  BY <1>1, <1>3, SumStep
<1>6. ASSUME call \in Calls, call.op = "generic_read"
      PROVE  /\ SumFunctionOnSet(Powers(b), {}) = 0
             /\ \A l \in S : SumFunctionOnSet(Powers(b), S) =
                                Powers(b)[l] + SumFunctionOnSet(Powers(b), S \ {l})
  BY <1>1, <1>4, <1>6, SumStep
<1> QED
  BY <1>3, <1>4, <1>5, <1>6

LEMMA InitRInv == CopyIsKept /\ Init => RInv
<1> SUFFICES ASSUME CopyIsKept, Init PROVE RInv
  OBVIOUS
<1>1. CopyInv
  BY DEF Init, CopyInv, CopyIsKept, Upload
<1> QED
  BY <1>1 DEF Init, RInv, SumInv, ChainInv

LEMMA BeginRInv == IInv /\ RInv /\ Begin => RInv'
<1> SUFFICES ASSUME IInv, RInv, Begin PROVE RInv'
  OBVIOUS
<1>1. /\ pc' = "entered" /\ call' \in Calls
      /\ bs1' = IF call'.op \in {"reset", "init"} THEN {} ELSE call'.addr
      /\ rest2' = {} /\ iter' = 0
      /\ UNCHANGED <<address, counter, scanner_type, bitstrings_buf>>
  BY DEF Begin
<1>2. CopyInv' /\ SumInv'
  BY <1>1 DEF RInv, CopyInv, SumInv
<1>3. ChainInv'
  <2> SUFFICES ASSUME call'.op = "iter_read"
               PROVE  \E c \in [1 .. 0 -> Bitstrings] : IsChain(c, 0)' /\ bs1' = Link(c, 0)'
    BY <1>1 DEF ChainInv
  <2>1. \E c \in [1 .. 0 -> Bitstrings] : TRUE
    <3>1. [j \in 1 .. 0 |-> {}] \in [1 .. 0 -> Bitstrings]
      OBVIOUS
    <3> QED
      BY <3>1
  <2>2. PICK c \in [1 .. 0 -> Bitstrings] : TRUE
    BY <2>1
  <2>3. IsChain(c, 0)' /\ bs1' = Link(c, 0)'
    BY <1>1 DEF IsChain, Link
  <2> QED
    BY <2>3
<1> QED
  BY <1>2, <1>3 DEF RInv

\* The steps after which no sum is taken: the call returns, or ends.
LEMMA ReturnRInv ==
    ASSUME IInv, RInv, CopyIsKept,
           InitScanner \/ ResetHardLocation \/ IterEnd \/ ScanFails \/ ReturnCount \/ ReturnBitstring \/ Take
    PROVE  RInv'
<1>1. pc' \in {"returned", "idle"}
  BY DEF InitScanner, ResetHardLocation, IterEnd, ScanFails, ReturnCount, ReturnBitstring, Take
<1>2. CopyInv'
  <2>1. CASE InitScanner
    <3>1. call.op = "init" /\ call \in Calls
      BY <2>1 DEF InitScanner, IInv, PhaseInv
    <3> QED
      BY <2>1, <3>1 DEF InitScanner, RInv, CopyInv, CopyIsKept, Upload
  <2>2. CASE ResetHardLocation
    <3>1. call.op = "reset" /\ call \in Calls /\ UNCHANGED scanner_type
      BY <2>2 DEF ResetHardLocation, IInv, PhaseInv
    <3> QED
      BY <3>1 DEF RInv, CopyInv
  <2>3. CASE IterEnd \/ ScanFails \/ ReturnCount \/ ReturnBitstring \/ Take
    <3>1. UNCHANGED <<address, scanner_type, bitstrings_buf>>
      BY <2>3 DEF IterEnd, ScanFails, ReturnCount, ReturnBitstring, Take
    <3> QED
      BY <3>1 DEF RInv, CopyInv
  <2> QED
    BY <2>1, <2>2, <2>3
<1> QED
  BY <1>1, <1>2 DEF RInv, SumInv, ChainInv

LEMMA ScanRInv == IInv /\ RInv /\ Scan => RInv'
<1> SUFFICES ASSUME IInv, RInv, Scan PROVE RInv'
  OBVIOUS
<1>1. /\ pc = "entered" /\ pc' = "loop" /\ scanner_type # "none"
      /\ todo' = sdm_scan(bs1, call.radius)
      /\ acc' = IF call.op = "read_counter" THEN acc ELSE ZeroRow
      /\ UNCHANGED <<address, counter, scanner_type, bitstrings_buf, call, bs1, rest2, iter>>
  BY DEF Scan, Scanning
<1>2. CopyInv'
  BY <1>1 DEF RInv, CopyInv
<1>3. SumInv'
  <2>1. todo' = Near(bs1) /\ Near(bs1)' = Near(bs1)
    BY <1>1, ScanIsNear, SameChain DEF RInv
  <2>2. Visited' = {}
    BY <1>1, <2>1 DEF Visited
  <2> SUFFICES ASSUME NEW b \in BitIndex
               PROVE  /\ call.op \in {"read", "iter_read"} =>
                             acc'[b] = Wrap(SumFunctionOnSet(Held(b), {}))
                      /\ call.op = "read_counter" =>
                             acc'[b] = Wrap(call.row[b] + SumFunctionOnSet(Held(b), {}))
                      /\ call.op = "generic_read" => acc'[b] = SumFunctionOnSet(Powers(b), {})
    BY <1>1, <2>2, SameChain DEF SumInv
  <2>3. SumFunctionOnSet(Held(b), {}) = 0
    BY VisitedSums DEF IInv
  <2>4. call.op = "generic_read" => SumFunctionOnSet(Powers(b), {}) = 0
    BY <1>1, VisitedSums DEF IInv, PhaseInv
  <2>5. Wrap(0) = 0 /\ ZeroRow[b] = 0
    BY Ranges, WrapRange DEF ZeroRow
  <2>6. ASSUME call.op = "read_counter"
        PROVE  acc[b] = call.row[b] /\ Wrap(call.row[b] + 0) = call.row[b]
    <3>1. acc = call.row /\ acc[b] \in CounterValues
      BY <1>1, <2>6 DEF IInv, PhaseInv, TypeOK, Rows
    <3> QED
      BY <3>1, Ranges, WrapRange
  <2> QED
    BY <1>1, <2>3, <2>4, <2>5, <2>6
<1>4. ChainInv'
  BY <1>1, SameChain DEF RInv, ChainInv
<1> QED
  BY <1>2, <1>3, <1>4 DEF RInv

LEMMA UpdateRowRInv == IInv /\ RInv /\ UpdateRow => RInv'
<1> SUFFICES ASSUME IInv, RInv, UpdateRow PROVE RInv'
  OBVIOUS
<1>1. /\ call.op \in WriteOps
      /\ UNCHANGED <<address, scanner_type, bitstrings_buf, call>>
  BY DEF UpdateRow
<1>2. CopyInv'
  BY <1>1 DEF RInv, CopyInv
<1> QED
  BY <1>1, <1>2 DEF RInv, SumInv, ChainInv, WriteOps

LEMMA AddRowRInv == IInv /\ RInv /\ AddRow => RInv'
<1> SUFFICES ASSUME IInv, RInv, AddRow PROVE RInv'
  OBVIOUS
<1>1. PICK l \in todo :
          /\ call.op \in ReadOps /\ pc = "loop" /\ todo' = todo \ {l}
          /\ acc' = IF call.op = "generic_read"
                       THEN [b \in BitIndex |-> acc[b] + SignedPower(counter[l][b], call.z)]
                       ELSE AddCounter(acc, counter[l])
          /\ UNCHANGED <<address, counter, scanner_type, bitstrings_buf, pc, call, bs1, rest2, iter>>
  BY DEF AddRow, Visiting
<1>2. call \in Calls /\ l \in Locations /\ TypeOK
  BY <1>1 DEF IInv, PhaseInv, TypeOK
<1>3. CopyInv'
  BY <1>1 DEF RInv, CopyInv
<1>4. ChainInv'
  BY <1>1, SameChain DEF RInv, ChainInv
<1>5. Visited' \in SUBSET Locations /\ l \in Visited' /\ Visited' \ {l} = Visited
      /\ Visited \in SUBSET Locations
  <2>1. l \in Near(bs1) /\ todo \subseteq Near(bs1) /\ Near(bs1)' = Near(bs1)
    <3>1. todo \subseteq sdm_scan(bs1, call.radius)
      BY <1>1 DEF IInv, PhaseInv
    <3> QED
      BY <1>1, <3>1, ScanIsNear, SameChain DEF RInv
  <2>2. Near(bs1) \subseteq Locations
    BY DEF Near, as_scan
  <2> QED
    BY <1>1, <2>1, <2>2 DEF Visited
<1>6. SumInv'
  <2> DEFINE V == Visited'
  <2> SUFFICES ASSUME NEW b \in BitIndex
               PROVE  /\ call.op \in {"read", "iter_read"} =>
                             acc'[b] = Wrap(SumFunctionOnSet(Held(b), V))
                      /\ call.op = "read_counter" =>
                             acc'[b] = Wrap(call.row[b] + SumFunctionOnSet(Held(b), V))
                      /\ call.op = "generic_read" => acc'[b] = SumFunctionOnSet(Powers(b), V)
    BY <1>1, SameChain DEF SumInv
  <2> HIDE DEF V
  <2>1. /\ SumFunctionOnSet(Held(b), V) = counter[l][b] + SumFunctionOnSet(Held(b), Visited)
        /\ SumFunctionOnSet(Held(b), Visited) \in Int
    BY <1>2, <1>5, VisitedSums DEF V
  <2>2. counter[l][b] \in Int
    BY <1>2, Ranges DEF TypeOK, Rows
  <2>3. ASSUME call.op \in {"read", "iter_read"}
        PROVE  acc'[b] = Wrap(SumFunctionOnSet(Held(b), V))
    <3>1. acc[b] = Wrap(SumFunctionOnSet(Held(b), Visited))
      BY <1>1, <2>3 DEF RInv, SumInv
    <3>2. acc'[b] = Wrap(acc[b] + counter[l][b])
      BY <1>1, <2>3 DEF AddCounter
    <3>3. acc'[b] = Wrap(SumFunctionOnSet(Held(b), Visited) + counter[l][b])
      BY <2>1, <2>2, <3>1, <3>2, WrapSum
    <3> QED
      BY <2>1, <2>2, <3>3
  <2>4. ASSUME call.op = "read_counter"
        PROVE  acc'[b] = Wrap(call.row[b] + SumFunctionOnSet(Held(b), V))
    <3>1. acc[b] = Wrap(call.row[b] + SumFunctionOnSet(Held(b), Visited))
      BY <1>1, <2>4 DEF RInv, SumInv
    <3>2. acc'[b] = Wrap(acc[b] + counter[l][b])
      BY <1>1, <2>4 DEF AddCounter
    <3>3. call.row[b] \in Int
      BY <1>2, <2>4, CallTypes, Ranges DEF Rows
    <3>4. call.row[b] + SumFunctionOnSet(Held(b), Visited) \in Int
      BY <2>1, <3>3
    <3>5. acc'[b] = Wrap((call.row[b] + SumFunctionOnSet(Held(b), Visited)) + counter[l][b])
      BY <2>2, <3>1, <3>2, <3>4, WrapSum
    <3>6. (call.row[b] + SumFunctionOnSet(Held(b), Visited)) + counter[l][b]
             = call.row[b] + SumFunctionOnSet(Held(b), V)
      BY <2>1, <2>2, <3>3
    <3> QED
      BY <3>5, <3>6
  <2>5. ASSUME call.op = "generic_read"
        PROVE  acc'[b] = SumFunctionOnSet(Powers(b), V)
    <3>1. acc[b] = SumFunctionOnSet(Powers(b), Visited)
      BY <1>1, <2>5 DEF RInv, SumInv
    <3>2. acc'[b] = acc[b] + SignedPower(counter[l][b], call.z)
      BY <1>1, <2>5
    <3>3. SumFunctionOnSet(Powers(b), V) =
             SignedPower(counter[l][b], call.z) + SumFunctionOnSet(Powers(b), Visited)
      BY <1>2, <1>5, <2>5, VisitedSums DEF V
    <3>4. acc[b] \in Int /\ SignedPower(counter[l][b], call.z) \in Int
      BY <1>2, <2>5, CallTypes DEF TypeOK, Rows
    <3> QED
      BY <3>1, <3>2, <3>3, <3>4
  <2> QED
    BY <2>3, <2>4, <2>5
<1> QED
  BY <1>3, <1>4, <1>6 DEF RInv

\* At the end of its loop a read has the majority of the locations near.
LEMMA ReadIsMajority ==
    ASSUME IInv, RInv, LoopOver, call.op \in {"read", "iter_read"}
    PROVE  ToBitstring(acc) = MajorityNear(bs1) /\ cnt = Cardinality(Near(bs1))
<1>1. pc = "loop" /\ Visited = Near(bs1) /\ cnt = Cardinality(Near(bs1))
  <2>1. cnt = Cardinality(sdm_scan(bs1, call.radius))
    BY DEF LoopOver, IInv, PhaseInv
  <2> QED
    BY <2>1, ScanIsNear DEF LoopOver, Visited, RInv
<1>2. \A b \in BitIndex : acc[b] = Wrap(SumFunctionOnSet(Held(b), Near(bs1)))
  BY <1>1 DEF RInv, SumInv
<1>3. acc \in Rows
  BY DEF IInv, TypeOK
<1>4. acc = [b \in BitIndex |-> Wrap(SumFunctionOnSet(Held(b), Near(bs1)))]
  BY <1>2, <1>3 DEF Rows
<1> QED
  BY <1>1, <1>4 DEF MajorityNear

\* What a link of a chain is made of.
LEMMA LinkParts ==
    ASSUME NEW n \in Nat, NEW c \in [1 .. n -> Bitstrings], call.addr \in Buffers
    PROVE  \A j \in 0 .. n :
               /\ Link(c, j) \ BitIndex = (IF j % 2 = 0 THEN Unused ELSE {})
               /\ Link(c, j) \in Bitstrings \cup {r \cup Unused : r \in Bitstrings}
<1> SUFFICES ASSUME NEW j \in 0 .. n
             PROVE  /\ Link(c, j) \ BitIndex = (IF j % 2 = 0 THEN Unused ELSE {})
                    /\ Link(c, j) \in Bitstrings \cup {r \cup Unused : r \in Bitstrings}
  OBVIOUS
<1>1. CASE j = 0
  <2>1. j % 2 = 0 /\ Link(c, j) = call.addr
    BY <1>1 DEF Link
  <2>2. call.addr = (call.addr \cap BitIndex) \cup Unused /\ call.addr \cap BitIndex \in Bitstrings
    BY DEF Unused, Bitstrings
  <2> QED
    BY <2>1, <2>2 DEF Unused
<1>2. CASE j # 0 /\ j % 2 = 0
  <2>1. c[j] \in Bitstrings /\ Link(c, j) = c[j] \cup Unused
    BY <1>2 DEF Link
  <2>2. (c[j] \cup Unused) \ BitIndex = Unused
    BY <2>1 DEF Unused, Bitstrings
  <2> QED
    BY <1>2, <2>1, <2>2
<1>3. CASE j # 0 /\ j % 2 # 0
  <2>1. c[j] \in Bitstrings /\ Link(c, j) = c[j]
    BY <1>3 DEF Link
  <2> QED
    BY <1>3, <2>1 DEF Bitstrings
<1> QED
  BY <1>1, <1>2, <1>3

LEMMA IterateRInv == IInv /\ RInv /\ Iterate => RInv'
<1> SUFFICES ASSUME IInv, RInv, Iterate PROVE RInv'
  OBVIOUS
<1>1. PICK bs \in ToBitstring(acc) :
          /\ LoopOver /\ call.op = "iter_read"
          /\ IF bs_distance(bs1, bs \cup rest2) = 0
                THEN /\ answer' = [ret |-> iter, output |-> bs1]
                     /\ pc' = "returned"
                     /\ UNCHANGED <<bs1, rest2, iter>>
                ELSE /\ bs1' = bs \cup rest2 /\ rest2' = bs1 \ BitIndex /\ iter' = iter + 1
                     /\ pc' = "entered"
                     /\ UNCHANGED answer
          /\ UNCHANGED <<address, counter, scanner_type, bitstrings_buf, call, todo, cnt, acc, made, written, exact>>
  BY DEF Iterate
<1>2. CopyInv'
  BY <1>1 DEF RInv, CopyInv
<1>3. pc' # "loop" /\ SumInv'
  BY <1>1 DEF SumInv
<1>4. ASSUME bs_distance(bs1, bs \cup rest2) # 0
      PROVE  ChainInv'
  <2>1. /\ pc = "loop" /\ iter \in Nat /\ scanner_type # "none" /\ call.addr \in Buffers
        /\ bs1 \in Buffers /\ rest2 \in Buffers /\ bs \in Bitstrings
    BY <1>1, CallTypes DEF LoopOver, IInv, PhaseInv, TypeOK, Scans, ToBitstring
  <2>2. PICK c \in [1 .. iter -> Bitstrings] : IsChain(c, iter) /\ bs1 = Link(c, iter)
    BY <1>1, <2>1 DEF RInv, ChainInv
  <2>3. rest2 = IF iter % 2 = 1 THEN Unused ELSE {}
    BY <1>1, <2>1 DEF RInv, ChainInv
  <2>4. PICK n \in Nat : n = iter + 1
    BY <2>1
  <2>5. n - 1 = iter /\ (n % 2 = 0 <=> iter % 2 = 1) /\ (n % 2 = 1 <=> iter % 2 = 0)
    BY <2>1, <2>4
  <2>6. PICK d \in [1 .. n -> Bitstrings] : d[n] = bs /\ \A j \in 1 .. iter : d[j] = c[j]
    <3> DEFINE e == [j \in 1 .. n |-> IF j = n THEN bs ELSE c[j]]
    <3>1. e \in [1 .. n -> Bitstrings] /\ e[n] = bs /\ \A j \in 1 .. iter : e[j] = c[j]
      BY <2>1, <2>4
    <3> QED
      BY <3>1
  <2>7. \A j \in 0 .. iter : Link(d, j) = Link(c, j)
    <3> SUFFICES ASSUME NEW j \in 0 .. iter PROVE Link(d, j) = Link(c, j)
      OBVIOUS
    <3>1. j # 0 => j \in 1 .. iter
      BY <2>1
    <3>2. j # 0 => d[j] = c[j]
      BY <2>6, <3>1
    <3> QED
      BY <3>2 DEF Link
  <2>8. Link(d, n) = bs \cup rest2
    BY <2>1, <2>3, <2>4, <2>5, <2>6 DEF Link
  <2>9. bs1' = Link(d, n) /\ rest2' = bs1 \ BitIndex /\ iter' = n
    BY <1>1, <1>4, <2>4, <2>8
  <2>10. rest2' = IF n % 2 = 1 THEN Unused ELSE {}
    <3>1. bs1 \ BitIndex = IF iter % 2 = 0 THEN Unused ELSE {}
      BY <2>1, <2>2, LinkParts
    <3> QED
      BY <2>5, <2>9, <3>1
  <2>11. bs \in MajorityNear(bs1)
    BY <1>1, ReadIsMajority
  <2>12. Link(d, n) # Link(d, iter)
    <3>1. bs \cup rest2 \in Buffers
      BY <2>1, Ranges DEF Buffers, Bitstrings
    <3>2. Link(d, iter) = bs1
      BY <2>1, <2>2, <2>7
    <3> QED
      BY <1>4, <2>1, <2>8, <3>1, <3>2, DistanceRange
  <2>13. IsChain(d, n)
    <3> SUFFICES ASSUME NEW j \in 1 .. n
                 PROVE  d[j] \in MajorityNear(Link(d, j - 1)) /\ Link(d, j) # Link(d, j - 1)
      BY DEF IsChain
    <3>1. CASE j = n
      BY <2>1, <2>2, <2>4, <2>5, <2>6, <2>7, <2>11, <2>12, <3>1
    <3>2. CASE j # n
      <4>1. j \in 1 .. iter /\ j \in 0 .. iter /\ j - 1 \in 0 .. iter
        BY <2>1, <2>4, <3>2
      <4> QED
        BY <2>2, <2>6, <2>7, <4>1 DEF IsChain
    <3> QED
      BY <3>1, <3>2
  <2>14. IsChain(d, n)' /\ bs1' = Link(d, n)' /\ Unused' = Unused
    BY <1>1, <2>9, <2>13, SameChain
  <2>15. \E e \in [1 .. iter' -> Bitstrings] : IsChain(e, iter)' /\ bs1' = Link(e, iter)'
    BY <2>9, <2>14
  <2> QED
    BY <1>1, <2>1, <2>9, <2>10, <2>14, <2>15 DEF ChainInv
<1>5. CASE bs_distance(bs1, bs \cup rest2) = 0
  BY <1>1, <1>2, <1>3, <1>5 DEF RInv, ChainInv
<1> QED
  BY <1>2, <1>3, <1>4, <1>5 DEF RInv

LEMMA StutterRInv == IInv /\ RInv /\ UNCHANGED vars => RInv'
<1> SUFFICES ASSUME IInv, RInv, UNCHANGED vars PROVE RInv'
  OBVIOUS
<1>1. UNCHANGED <<address, counter, scanner_type, bitstrings_buf, pc, call, todo, cnt, acc, bs1, rest2, iter>>
  BY DEF vars
<1>2. CopyInv'
  BY <1>1 DEF RInv, CopyInv
<1>3. ChainInv'
  BY <1>1, SameChain DEF RInv, ChainInv
<1>4. Visited' = Visited
  BY <1>1, SameChain DEF Visited
<1>5. SumInv'
  BY <1>1, <1>4, SameChain DEF RInv, SumInv
<1> QED
  BY <1>2, <1>3, <1>5 DEF RInv

LEMMA NextRInv == CopyIsKept /\ IInv /\ RInv /\ [Next]_vars => RInv'
BY BeginRInv, ReturnRInv, ScanRInv, UpdateRowRInv, AddRowRInv, IterateRInv, StutterRInv
   DEF Next, Work

-----------------------------------------------------------------------------
(* Each step is one of the memory's, or leaves it alone.                    *)

\* The two modules share module Counter and the sums.
LEMMA SameArithmetic ==
    /\ Atomic!Locations = Locations /\ Atomic!BitIndex = BitIndex /\ Atomic!Bitstrings = Bitstrings
    /\ Atomic!ZeroRow = ZeroRow /\ Atomic!NoCall = NoCall /\ Atomic!NoAnswer = NoAnswer
    /\ \A x : Atomic!Wrap(x) = Wrap(x)
    /\ \A row : Atomic!ToBitstring(row) = ToBitstring(row)
    /\ \A row, bs, w : Atomic!AddWeighted(row, bs, w) = AddWeighted(row, bs, w)
    /\ \A row, bs : Atomic!SubBitstring(row, bs) = SubBitstring(row, bs)
    /\ \A v, z : Atomic!SignedPower(v, z) = SignedPower(v, z)
    /\ \A x, y : Atomic!Distance(x, y) = bs_distance(x, y) /\ bs_distance(x, y) = bs_distance(y, x)
    /\ \A f, S : Atomic!SumFunctionOnSet(f, S) = SumFunctionOnSet(f, S)
    /\ \A S : Atomic!Cardinality(S) = Cardinality(S)
<1>1. Atomic!Locations = Locations /\ Atomic!BitIndex = BitIndex /\ Atomic!CounterMin = CounterMin
  BY DEF Atomic!Locations, Locations, Atomic!BitIndex, BitIndex, Atomic!CounterMin, CounterMin
<1>2. Atomic!Bitstrings = Bitstrings /\ Atomic!ZeroRow = ZeroRow
  BY <1>1 DEF Atomic!Bitstrings, Bitstrings, Atomic!ZeroRow, ZeroRow
<1>3. Atomic!NoCall = NoCall /\ Atomic!NoAnswer = NoAnswer
  BY DEF Atomic!NoCall, NoCall, Atomic!NoAnswer, NoAnswer
<1>4. \A x : Atomic!Wrap(x) = Wrap(x)
  BY <1>1 DEF Atomic!Wrap, Wrap
<1>5. \A row : Atomic!ToBitstring(row) = ToBitstring(row)
  BY <1>1, <1>2 DEF Atomic!ToBitstring, ToBitstring
<1>6. \A row, bs, w : Atomic!AddWeighted(row, bs, w) = AddWeighted(row, bs, w)
  BY <1>1, <1>4 DEF Atomic!AddWeighted, AddWeighted
<1>7. \A row, bs : Atomic!SubBitstring(row, bs) = SubBitstring(row, bs)
  BY <1>1 DEF Atomic!SubBitstring, SubBitstring
<1>8. \A v, z : Atomic!SignedPower(v, z) = SignedPower(v, z)
  BY <1>4 DEF Atomic!SignedPower, SignedPower
<1>9. \A S : Atomic!Cardinality(S) = Cardinality(S)
  BY DEF Atomic!Cardinality, Atomic!IsFiniteSet, Cardinality, IsFiniteSet
<1>10. \A x, y : Atomic!Distance(x, y) = bs_distance(x, y) /\ bs_distance(x, y) = bs_distance(y, x)
  <2> SUFFICES ASSUME NEW x, NEW y
               PROVE  /\ Atomic!Distance(x, y) = bs_distance(x, y)
                      /\ bs_distance(x, y) = bs_distance(y, x)
    OBVIOUS
  <2>1. SymDiff(x, y) = SymDiff(y, x) /\ Atomic!SymDiff(x, y) = SymDiff(x, y)
    BY DEF SymDiff, Atomic!SymDiff
  <2> QED
    BY <1>9, <2>1 DEF Atomic!Distance, bs_distance
<1>11. \A f, S : Atomic!SumFunctionOnSet(f, S) = SumFunctionOnSet(f, S)
  BY DEF Atomic!SumFunctionOnSet, Atomic!FoldFunctionOnSet, Atomic!MapThenFoldSet,
         SumFunctionOnSet, FoldFunctionOnSet, MapThenFoldSet
<1> QED
  BY <1>1, <1>2, <1>3, <1>4, <1>5, <1>6, <1>7, <1>8, <1>9, <1>10, <1>11

\* Near is what the memory's operations reach.
LEMMA SameNear ==
    \A bs, radius : Atomic!Near(bs, radius) = as_scan(address, bs, radius)
BY SameArithmetic DEF Atomic!Near, as_scan

LEMMA InitRefines == Init => Atomic!Init
<1> SUFFICES ASSUME Init PROVE Atomic!Init
  OBVIOUS
<1>1. /\ address \in [Locations -> Bitstrings] /\ counter = [l \in Locations |-> ZeroRow]
      /\ pc = "idle" /\ call = NoCall /\ answer = NoAnswer
  BY DEF Init
<1>2. ~Committed
  BY <1>1 DEF Committed
<1> QED
  BY <1>1, <1>2, SameArithmetic DEF Atomic!Init

LEMMA BeginRefines == IInv /\ Begin => Atomic!Begin
<1> SUFFICES ASSUME IInv, Begin PROVE Atomic!Begin
  OBVIOUS
<1>1. /\ pc = "idle" /\ pc' = "entered" /\ call' \in Calls
      /\ UNCHANGED <<address, counter, scanner_type, answer>>
  BY DEF Begin
<1>2. ~Committed /\ ~Committed'
  BY <1>1 DEF Committed
<1> QED
  BY <1>1, <1>2 DEF Atomic!Begin

LEMMA InitScannerRefines == IInv /\ InitScanner => Atomic!Initialise
<1> SUFFICES ASSUME IInv, InitScanner PROVE Atomic!Initialise
  OBVIOUS
<1>1. /\ pc = "entered" /\ call.op = "init" /\ pc' = "returned"
      /\ call.fits => scanner_type' = call.scanner /\ answer' = [ret |-> 0]
      /\ ~call.fits => UNCHANGED scanner_type /\ answer' \in {[ret |-> -1], [ret |-> -2]}
      /\ UNCHANGED <<address, counter, call>>
  BY DEF InitScanner
<1>2. ~Committed /\ ~Committed'
  BY <1>1 DEF Committed
<1>3. call.scanner # "none" /\ call.fits \in BOOLEAN
  BY <1>1, CallTypes DEF IInv, PhaseInv
<1>4. (scanner_type # "none")' = ((scanner_type # "none") \/ call.fits)
  BY <1>1, <1>3
<1>5. \E ret \in IF call.fits THEN {0} ELSE {-1, -2} : answer' = [ret |-> ret]
  BY <1>1, <1>3
<1> QED
  BY <1>1, <1>2, <1>4, <1>5 DEF Atomic!Initialise, Atomic!Respond

LEMMA ResetHardLocationRefines == IInv /\ ResetHardLocation => Atomic!Reset
<1> SUFFICES ASSUME IInv, ResetHardLocation PROVE Atomic!Reset
  OBVIOUS
<1>1. /\ pc = "entered" /\ call.op = "reset" /\ pc' = "returned"
      /\ \E bs \in Bitstrings : address' = [address EXCEPT ![call.index] = bs]
      /\ counter' = [counter EXCEPT ![call.index] = ZeroRow]
      /\ answer' = [ret |-> 0]
      /\ UNCHANGED <<scanner_type, call>>
  BY DEF ResetHardLocation
<1>2. ~Committed /\ ~Committed'
  BY <1>1 DEF Committed
<1> QED
  BY <1>1, <1>2, SameArithmetic DEF Atomic!Reset, Atomic!Respond

LEMMA ScanFailsRefines == IInv /\ ScanFails => Atomic!Fail
<1> SUFFICES ASSUME IInv, ScanFails PROVE Atomic!Fail
  OBVIOUS
<1>1. /\ pc = "entered" /\ pc' = "returned" /\ scanner_type = "none" /\ answer' = [ret |-> -1]
      /\ call.op \notin {"reset", "init"}
      /\ ~(call.op = "iter_read" /\ iter >= call.max_iter)
      /\ UNCHANGED <<address, counter, scanner_type, call>>
  BY DEF ScanFails, Scanning, IterationsOver
<1>2. ~Committed /\ ~Committed'
  BY <1>1 DEF Committed
<1>3. call.op = "iter_read" => call.max_iter > 0
  <2>1. call \in Calls /\ iter \in 0 .. (IF call.op = "iter_read" THEN call.max_iter ELSE 0)
    BY <1>1 DEF IInv, PhaseInv, TypeOK
  <2> QED
    BY <1>1, <2>1, CallTypes
<1> QED
  BY <1>1, <1>2, <1>3 DEF Atomic!Fail, Atomic!Respond, Atomic!Scans

LEMMA TakeRefines == IInv /\ Take => Atomic!Take
<1> SUFFICES ASSUME IInv, Take PROVE Atomic!Take
  OBVIOUS
<1>1. /\ pc = "returned" /\ pc' = "idle" /\ call' = NoCall /\ answer' = NoAnswer
      /\ UNCHANGED <<address, counter, scanner_type>>
  BY DEF Take
<1>2. ~Committed /\ ~Committed'
  BY <1>1 DEF Committed
<1> QED
  BY <1>1, <1>2, SameArithmetic DEF Atomic!Take

LEMMA StutterRefines == UNCHANGED vars => UNCHANGED Atomic!vars
<1> SUFFICES ASSUME UNCHANGED vars PROVE UNCHANGED Atomic!vars
  OBVIOUS
<1>1. UNCHANGED <<address, counter, scanner_type, pc, call, todo, cnt, answer>>
  BY DEF vars
<1>2. (Committed' <=> Committed) /\ \A l : Effect(l)' = Effect(l)
  BY <1>1 DEF Committed, Effect
<1> QED
  BY <1>1, <1>2 DEF Atomic!vars

\* A write takes effect when the scan has found its locations.
LEMMA ScanRefines ==
    IInv /\ RInv /\ Scan => Atomic!Write \/ Atomic!WriteSub \/ UNCHANGED Atomic!vars
<1> SUFFICES ASSUME IInv, RInv, Scan
             PROVE  Atomic!Write \/ Atomic!WriteSub \/ UNCHANGED Atomic!vars
  OBVIOUS
<1>1. /\ pc = "entered" /\ pc' = "loop" /\ scanner_type # "none"
      /\ todo' = sdm_scan(bs1, call.radius) /\ cnt' = Cardinality(todo')
      /\ UNCHANGED <<address, counter, scanner_type, call, answer>>
  BY DEF Scan, Scanning
<1>2. ~Committed /\ (Committed' <=> call.op \in WriteOps)
  BY <1>1 DEF Committed
<1>3. CASE call.op \notin WriteOps
  BY <1>1, <1>2, <1>3 DEF Atomic!vars
<1>4. CASE call.op \in WriteOps
  <2>1. bs1 = call.addr
    BY <1>1, <1>4 DEF IInv, PhaseInv, WriteOps, Scans
  <2>2. todo' = Atomic!Near(call.addr, call.radius)
    BY <1>1, <2>1, ScanIsNear, SameNear DEF RInv, Near
  <2>3. \A l \in Locations : Effect(l)' =
            IF call.op = "write"
               THEN AddWeighted(counter[l], call.datum, call.weight[bs_distance(call.addr, address[l])])
               ELSE SubBitstring(counter[l], call.datum)
    BY <1>1 DEF Effect
  <2>4. CASE call.op = "write"
    BY <1>1, <1>2, <1>4, <2>2, <2>3, <2>4, SameArithmetic DEF Atomic!Write, Atomic!Respond
  <2>5. CASE call.op = "write_sub"
    BY <1>1, <1>2, <1>4, <2>2, <2>3, <2>5, SameArithmetic DEF Atomic!WriteSub, Atomic!Respond
  <2> QED
    BY <1>4, <2>4, <2>5 DEF WriteOps
<1> QED
  BY <1>3, <1>4

\* A row that is updated was counted as updated.
LEMMA UpdateRowRefines == IInv /\ UpdateRow => UNCHANGED Atomic!vars
<1> SUFFICES ASSUME IInv, UpdateRow PROVE UNCHANGED Atomic!vars
  OBVIOUS
<1>1. PICK l \in todo :
          /\ call.op \in WriteOps /\ pc = "loop" /\ todo' = todo \ {l}
          /\ counter' = [counter EXCEPT ![l] = Effect(l)]
          /\ UNCHANGED <<address, scanner_type, pc, call, cnt, answer>>
  <2>1. PICK l \in todo :
            /\ call.op \in WriteOps /\ pc = "loop" /\ todo' = todo \ {l}
            /\ counter' = [counter EXCEPT ![l] =
                   IF call.op = "write"
                      THEN AddWeighted(@, call.datum, call.weight[bs_distance(call.addr, address[l])])
                      ELSE SubBitstring(@, call.datum)]
            /\ UNCHANGED <<address, scanner_type, pc, call, cnt, answer>>
    BY DEF UpdateRow, Visiting
  <2>2. l \in Locations /\ counter \in [Locations -> Rows]
    BY DEF IInv, TypeOK
  <2>3. counter' = [counter EXCEPT ![l] = Effect(l)]
    BY <2>1, <2>2 DEF Effect
  <2> QED
    BY <2>1, <2>3
<1>2. Committed /\ Committed'
  BY <1>1 DEF Committed
<1>3. l \in Locations /\ counter \in [Locations -> Rows] /\ todo \subseteq Locations
  BY DEF IInv, TypeOK
<1>4. \A m \in Locations : m # l => Effect(m)' = Effect(m) /\ counter'[m] = counter[m]
  BY <1>1, <1>3 DEF Effect
<1>5. [m \in Locations |-> IF m \in todo THEN Effect(m) ELSE counter[m]]'
         = [m \in Locations |-> IF m \in todo THEN Effect(m) ELSE counter[m]]
  <2>1. counter'[l] = Effect(l)
    BY <1>1, <1>3
  <2>2. \A m \in Locations : (IF m \in todo' THEN Effect(m)' ELSE counter'[m])
                                = IF m \in todo THEN Effect(m) ELSE counter[m]
    BY <1>1, <1>4, <2>1
  <2> QED
    BY <2>2
<1> QED
  BY <1>1, <1>2, <1>5 DEF Atomic!vars

LEMMA AddRowRefines == AddRow => UNCHANGED Atomic!vars
<1> SUFFICES ASSUME AddRow PROVE UNCHANGED Atomic!vars
  OBVIOUS
<1>1. /\ call.op \in ReadOps
      /\ UNCHANGED <<address, counter, scanner_type, pc, call, answer>>
  BY DEF AddRow
<1>2. ~Committed /\ ~Committed'
  BY <1>1 DEF Committed, ReadOps, WriteOps
<1> QED
  BY <1>1, <1>2 DEF Atomic!vars

LEMMA ReturnCountRefines ==
    IInv /\ RInv /\ ReturnCount => Atomic!ReadCounter \/ UNCHANGED Atomic!vars
<1> SUFFICES ASSUME IInv, RInv, ReturnCount PROVE Atomic!ReadCounter \/ UNCHANGED Atomic!vars
  OBVIOUS
<1>1. /\ pc = "loop" /\ todo = {} /\ call.op \in WriteOps \cup {"read_counter"} /\ pc' = "returned"
      /\ answer' = IF call.op = "read_counter" THEN [ret |-> cnt, row |-> acc] ELSE [ret |-> cnt]
      /\ UNCHANGED <<address, counter, scanner_type, call, todo, cnt>>
  BY DEF ReturnCount, LoopOver
<1>2. ~Committed' /\ (Committed <=> call.op \in WriteOps)
  BY <1>1 DEF Committed
<1>3. CASE call.op \in WriteOps
  <2>1. call.op # "read_counter"
    BY <1>3 DEF WriteOps
  <2>2. counter \in [Locations -> Rows]
    BY DEF IInv, TypeOK
  <2>3. [l \in Locations |-> IF l \in todo THEN Effect(l) ELSE counter[l]] = counter
    BY <1>1, <2>2
  <2> QED
    BY <1>1, <1>2, <1>3, <2>1, <2>3 DEF Atomic!vars
<1>4. CASE call.op = "read_counter"
  <2>1. ~Committed
    BY <1>2, <1>4 DEF WriteOps
  <2>2. bs1 = call.addr /\ acc \in Rows
    BY <1>1, <1>4 DEF IInv, TypeOK, PhaseInv, Scans
  <2>3. Near(call.addr) = Atomic!Near(call.addr, call.radius)
    BY SameNear DEF Near
  <2>4. Visited = Near(call.addr) /\ cnt = Cardinality(Near(call.addr))
    <3>1. cnt = Cardinality(sdm_scan(bs1, call.radius))
      BY <1>1 DEF IInv, PhaseInv
    <3> QED
      BY <1>1, <2>2, <3>1, ScanIsNear DEF Visited, RInv
  <2>5. \A b \in BitIndex : acc[b] = Wrap(call.row[b] + SumFunctionOnSet(Held(b), Near(call.addr)))
    BY <1>1, <1>4, <2>4 DEF RInv, SumInv
  <2>6. \A b : Atomic!Total(Atomic!Near(call.addr, call.radius), b)
                  = SumFunctionOnSet(Held(b), Near(call.addr))
    BY <2>1, <2>3, SameArithmetic DEF Atomic!Total, Held
  <2>7. acc = [b \in BitIndex |->
                  Wrap(call.row[b] + Atomic!Total(Atomic!Near(call.addr, call.radius), b))]
    BY <2>2, <2>5, <2>6 DEF Rows
  <2>8. Atomic!ReadCounter
    BY <1>1, <1>2, <1>4, <2>1, <2>3, <2>4, <2>7, SameArithmetic DEF Atomic!ReadCounter, Atomic!Respond, IInv, PhaseInv
  <2> QED
    BY <2>8
<1> QED
  BY <1>1, <1>3, <1>4

\* The majority the memory answers with, when no write is under way.
LEMMA SameMajority ==
    ASSUME ~Committed, NEW bs
    PROVE  Atomic!Majority(bs, call.radius) = MajorityNear(bs)
<1>1. Atomic!Near(bs, call.radius) = Near(bs)
  BY SameNear DEF Near
<1>2. \A b : Atomic!Total(Near(bs), b) = SumFunctionOnSet(Held(b), Near(bs))
  BY SameArithmetic DEF Atomic!Total, Held
<1> QED
  BY <1>1, <1>2, SameArithmetic DEF Atomic!Majority, MajorityNear

LEMMA ReturnBitstringRefines ==
    IInv /\ RInv /\ ReturnBitstring => Atomic!Read \/ Atomic!GenericRead
<1> SUFFICES ASSUME IInv, RInv, ReturnBitstring PROVE Atomic!Read \/ Atomic!GenericRead
  OBVIOUS
<1>1. PICK bs \in ToBitstring(acc) :
          /\ pc = "loop" /\ todo = {} /\ call.op \in {"read", "generic_read"} /\ pc' = "returned"
          /\ answer' = [ret |-> cnt, output |-> bs]
          /\ UNCHANGED <<address, counter, scanner_type, call>>
  BY DEF ReturnBitstring, LoopOver
<1>2. ~Committed /\ ~Committed'
  BY <1>1 DEF Committed, WriteOps
<1>3. bs1 = call.addr /\ scanner_type # "none"
  BY <1>1 DEF IInv, PhaseInv, Scans
<1>4. Near(call.addr) = Atomic!Near(call.addr, call.radius)
  BY SameNear DEF Near
<1>5. Visited = Near(call.addr) /\ cnt = Cardinality(Near(call.addr))
  <2>1. cnt = Cardinality(sdm_scan(bs1, call.radius))
    BY <1>1 DEF IInv, PhaseInv
  <2> QED
    BY <1>1, <1>3, <2>1, ScanIsNear DEF Visited, RInv
<1>6. CASE call.op = "read"
  <2>1. ToBitstring(acc) = Atomic!Majority(call.addr, call.radius)
    BY <1>1, <1>2, <1>3, <1>6, ReadIsMajority, SameMajority DEF LoopOver
  <2> QED
    BY <1>1, <1>2, <1>3, <1>4, <1>5, <1>6, <2>1, SameArithmetic DEF Atomic!Read, Atomic!Respond
<1>7. CASE call.op = "generic_read"
  <2>1. acc \in [BitIndex -> Int]
    BY <1>7 DEF IInv, TypeOK
  <2>2. \A b \in BitIndex : acc[b] = SumFunctionOnSet(Powers(b), Near(call.addr))
    BY <1>1, <1>5, <1>7 DEF RInv, SumInv
  <2>3. acc = [b \in BitIndex |-> SumFunctionOnSet(Powers(b), Near(call.addr))]
    BY <2>1, <2>2
  <2>4. Atomic!PowerMajority(call.addr, call.radius, call.z)
           = ToBitstring([b \in BitIndex |-> SumFunctionOnSet(Powers(b), Near(call.addr))])
    BY <1>2, <1>4, SameArithmetic DEF Atomic!PowerMajority, Powers
  <2> QED
    BY <1>1, <1>2, <1>3, <1>4, <1>5, <1>7, <2>3, <2>4, SameArithmetic DEF Atomic!GenericRead, Atomic!Respond
<1> QED
  BY <1>1, <1>6, <1>7

\* A chain of n reads is what an sdm_iter_read may answer with.
LEMMA ChainAnswers ==
    ASSUME ~Committed, call.addr \in Buffers, call.max_iter \in Nat,
           NEW n \in 0 .. call.max_iter, NEW c \in [1 .. n -> Bitstrings], IsChain(c, n),
           n < call.max_iter => Unused = {} /\ Link(c, n) \in MajorityNear(Link(c, n))
    PROVE  [ret |-> n, output |-> Link(c, n)]
               \in Atomic!IterAnswers(call.addr, call.radius, call.max_iter)
<1> DEFINE U == call.addr \ Atomic!BitIndex
           H(d, j) == IF j = 0 THEN call.addr ELSE IF j % 2 = 0 THEN d[j] \cup U ELSE d[j]
           Starts == Atomic!Bitstrings \cup {r \cup U : r \in Atomic!Bitstrings}
           Reads == UNION {{bs} \X Atomic!Majority(bs, call.radius) : bs \in Starts}
           Chains(m) == {d \in [1 .. m -> Atomic!Bitstrings] :
                            /\ \A j \in 1 .. m : /\ <<H(d, j - 1), d[j]>> \in Reads
                                                 /\ H(d, j) # H(d, j - 1)
                            /\ m < call.max_iter => /\ U = {}
                                                    /\ <<H(d, m), H(d, m)>> \in Reads}
           Answers(m) == {[ret |-> m, output |-> H(d, m)] : d \in Chains(m)}
<1>1. Atomic!IterAnswers(call.addr, call.radius, call.max_iter)
         = UNION {Answers(m) : m \in 0 .. call.max_iter}
  BY DEF Atomic!IterAnswers
<1>2. U = Unused /\ Starts = Bitstrings \cup {r \cup Unused : r \in Bitstrings}
  BY SameArithmetic DEF Unused
<1>3. \A j : H(c, j) = Link(c, j)
  BY <1>2 DEF Link
<1>4. \A x \in Starts : \A y \in MajorityNear(x) : <<x, y>> \in Reads
  <2> SUFFICES ASSUME NEW x \in Starts, NEW y \in MajorityNear(x) PROVE <<x, y>> \in Reads
    OBVIOUS
  <2>1. y \in Atomic!Majority(x, call.radius)
    BY SameMajority
  <2>2. <<x, y>> \in {x} \X Atomic!Majority(x, call.radius)
    BY <2>1
  <2> QED
    BY <2>2
<1> HIDE DEF U, H, Starts, Reads
<1>5. \A j \in 0 .. n : Link(c, j) \in Starts
  BY <1>2, LinkParts
<1>6. c \in Chains(n)
  <2>1. \A j \in 1 .. n : <<H(c, j - 1), c[j]>> \in Reads /\ H(c, j) # H(c, j - 1)
    <3> SUFFICES ASSUME NEW j \in 1 .. n
                 PROVE  <<H(c, j - 1), c[j]>> \in Reads /\ H(c, j) # H(c, j - 1)
      OBVIOUS
    <3>1. j - 1 \in 0 .. n
      OBVIOUS
    <3> QED
      BY <1>3, <1>4, <1>5, <3>1 DEF IsChain
  <2>2. n < call.max_iter => U = {} /\ <<H(c, n), H(c, n)>> \in Reads
    BY <1>2, <1>3, <1>4, <1>5
  <2>3. c \in [1 .. n -> Atomic!Bitstrings]
    BY SameArithmetic
  <2> QED
    BY <2>1, <2>2, <2>3
<1> HIDE DEF Chains
<1>7. [ret |-> n, output |-> H(c, n)] \in Answers(n)
  BY <1>6
<1> HIDE DEF Answers
<1> QED
  BY <1>1, <1>3, <1>7

LEMMA IterEndRefines == IInv /\ RInv /\ IterEnd => Atomic!IterRead
<1> SUFFICES ASSUME IInv, RInv, IterEnd PROVE Atomic!IterRead
  OBVIOUS
<1>1. /\ pc = "entered" /\ call.op = "iter_read" /\ iter >= call.max_iter /\ pc' = "returned"
      /\ answer' = [ret |-> iter, output |-> bs1]
      /\ UNCHANGED <<address, counter, scanner_type, call>>
  BY DEF IterEnd, IterationsOver
<1>2. ~Committed /\ ~Committed'
  BY <1>1 DEF Committed
<1>3. call \in Calls /\ call.addr \in Buffers /\ call.max_iter \in Nat /\ iter = call.max_iter
  <2>1. call \in Calls /\ iter \in 0 .. call.max_iter
    BY <1>1 DEF IInv, PhaseInv, TypeOK
  <2> QED
    BY <1>1, <2>1, CallTypes DEF Scans
<1>4. PICK c \in [1 .. iter -> Bitstrings] : IsChain(c, iter) /\ bs1 = Link(c, iter)
  BY <1>1 DEF RInv, ChainInv
<1>5. answer' \in Atomic!IterAnswers(call.addr, call.radius, call.max_iter)
  BY <1>1, <1>2, <1>3, <1>4, ChainAnswers
<1>6. scanner_type # "none" \/ call.max_iter = 0
  BY <1>1, <1>3 DEF RInv, ChainInv
<1> QED
  BY <1>1, <1>2, <1>5, <1>6 DEF Atomic!IterRead, Atomic!Respond

\* The read that ends an sdm_iter_read found what it started from.
LEMMA IterateRefines ==
    IInv /\ RInv /\ Iterate => Atomic!IterRead \/ UNCHANGED Atomic!vars
<1> SUFFICES ASSUME IInv, RInv, Iterate PROVE Atomic!IterRead \/ UNCHANGED Atomic!vars
  OBVIOUS
<1>1. PICK bs \in ToBitstring(acc) :
          /\ LoopOver /\ pc = "loop" /\ call.op = "iter_read"
          /\ IF bs_distance(bs1, bs \cup rest2) = 0
                THEN pc' = "returned" /\ answer' = [ret |-> iter, output |-> bs1]
                ELSE pc' = "entered" /\ UNCHANGED answer
          /\ UNCHANGED <<address, counter, scanner_type, call>>
  BY DEF Iterate, LoopOver
<1>2. ~Committed /\ ~Committed'
  BY <1>1 DEF Committed, WriteOps
<1>3. CASE bs_distance(bs1, bs \cup rest2) # 0
  BY <1>1, <1>2, <1>3 DEF Atomic!vars
<1>4. CASE bs_distance(bs1, bs \cup rest2) = 0
  <2>1. /\ call.addr \in Buffers /\ call.max_iter \in Nat /\ iter \in Nat /\ iter < call.max_iter
        /\ scanner_type # "none" /\ bs1 \in Buffers /\ rest2 \in Buffers /\ bs \in Bitstrings
    BY <1>1, CallTypes DEF IInv, PhaseInv, TypeOK, Scans, ToBitstring
  <2>2. bs1 = bs \cup rest2
    <3>1. bs \cup rest2 \in Buffers
      BY <2>1, Ranges DEF Buffers, Bitstrings
    <3> QED
      BY <1>4, <2>1, <3>1, DistanceRange
  <2>3. PICK c \in [1 .. iter -> Bitstrings] : IsChain(c, iter) /\ bs1 = Link(c, iter)
    BY <1>1 DEF RInv, ChainInv
  <2>4. rest2 = IF iter % 2 = 1 THEN Unused ELSE {}
    BY <1>1 DEF RInv, ChainInv
  <2>5. bs1 \ BitIndex = IF iter % 2 = 0 THEN Unused ELSE {}
    BY <2>1, <2>3, LinkParts
  <2>6. bs1 \ BitIndex = rest2
    BY <2>1, <2>2 DEF IInv, TypeOK, Bitstrings
  <2>7. Unused = {} /\ rest2 = {} /\ bs1 = bs
    <3>1. iter % 2 = 0 \/ iter % 2 = 1
      BY <2>1
    <3> QED
      BY <2>2, <2>4, <2>5, <2>6, <3>1
  <2>8. bs1 \in MajorityNear(bs1)
    BY <1>1, <2>7, ReadIsMajority
  <2>9. answer' \in Atomic!IterAnswers(call.addr, call.radius, call.max_iter)
    <3>1. iter \in 0 .. call.max_iter
      BY <2>1
    <3>2. answer' = [ret |-> iter, output |-> Link(c, iter)]
      BY <1>1, <1>4, <2>3
    <3> QED
      BY <1>2, <2>1, <2>3, <2>7, <2>8, <3>1, <3>2, ChainAnswers
  <2>10. Atomic!IterRead
    BY <1>1, <1>2, <1>4, <2>1, <2>9 DEF Atomic!IterRead, Atomic!Respond
  <2> QED
    BY <2>10
<1> QED
  BY <1>3, <1>4

LEMMA NextRefines == IInv /\ RInv /\ [Next]_vars => [Atomic!Next]_Atomic!vars
<1> SUFFICES ASSUME IInv, RInv, [Next]_vars PROVE Atomic!Next \/ UNCHANGED Atomic!vars
  OBVIOUS
<1>1. CASE UNCHANGED vars
  BY <1>1, StutterRefines
<1>2. CASE Begin
  BY <1>2, BeginRefines DEF Atomic!Next
<1>3. CASE InitScanner
  BY <1>3, InitScannerRefines DEF Atomic!Next
<1>4. CASE ResetHardLocation
  BY <1>4, ResetHardLocationRefines DEF Atomic!Next
<1>5. CASE IterEnd
  BY <1>5, IterEndRefines DEF Atomic!Next
<1>6. CASE ScanFails
  BY <1>6, ScanFailsRefines DEF Atomic!Next
<1>7. CASE Scan
  BY <1>7, ScanRefines DEF Atomic!Next
<1>8. CASE UpdateRow
  BY <1>8, UpdateRowRefines
<1>9. CASE AddRow
  BY <1>9, AddRowRefines
<1>10. CASE ReturnCount
  BY <1>10, ReturnCountRefines DEF Atomic!Next
<1>11. CASE ReturnBitstring
  BY <1>11, ReturnBitstringRefines DEF Atomic!Next
<1>12. CASE Iterate
  BY <1>12, IterateRefines DEF Atomic!Next
<1>13. CASE Take
  BY <1>13, TakeRefines DEF Atomic!Next
<1> QED
  BY <1>1, <1>2, <1>3, <1>4, <1>5, <1>6, <1>7, <1>8, <1>9, <1>10, <1>11, <1>12, <1>13
     DEF Next, Work

\* Unless a location is reset under an OpenCL scanner, the loops of operations.c
\* implement operations that take effect at once: a write reaches exactly the
\* locations within the radius, a read answers with the majority of exactly those,
\* an sdm_iter_read is a chain of such reads up to its first fixed point.
THEOREM SDMemoryImplementsMemory ==
    ASSUME CopyIsKept
    PROVE  Spec => ImplementsMemory
<1>1. Init => RInv
  BY InitRInv
<1>2. IInv /\ RInv /\ [Next]_vars => RInv'
  BY NextRInv
<1> QED
  BY <1>1, <1>2, Invariance, InitRefines, NextRefines, PTL DEF Spec, ImplementsMemory, Atomic!Spec
==============================================================================
