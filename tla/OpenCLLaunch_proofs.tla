------------------------- MODULE OpenCLLaunch_proofs -------------------------
(***************************************************************************)
(* For any length and number of addresses, any devices and any of the      *)
(* kernels, a scan that the devices do not refuse visits every location,   *)
(* and on one device each exactly once.                                    *)
(***************************************************************************)
EXTENDS OpenCLLaunch, FiniteSetTheorems, TLAPS

\* Devices that have nothing to do any more: they have executed the kernel, or
\* its launch was refused.
Done == {d \in Devices : d < launched /\ queue[d] = <<>>}

InScan == pc \in {"launching", "returned", "aborted"}

\* The locations single_scan0 visits on a device: one for each work item.
Ids(d) == offset(d) .. offset(d) + worksize(d) - 1

ShapeOK ==
    /\ bs_len \in Lengths
    /\ sample \in Samples
    /\ max_compute_units \in ComputeUnits
    /\ devices_count \in DeviceCounts
    /\ asserts \in BOOLEAN

\* Devices do what they are told in order, and what is before their launch is
\* at most the clear.
QueueInv ==
    /\ Idle => \A d \in Devices : queue[d] = <<>>
    /\ pc = "returned" => launched = devices_count
    /\ InScan => opts # NoOpts
    /\ InScan => \A d \in Devices : d >= launched => queue[d] \in {<<>>, <<"clear">>}

\* Nothing is counted twice by one device: what it has not done since the
\* counter was cleared is not in the counter.
BoundInv ==
    InScan =>
        /\ \A l \in Locations : visits[l] <= Cardinality(Done)
        /\ \/ \A d \in Devices : queue[d] # <<>> /\ Head(queue[d]) = "clear"
           \/ counter <= Cardinality(Done) * sample

\* A refused launch is remembered, and a device that was not refused has visited
\* its locations once it has nothing to do.
VisitInv ==
    InScan =>
        /\ refused => \E d \in Devices : Refuses(d)
        /\ ~refused => \A d \in Devices : d < launched =>
               /\ ~Refuses(d) /\ queue[d] # <<"clear">>
               /\ queue[d] = <<>> => \A l \in Locations : visits[l] >= Cardinality(Visitors(d, l))

\* On one device the counter is that of this scan.
CounterInv ==
    InScan /\ ~refused /\ devices_count = 1 =>
        /\ launched = 1 /\ queue[0] = <<>> => counter = sample
        /\ queue[0] = <<"run">> \/ (launched = 0 /\ queue[0] = <<>>) => counter = 0

\* single_scan0 visits a location on one device only.
OnceInv ==
    InScan /\ opts.kernel_name = "single_scan0" =>
        \A l \in Locations :
            /\ visits[l] <= 1
            /\ \A d \in Devices : l \in Ids(d) /\ d \notin Done => visits[l] = 0

IInv ==
    /\ TypeOK
    /\ ShapeOK
    /\ QueueInv
    /\ BoundInv
    /\ VisitInv
    /\ CounterInv
    /\ OnceInv

-----------------------------------------------------------------------------
(* Work sizes.                                                              *)

LEMMA ShapeTypes ==
    ASSUME ShapeOK
    PROVE  /\ bs_len \in 1 .. 2 ^ 30 /\ sample \in Nat \ {0}
           /\ max_compute_units \in Nat \ {0} /\ devices_count \in Nat \ {0}
           /\ asserts \in BOOLEAN
BY LengthsAssumption, SamplesAssumption, ComputeUnitsAssumption, DeviceCountsAssumption
   DEF ShapeOK

LEMMA PowersOfTwo == \A k \in 0 .. 30 : 2 ^ k \in Nat \ {0}
<1>1. \A k \in 0 .. 30 :
          \/ k = 0 \/ k = 1 \/ k = 2 \/ k = 3 \/ k = 4 \/ k = 5 \/ k = 6 \/ k = 7 \/ k = 8 \/ k = 9
          \/ k = 10 \/ k = 11 \/ k = 12 \/ k = 13 \/ k = 14 \/ k = 15 \/ k = 16 \/ k = 17 \/ k = 18
          \/ k = 19 \/ k = 20 \/ k = 21 \/ k = 22 \/ k = 23 \/ k = 24 \/ k = 25 \/ k = 26 \/ k = 27
          \/ k = 28 \/ k = 29 \/ k = 30
  OBVIOUS
<1>2. /\ 2 ^ 0 \in Nat \ {0} /\ 2 ^ 1 \in Nat \ {0} /\ 2 ^ 2 \in Nat \ {0} /\ 2 ^ 3 \in Nat \ {0}
      /\ 2 ^ 4 \in Nat \ {0} /\ 2 ^ 5 \in Nat \ {0} /\ 2 ^ 6 \in Nat \ {0} /\ 2 ^ 7 \in Nat \ {0}
      /\ 2 ^ 8 \in Nat \ {0} /\ 2 ^ 9 \in Nat \ {0} /\ 2 ^ 10 \in Nat \ {0} /\ 2 ^ 11 \in Nat \ {0}
      /\ 2 ^ 12 \in Nat \ {0} /\ 2 ^ 13 \in Nat \ {0} /\ 2 ^ 14 \in Nat \ {0} /\ 2 ^ 15 \in Nat \ {0}
      /\ 2 ^ 16 \in Nat \ {0} /\ 2 ^ 17 \in Nat \ {0} /\ 2 ^ 18 \in Nat \ {0} /\ 2 ^ 19 \in Nat \ {0}
      /\ 2 ^ 20 \in Nat \ {0} /\ 2 ^ 21 \in Nat \ {0} /\ 2 ^ 22 \in Nat \ {0} /\ 2 ^ 23 \in Nat \ {0}
      /\ 2 ^ 24 \in Nat \ {0} /\ 2 ^ 25 \in Nat \ {0} /\ 2 ^ 26 \in Nat \ {0} /\ 2 ^ 27 \in Nat \ {0}
      /\ 2 ^ 28 \in Nat \ {0} /\ 2 ^ 29 \in Nat \ {0} /\ 2 ^ 30 \in Nat \ {0}
  OBVIOUS
<1> QED
  BY <1>1, <1>2, Zenon

LEMMA PowersFromFour == \A k \in 4 .. 30 : 2 ^ k \in Nat /\ 2 ^ k >= 16
<1>1. \A k \in 4 .. 30 :
          \/ k = 4 \/ k = 5 \/ k = 6 \/ k = 7 \/ k = 8 \/ k = 9 \/ k = 10 \/ k = 11 \/ k = 12
          \/ k = 13 \/ k = 14 \/ k = 15 \/ k = 16 \/ k = 17 \/ k = 18 \/ k = 19 \/ k = 20 \/ k = 21
          \/ k = 22 \/ k = 23 \/ k = 24 \/ k = 25 \/ k = 26 \/ k = 27 \/ k = 28 \/ k = 29 \/ k = 30
  OBVIOUS
<1>2. /\ 2 ^ 4 >= 16 /\ 2 ^ 5 >= 16 /\ 2 ^ 6 >= 16 /\ 2 ^ 7 >= 16 /\ 2 ^ 8 >= 16 /\ 2 ^ 9 >= 16
      /\ 2 ^ 10 >= 16 /\ 2 ^ 11 >= 16 /\ 2 ^ 12 >= 16 /\ 2 ^ 13 >= 16 /\ 2 ^ 14 >= 16
      /\ 2 ^ 15 >= 16 /\ 2 ^ 16 >= 16 /\ 2 ^ 17 >= 16 /\ 2 ^ 18 >= 16 /\ 2 ^ 19 >= 16
      /\ 2 ^ 20 >= 16 /\ 2 ^ 21 >= 16 /\ 2 ^ 22 >= 16 /\ 2 ^ 23 >= 16 /\ 2 ^ 24 >= 16
      /\ 2 ^ 25 >= 16 /\ 2 ^ 26 >= 16 /\ 2 ^ 27 >= 16 /\ 2 ^ 28 >= 16 /\ 2 ^ 29 >= 16
      /\ 2 ^ 30 >= 16
  OBVIOUS
<1>3. \A k \in 4 .. 30 : 2 ^ k >= 16
  BY <1>1, <1>2, Zenon
<1>4. \A k \in 4 .. 30 : k \in 0 .. 30
  OBVIOUS
<1> QED
  BY <1>3, <1>4, PowersOfTwo

\* The loop of as_scanner_opencl_init finds the power of 2 it looks for.
LEMMA power2IsPower ==
    ASSUME ShapeOK
    PROVE  \E k \in 0 .. 30 :
               power2 = 2 ^ k /\ bs_len <= 2 ^ k /\ \A j \in 0 .. k - 1 : 2 ^ j < bs_len
<1> DEFINE P == {k \in 0 .. 30 : bs_len <= 2 ^ k}
           IsLeast(k) == bs_len <= 2 ^ k /\ \A j \in 0 .. k - 1 : 2 ^ j < bs_len
<1>1. P \subseteq Nat /\ P # {}
  <2>1. 30 \in P
    BY ShapeTypes
  <2>2. P \subseteq 0 .. 30 /\ 0 .. 30 \subseteq Nat
    OBVIOUS
  <2> HIDE DEF P
  <2> QED
    BY <2>1, <2>2
<1>2. PICK k \in P : \A j \in P : ~ (<<j, k>> \in OpToRel(<, Nat))
  <2> HIDE DEF P
  <2> QED
    BY <1>1, WFMin, NatLessThanWellFounded, Zenon
<1>3. k \in 0 .. 30 /\ IsLeast(k)
  <2>1. ASSUME NEW j \in 0 .. k - 1
        PROVE  2 ^ j < bs_len
    <3>1. j \in 0 .. 30 /\ j \in Nat /\ k \in Nat /\ j < k
      OBVIOUS
    <3>2. j \notin P
      BY <1>1, <1>2, <3>1 DEF OpToRel
    <3> QED
      BY <3>1, <3>2, PowersOfTwo, ShapeTypes
  <2> QED
    BY <2>1
<1>4. power2 = 2 ^ (CHOOSE i \in 0 .. 30 : IsLeast(i))
  BY DEF power2
<1> HIDE DEF IsLeast
<1>5. (CHOOSE i \in 0 .. 30 : IsLeast(i)) \in 0 .. 30 /\ IsLeast(CHOOSE i \in 0 .. 30 : IsLeast(i))
  BY <1>3
<1> QED
  BY <1>4, <1>5 DEF IsLeast

\* The power of 2 fits in a warp of at least two items where the words do.
LEMMA power2InWarp ==
    ASSUME ShapeOK
    PROVE  power2 \in 2 .. WarpSize <=> bs_len \in 2 .. WarpSize
<1>1. bs_len \in Nat \ {0}
  <2>1. 2 ^ 30 \in Nat
    BY PowersOfTwo
  <2> QED
    BY <2>1, ShapeTypes
<1>2. PICK k \in 0 .. 30 :
          power2 = 2 ^ k /\ bs_len <= 2 ^ k /\ \A j \in 0 .. k - 1 : 2 ^ j < bs_len
  BY power2IsPower
<1>3. 2 ^ k \in Nat \ {0} /\ 2 ^ 0 = 1 /\ 2 ^ 5 = 32
  <2>1. 2 ^ 0 = 1 /\ 2 ^ 5 = 32
    OBVIOUS
  <2> QED
    BY <2>1, PowersOfTwo, Zenon
<1>4. CASE k = 0
  BY <1>1, <1>2, <1>3, <1>4 DEF WarpSize
<1>5. CASE k \in 1 .. 5
  <2>1. bs_len > 1
    <3>1. 0 \in 0 .. k - 1
      BY <1>5
    <3> QED
      BY <1>1, <1>2, <1>3, <3>1
  <2>2. 2 ^ k \in 2 .. 32
    <3>1. k = 1 \/ k = 2 \/ k = 3 \/ k = 4 \/ k = 5
      BY <1>5
    <3>2. 2 ^ 1 = 2 /\ 2 ^ 2 = 4 /\ 2 ^ 3 = 8 /\ 2 ^ 4 = 16 /\ 2 ^ 5 = 32
      OBVIOUS
    <3>3. 2 ^ k = 2 \/ 2 ^ k = 4 \/ 2 ^ k = 8 \/ 2 ^ k = 16 \/ 2 ^ k = 32
      BY <3>1, <3>2, Zenon
    <3> QED
      BY <3>3
  <2> QED
    BY <1>1, <1>2, <1>3, <2>1, <2>2 DEF WarpSize
<1>6. CASE k > 5
  <2>1. 5 \in 0 .. k - 1
    BY <1>6
  <2>2. 32 < bs_len
    BY <1>2, <1>3, <2>1
  <2> QED
    BY <1>1, <1>2, <1>3, <2>2 DEF WarpSize
<1> QED
  BY <1>4, <1>5, <1>6

LEMMA MultipleOf ==
    ASSUME NEW q \in Nat, NEW k \in Nat \ {0}
    PROVE  q * k \in Nat /\ (q * k) % k = 0 /\ (q * k = 0 <=> q = 0)
OBVIOUS

LEMMA multKProperties ==
    ASSUME NEW value \in Nat, NEW K \in Nat \ {0}
    PROVE  \E q \in Nat : multK(value, K) = q * K /\ value <= q * K /\ (q = 0 => value = 0)
<1> DEFINE d == value \div K
           r == value % K
           q == d + IF r # 0 THEN 1 ELSE 0
<1>1. d \in Nat /\ r \in 0 .. K - 1 /\ value = K * d + r
  OBVIOUS
<1>2. multK(value, K) = q * K
  BY DEF multK
<1> HIDE DEF d, r
<1>3. (d + 1) * K = K * d + K /\ d * K = K * d
  BY <1>1
<1>4. q \in Nat /\ value <= q * K /\ (q = 0 => value = 0)
  BY <1>1, <1>3
<1> QED
  BY <1>2, <1>4

\* A multiple of 16 has to be halved four times before it can be odd: up to 512 words
\* fit in a warp by then.
LEMMA SmallCarriesInWarp ==
    ASSUME ShapeOK, bs_len <= 16 * WarpSize
    PROVE  CarriesInWarp(multK(bs_len, 16))
<1>1. bs_len \in Nat \ {0}
  <2>1. 2 ^ 30 \in Nat
    BY PowersOfTwo
  <2> QED
    BY <2>1, ShapeTypes
<1>2. PICK q \in 0 .. 32 : multK(bs_len, 16) = 16 * q
  <2> DEFINE q == bs_len \div 16 + IF bs_len % 16 # 0 THEN 1 ELSE 0
  <2>1. multK(bs_len, 16) = 16 * q
    BY <1>1 DEF multK
  <2>2. q \in 0 .. 32
    BY <1>1 DEF WarpSize
  <2> QED
    BY <2>1, <2>2
<1>3. ASSUME NEW k \in 0 .. 30, (16 * q) \div 2 ^ k > 32
      PROVE  ((16 * q) \div 2 ^ k) % 2 = 0
  <2>1. CASE k \in 0 .. 3
    <3>1. k = 0 \/ k = 1 \/ k = 2 \/ k = 3
      BY <2>1
    <3>2. 2 ^ 0 = 1 /\ 2 ^ 1 = 2 /\ 2 ^ 2 = 4 /\ 2 ^ 3 = 8
      OBVIOUS
    <3>3. /\ (16 * q) \div 1 = 16 * q /\ (16 * q) \div 2 = 8 * q
          /\ (16 * q) \div 4 = 4 * q /\ (16 * q) \div 8 = 2 * q
      OBVIOUS
    <3>4. 2 ^ k = 1 \/ 2 ^ k = 2 \/ 2 ^ k = 4 \/ 2 ^ k = 8
      BY <3>1, <3>2, Zenon
    <3>5. \E m \in {16 * q, 8 * q, 4 * q, 2 * q} : (16 * q) \div 2 ^ k = m
      BY <3>3, <3>4, Zenon
    <3>6. \A m \in {16 * q, 8 * q, 4 * q, 2 * q} : m % 2 = 0
      OBVIOUS
    <3> QED
      BY <3>5, <3>6, Zenon
  <2>2. CASE k \in 4 .. 30
    <3>1. 2 ^ k \in Nat /\ 2 ^ k >= 16
      BY <2>2, PowersFromFour
    <3>2. 16 * q <= 2 ^ k * 32
      BY <3>1
    <3> DEFINE b == 2 ^ k
    <3>3. b \in Nat \ {0} /\ 16 * q <= b * 32
      BY <3>1, <3>2
    <3> HIDE DEF b
    <3>4. (16 * q) \div b <= 32
      BY <3>3
    <3>5. (16 * q) \div b > 32
      BY <1>3 DEF b
    <3>6. (16 * q) \div b \in Int
      BY <3>3
    <3> QED
      BY <3>4, <3>5, <3>6
  <2> QED
    BY <2>1, <2>2
<1> QED
  BY <1>2, <1>3 DEF CarriesInWarp, WarpSize

\* There are work items exactly from 20 locations on.
LEMMA SomeItems ==
    ASSUME ShapeOK, NEW L \in Nat \ {0}
    PROVE  global(L) > 0 <=> sample >= 20
<1>1. sample \in Nat \ {0} /\ max_compute_units \in Nat \ {0}
  BY ShapeTypes
<1> DEFINE K == 2 * max_compute_units * L
           t == sample \div 20
<1>2. K \in Nat \ {0} /\ t \in Nat /\ (t = 0 <=> sample < 20)
  <2>1. 2 * max_compute_units \in Nat \ {0}
    BY <1>1
  <2>2. K \in Nat \ {0}
    BY <2>1, MultipleOf
  <2> QED
    BY <1>1, <2>2
<1>3. global(L) = multK(t, K)
  BY DEF global
<1> HIDE DEF K, t
<1>4. PICK q \in Nat : multK(t, K) = q * K /\ t <= q * K /\ (q = 0 => t = 0)
  BY <1>2, multKProperties
<1>5. t = 0 => multK(t, K) = 0
  BY <1>2 DEF multK
<1>6. q * K \in Nat /\ (q * K = 0 <=> q = 0)
  BY <1>2, MultipleOf
<1> QED
  BY <1>1, <1>2, <1>3, <1>4, <1>5, <1>6

Halving == {"single_scan3", "single_scan5", "single_scan5_unroll"}
Others == {"single_scan1", "single_scan2", "single_scan4", "single_scan6"} \cup Halving

\* Every way of setting the options gives whole groups of enough work items; only
\* for fewer than 20 locations there are none.
LEMMA OptionsFit ==
    ASSUME ShapeOK, NEW o \in KernelOptions
    PROVE  /\ o.global_worksize \in Nat /\ o # NoOpts
           /\ \/ o.kernel_name = "single_scan0" /\ o.local_worksize = 0 /\ o.global_worksize = sample
              \/ /\ o.kernel_name \in Others
                 /\ o.local_worksize \in Nat \ {0} /\ o.local_worksize >= bs_len
                 /\ o.global_worksize % o.local_worksize = 0
                 /\ o.global_worksize = 0 => sample < 20
                 /\ o.kernel_name \in Halving => \E k \in 0 .. 30 : o.local_worksize = 2 ^ k
<1>1. bs_len \in Nat \ {0} /\ sample \in Nat \ {0} /\ max_compute_units \in Nat \ {0}
  <2>1. 2 ^ 30 \in Nat
    BY PowersOfTwo
  <2> QED
    BY <2>1, ShapeTypes
<1>2. ASSUME NEW L \in Nat \ {0}
      PROVE  global(L) \in Nat /\ global(L) % L = 0 /\ (global(L) = 0 => sample < 20)
  <2> DEFINE K == 2 * max_compute_units * L
  <2>1. K \in Nat \ {0} /\ sample \div 20 \in Nat /\ (sample \div 20 = 0 => sample < 20)
    <3>1. 2 * max_compute_units \in Nat \ {0}
      BY <1>1
    <3>2. K \in Nat \ {0}
      BY <3>1, MultipleOf
    <3> QED
      BY <1>1, <3>2
  <2>2. global(L) = multK(sample \div 20, K)
    BY DEF global
  <2> HIDE DEF K
  <2>3. PICK q \in Nat : global(L) = q * K /\ (q = 0 => sample \div 20 = 0)
    <3>1. PICK q \in Nat : multK(sample \div 20, K) = q * K /\ (q = 0 => sample \div 20 = 0)
      BY <2>1, multKProperties, Zenon
    <3> QED
      BY <2>2, <3>1, Zenon
  <2>4. q * K = (q * (2 * max_compute_units)) * L /\ q * (2 * max_compute_units) \in Nat
    BY <1>1 DEF K
  <2>5. global(L) \in Nat /\ global(L) % L = 0 /\ (global(L) = 0 => q = 0)
    <3>1. global(L) \in Nat /\ (global(L) = 0 => q = 0)
      BY <2>1, <2>3, MultipleOf
    <3>2. global(L) % L = 0
      BY <2>3, <2>4, MultipleOf
    <3> QED
      BY <3>1, <3>2
  <2> QED
    BY <2>1, <2>3, <2>5
<1>3. CASE o = Options("single_scan0", 0, sample)
  BY <1>1, <1>3 DEF Options, NoOpts
<1>4. ASSUME NEW k \in {"single_scan1", "single_scan2", "single_scan4", "single_scan6"},
             o = Options(k, multK(bs_len, 16), global(multK(bs_len, 16)))
      PROVE  /\ o.kernel_name = k /\ o.local_worksize \in Nat \ {0} /\ o.local_worksize >= bs_len
             /\ o.global_worksize = global(o.local_worksize)
  <2>1. PICK q \in Nat : multK(bs_len, 16) = q * 16 /\ bs_len <= q * 16
    <3>1. bs_len \in Nat /\ 16 \in Nat \ {0}
      BY <1>1
    <3> QED
      BY <3>1, multKProperties, Zenon
  <2>2. multK(bs_len, 16) \in Nat \ {0} /\ multK(bs_len, 16) >= bs_len
    BY <1>1, <2>1
  <2> QED
    BY <1>4, <2>2 DEF Options
<1>5. ASSUME NEW k \in Halving, o = Options(k, power2, global(power2))
      PROVE  /\ o.kernel_name = k /\ o.local_worksize \in Nat \ {0} /\ o.local_worksize >= bs_len
             /\ o.global_worksize = global(o.local_worksize)
             /\ \E j \in 0 .. 30 : o.local_worksize = 2 ^ j
  <2>1. PICK j \in 0 .. 30 : power2 = 2 ^ j /\ bs_len <= 2 ^ j
    BY power2IsPower
  <2>2. 2 ^ j \in Nat \ {0}
    BY PowersOfTwo
  <2> QED
    BY <1>1, <1>5, <2>1, <2>2 DEF Options
<1>6. \/ o = Options("single_scan0", 0, sample)
      \/ \E k \in {"single_scan1", "single_scan2", "single_scan4", "single_scan6"} :
             o = Options(k, multK(bs_len, 16), global(multK(bs_len, 16)))
      \/ \E k \in Halving : o = Options(k, power2, global(power2))
  BY DEF KernelOptions, Halving
<1>7. CASE \E k \in {"single_scan1", "single_scan2", "single_scan4", "single_scan6"} :
             o = Options(k, multK(bs_len, 16), global(multK(bs_len, 16)))
  <2>1. /\ o.kernel_name \in {"single_scan1", "single_scan2", "single_scan4", "single_scan6"}
        /\ o.local_worksize \in Nat \ {0} /\ o.local_worksize >= bs_len
        /\ o.global_worksize = global(o.local_worksize)
    BY <1>4, <1>7
  <2> QED
    BY <1>2, <2>1 DEF Others, Halving, NoOpts
<1>8. CASE \E k \in Halving : o = Options(k, power2, global(power2))
  <2>1. /\ o.kernel_name \in Halving
        /\ o.local_worksize \in Nat \ {0} /\ o.local_worksize >= bs_len
        /\ o.global_worksize = global(o.local_worksize)
    BY <1>5, <1>8
  <2>2. \E j \in 0 .. 30 : o.local_worksize = 2 ^ j
    BY <1>5, <1>8
  <2>3. o.kernel_name \in Others /\ o # NoOpts
    BY <2>1 DEF Others, Halving, NoOpts
  <2>4. /\ o.global_worksize \in Nat /\ o.global_worksize % o.local_worksize = 0
        /\ o.global_worksize = 0 => sample < 20
    BY <1>2, <2>1
  <2> QED
    BY <2>1, <2>2, <2>3, <2>4, Zenon
<1> QED
  BY <1>3, <1>6, <1>7, <1>8

-----------------------------------------------------------------------------
(* The division among the devices.                                          *)

LEMMA QtyExtra ==
    ASSUME ShapeOK, opts \in KernelOptions
    PROVE  /\ opts.global_worksize \in Nat /\ devices_count \in Nat \ {0}
           /\ qty \in Nat /\ extra \in 0 .. devices_count - 1
           /\ opts.global_worksize = devices_count * qty + extra
<1>1. opts.global_worksize \in Nat /\ devices_count \in Nat \ {0}
  BY ShapeTypes, OptionsFit
<1> DEFINE w == opts.global_worksize  n == devices_count
<1>2. w \in Nat /\ n \in Nat \ {0} /\ qty = w \div n /\ extra = w % n
  BY <1>1 DEF qty, extra
<1> HIDE DEF w, n
<1>3. qty \in Nat /\ extra \in 0 .. n - 1 /\ w = n * qty + extra
  BY <1>2, SMT
<1> QED
  BY <1>1, <1>3 DEF w, n

LEMMA ProductMonotone ==
    ASSUME NEW a \in Nat, NEW b \in Nat, NEW c \in Nat, a <= b
    PROVE  a * c \in Nat /\ b * c \in Nat /\ a * c <= b * c
<1>1. PICK d \in Nat : b = a + d
  BY SMT
<1>2. b * c = a * c + d * c
  BY <1>1, SMT
<1>3. a * c \in Nat /\ d * c \in Nat
  BY <1>1, SMT
<1> QED
  BY <1>2, <1>3, SMT

\* The ranges of the devices follow one another.
LEMMA RangesFollow ==
    ASSUME ShapeOK, opts \in KernelOptions, NEW d \in Nat
    PROVE  /\ offset(d) \in Nat /\ worksize(d) \in Nat
           /\ \A c \in Nat : d < c => offset(d) + worksize(d) <= offset(c)
<1> DEFINE e == extra  q == qty  p == d * q
<1>1. q \in Nat /\ e \in Nat
  BY QtyExtra
<1>2. p \in Nat
  BY <1>1, SMT
<1>3. offset(d) = p + (IF d < e THEN d ELSE e) /\ worksize(d) = q + IF d < e THEN 1 ELSE 0
  BY DEF offset, worksize
<1>4. ASSUME NEW c \in Nat, d < c PROVE offset(d) + worksize(d) <= offset(c)
  <2> DEFINE r == c * q
  <2>1. (d + 1) * q = p + q
    BY <1>1, SMT
  <2>2. r \in Nat /\ p + q <= r
    BY <1>1, <1>4, <2>1, ProductMonotone, SMT
  <2>3. offset(c) = r + IF c < e THEN c ELSE e
    BY DEF offset
  <2> HIDE DEF e, q, p, r
  <2> QED
    BY <1>1, <1>2, <1>3, <1>4, <2>2, <2>3, SMT
<1> HIDE DEF e, q, p
<1> QED
  BY <1>1, <1>2, <1>3, <1>4, SMT

\* No id is left out: an id among those of the longer ranges, or behind them.
LEMMA RangesCover ==
    ASSUME ShapeOK, opts \in KernelOptions, NEW l \in 0 .. opts.global_worksize - 1
    PROVE  \E d \in Devices : l \in Ids(d)
<1> DEFINE e == extra  q == qty  n == devices_count
<1>1. /\ q \in Nat /\ n \in Nat \ {0} /\ e \in 0 .. n - 1
      /\ l \in Nat /\ l < n * q + e
  BY QtyExtra, SMT
<1>2. Devices = 0 .. n - 1
  BY <1>1 DEF Devices
<1>3. CASE l < e * (q + 1)
  <2> DEFINE a == l \div (q + 1)
  <2>1. a \in Nat /\ a * (q + 1) <= l /\ l < a * (q + 1) + (q + 1)
    BY <1>1, SMT
  <2>2. a * (q + 1) = a * q + a /\ a * q \in Nat
    BY <2>1, <1>1, SMT
  <2>3. a < e
    <3>1. SUFFICES ASSUME e <= a PROVE FALSE
      BY <2>1, <1>1, SMT
    <3>2. e * (q + 1) <= a * (q + 1)
      BY <3>1, <2>1, <1>1, ProductMonotone, SMT
    <3> QED
      BY <3>2, <2>1, <1>1, <1>3, SMT
  <2> DEFINE x == a * q
  <2>4. offset(a) = x + a /\ worksize(a) = q + 1
    BY <2>3 DEF offset, worksize
  <2>5. a \in Devices
    BY <1>1, <1>2, <2>1, <2>3, SMT
  <2>6. l \in x + a .. (x + a) + (q + 1) - 1
    <3>1. x \in Nat /\ x + a <= l /\ l < (x + a) + (q + 1)
      BY <2>1, <2>2, <1>1
    <3> HIDE DEF x, a
    <3> QED
      BY <3>1, <2>1, <1>1, SMT
  <2>7. l \in Ids(a)
    BY <2>4, <2>6 DEF Ids
  <2> QED
    BY <2>5, <2>7
<1>4. CASE ~(l < e * (q + 1))
  <2> DEFINE b == (l - e) \div q
  <2>1. e * (q + 1) = e * q + e /\ e * q \in Nat /\ n * q \in Nat
    BY <1>1, SMT
  <2>2. l - e \in Nat /\ e * q <= l - e /\ l - e < n * q
    BY <2>1, <1>1, <1>4, SMT
  <2>3. q # 0
    BY <2>1, <2>2, <1>1, SMT
  <2>4. b \in Nat /\ b * q <= l - e /\ l - e < b * q + q
    BY <2>2, <2>3, <1>1, SMT
  <2>5. b < n
    <3>1. SUFFICES ASSUME n <= b PROVE FALSE
      BY <1>1, <2>4, SMT
    <3>2. n * q <= b * q
      BY <3>1, <2>4, <1>1, ProductMonotone
    <3> QED
      BY <3>2, <2>1, <2>2, <2>4, <1>1, SMT
  <2>6. e <= b
    <3>1. SUFFICES ASSUME b + 1 <= e PROVE FALSE
      BY <2>4, <1>1, SMT
    <3>2. (b + 1) * q <= e * q
      BY <3>1, <2>4, <1>1, ProductMonotone, SMT
    <3>3. (b + 1) * q = b * q + q
      BY <2>4, <1>1, SMT
    <3> QED
      BY <3>2, <3>3, <2>1, <2>2, <2>4, <1>1, SMT
  <2> DEFINE y == b * q
  <2>7. offset(b) = y + e /\ worksize(b) = q + 0
    BY <1>1, <2>4, <2>6 DEF offset, worksize
  <2>8. b \in Devices
    BY <1>1, <1>2, <2>4, <2>5, SMT
  <2>9. l \in y + e .. (y + e) + (q + 0) - 1
    <3>1. y <= l - e /\ l - e < y + q /\ y \in Nat
      BY <2>4, <1>1, SMT
    <3> HIDE DEF y, b
    <3> QED
      BY <3>1, <1>1, SMT
  <2>10. l \in Ids(b)
    BY <2>7, <2>9 DEF Ids
  <2> QED
    BY <2>8, <2>10
<1> QED
  BY <1>3, <1>4

LEMMA DevicesDivide ==
    ASSUME ShapeOK, opts \in KernelOptions
    PROVE  /\ 0 \in Devices /\ offset(0) = 0
           /\ \A d \in Devices : offset(d) \in Nat /\ worksize(d) \in Nat
           /\ devices_count = 1 => worksize(0) = opts.global_worksize
           /\ \A l \in 0 .. opts.global_worksize - 1 : \E d \in Devices : l \in Ids(d)
           /\ \A c, d \in Devices : c # d => Ids(c) \cap Ids(d) = {}
<1>1. devices_count \in Nat \ {0} /\ qty \in Nat /\ extra \in 0 .. devices_count - 1
      /\ opts.global_worksize = devices_count * qty + extra
  BY QtyExtra
<1>2. 0 \in Devices /\ \A d \in Devices : d \in Nat
  BY <1>1 DEF Devices
<1>3. offset(0) = 0
  BY <1>1 DEF offset
<1>4. ASSUME devices_count = 1 PROVE worksize(0) = opts.global_worksize
  BY <1>1, <1>4 DEF worksize
<1>5. ASSUME NEW c \in Devices, NEW d \in Devices, c # d, NEW l \in Ids(c)
      PROVE  l \notin Ids(d)
  <2>1. /\ offset(c) \in Nat /\ worksize(c) \in Nat /\ offset(d) \in Nat /\ worksize(d) \in Nat
        /\ c < d => offset(c) + worksize(c) <= offset(d)
        /\ d < c => offset(d) + worksize(d) <= offset(c)
    BY <1>2, RangesFollow
  <2>2. c < d \/ d < c
    BY <1>2, <1>5
  <2> QED
    BY <1>5, <2>1, <2>2, SMT DEF Ids
<1>6. \A c, d \in Devices : c # d => Ids(c) \cap Ids(d) = {}
  BY <1>5, Zenon
<1> QED
  BY <1>2, <1>3, <1>4, <1>6, RangesFollow, RangesCover

\* The loop "for (id = start; id < sample; id += step)": a location is that of
\* one of step successive starts at most, and of one of them if they begin at 0.
LEMMA OneStart ==
    ASSUME NEW step \in Nat, NEW first \in Nat, NEW l \in Nat,
           NEW i \in first .. first + step - 1, l >= i, (l - i) % step = 0,
           NEW j \in first .. first + step - 1, l >= j, (l - j) % step = 0
    PROVE  i = j
<1> DEFINE p == (l - i) \div step
           q == (l - j) \div step
<1>1. step \in Nat \ {0} /\ l - i \in Nat /\ l - j \in Nat
  OBVIOUS
<1>2. p \in Nat /\ q \in Nat /\ l - i = step * p /\ l - j = step * q
  BY <1>1
<1> HIDE DEF p, q
<1>3. \A a, b \in Nat : a < b => step * a + step <= step * b
  <2> SUFFICES ASSUME NEW a \in Nat, NEW b \in Nat, a < b PROVE step * a + step <= step * b
    OBVIOUS
  <2>1. PICK c \in Nat : b = a + 1 + c
    BY b - a - 1 \in Nat
  <2>2. step * b = step * a + step + step * c /\ step * c \in Nat /\ step * a \in Nat
    BY <2>1
  <2> QED
    BY <1>1, <2>2
<1>4. ~(p < q) /\ ~(q < p)
  <2>1. step * p \in Nat /\ step * q \in Nat
    BY <1>2
  <2> QED
    BY <1>1, <1>2, <1>3, <2>1
<1>5. p = q
  BY <1>2, <1>4
<1> QED
  BY <1>1, <1>2, <1>5

LEMMA SomeStart ==
    ASSUME NEW step \in Nat \ {0}, NEW l \in Nat
    PROVE  LET i == l % step IN i \in 0 .. step - 1 /\ l >= i /\ (l - i) % step = 0
<1> DEFINE q == l \div step
           i == l % step
<1>1. q \in Nat /\ i \in 0 .. step - 1 /\ l = step * q + i
  OBVIOUS
<1>2. step * q = q * step /\ q * step \in Nat
  BY <1>1
<1> HIDE DEF q, i
<1>3. l >= i /\ l - i = q * step
  BY <1>1, <1>2
<1>4. (q * step) % step = 0
  BY <1>1, MultipleOf
<1>5. i \in 0 .. step - 1 /\ l >= i /\ (l - i) % step = 0
  BY <1>1, <1>3, <1>4
<1> QED
  BY <1>5 DEF i

\* A set of at most one element.
LEMMA AtMostOne ==
    ASSUME NEW S, \A x, y \in S : x = y
    PROVE  IsFiniteSet(S) /\ Cardinality(S) \in {0, 1} /\ (Cardinality(S) = 1 <=> S # {})
<1>1. CASE S = {}
  BY <1>1, FS_EmptySet
<1>2. CASE S # {}
  <2>1. PICK x \in S : S = {x}
    BY <1>2
  <2> QED
    BY <2>1, FS_Singleton
<1> QED
  BY <1>1, <1>2

\* A location has at most one visitor on a device.
LEMMA OneVisitor ==
    ASSUME ShapeOK, opts \in KernelOptions, NEW d \in Devices, NEW l \in Locations
    PROVE  \A i, j \in Visitors(d, l) : i = j
<1> SUFFICES ASSUME NEW i \in Visitors(d, l), NEW j \in Visitors(d, l) PROVE i = j
  OBVIOUS
<1>1. l \in Nat /\ offset(d) \in Nat /\ worksize(d) \in Nat
  BY DevicesDivide, ShapeTypes DEF Locations
<1>2. CASE opts.kernel_name = "single_scan0"
  BY <1>2 DEF Visitors
<1>3. CASE opts.kernel_name = "single_scan1"
  BY <1>1, <1>3, OneStart DEF Visitors
<1>4. CASE opts.kernel_name \notin {"single_scan0", "single_scan1"}
  <2> DEFINE groups == worksize(d) \div opts.local_worksize
  <2>1. opts.local_worksize \in Nat \ {0}
    BY <1>4, OptionsFit
  <2>2. groups \in Nat
    BY <1>1, <2>1
  <2>3. Visitors(d, l) = {g \in 0 .. groups - 1 : l >= g /\ (l - g) % groups = 0}
    BY <1>4 DEF Visitors
  <2> HIDE DEF groups
  <2>4. 0 .. groups - 1 = 0 .. 0 + groups - 1
    BY <2>2
  <2> QED
    BY <1>1, <2>2, <2>3, <2>4, OneStart
<1> QED
  BY <1>2, <1>3, <1>4

LEMMA VisitorsCount ==
    ASSUME ShapeOK, opts \in KernelOptions, NEW d \in Devices, NEW l \in Locations
    PROVE  /\ Cardinality(Visitors(d, l)) \in {0, 1}
           /\ Cardinality(Visitors(d, l)) = 1 <=> Visitors(d, l) # {}
BY OneVisitor, AtMostOne, Zenon

\* A device that is not refused visits each location, but with single_scan0, for
\* which each location is an item of one device; the first device is enough.
LEMMA SomeVisitor ==
    ASSUME ShapeOK, opts \in KernelOptions, NEW l \in Locations,
           \A d \in Devices : ~Refuses(d)
    PROVE  \E d \in Devices : Visitors(d, l) # {}
<1>1. l \in Nat /\ 0 \in Devices /\ offset(0) = 0 /\ worksize(0) \in Nat /\ l < sample
  BY DevicesDivide, ShapeTypes DEF Locations
<1>2. worksize(0) \in Nat \ {0}
  BY <1>1 DEF Refuses
<1>3. CASE opts.kernel_name = "single_scan0"
  <2>1. opts.global_worksize = sample
    BY <1>3, OptionsFit DEF Others, Halving
  <2>2. PICK d \in Devices : l \in Ids(d)
    BY <2>1, DevicesDivide DEF Locations
  <2>3. Visitors(d, l) = Ids(d) \cap {l}
    BY <1>3 DEF Visitors, Ids
  <2> QED
    BY <2>2, <2>3
<1>4. CASE opts.kernel_name = "single_scan1"
  <2> DEFINE i == l % worksize(0)
  <2>1. i \in 0 .. worksize(0) - 1 /\ l >= i /\ (l - i) % worksize(0) = 0
    BY <1>1, <1>2, SomeStart
  <2>2. Visitors(0, l) = {j \in 0 .. 0 + worksize(0) - 1 : l >= j /\ (l - j) % worksize(0) = 0}
    BY <1>1, <1>4 DEF Visitors
  <2> HIDE DEF i
  <2>3. i \in Visitors(0, l)
    BY <1>1, <2>1, <2>2
  <2> QED
    BY <1>1, <2>3
<1>5. CASE opts.kernel_name \notin {"single_scan0", "single_scan1"}
  <2> DEFINE groups == worksize(0) \div opts.local_worksize
             g == l % groups
  <2>1. opts.local_worksize \in Nat \ {0}
    BY <1>5, OptionsFit
  <2>2. worksize(0) % opts.local_worksize = 0
    BY <1>1, <2>1 DEF Refuses
  <2>3. groups \in Nat \ {0}
    BY <1>2, <2>1, <2>2
  <2>4. Visitors(0, l) = {j \in 0 .. groups - 1 : l >= j /\ (l - j) % groups = 0}
    BY <1>5 DEF Visitors
  <2> HIDE DEF groups
  <2>5. g \in 0 .. groups - 1 /\ l >= g /\ (l - g) % groups = 0
    BY <1>1, <2>3, SomeStart
  <2> HIDE DEF g
  <2>6. g \in Visitors(0, l)
    BY <2>4, <2>5
  <2> QED
    BY <1>1, <2>6
<1> QED
  BY <1>3, <1>4, <1>5

\* What the kernel adds to the counter on a device.
LEMMA ReportsCount ==
    ASSUME ShapeOK, opts \in KernelOptions, NEW d \in Devices
    PROVE  /\ Cardinality(Reports(d)) \in 0 .. sample
           /\ (\A l \in Locations : Visitors(d, l) # {}) => Cardinality(Reports(d)) = sample
<1> DEFINE f == [r \in Reports(d) |-> r[1]]
<1>1. \A r \in Reports(d) : \E l \in Locations : \E i \in Visitors(d, l) : r = <<l, i>>
  BY DEF Reports
<1>2. \A l \in Locations : \A i \in Visitors(d, l) : <<l, i>> \in Reports(d)
  <2>1. SUFFICES ASSUME NEW l \in Locations, NEW i \in Visitors(d, l) PROVE <<l, i>> \in Reports(d)
    OBVIOUS
  <2>2. <<l, i>> \in {l} \X Visitors(d, l)
    OBVIOUS
  <2> QED
    BY <2>2 DEF Reports
<1>3. f \in Injection(Reports(d), Locations)
  <2>1. f \in [Reports(d) -> Locations]
    BY <1>1
  <2>2. ASSUME NEW r \in Reports(d), NEW q \in Reports(d), f[r] = f[q]
        PROVE  r = q
    <3>1. PICK l \in Locations : \E i \in Visitors(d, l) : r = <<l, i>>
      BY <1>1
    <3>2. PICK m \in Locations : \E i \in Visitors(d, m) : q = <<m, i>>
      BY <1>1
    <3>3. l = m
      BY <2>2, <3>1, <3>2
    <3> QED
      BY <3>1, <3>2, <3>3, OneVisitor
  <2> QED
    BY <2>1, <2>2 DEF Injection, IsInjective
<1>4. IsFiniteSet(Locations) /\ Cardinality(Locations) = sample /\ sample \in Nat
  <2>1. sample \in Nat
    BY ShapeTypes
  <2>2. IsFiniteSet(0 .. sample - 1) /\ Cardinality(0 .. sample - 1) = sample
    BY <2>1, FS_Interval
  <2> QED
    BY <2>1, <2>2 DEF Locations
<1>5. /\ IsFiniteSet(Reports(d)) /\ Cardinality(Reports(d)) <= Cardinality(Locations)
      /\ Cardinality(Reports(d)) = Cardinality(Locations) <=> f \in Surjection(Reports(d), Locations)
  BY <1>3, <1>4, FS_Injection, Zenon
<1>6. Cardinality(Reports(d)) \in Nat
  BY <1>5, FS_CardinalityType
<1>7. ASSUME \A l \in Locations : Visitors(d, l) # {}
      PROVE  f \in Surjection(Reports(d), Locations)
  <2>1. ASSUME NEW l \in Locations PROVE \E r \in Reports(d) : f[r] = l
    <3>1. PICK i \in Visitors(d, l) : TRUE
      BY <1>7
    <3>2. <<l, i>> \in Reports(d)
      BY <1>2
    <3> QED
      BY <3>2
  <2> QED
    BY <1>3, <2>1 DEF Surjection, Injection
<1> QED
  BY <1>4, <1>5, <1>6, <1>7

\* How many devices have nothing to do any more.
LEMMA DoneCount ==
    ASSUME ShapeOK
    PROVE  /\ IsFiniteSet(Devices) /\ Cardinality(Devices) = devices_count
           /\ \A D \in SUBSET Devices : /\ IsFiniteSet(D)
                                         /\ Cardinality(D) \in 0 .. devices_count
<1>1. devices_count \in Nat
  BY ShapeTypes
<1>2. IsFiniteSet(Devices) /\ Cardinality(Devices) = devices_count
  <2>1. IsFiniteSet(0 .. devices_count - 1) /\ Cardinality(0 .. devices_count - 1) = devices_count
    BY <1>1, FS_Interval
  <2> QED
    BY <2>1 DEF Devices
<1>3. ASSUME NEW D \in SUBSET Devices
      PROVE  IsFiniteSet(D) /\ Cardinality(D) \in 0 .. devices_count
  <2>1. IsFiniteSet(D) /\ Cardinality(D) <= Cardinality(Devices)
    BY <1>2, FS_Subset
  <2>2. Cardinality(D) \in Nat
    BY <2>1, FS_CardinalityType
  <2> QED
    BY <1>1, <1>2, <2>1, <2>2
<1> QED
  BY <1>2, <1>3

-----------------------------------------------------------------------------
(* The invariant, action by action.                                         *)

\* What is made of the shape and the options only.
LEMMA SameShape ==
    ASSUME UNCHANGED shape
    PROVE  /\ ShapeOK' <=> ShapeOK
           /\ Devices' = Devices /\ Locations' = Locations /\ KernelOptions' = KernelOptions
           /\ UNCHANGED opts =>
                  /\ \A d : (Refuses(d)' <=> Refuses(d)) /\ Ids(d)' = Ids(d)
                  /\ \A d, l : Visitors(d, l)' = Visitors(d, l)
<1>1. UNCHANGED <<bs_len, sample, max_compute_units, devices_count, asserts>>
  BY DEF shape
<1>2. (ShapeOK' <=> ShapeOK) /\ Devices' = Devices /\ Locations' = Locations
  BY <1>1 DEF ShapeOK, Devices, Locations
<1>3. KernelOptions' = KernelOptions
  <2>1. power2' = power2
    BY <1>1 DEF power2
  <2>2. \A v, K : multK(v, K)' = multK(v, K)
    BY DEF multK
  <2>3. \A L : global(L)' = global(L)
    BY <1>1 DEF global, multK
  <2>4. multK(bs_len, 16)' = multK(bs_len, 16)
    BY <1>1 DEF multK
  <2>5. global(power2)' = global(power2) /\ global(multK(bs_len, 16))' = global(multK(bs_len, 16))
    BY <1>1, <2>1, <2>4 DEF global, multK
  <2> QED
    BY <1>1, <2>1, <2>4, <2>5 DEF KernelOptions, Options
<1>4. ASSUME UNCHANGED opts
      PROVE  /\ \A d : offset(d)' = offset(d) /\ worksize(d)' = worksize(d)
             /\ \A d : (Refuses(d)' <=> Refuses(d)) /\ Ids(d)' = Ids(d)
             /\ \A d, l : Visitors(d, l)' = Visitors(d, l)
  <2>1. \A d : offset(d)' = offset(d) /\ worksize(d)' = worksize(d)
    BY <1>1, <1>4, Zenon DEF offset, worksize, qty, extra
  <2>2. \A d : (Refuses(d)' <=> Refuses(d)) /\ Ids(d)' = Ids(d)
    BY <1>4, <2>1, Zenon DEF Refuses, Ids
  <2>3. \A d, l : Visitors(d, l)' = Visitors(d, l)
    BY <1>4, <2>1, Zenon DEF Visitors
  <2> QED
    BY <2>1, <2>2, <2>3
<1> QED
  BY <1>2, <1>3, <1>4

Queues == {<<>>, <<"clear">>, <<"clear", "run">>, <<"run">>}

LEMMA QueueSteps ==
    /\ \A q \in Queues : q # <<>> /\ Head(q) = "clear" <=> q \in {<<"clear">>, <<"clear", "run">>}
    /\ \A q \in Queues : q # <<>> /\ Head(q) = "run" <=> q = <<"run">>
    /\ Tail(<<"clear">>) = <<>> /\ Tail(<<"clear", "run">>) = <<"run">> /\ Tail(<<"run">>) = <<>>
    /\ Append(<<>>, "run") = <<"run">> /\ Append(<<"clear">>, "run") = <<"clear", "run">>
    /\ <<"run">> # <<>> /\ <<"clear">> # <<>> /\ <<"clear", "run">> # <<>>
    /\ <<"run">> # <<"clear">> /\ <<"run">> # <<"clear", "run">> /\ <<"clear">> # <<"clear", "run">>
<1>1. <<"run">> # <<>> /\ <<"clear">> # <<>> /\ <<"clear", "run">> # <<>>
  OBVIOUS
<1>2. <<"run">> # <<"clear">> /\ <<"run">> # <<"clear", "run">> /\ <<"clear">> # <<"clear", "run">>
  OBVIOUS
<1>3. Head(<<"clear">>) = "clear" /\ Head(<<"clear", "run">>) = "clear" /\ Head(<<"run">>) = "run"
  OBVIOUS
<1>4. /\ Tail(<<"clear">>) = <<>> /\ Tail(<<"clear", "run">>) = <<"run">> /\ Tail(<<"run">>) = <<>>
      /\ Append(<<>>, "run") = <<"run">> /\ Append(<<"clear">>, "run") = <<"clear", "run">>
  <2>1. Tail(<<"clear">>) = <<>>
    OBVIOUS
  <2>2. Tail(<<"clear", "run">>) = <<"run">>
    OBVIOUS
  <2>3. Tail(<<"run">>) = <<>>
    OBVIOUS
  <2>4. Append(<<>>, "run") = <<"run">>
    OBVIOUS
  <2>5. Append(<<"clear">>, "run") = <<"clear", "run">>
    <3> DEFINE t == Append(<<"clear">>, "run")
               pair == [i \in 1 .. 2 |-> IF i = 1 THEN "clear" ELSE "run"]
    <3>1. <<"clear">> \in Seq({"clear", "run"}) /\ Len(<<"clear">>) = 1
      OBVIOUS
    <3>2. t \in Seq({"clear", "run"}) /\ Len(t) = 2 /\ t[1] = "clear" /\ t[2] = "run"
      BY <3>1
    <3>3. t = [i \in 1 .. Len(t) |-> t[i]]
      BY <3>2
    <3>4. <<"clear", "run">> = pair
      OBVIOUS
    <3> HIDE DEF t
    <3>5. t = pair
      BY <3>2, <3>3
    <3> QED
      BY <3>4, <3>5 DEF t
  <2> QED
    BY <2>1, <2>2, <2>3, <2>4, <2>5
<1>5. \A q \in Queues : q # <<>> /\ Head(q) = "clear" <=> q \in {<<"clear">>, <<"clear", "run">>}
  BY <1>1, <1>2, <1>3 DEF Queues
<1>6. \A q \in Queues : q # <<>> /\ Head(q) = "run" <=> q = <<"run">>
  BY <1>1, <1>2, <1>3 DEF Queues
<1> QED
  BY <1>1, <1>2, <1>4, <1>5, <1>6

LEMMA InitInv == Init => IInv
<1> SUFFICES ASSUME Init PROVE IInv
  OBVIOUS
<1>1. ShapeOK
  BY DEF Init, ShapeOK
<1>2. pc = "idle" /\ ~InScan /\ queue = [d \in Devices |-> <<>>]
  BY DEF Init, InScan
<1>3. TypeOK
  <2>1. sample \in Nat /\ devices_count \in Nat /\ devices_count * sample \in Nat
    <3>1. sample \in Nat /\ devices_count \in Nat
      BY <1>1, ShapeTypes
    <3> QED
      BY <3>1
  <2>2. visits \in [Locations -> 0 .. devices_count]
    BY <2>1 DEF Init
  <2>3. queue \in [Devices -> Queues]
    BY <1>2 DEF Queues
  <2>4. 0 \in 0 .. devices_count /\ 0 \in 0 .. devices_count * sample
    BY <2>1
  <2> QED
    BY <2>2, <2>3, <2>4 DEF Init, TypeOK, Queues
<1> QED
  BY <1>1, <1>2, <1>3 DEF IInv, QueueInv, BoundInv, VisitInv, CounterInv, OnceInv, Idle

\* Between two scans the options may change; nothing is said of the last scan then.
LEMMA ConfigureInv == IInv /\ (as_scanner_opencl_init \/ set_opencl_kernel) => IInv'
<1> SUFFICES ASSUME IInv, as_scanner_opencl_init \/ set_opencl_kernel PROVE IInv'
  OBVIOUS
<1>1. /\ Idle /\ opts' \in KernelOptions /\ pc' = "idle"
      /\ UNCHANGED <<shape, launched, queue, refused, counter, visits>>
  BY DEF as_scanner_opencl_init, set_opencl_kernel, KernelOptions
<1>2. UNCHANGED <<devices_count, sample>>
  BY <1>1 DEF shape
<1>3. ShapeOK' /\ TypeOK'
  BY <1>1, <1>2, SameShape DEF IInv, TypeOK
<1>4. QueueInv'
  BY <1>1, SameShape DEF IInv, QueueInv, Idle, InScan
<1>5. ~InScan'
  BY <1>1 DEF InScan
<1> QED
  BY <1>3, <1>4, <1>5 DEF IInv, BoundInv, VisitInv, CounterInv, OnceInv

LEMMA as_scan_opencl2Inv == IInv /\ as_scan_opencl2 => IInv'
<1> SUFFICES ASSUME IInv, as_scan_opencl2 PROVE IInv'
  OBVIOUS
<1>1. /\ Idle /\ opts # NoOpts /\ pc' = "launching" /\ launched' = 0 /\ refused' = FALSE
      /\ queue' = [d \in Devices |-> <<"clear">>] /\ visits' = [l \in Locations |-> 0]
      /\ UNCHANGED <<shape, opts, counter>>
  BY DEF as_scan_opencl2, Clear
<1>2. UNCHANGED <<devices_count, sample>> /\ sample \in Nat \ {0} /\ devices_count \in Nat \ {0}
  BY <1>1, ShapeTypes DEF IInv, shape
<1>3. Devices' = Devices /\ Locations' = Locations /\ KernelOptions' = KernelOptions /\ ShapeOK'
  BY <1>1, SameShape DEF IInv
<1>4. TypeOK'
  <2>1. queue' \in [Devices -> Queues]
    BY <1>1 DEF Queues
  <2>2. visits' \in [Locations -> 0 .. devices_count] /\ 0 \in 0 .. devices_count
    BY <1>1, <1>2
  <2> QED
    BY <1>1, <1>2, <1>3, <2>1, <2>2 DEF IInv, TypeOK, Queues
<1>5. \A d \in Devices' : queue'[d] = <<"clear">> /\ ~(d < launched')
  BY <1>1, <1>2, <1>3 DEF Devices
<1>6. Done' = {} /\ Cardinality(Done') = 0
  BY <1>5, FS_EmptySet DEF Done
<1>7. <<"clear">> # <<>> /\ Head(<<"clear">>) = "clear"
  OBVIOUS
<1>8. QueueInv'
  BY <1>1, <1>5 DEF QueueInv, Idle, InScan
<1>9. BoundInv'
  BY <1>1, <1>3, <1>5, <1>6, <1>7 DEF BoundInv
<1>10. VisitInv'
  BY <1>1, <1>5 DEF VisitInv
<1>11. CounterInv'
  <2>1. devices_count' = 1 => queue'[0] = <<"clear">>
    BY <1>2, <1>5 DEF Devices
  <2> QED
    BY <1>1, <2>1, QueueSteps DEF CounterInv
<1>12. OnceInv'
  BY <1>1, <1>3 DEF OnceInv
<1> QED
  BY <1>3, <1>4, <1>8, <1>9, <1>10, <1>11, <1>12 DEF IInv

LEMMA TimesMonotonic ==
    ASSUME NEW a \in Nat, NEW b \in Nat, NEW n \in Nat, a <= b
    PROVE  a * n <= b * n
<1>1. PICK c \in Nat : b = a + c
  BY b - a \in Nat
<1>2. b * n = a * n + c * n /\ c * n \in Nat /\ a * n \in Nat
  BY <1>1
<1> QED
  BY <1>2

\* The scan goes on: more devices have nothing to do, and the shape is the same.
LEMMA DoneGrows ==
    ASSUME ShapeOK, TypeOK, UNCHANGED shape, Done \subseteq Done'
    PROVE  /\ Cardinality(Done) \in 0 .. devices_count /\ Cardinality(Done') \in 0 .. devices_count
           /\ Cardinality(Done) <= Cardinality(Done')
           /\ Cardinality(Done) * sample <= Cardinality(Done') * sample
<1>1. Done \in SUBSET Devices /\ Done' \in SUBSET Devices
  BY SameShape DEF Done
<1>2. IsFiniteSet(Done') /\ Cardinality(Done) \in 0 .. devices_count /\ Cardinality(Done') \in 0 .. devices_count
  BY <1>1, DoneCount
<1>3. Cardinality(Done) <= Cardinality(Done')
  BY <1>2, FS_Subset
<1> QED
  BY <1>2, <1>3, TimesMonotonic, ShapeTypes

LEMMA LaunchInv == IInv /\ Launch => IInv'
<1> SUFFICES ASSUME IInv, Launch PROVE IInv'
  OBVIOUS
<1> DEFINE d == launched
<1>1. /\ pc = "launching" /\ d < devices_count /\ launched' = d + 1
      /\ refused' = (refused \/ Refuses(d))
      /\ queue' = IF Refuses(d) THEN queue ELSE [queue EXCEPT ![d] = Append(@, "run")]
      /\ pc' \in {"launching", "aborted"}
      /\ UNCHANGED <<shape, opts, counter, visits>>
  BY DEF Launch
<1>2. TypeOK /\ ShapeOK /\ UNCHANGED <<devices_count, sample>>
      /\ sample \in Nat \ {0} /\ devices_count \in Nat \ {0}
  BY <1>1, ShapeTypes DEF IInv, shape
<1>3. /\ Devices' = Devices /\ Locations' = Locations /\ KernelOptions' = KernelOptions /\ ShapeOK'
      /\ \A c : (Refuses(c)' <=> Refuses(c)) /\ Ids(c)' = Ids(c)
      /\ \A c, l : Visitors(c, l)' = Visitors(c, l)
  BY <1>1, <1>2, SameShape
<1>4. d \in Devices /\ d \in Nat
  BY <1>1, <1>2 DEF Devices, TypeOK
<1>5. queue \in [Devices -> Queues]
  BY <1>2 DEF TypeOK, Queues
<1>6. InScan /\ InScan' /\ ~Idle /\ ~Idle' /\ opts # NoOpts /\ opts \in KernelOptions
  BY <1>1, <1>2 DEF IInv, QueueInv, InScan, Idle, TypeOK
<1>7. queue[d] \in {<<>>, <<"clear">>}
  BY <1>4, <1>6 DEF IInv, QueueInv
<1>8. \A c \in Devices : c # d => queue'[c] = queue[c]
  BY <1>1, <1>5
<1>9. IF Refuses(d) THEN queue'[d] = queue[d]
      ELSE queue'[d] = IF queue[d] = <<>> THEN <<"run">> ELSE <<"clear", "run">>
  <2>1. ~Refuses(d) => queue'[d] = Append(queue[d], "run")
    BY <1>1, <1>4, <1>5
  <2> QED
    BY <1>1, <1>7, <2>1, QueueSteps
<1>10. queue' \in [Devices -> Queues]
  <2>1. queue'[d] \in Queues
    BY <1>7, <1>9 DEF Queues
  <2>2. queue' \in [Devices -> {queue'[c] : c \in Devices}]
    BY <1>1, <1>5
  <2> QED
    BY <1>5, <1>8, <2>1, <2>2
<1>11. TypeOK'
  <2>1. launched' \in 0 .. devices_count
    BY <1>1, <1>2, <1>4
  <2>2. refused' \in BOOLEAN
    BY <1>1, <1>2 DEF TypeOK
  <2> QED
    BY <1>1, <1>2, <1>3, <1>10, <2>1, <2>2 DEF TypeOK, Queues
<1>12. \A c \in Devices : /\ c < launched' <=> c < launched \/ c = d
                          /\ c >= launched' <=> c >= launched /\ c # d
  BY <1>1, <1>4 DEF Devices
<1>13. \A c \in Devices : c \in Done' <=> c \in Done \/ (c = d /\ queue[d] = <<>> /\ Refuses(d))
  BY <1>3, <1>4, <1>8, <1>9, <1>12, QueueSteps DEF Done
<1>14. Done \subseteq Done'
  BY <1>13 DEF Done
<1>15. QueueInv'
  BY <1>1, <1>3, <1>6, <1>8, <1>12 DEF IInv, QueueInv
<1>16. BoundInv'
  <2>1. /\ Cardinality(Done) <= Cardinality(Done') /\ Cardinality(Done) * sample <= Cardinality(Done') * sample
        /\ Cardinality(Done) \in Nat /\ Cardinality(Done') \in Nat
    BY <1>1, <1>2, <1>14, DoneGrows
  <2>2. \A l \in Locations : visits[l] \in Nat /\ visits[l] <= Cardinality(Done)
    BY <1>2, <1>6 DEF IInv, BoundInv, TypeOK
  <2>3. \A l \in Locations' : visits'[l] <= Cardinality(Done')
    BY <1>1, <1>3, <2>1, <2>2
  <2>4. CASE \A c \in Devices : queue[c] # <<>> /\ Head(queue[c]) = "clear"
    <3>1. queue'[d] \in {<<"clear">>, <<"clear", "run">>}
      BY <1>4, <1>7, <1>9, <2>4
    <3>2. \A c \in Devices' : queue'[c] # <<>> /\ Head(queue'[c]) = "clear"
      BY <1>3, <1>8, <2>4, <3>1, QueueSteps DEF Queues
    <3> QED
      BY <2>3, <3>2 DEF BoundInv
  <2>5. CASE counter <= Cardinality(Done) * sample
    <3>1. Cardinality(Done) * sample \in Nat /\ Cardinality(Done') * sample \in Nat /\ counter \in Nat
      BY <1>2, <2>1 DEF TypeOK
    <3>2. counter' <= Cardinality(Done') * sample'
      BY <1>1, <1>2, <2>1, <2>5, <3>1
    <3> QED
      BY <2>3, <3>2 DEF BoundInv
  <2> QED
    BY <1>6, <2>4, <2>5 DEF IInv, BoundInv
<1>17. VisitInv'
  <2>1. refused' => \E c \in Devices' : Refuses(c)'
    BY <1>1, <1>3, <1>4, <1>6 DEF IInv, VisitInv
  <2>2. ASSUME ~refused', NEW c \in Devices, c < launched'
        PROVE  /\ ~Refuses(c) /\ queue'[c] # <<"clear">>
               /\ queue'[c] = <<>> => \A l \in Locations : visits[l] >= Cardinality(Visitors(c, l))
    <3>1. CASE c = d
      BY <1>1, <1>9, <2>2, <3>1, QueueSteps
    <3>2. CASE c # d
      BY <1>1, <1>6, <1>8, <1>12, <2>2, <3>2 DEF IInv, VisitInv
    <3> QED
      BY <3>1, <3>2
  <2> QED
    BY <1>1, <1>3, <2>1, <2>2 DEF VisitInv
<1>18. CounterInv'
  <2> SUFFICES ASSUME ~refused, ~Refuses(d), devices_count = 1
               PROVE  /\ queue'[0] # <<>>
                      /\ queue'[0] = <<"run">> => counter = 0
    BY <1>1, <1>2 DEF CounterInv
  <2>1. d = 0 /\ queue'[0] = IF queue[0] = <<>> THEN <<"run">> ELSE <<"clear", "run">>
    BY <1>1, <1>4, <1>9
  <2>2. queue[0] = <<>> => counter = 0
    BY <1>6, <2>1 DEF IInv, CounterInv
  <2> QED
    BY <2>1, <2>2, QueueSteps
<1>19. OnceInv'
  BY <1>1, <1>3, <1>6, <1>14 DEF IInv, OnceInv
<1> QED
  BY <1>3, <1>11, <1>15, <1>16, <1>17, <1>18, <1>19 DEF IInv

LEMMA ReturnInv == IInv /\ Return => IInv'
<1> SUFFICES ASSUME IInv, Return PROVE IInv'
  OBVIOUS
<1>1. /\ pc = "launching" /\ pc' = "returned" /\ launched = devices_count
      /\ \A d \in Devices : queue[d] = <<>>
      /\ UNCHANGED <<shape, opts, launched, queue, refused, counter, visits>>
  BY DEF Return
<1>2. UNCHANGED <<devices_count, sample>>
  BY <1>1 DEF shape
<1>3. /\ Devices' = Devices /\ Locations' = Locations /\ KernelOptions' = KernelOptions /\ ShapeOK'
      /\ \A c : (Refuses(c)' <=> Refuses(c)) /\ Ids(c)' = Ids(c)
      /\ \A c, l : Visitors(c, l)' = Visitors(c, l)
  BY <1>1, SameShape DEF IInv
<1>4. InScan /\ Done' = Done
  BY <1>1, <1>3 DEF InScan, Done
<1>5. TypeOK'
  BY <1>1, <1>2, <1>3 DEF IInv, TypeOK
<1>6. QueueInv'
  BY <1>1, <1>2, <1>3, <1>4 DEF IInv, QueueInv
<1>7. BoundInv'
  BY <1>1, <1>2, <1>3, <1>4 DEF IInv, BoundInv
<1>8. VisitInv'
  BY <1>1, <1>3, <1>4 DEF IInv, VisitInv
<1>9. CounterInv'
  BY <1>1, <1>2, <1>4 DEF IInv, CounterInv
<1>10. OnceInv'
  BY <1>1, <1>3, <1>4 DEF IInv, OnceInv
<1> QED
  BY <1>3, <1>5, <1>6, <1>7, <1>8, <1>9, <1>10 DEF IInv

\* A device takes a command from its queue: a scan is going on, and the device has
\* nothing to do any more only when it has taken the last.
LEMMA TakeCommand ==
    ASSUME IInv, NEW d \in Devices, queue[d] # <<>>, queue' = [queue EXCEPT ![d] = Tail(@)],
           UNCHANGED <<shape, opts, pc, launched, refused>>
    PROVE  /\ TypeOK /\ ShapeOK /\ InScan /\ InScan' /\ opts \in KernelOptions
           /\ UNCHANGED <<devices_count, sample>> /\ sample \in Nat \ {0} /\ devices_count \in Nat \ {0}
           /\ Devices' = Devices /\ Locations' = Locations /\ KernelOptions' = KernelOptions /\ ShapeOK'
           /\ \A c : (Refuses(c)' <=> Refuses(c)) /\ Ids(c)' = Ids(c)
           /\ \A c, l : Visitors(c, l)' = Visitors(c, l)
           /\ queue[d] \in Queues \ {<<>>} /\ queue'[d] = Tail(queue[d])
           /\ \A c \in Devices : c # d => queue'[c] = queue[c]
           /\ queue' \in [Devices -> Queues]
           /\ QueueInv'
           /\ Done' = Done \cup (IF d < launched /\ queue'[d] = <<>> THEN {d} ELSE {})
           /\ d \notin Done
<1>1. TypeOK /\ ShapeOK /\ UNCHANGED <<devices_count, sample>>
      /\ sample \in Nat \ {0} /\ devices_count \in Nat \ {0}
  BY ShapeTypes DEF IInv, shape
<1>2. /\ Devices' = Devices /\ Locations' = Locations /\ KernelOptions' = KernelOptions /\ ShapeOK'
      /\ \A c : (Refuses(c)' <=> Refuses(c)) /\ Ids(c)' = Ids(c)
      /\ \A c, l : Visitors(c, l)' = Visitors(c, l)
  BY <1>1, SameShape
<1>3. ~Idle /\ InScan /\ InScan' /\ ~Idle' /\ opts \in KernelOptions
  BY <1>1 DEF IInv, QueueInv, Idle, InScan, TypeOK
<1>4. queue \in [Devices -> Queues]
  BY <1>1 DEF TypeOK, Queues
<1>5. queue[d] \in Queues \ {<<>>} /\ queue'[d] = Tail(queue[d])
  BY <1>4
<1>6. \A c \in Devices : c # d => queue'[c] = queue[c]
  BY <1>4
<1>7. queue'[d] \in {<<>>, <<"run">>} /\ (queue[d] = <<"clear">> => queue'[d] = <<>>)
  BY <1>5, QueueSteps DEF Queues
<1>8. queue' \in [Devices -> Queues]
  <2>1. queue' \in [Devices -> {queue'[c] : c \in Devices}]
    BY <1>4
  <2>2. \A c \in Devices : queue'[c] \in Queues
    BY <1>4, <1>6, <1>7 DEF Queues
  <2> QED
    BY <2>1, <2>2
<1>9. QueueInv'
  <2>1. ASSUME NEW c \in Devices, c >= launched
        PROVE  queue'[c] \in {<<>>, <<"clear">>}
    <3>1. queue[c] \in {<<>>, <<"clear">>}
      BY <1>3, <2>1 DEF IInv, QueueInv
    <3>2. CASE c = d
      BY <1>7, <3>1, <3>2
    <3>3. CASE c # d
      BY <1>6, <3>1, <3>3
    <3> QED
      BY <3>2, <3>3
  <2> QED
    BY <1>1, <1>2, <1>3, <2>1 DEF IInv, QueueInv
<1>10. /\ Done' = Done \cup (IF d < launched /\ queue'[d] = <<>> THEN {d} ELSE {})
       /\ d \notin Done
  BY <1>2, <1>5, <1>6 DEF Done
<1> QED
  BY <1>1, <1>2, <1>3, <1>5, <1>6, <1>8, <1>9, <1>10

LEMMA ExecuteClearInv == IInv /\ (\E d \in Devices : ExecuteClear(d)) => IInv'
<1> SUFFICES ASSUME IInv, NEW d \in Devices, ExecuteClear(d) PROVE IInv'
  OBVIOUS
<1>1. /\ queue[d] # <<>> /\ Head(queue[d]) = "clear" /\ counter' = 0
      /\ queue' = [queue EXCEPT ![d] = Tail(@)]
      /\ UNCHANGED <<shape, opts, pc, launched, refused, visits>>
  BY DEF ExecuteClear
<1>2. /\ TypeOK /\ ShapeOK /\ InScan /\ InScan' /\ opts \in KernelOptions
      /\ UNCHANGED <<devices_count, sample>> /\ sample \in Nat \ {0} /\ devices_count \in Nat \ {0}
      /\ Devices' = Devices /\ Locations' = Locations /\ KernelOptions' = KernelOptions /\ ShapeOK'
      /\ \A c : (Refuses(c)' <=> Refuses(c)) /\ Ids(c)' = Ids(c)
      /\ \A c, l : Visitors(c, l)' = Visitors(c, l)
      /\ queue[d] \in Queues \ {<<>>} /\ queue'[d] = Tail(queue[d])
      /\ \A c \in Devices : c # d => queue'[c] = queue[c]
      /\ queue' \in [Devices -> Queues]
      /\ QueueInv'
      /\ Done' = Done \cup (IF d < launched /\ queue'[d] = <<>> THEN {d} ELSE {})
  BY <1>1, TakeCommand
<1>3. queue[d] \in {<<"clear">>, <<"clear", "run">>}
  BY <1>1, <1>2, QueueSteps
<1>4. (queue[d] = <<"clear">> /\ queue'[d] = <<>>) \/ queue'[d] = <<"run">>
  BY <1>2, <1>3, QueueSteps
<1>5. /\ Cardinality(Done) <= Cardinality(Done') /\ Cardinality(Done) \in Nat
      /\ Cardinality(Done') \in Nat
  BY <1>1, <1>2, DoneGrows
<1>6. TypeOK'
  <2>1. 0 \in 0 .. devices_count * sample
    BY <1>2
  <2> QED
    BY <1>1, <1>2, <2>1 DEF TypeOK, Queues
<1>7. BoundInv'
  <2>1. \A l \in Locations' : visits'[l] <= Cardinality(Done')
    BY <1>1, <1>2, <1>5 DEF IInv, BoundInv, TypeOK
  <2>2. counter' <= Cardinality(Done') * sample'
    BY <1>1, <1>2, <1>5
  <2> QED
    BY <2>1, <2>2 DEF BoundInv
<1>8. VisitInv'
  <2>1. ASSUME ~refused, NEW c \in Devices, c < launched
        PROVE  /\ ~Refuses(c) /\ queue'[c] # <<"clear">>
               /\ queue'[c] = <<>> => \A l \in Locations : visits[l] >= Cardinality(Visitors(c, l))
    <3>1. ~Refuses(c) /\ queue[c] # <<"clear">>
      BY <1>2, <2>1 DEF IInv, VisitInv
    <3>2. CASE c = d
      BY <1>4, <3>1, <3>2, QueueSteps
    <3>3. CASE c # d
      BY <1>2, <2>1, <3>3 DEF IInv, VisitInv
    <3> QED
      BY <3>2, <3>3
  <2> QED
    BY <1>1, <1>2, <2>1 DEF IInv, VisitInv
<1>9. CounterInv'
  <2> SUFFICES ASSUME ~refused, devices_count = 1, launched = 1, queue'[0] = <<>> PROVE FALSE
    BY <1>1, <1>2 DEF CounterInv
  <2>1. d = 0 /\ d < launched
    BY DEF Devices
  <2>2. queue[d] = <<"clear">>
    BY <1>4, <2>1, QueueSteps
  <2> QED
    BY <1>2, <2>1, <2>2 DEF IInv, VisitInv
<1>10. OnceInv'
  BY <1>1, <1>2 DEF IInv, OnceInv
<1> QED
  BY <1>2, <1>6, <1>7, <1>8, <1>9, <1>10 DEF IInv

LEMMA ExecuteKernelInv == IInv /\ (\E d \in Devices : ExecuteKernel(d)) => IInv'
<1> SUFFICES ASSUME IInv, NEW d \in Devices, ExecuteKernel(d) PROVE IInv'
  OBVIOUS
<1>1. /\ queue[d] # <<>> /\ Head(queue[d]) = "run"
      /\ visits' = [l \in Locations |-> visits[l] + Cardinality(Visitors(d, l))]
      /\ counter' = counter + Cardinality(Reports(d))
      /\ queue' = [queue EXCEPT ![d] = Tail(@)]
      /\ UNCHANGED <<shape, opts, pc, launched, refused>>
  BY DEF ExecuteKernel
<1>2. /\ TypeOK /\ ShapeOK /\ InScan /\ InScan' /\ opts \in KernelOptions
      /\ UNCHANGED <<devices_count, sample>> /\ sample \in Nat \ {0} /\ devices_count \in Nat \ {0}
      /\ Devices' = Devices /\ Locations' = Locations /\ KernelOptions' = KernelOptions /\ ShapeOK'
      /\ \A c : (Refuses(c)' <=> Refuses(c)) /\ Ids(c)' = Ids(c)
      /\ \A c, l : Visitors(c, l)' = Visitors(c, l)
      /\ queue[d] \in Queues \ {<<>>} /\ queue'[d] = Tail(queue[d])
      /\ \A c \in Devices : c # d => queue'[c] = queue[c]
      /\ queue' \in [Devices -> Queues]
      /\ QueueInv'
      /\ Done' = Done \cup (IF d < launched /\ queue'[d] = <<>> THEN {d} ELSE {})
      /\ d \notin Done
  BY <1>1, TakeCommand
<1>3. queue[d] = <<"run">> /\ queue'[d] = <<>>
  BY <1>1, <1>2, QueueSteps
<1>4. d < launched
  <2>1. ~(d >= launched)
    BY <1>2, <1>3, QueueSteps DEF IInv, QueueInv
  <2> QED
    BY <1>2, <2>1 DEF TypeOK, Devices
<1>5. Done' = Done \cup {d}
  BY <1>2, <1>3, <1>4
<1>6. /\ Cardinality(Done') = Cardinality(Done) + 1 /\ Cardinality(Done) \in 0 .. devices_count
      /\ Cardinality(Done') \in 0 .. devices_count
  <2>1. IsFiniteSet(Done)
    BY <1>2, DoneCount DEF Done
  <2>2. Cardinality(Done') = Cardinality(Done) + 1
    BY <1>2, <1>5, <2>1, FS_AddElement
  <2> QED
    BY <1>1, <1>2, <1>5, <2>2, DoneGrows
<1>7. \A l \in Locations : /\ visits[l] \in Nat /\ Cardinality(Visitors(d, l)) \in {0, 1}
                           /\ visits'[l] = visits[l] + Cardinality(Visitors(d, l))
                           /\ visits[l] <= Cardinality(Done)
  BY <1>1, <1>2, VisitorsCount DEF TypeOK, IInv, BoundInv
<1>8. \A l \in Locations : visits'[l] <= Cardinality(Done') /\ visits'[l] \in 0 .. devices_count
  BY <1>2, <1>6, <1>7
<1>9. counter' \in Nat /\ counter' <= Cardinality(Done') * sample
      /\ Cardinality(Done') * sample <= devices_count * sample
  <2>1. counter <= Cardinality(Done) * sample
    <3>1. ~(Head(queue[d]) = "clear")
      BY <1>1
    <3> QED
      BY <1>2, <3>1 DEF IInv, BoundInv
  <2>2. Cardinality(Reports(d)) \in 0 .. sample
    BY <1>2, ReportsCount
  <2>3. /\ Cardinality(Done') * sample = Cardinality(Done) * sample + sample
        /\ Cardinality(Done) * sample \in Nat
    <3>1. \A a, b, n \in Nat : b = a + 1 => b * n = a * n + n /\ a * n \in Nat
      OBVIOUS
    <3>2. Cardinality(Done) \in Nat /\ Cardinality(Done') \in Nat /\ sample \in Nat
      BY <1>2, <1>6
    <3> QED
      BY <1>6, <3>1, <3>2, Zenon
  <2>4. Cardinality(Done') * sample <= devices_count * sample
    <3>1. Cardinality(Done') \in Nat /\ sample \in Nat /\ Cardinality(Done') <= devices_count
      BY <1>2, <1>6
    <3> QED
      BY <1>2, <3>1, TimesMonotonic
  <2> QED
    BY <1>1, <1>2, <2>1, <2>2, <2>3, <2>4 DEF TypeOK
<1>10. TypeOK'
  <2>1. visits' \in [Locations -> 0 .. devices_count]
    BY <1>1, <1>8
  <2>2. counter' \in 0 .. devices_count * sample
    BY <1>2, <1>6, <1>9
  <2> QED
    BY <1>1, <1>2, <2>1, <2>2 DEF TypeOK, Queues
<1>11. BoundInv'
  BY <1>2, <1>8, <1>9 DEF BoundInv
<1>12. VisitInv'
  <2>1. ASSUME ~refused, NEW c \in Devices, c < launched
        PROVE  /\ ~Refuses(c) /\ queue'[c] # <<"clear">>
               /\ queue'[c] = <<>> => \A l \in Locations : visits'[l] >= Cardinality(Visitors(c, l))
    <3>1. ~Refuses(c)
      BY <1>2, <2>1 DEF IInv, VisitInv
    <3>2. CASE c = d
      BY <1>3, <1>7, <3>1, <3>2, QueueSteps
    <3>3. CASE c # d
      <4>1. /\ queue'[c] # <<"clear">>
            /\ queue'[c] = <<>> => \A l \in Locations : visits[l] >= Cardinality(Visitors(c, l))
        BY <1>2, <2>1, <3>3 DEF IInv, VisitInv
      <4>2. \A l \in Locations : Cardinality(Visitors(c, l)) \in {0, 1}
        BY <1>2, VisitorsCount
      <4> QED
        BY <1>7, <3>1, <4>1, <4>2
    <3> QED
      BY <3>2, <3>3
  <2> QED
    BY <1>1, <1>2, <2>1 DEF IInv, VisitInv
<1>13. CounterInv'
  <2> SUFFICES ASSUME ~refused, devices_count = 1
               PROVE  /\ launched # 0 /\ queue'[0] # <<"run">>
                      /\ counter' = sample
    BY <1>1, <1>2 DEF CounterInv
  <2>1. d = 0 /\ Devices = {0} /\ launched # 0
    BY <1>2, <1>4 DEF Devices, TypeOK
  <2>2. counter = 0
    BY <1>2, <1>3, <2>1 DEF IInv, CounterInv
  <2>3. \A c \in Devices : ~Refuses(c)
    BY <1>2, <1>4, <2>1 DEF IInv, VisitInv
  <2>4. \A l \in Locations : Visitors(d, l) # {}
    BY <1>2, <2>1, <2>3, SomeVisitor
  <2>5. Cardinality(Reports(d)) = sample
    BY <1>2, <2>4, ReportsCount
  <2> QED
    BY <1>1, <1>2, <1>3, <2>1, <2>2, <2>5, QueueSteps
<1>14. OnceInv'
  <2> SUFFICES ASSUME opts.kernel_name = "single_scan0", NEW l \in Locations
               PROVE  /\ visits'[l] <= 1
                      /\ \A c \in Devices : l \in Ids(c) /\ c \notin Done' => visits'[l] = 0
    BY <1>1, <1>2 DEF OnceInv
  <2>1. Visitors(d, l) = Ids(d) \cap {l}
    BY DEF Visitors, Ids
  <2>2. visits[l] <= 1 /\ \A c \in Devices : l \in Ids(c) /\ c \notin Done => visits[l] = 0
    BY <1>2 DEF IInv, OnceInv
  <2>3. CASE l \in Ids(d)
    <3>1. visits[l] = 0
      BY <1>2, <2>2, <2>3
    <3>2. \A c \in Devices : l \in Ids(c) => c = d
      BY <1>2, <2>3, DevicesDivide
    <3> QED
      BY <1>5, <1>7, <3>1, <3>2
  <2>4. CASE l \notin Ids(d)
    <3>1. Cardinality(Visitors(d, l)) = 0
      BY <2>1, <2>4, FS_EmptySet
    <3> QED
      BY <1>5, <1>7, <2>2, <3>1
  <2> QED
    BY <2>3, <2>4
<1> QED
  BY <1>2, <1>10, <1>11, <1>12, <1>13, <1>14 DEF IInv

LEMMA StutterInv == IInv /\ UNCHANGED vars => IInv'
<1> SUFFICES ASSUME IInv, UNCHANGED vars PROVE IInv'
  OBVIOUS
<1>1. UNCHANGED <<shape, opts, pc, launched, queue, refused, counter, visits>>
      /\ UNCHANGED <<devices_count, sample>>
  BY DEF vars, shape
<1>2. /\ Devices' = Devices /\ Locations' = Locations /\ KernelOptions' = KernelOptions /\ ShapeOK'
      /\ \A c : (Refuses(c)' <=> Refuses(c)) /\ Ids(c)' = Ids(c)
      /\ \A c, l : Visitors(c, l)' = Visitors(c, l)
  BY <1>1, SameShape DEF IInv
<1>3. Done' = Done /\ (InScan' <=> InScan) /\ (Idle' <=> Idle)
  BY <1>1, <1>2 DEF Done, InScan, Idle
<1>4. TypeOK'
  BY <1>1, <1>2 DEF IInv, TypeOK
<1>5. QueueInv'
  BY <1>1, <1>2, <1>3 DEF IInv, QueueInv
<1>6. BoundInv' /\ CounterInv'
  BY <1>1, <1>2, <1>3 DEF IInv, BoundInv, CounterInv
<1>7. VisitInv'
  BY <1>1, <1>2, <1>3 DEF IInv, VisitInv
<1>8. OnceInv'
  BY <1>1, <1>2, <1>3 DEF IInv, OnceInv
<1> QED
  BY <1>2, <1>4, <1>5, <1>6, <1>7, <1>8 DEF IInv

-----------------------------------------------------------------------------
(* Theorems.                                                                *)

\* The strengthened invariant holds of every scan, on any devices.
THEOREM Invariance == Spec => []IInv
<1>1. IInv /\ [Next]_vars => IInv'
  BY ConfigureInv, as_scan_opencl2Inv, LaunchInv, ReturnInv, ExecuteClearInv, ExecuteKernelInv,
     StutterInv DEF Next
<1> QED
  BY <1>1, InitInv, PTL DEF Spec

\* The queues of the devices, the counter they share and the options are of their
\* types: no more reports than locations for each device.
THEOREM LaunchTypesCorrect == Spec => []TypeOK
<1>1. IInv => TypeOK
  BY DEF IInv
<1> QED
  BY <1>1, Invariance, PTL

\* The four kernels whose groups are a multiple of 16 items.
Mult16s == {"single_scan1", "single_scan2", "single_scan4", "single_scan6"}

\* What the two ways of rounding up to a group make of the options.
LEMMA OptionsAre ==
    ASSUME ShapeOK, NEW o \in KernelOptions, o.kernel_name # "single_scan0"
    PROVE  /\ o.kernel_name \in Others /\ o.local_worksize \in Nat \ {0}
           /\ o.global_worksize = global(o.local_worksize)
           /\ o.kernel_name = "single_scan5_unroll" => o.local_worksize = power2
           /\ o.kernel_name = "single_scan6" => o.local_worksize = multK(bs_len, 16)
<1>1. o.kernel_name \in Others /\ o.local_worksize \in Nat \ {0}
  BY OptionsFit
<1>2. \/ o = Options("single_scan0", 0, sample)
      \/ \E k \in Mult16s : o = Options(k, multK(bs_len, 16), global(multK(bs_len, 16)))
      \/ \E k \in Halving : o = Options(k, power2, global(power2))
  BY DEF KernelOptions, Halving, Mult16s
<1>3. o # Options("single_scan0", 0, sample)
  BY DEF Options
<1>4. ASSUME NEW k \in Mult16s, o = Options(k, multK(bs_len, 16), global(multK(bs_len, 16)))
      PROVE  /\ o.global_worksize = global(o.local_worksize)
             /\ o.kernel_name # "single_scan5_unroll" /\ o.local_worksize = multK(bs_len, 16)
  BY <1>4 DEF Options, Mult16s
<1>5. ASSUME NEW k \in Halving, o = Options(k, power2, global(power2))
      PROVE  /\ o.global_worksize = global(o.local_worksize)
             /\ o.kernel_name # "single_scan6" /\ o.local_worksize = power2
  BY <1>5 DEF Options, Halving
<1> QED
  BY <1>1, <1>2, <1>3, <1>4, <1>5, Zenon

\* For any length and number of addresses and any compute units, the work sizes are
\* what the kernel needs, but for fewer than 20 locations, addresses of one word or
\* more than 32 in the default kernel, and some of more than 512 in single_scan6.
THEOREM WorkSizesFitKernel == Spec => []SizesFitKernel
<1>1. ASSUME ShapeOK, opts \in KernelOptions
      PROVE  FitsKernel(opts) <=> ~ Misfit
  <2> DEFINE name == opts.kernel_name  size == opts.local_worksize
  <2>1. CASE name = "single_scan0"
    <3>1. opts.global_worksize = sample
      BY <1>1, <2>1, OptionsFit DEF Others, Halving
    <3> QED
      BY <2>1, <3>1 DEF FitsKernel, Misfit
  <2>2. CASE name # "single_scan0"
    <3>1. /\ size \in Nat \ {0} /\ opts.global_worksize = global(size)
          /\ name = "single_scan5_unroll" => size = power2
          /\ name = "single_scan6" => size = multK(bs_len, 16)
      BY <1>1, <2>2, OptionsAre
    <3>2. /\ size >= bs_len /\ opts.global_worksize % size = 0
          /\ name \in Halving => \E k \in 0 .. 30 : size = 2 ^ k
      BY <1>1, <2>2, OptionsFit
    <3>3. opts.global_worksize > 0 <=> ~ (sample < 20)
      BY <1>1, <3>1, SomeItems, ShapeTypes
    <3>4. name = "single_scan5_unroll" => (size \in 2 .. WarpSize <=> bs_len \in 2 .. WarpSize)
      BY <1>1, <3>1, power2InWarp
    <3>5. name = "single_scan6" => (CarriesInWarp(size) <=>
              ~ (bs_len > 16 * WarpSize /\ ~ CarriesInWarp(size)))
      <4>1. bs_len \in Nat
        BY <1>1, ShapeTypes, PowersOfTwo
      <4>2. bs_len <= 16 * WarpSize \/ bs_len > 16 * WarpSize
        BY <4>1 DEF WarpSize
      <4>3. bs_len <= 16 * WarpSize /\ name = "single_scan6" => CarriesInWarp(size)
        BY <1>1, <3>1, SmallCarriesInWarp
      <4> QED
        BY <4>2, <4>3, Zenon
    <3>6. FitsKernel(opts) <=>
              /\ opts.global_worksize > 0
              /\ name = "single_scan5_unroll" => size \in 2 .. WarpSize
              /\ name = "single_scan6" => CarriesInWarp(size)
      BY <2>2, <3>2, Zenon DEF FitsKernel, Halving
    <3>7. Misfit <=>
              \/ sample < 20
              \/ name = "single_scan5_unroll" /\ bs_len \notin 2 .. WarpSize
              \/ name = "single_scan6" /\ bs_len > 16 * WarpSize /\ ~ CarriesInWarp(size)
      BY <2>2, Zenon DEF Misfit
    <3> QED
      BY <3>3, <3>4, <3>5, <3>6, <3>7, Zenon
  <2> QED
    BY <2>1, <2>2
<1>2. IInv => SizesFitKernel
  BY <1>1 DEF IInv, TypeOK, SizesFitKernel
<1> QED
  BY <1>2, Invariance, PTL

\* When as_scan_opencl2 returns and nothing was refused, every device has executed.
LEMMA AllExecuted ==
    ASSUME IInv, pc = "returned", ~refused
    PROVE  /\ TypeOK /\ ShapeOK /\ opts \in KernelOptions
           /\ \A d \in Devices : /\ d < launched /\ queue[d] = <<>> /\ ~Refuses(d)
                                  /\ \A l \in Locations : visits[l] >= Cardinality(Visitors(d, l))
           /\ \A l \in Locations : visits[l] >= 1
<1>1. TypeOK /\ ShapeOK /\ InScan /\ Idle /\ opts \in KernelOptions /\ launched = devices_count
      /\ devices_count \in Nat
  BY ShapeTypes DEF IInv, QueueInv, TypeOK, InScan, Idle
<1>2. \A d \in Devices : d < launched /\ queue[d] = <<>>
  BY <1>1 DEF IInv, QueueInv, Devices
<1>3. \A d \in Devices : ~Refuses(d) /\ \A l \in Locations : visits[l] >= Cardinality(Visitors(d, l))
  BY <1>1, <1>2 DEF IInv, VisitInv
<1>4. ASSUME NEW l \in Locations PROVE visits[l] >= 1
  <2>1. PICK d \in Devices : Visitors(d, l) # {}
    BY <1>1, <1>3, SomeVisitor
  <2>2. Cardinality(Visitors(d, l)) = 1
    BY <1>1, <2>1, VisitorsCount
  <2> QED
    BY <1>3, <2>2
<1> QED
  BY <1>1, <1>2, <1>3, <1>4

\* A scan that is not refused visits every location, however many devices share the
\* work and whatever the remainder of the division.
THEOREM ScanIsFull == Spec => []FullScan
<1>1. IInv => FullScan
  BY AllExecuted DEF FullScan
<1> QED
  BY <1>1, Invariance, PTL

\* On one device the counter is exactly the number of locations near, all of them
\* here, and each location is visited once; so it is by single_scan0 on several.
THEOREM OneDeviceIsExact == Spec => []ReportsAreExact
<1>1. ASSUME IInv, pc = "returned", ~refused
      PROVE  /\ devices_count = 1 => counter = sample
             /\ devices_count = 1 \/ opts.kernel_name = "single_scan0" =>
                    \A l \in Locations : visits[l] = 1
  <2>1. /\ TypeOK /\ ShapeOK /\ InScan
        /\ \A d \in Devices : d < launched /\ queue[d] = <<>>
        /\ \A l \in Locations : visits[l] >= 1 /\ visits[l] \in Nat
    BY <1>1, AllExecuted DEF InScan, TypeOK
  <2>2. ASSUME devices_count = 1 PROVE counter = sample
    <3>1. 0 \in Devices /\ launched = 1
      BY <1>1, <2>2 DEF Devices, IInv, QueueInv
    <3> QED
      BY <1>1, <2>1, <2>2, <3>1 DEF IInv, CounterInv
  <2>3. ASSUME NEW l \in Locations, devices_count = 1 \/ opts.kernel_name = "single_scan0"
        PROVE  visits[l] = 1
    <3>1. CASE devices_count = 1
      <4>1. Cardinality(Done) \in 0 .. 1
        BY <2>1, <3>1, DoneCount DEF Done
      <4>2. visits[l] <= Cardinality(Done)
        BY <1>1, <2>1 DEF IInv, BoundInv
      <4> QED
        BY <2>1, <4>1, <4>2
    <3>2. CASE opts.kernel_name = "single_scan0"
      BY <1>1, <2>1, <3>2 DEF IInv, OnceInv
    <3> QED
      BY <2>3, <3>1, <3>2
  <2> QED
    BY <2>2, <2>3
<1>2. IInv => ReportsAreExact
  BY <1>1 DEF ReportsAreExact
<1> QED
  BY <1>2, Invariance, PTL

\* One device refuses only the work size 0 of fewer than 20 locations, and groups
\* that are too large for it.
THEOREM OneDeviceRefusesOnlyIf == Spec => []RefusedOnlyIf
<1>1. ASSUME IInv, pc # "idle", refused, devices_count = 1
      PROVE  /\ opts.kernel_name # "single_scan0"
             /\ sample < 20 \/ opts.local_worksize > MaxGroup
  <2>1. TypeOK /\ ShapeOK /\ InScan /\ opts \in KernelOptions /\ sample \in Nat \ {0}
    BY <1>1, ShapeTypes DEF IInv, TypeOK, InScan, QueueInv
  <2>2. PICK d \in Devices : Refuses(d)
    BY <1>1, <2>1 DEF IInv, VisitInv
  <2>3. d = 0
    BY <1>1, <2>2 DEF Devices
  <2>4. worksize(0) = opts.global_worksize
    BY <1>1, <2>1, DevicesDivide
  <2>5. CASE opts.kernel_name = "single_scan0"
    <3>1. opts.local_worksize = 0 /\ opts.global_worksize = sample
      BY <2>1, <2>5, OptionsFit DEF Others, Halving
    <3> QED
      BY <2>1, <2>2, <2>3, <2>4, <3>1 DEF Refuses
  <2>6. CASE opts.kernel_name # "single_scan0"
    <3>1. /\ opts.local_worksize \in Nat \ {0} /\ opts.global_worksize % opts.local_worksize = 0
          /\ opts.global_worksize = 0 => sample < 20
      BY <2>1, <2>6, OptionsFit
    <3> QED
      BY <2>2, <2>3, <2>4, <2>6, <3>1 DEF Refuses
  <2> QED
    BY <2>5, <2>6
<1>2. IInv => RefusedOnlyIf
  BY <1>1 DEF RefusedOnlyIf
<1> QED
  BY <1>2, Invariance, PTL
==============================================================================
