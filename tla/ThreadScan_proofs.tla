-------------------------- MODULE ThreadScan_proofs --------------------------
(***************************************************************************)
(* as_scan_thread computes what a linear scan computes for every number of *)
(* hard locations, every thread_count and every interleaving, and so keeps *)
(* the promise of module Scan.                                             *)
(***************************************************************************)
EXTENDS ThreadScan, FiniteSetTheorems, TLAPS

-----------------------------------------------------------------------------
(* The division of the locations, which as_scan_thread2 has too: the slices *)
(* follow one another without a gap or an overlap and end at the last       *)
(* location.                                                                *)

\* Division and remainder, as the two lines of the code use them.
LEMMA QtyExtra ==
    ASSUME NEW n \in Nat \ {0}
    PROVE  /\ qty(n) \in Nat
           /\ extra(n) \in 0 .. n - 1
           /\ Sample = n * qty(n) + extra(n)
  BY SampleAssumption, SMT DEF qty, extra

LEMMA ProductMonotone ==
    ASSUME NEW a \in Nat, NEW b \in Nat, NEW c \in Nat, a <= b
    PROVE  a * c \in Nat /\ b * c \in Nat /\ a * c <= b * c
  <1>1. PICK d \in Nat : b = a + d
    BY SMT
  <1>2. b * c = a * c + d * c
    BY <1>1, SMT
  <1>3. a * c \in Nat /\ d * c \in Nat
    BY <1>1, SMT
  <1> QED
    BY <1>2, <1>3, SMT

\* Every boundary is a natural number, and a later one is not smaller.
LEMMA BeginMonotone ==
    ASSUME NEW n \in Nat \ {0}, NEW t \in Nat, NEW u \in Nat, t <= u
    PROVE  /\ idx_begin(n, t) \in Nat
           /\ idx_begin(n, u) \in Nat
           /\ idx_begin(n, t) <= idx_begin(n, u)
  <1>1. qty(n) \in Nat /\ extra(n) \in Nat
    BY QtyExtra
  <1>2. /\ t * qty(n) \in Nat /\ u * qty(n) \in Nat
        /\ t * qty(n) <= u * qty(n)
    BY <1>1, ProductMonotone
  <1> DEFINE qt == t * qty(n)  qu == u * qty(n)  e == extra(n)
  <1>3. qt \in Nat /\ qu \in Nat /\ qt <= qu /\ e \in Nat
    BY <1>1, <1>2
  <1>4. /\ idx_begin(n, t) = qt + IF t < e THEN t ELSE e
        /\ idx_begin(n, u) = qu + IF u < e THEN u ELSE e
    BY DEF idx_begin
  <1> HIDE DEF qt, qu, e
  <1> QED
    BY <1>3, <1>4, SMT

\* The first slice starts at 0, each one ends where the next begins, and the
\* end of the last one is the number of locations.
THEOREM SlicesAreContiguous ==
    ASSUME NEW n \in Nat \ {0}
    PROVE  /\ idx_begin(n, 0) = 0
           /\ idx_begin(n, n) = Sample
           /\ \A t \in Nat : idx_end(n, t) = idx_begin(n, t + 1)
  <1>1. qty(n) \in Nat /\ extra(n) \in 0 .. n - 1 /\ Sample = n * qty(n) + extra(n)
    BY QtyExtra
  <1>2. idx_begin(n, 0) = 0
    BY <1>1, SMT DEF idx_begin
  <1>3. idx_begin(n, n) = Sample
    BY <1>1, SMT DEF idx_begin
  <1>4. ASSUME NEW t \in Nat
        PROVE  idx_end(n, t) = idx_begin(n, t + 1)
    <2>1. (t + 1) * qty(n) = t * qty(n) + qty(n)
      BY <1>1, SMT
    <2>2. t * qty(n) \in Nat
      BY <1>1, SMT
    <2> DEFINE qt == t * qty(n)  q == qty(n)  e == extra(n)
    <2>3. idx_end(n, t) = (qt + IF t < e THEN t ELSE e) + (q + IF t < e THEN 1 ELSE 0)
      BY DEF idx_end, idx_begin, len
    <2>4. idx_begin(n, t + 1) = (qt + q) + IF t + 1 < e THEN t + 1 ELSE e
      BY <2>1 DEF idx_begin
    <2>5. qt \in Nat /\ q \in Nat /\ e \in Nat
      BY <1>1, <2>2
    <2> HIDE DEF qt, q, e
    <2> QED
      BY <2>3, <2>4, <2>5, SMT
  <1> QED
    BY <1>2, <1>3, <1>4

\* The slices of the n threads are ranges inside the address space, and the
\* slice of a thread lies before that of any later thread.
THEOREM SlicesAreDisjoint ==
    ASSUME NEW n \in Nat \ {0}, NEW t \in 0 .. n - 1
    PROVE  /\ idx_begin(n, t) \in Nat
           /\ idx_end(n, t) \in Nat
           /\ idx_begin(n, t) <= idx_end(n, t)
           /\ idx_end(n, t) <= Sample
           /\ \A u \in 0 .. n - 1 : t < u => idx_end(n, t) <= idx_begin(n, u)
  <1>1. t \in Nat /\ t + 1 \in Nat /\ t <= t + 1 /\ t + 1 <= n /\ n \in Nat
    BY SMT
  <1>2. idx_end(n, t) = idx_begin(n, t + 1) /\ idx_begin(n, n) = Sample
    BY <1>1, SlicesAreContiguous
  <1>3. /\ idx_begin(n, t) \in Nat /\ idx_begin(n, t + 1) \in Nat
        /\ idx_begin(n, t) <= idx_begin(n, t + 1)
    BY <1>1, BeginMonotone
  <1>4. idx_begin(n, t + 1) <= idx_begin(n, n)
    BY <1>1, BeginMonotone
  <1>5. ASSUME NEW u \in 0 .. n - 1, t < u
        PROVE  idx_end(n, t) <= idx_begin(n, u)
    <2>1. u \in Nat /\ t + 1 <= u
      BY <1>5, <1>1, SMT
    <2> QED
      BY <1>1, <1>2, <2>1, BeginMonotone
  <1> QED
    BY <1>2, <1>3, <1>4, <1>5

\* No location is left out: every one belongs to the slice of some thread.
THEOREM SlicesCover ==
    ASSUME NEW n \in Nat \ {0}, NEW l \in Locations
    PROVE  \E t \in 0 .. n - 1 : l \in Slice(n, t)
  <1> DEFINE q == qty(n)  e == extra(n)
  <1>1. q \in Nat /\ e \in 0 .. n - 1 /\ Sample = n * q + e
    BY QtyExtra
  <1>2. l \in Nat /\ l < Sample
    BY SampleAssumption, SMT DEF Locations
  <1> DEFINE a == l \div (q + 1)
             b == (l - e) \div q
  <1>3. CASE l < e * (q + 1)
    <2>1. a \in Nat /\ a * (q + 1) <= l /\ l < a * (q + 1) + (q + 1)
      BY <1>1, <1>2, SMT
    <2>2. a * (q + 1) = a * q + a /\ a * q \in Nat
      BY <2>1, <1>1, SMT
    <2>3. a < e
      <3>1. SUFFICES ASSUME e <= a PROVE FALSE
        BY <2>1, <1>1, SMT
      <3>2. e * (q + 1) <= a * (q + 1)
        BY <3>1, <2>1, <1>1, ProductMonotone, SMT
      <3> QED
        BY <3>2, <2>1, <1>1, <1>2, <1>3, SMT
    <2>4. a \in 0 .. n - 1 /\ a < e
      BY <2>1, <2>3, <1>1, SMT
    <2>5. idx_begin(n, a) = a * q + a /\ idx_end(n, a) = (a * q + a) + (q + 1)
      BY <2>3 DEF idx_begin, idx_end, len
    <2>6. l \in Slice(n, a)
      <3> DEFINE x == a * q + a
      <3>1. x \in Nat /\ x <= l /\ l < x + (q + 1)
        BY <2>1, <2>2, <1>1
      <3>2. Slice(n, a) = x .. (x + (q + 1)) - 1
        BY <2>5 DEF Slice
      <3> HIDE DEF x
      <3> QED
        BY <3>1, <3>2, <1>1, <1>2, SMT
    <2> QED
      BY <2>4, <2>6
  <1>4. CASE ~(l < e * (q + 1))
    <2>1. e * (q + 1) = e * q + e /\ e * q \in Nat /\ n * q \in Nat
      BY <1>1, SMT
    <2>2. l - e \in Nat /\ e * q <= l - e /\ l - e < n * q
      BY <2>1, <1>1, <1>2, <1>4, SMT
    <2>3. q # 0
      BY <2>1, <2>2, <1>1, SMT
    <2>4. b \in Nat /\ b * q <= l - e /\ l - e < b * q + q
      BY <2>2, <2>3, <1>1, SMT
    <2>5. b < n
      <3>1. SUFFICES ASSUME n <= b PROVE FALSE
        BY <2>4, SMT
      <3>2. n * q <= b * q
        BY <3>1, <2>4, <1>1, ProductMonotone
      <3> QED
        BY <3>2, <2>1, <2>2, <2>4, <1>1, SMT
    <2>6. e <= b
      <3>1. SUFFICES ASSUME b + 1 <= e PROVE FALSE
        BY <2>4, <1>1, SMT
      <3>2. (b + 1) * q <= e * q
        BY <3>1, <2>4, <1>1, ProductMonotone, SMT
      <3>3. (b + 1) * q = b * q + q
        BY <2>4, <1>1, SMT
      <3> QED
        BY <3>2, <3>3, <2>1, <2>2, <2>4, <1>1, SMT
    <2>7. b \in 0 .. n - 1 /\ ~(b < e)
      BY <2>4, <2>5, <2>6, <1>1, SMT
    <2>8. idx_begin(n, b) = b * q + e /\ idx_end(n, b) = (b * q + e) + (q + 0)
      BY <2>7 DEF idx_begin, idx_end, len
    <2>9. l \in Slice(n, b)
      <3> DEFINE y == b * q
      <3>1. y <= l - e /\ l - e < y + q /\ y \in Nat
        BY <2>4, <1>1, SMT
      <3>2. Slice(n, b) = y + e .. ((y + e) + (q + 0)) - 1
        BY <2>8 DEF Slice
      <3> HIDE DEF y
      <3> QED
        BY <3>1, <3>2, <1>1, <1>2, SMT
    <2> QED
      BY <2>7, <2>9
  <1> QED
    BY <1>3, <1>4

\* The slice of a thread is a range of locations, which ends where the next begins.
LEMMA SliceRange ==
    ASSUME NEW n \in Nat \ {0}, NEW t \in 0 .. n - 1
    PROVE  /\ idx_begin(n, t) \in 0 .. Sample
           /\ idx_end(n, t) \in 0 .. Sample
           /\ idx_begin(n, t) <= idx_end(n, t)
           /\ idx_end(n, t) = idx_begin(n, t + 1)
  <1>1. /\ idx_begin(n, t) \in Nat
        /\ idx_end(n, t) \in Nat
        /\ idx_begin(n, t) <= idx_end(n, t)
        /\ idx_end(n, t) <= Sample
    BY SlicesAreDisjoint
  <1>2. idx_end(n, t) = idx_begin(n, t + 1)
    BY SlicesAreContiguous
  <1> QED
    BY <1>1, <1>2, SampleAssumption, SMT

\* A location belongs to the slice of one thread only.
LEMMA SliceOwner ==
    ASSUME NEW n \in Nat \ {0}, NEW t \in 0 .. n - 1, NEW u \in 0 .. n - 1,
           t # u, NEW l \in Slice(n, t)
    PROVE  l \notin Slice(n, u)
  <1>1. CASE t < u
    <2>1. idx_end(n, t) <= idx_begin(n, u) /\ idx_end(n, t) \in Nat
          /\ idx_begin(n, u) \in Nat /\ idx_begin(n, t) \in Nat
          /\ idx_end(n, u) \in Nat
      BY <1>1, SlicesAreDisjoint
    <2> QED
      BY <2>1, SMT DEF Slice
  <1>2. CASE u < t
    <2>1. idx_end(n, u) <= idx_begin(n, t) /\ idx_end(n, u) \in Nat
          /\ idx_begin(n, t) \in Nat /\ idx_begin(n, u) \in Nat
          /\ idx_end(n, t) \in Nat
      BY <1>2, SlicesAreDisjoint
    <2> QED
      BY <2>1, SMT DEF Slice
  <1> QED
    BY <1>1, <1>2, SMT

-----------------------------------------------------------------------------
(* The scan.                                                                *)

\* How many locations of S lie in a .. b - 1.
Among(S, a, b) == Cardinality(S \cap (a .. b - 1))

\* The threads the call has started so far.
Started ==
    IF mpc = "idle" THEN {}
    ELSE IF mpc = "create" THEN 0 .. i - 1
    ELSE 0 .. thread_count - 1

\* A started thread has done the part of its slice below k[t] and nothing else.
StartedInv(t) ==
    LET first == idx_begin(thread_count, t)
        last == idx_end(thread_count, t)
    IN  /\ params[t].idx_begin = first
        /\ params[t].idx_end = last
        /\ tpc[t] \in {"run", "exit"}
        /\ k[t] \in first .. last
        /\ tpc[t] = "exit" => k[t] = last
        /\ params[t].cnt = Among(near, first, k[t])
        /\ \A l \in first .. k[t] - 1 : selected[l] = Flag(l \in near)
        /\ \A l \in k[t] .. last - 1 : selected[l] = Garbage

\* A thread that is not started has done nothing.
NotStartedInv(t) ==
    /\ tpc[t] = "none"
    /\ t < thread_count =>
           \A l \in Slice(thread_count, t) : selected[l] = Garbage

\* What the calling thread knows at each loop.
CallerInv ==
    /\ mpc \in {"create", "join"} => cnt = 0
    /\ mpc = "join" => \A t \in 0 .. i - 1 : tpc[t] = "exit"
    /\ mpc \in {"sum", "returned"} => \A t \in Started : tpc[t] = "exit"
    /\ mpc = "sum" => cnt = Among(near, 0, idx_begin(thread_count, i))
    /\ mpc = "returned" => cnt = Cardinality(near)

ThreadInv ==
    \A t \in Threads :
        /\ t \in Started => StartedInv(t)
        /\ t \notin Started /\ mpc # "idle" => NotStartedInv(t)

\* In the initial state no thread exists.
IdleInv == mpc = "idle" => \A t \in Threads : tpc[t] = "none"

IInv == TypeOK /\ ThreadInv /\ CallerInv /\ IdleInv

------------------------------------------------------------------------------
(* Counting the locations of a set that lie in a range.                     *)

LEMMA AmongType ==
    ASSUME NEW S \in SUBSET Locations, NEW a \in Nat, NEW b \in Nat
    PROVE  /\ IsFiniteSet(S \cap (a .. b - 1))
           /\ Among(S, a, b) \in 0 .. Sample
  <1>1. IsFiniteSet(Locations) /\ Cardinality(Locations) = Sample
    <2>1. 0 \in Int /\ Sample - 1 \in Int /\ Sample \in Nat
      BY SampleAssumption
    <2> QED
      BY <2>1, FS_Interval, SMT DEF Locations
  <1>2. S \cap (a .. b - 1) \in SUBSET Locations
    OBVIOUS
  <1>3. /\ IsFiniteSet(S \cap (a .. b - 1))
        /\ Cardinality(S \cap (a .. b - 1)) <= Sample
    BY <1>1, <1>2, FS_Subset
  <1>4. Cardinality(S \cap (a .. b - 1)) \in Nat
    BY <1>3, FS_CardinalityType
  <1> QED
    BY <1>3, <1>4, SampleAssumption, SMT DEF Among

LEMMA AmongJoin ==
    ASSUME NEW S \in SUBSET Locations,
           NEW a \in Nat, NEW b \in Nat, NEW c \in Nat, a <= b, b <= c
    PROVE  Among(S, a, c) = Among(S, a, b) + Among(S, b, c)
  <1> DEFINE P == S \cap (a .. b - 1)  Q == S \cap (b .. c - 1)
  <1>1. S \cap (a .. c - 1) = P \cup Q
    BY SMT
  <1>2. P \cap Q = {}
    BY SMT
  <1>3. IsFiniteSet(P) /\ IsFiniteSet(Q)
    BY AmongType
  <1>4. Cardinality(P \cup Q) = Cardinality(P) + Cardinality(Q) - Cardinality(P \cap Q)
    BY <1>3, FS_Union
  <1>5. Cardinality(P \cap Q) = 0
    BY <1>2, FS_EmptySet
  <1>6. Cardinality(P) \in Nat /\ Cardinality(Q) \in Nat
    BY <1>3, FS_CardinalityType
  <1> HIDE DEF P, Q
  <1>7. Cardinality(P \cup Q) = Cardinality(P) + Cardinality(Q)
    BY <1>4, <1>5, <1>6, SMT
  <1> QED
    BY <1>1, <1>7 DEF Among, P, Q

LEMMA AmongEmpty ==
    ASSUME NEW S, NEW a \in Nat
    PROVE  Among(S, a, a) = 0
  <1>1. S \cap (a .. a - 1) = {}
    BY SMT
  <1> QED
    BY <1>1, FS_EmptySet DEF Among

LEMMA AmongStep ==
    ASSUME NEW S \in SUBSET Locations, NEW a \in Nat, NEW b \in Nat, a <= b
    PROVE  Among(S, a, b + 1) = Among(S, a, b) + Flag(b \in S)
  <1>1. b + 1 \in Nat /\ b <= b + 1
    BY SMT
  <1>2. Among(S, a, b + 1) = Among(S, a, b) + Among(S, b, b + 1)
    BY <1>1, AmongJoin
  <1>3. S \cap (b .. (b + 1) - 1) = IF b \in S THEN {b} ELSE {}
    BY SMT
  <1>4. Cardinality({b}) = 1 /\ Cardinality({}) = 0
    BY FS_Singleton, FS_EmptySet
  <1>5. Among(S, b, b + 1) = Flag(b \in S)
    BY <1>3, <1>4 DEF Among, Flag
  <1> QED
    BY <1>2, <1>5

LEMMA AmongAll ==
    ASSUME NEW S \in SUBSET Locations
    PROVE  Among(S, 0, Sample) = Cardinality(S)
  <1>1. S \cap (0 .. Sample - 1) = S
    BY DEF Locations
  <1> QED
    BY <1>1 DEF Among

------------------------------------------------------------------------------
(* The slices of a call.                                                    *)

LEMMA ThreadOfCall ==
    ASSUME NEW n \in 1 .. MaxThreads, NEW t \in Threads, t < n
    PROVE  t \in 0 .. n - 1
  BY MaxThreadsAssumption, SMT DEF Threads

\* The threads of a call are among Threads, and their slices are ranges of
\* locations.
LEMMA SliceBounds ==
    ASSUME NEW n \in 1 .. MaxThreads, NEW t \in 0 .. n - 1
    PROVE  /\ t \in Threads
           /\ n \in Nat \ {0}
           /\ idx_begin(n, t) \in 0 .. Sample
           /\ idx_end(n, t) \in 0 .. Sample
           /\ idx_begin(n, t) <= idx_end(n, t)
           /\ idx_end(n, t) = idx_begin(n, t + 1)
  <1>1. n \in Nat \ {0} /\ t \in Nat /\ t \in Threads
    BY MaxThreadsAssumption, SMT DEF Threads
  <1> QED
    BY <1>1, SliceRange

------------------------------------------------------------------------------
(* The invariant is inductive.                                              *)

LEMMA InitInv == Init => IInv
  <1> SUFFICES ASSUME Init PROVE IInv
    OBVIOUS
  <1> USE DEF Init
  <1>1. TypeOK
    BY SampleAssumption, MaxThreadsAssumption, SMT DEF TypeOK, Threads
  <1>2. ThreadInv
    BY DEF ThreadInv, Started
  <1>3. CallerInv /\ IdleInv
    BY DEF CallerInv, IdleInv
  <1> QED
    BY <1>1, <1>2, <1>3 DEF IInv

LEMMA CallInv == IInv /\ Call => IInv'
  <1> SUFFICES ASSUME IInv, Call PROVE IInv'
    OBVIOUS
  <1> USE DEF IInv, Call
  <1>1. TypeOK'
    BY SampleAssumption, SMT DEF TypeOK
  <1>2. Started' = {}
    BY SMT DEF Started
  <1>3. ThreadInv'
    <2>1. ASSUME NEW t \in Threads PROVE NotStartedInv(t)'
      <3>1. t < thread_count' =>
                \A l \in Slice(thread_count', t) : selected'[l] = Garbage
        <4>1. SUFFICES ASSUME t < thread_count' PROVE Slice(thread_count', t) \subseteq Locations
          BY DEF Locations
        <4>2. thread_count' \in 1 .. MaxThreads
          BY DEF Call
        <4> HIDE DEF Call, IInv
        <4>3. t \in 0 .. thread_count' - 1
          BY <4>1, <4>2, ThreadOfCall
        <4>4. idx_begin(thread_count', t) \in 0 .. Sample /\ idx_end(thread_count', t) \in 0 .. Sample
          BY <4>2, <4>3, SliceBounds
        <4> QED
          BY <4>4, SampleAssumption, SMT DEF Slice, Locations
      <3> QED
        BY <3>1 DEF NotStartedInv
    <2> QED
      BY <1>2, <2>1 DEF ThreadInv
  <1>4. CallerInv' /\ IdleInv'
    BY DEF CallerInv, IdleInv
  <1> QED
    BY <1>1, <1>3, <1>4

LEMMA CreateInv == IInv /\ Create => IInv'
  <1> SUFFICES ASSUME IInv, Create PROVE IInv'
    OBVIOUS
  <1> USE DEF IInv, Create
  <1> DEFINE n == thread_count
  <1>1. /\ n \in 1 .. MaxThreads /\ i \in 0 .. n - 1 /\ i \in Threads
        /\ idx_begin(n, i) \in 0 .. Sample /\ idx_end(n, i) \in 0 .. Sample
        /\ idx_begin(n, i) <= idx_end(n, i)
    <2>1. n \in 1 .. MaxThreads /\ i \in 0 .. n - 1
      BY MaxThreadsAssumption, SMT DEF TypeOK
    <2> QED
      BY <2>1, SliceBounds
  <1>2. TypeOK'
    BY <1>1, SampleAssumption, SMT DEF TypeOK
  <1>3. Started = 0 .. i - 1 /\ Started' = 0 .. i
    BY <1>1, SMT DEF Started
  <1>4. ASSUME NEW t \in Threads, t = i
        PROVE  t \in Started' /\ StartedInv(t)'
    <2>1. t \notin Started
      BY <1>1, <1>4, <1>3, SMT
    <2>2. \A l \in Slice(n, t) : selected[l] = Garbage
      <3>1. NotStartedInv(t)
        BY <1>1, <1>4, <2>1 DEF ThreadInv
      <3> QED
        BY <1>1, <1>4, <3>1, SMT DEF NotStartedInv
    <2>3. params'[t] = [idx_begin |-> idx_begin(n, t), idx_end |-> idx_end(n, t), cnt |-> 0]
          /\ tpc'[t] = "run" /\ k'[t] = idx_begin(n, t)
      BY <1>1, <1>4 DEF TypeOK
    <2>4. Among(near, idx_begin(n, t), idx_begin(n, t)) = 0
      BY <1>1, <1>4, AmongEmpty
    <2>5. idx_begin(n, t) .. idx_begin(n, t) - 1 = {}
      BY <1>1, <1>4, SMT
    <2>6. idx_begin(n, t) \in idx_begin(n, t) .. idx_end(n, t)
      BY <1>1, <1>4, SMT
    <2>7. t \in Started'
      BY <1>1, <1>3, <1>4, SMT
    <2> QED
      BY <2>7, <2>2, <2>3, <2>4, <2>5, <2>6 DEF StartedInv, Slice
  <1>5. ASSUME NEW t \in Threads, t # i
        PROVE  /\ t \in Started' => StartedInv(t)'
               /\ t \notin Started' => NotStartedInv(t)'
    <2>1. t \in Started' <=> t \in Started
      BY <1>1, <1>3, <1>5, SMT
    <2>2. params'[t] = params[t] /\ tpc'[t] = tpc[t] /\ k'[t] = k[t]
      BY <1>5 DEF TypeOK
    <2>3. CASE t \in Started
      BY <2>1, <2>2, <2>3 DEF ThreadInv, StartedInv
    <2>4. CASE t \notin Started
      BY <2>1, <2>2, <2>4 DEF ThreadInv, NotStartedInv
    <2> QED
      BY <2>3, <2>4
  <1>6. ThreadInv'
    <2>1. ASSUME NEW t \in Threads
          PROVE  /\ t \in Started' => StartedInv(t)'
                 /\ t \notin Started' => NotStartedInv(t)'
      BY <1>4, <1>5
    <2> QED
      BY <2>1 DEF ThreadInv
  <1>7. CallerInv' /\ IdleInv'
    BY DEF CallerInv, IdleInv
  <1> QED
    BY <1>2, <1>6, <1>7

\* A step of the calling thread that starts nothing leaves every thread's
\* part of the invariant as it was.
LEMMA CallerOnly ==
    ASSUME ThreadInv, Started' = Started, mpc # "idle",
           UNCHANGED <<near, thread_count, params, tpc, k, selected>>
    PROVE  ThreadInv'
  <1>1. ASSUME NEW t \in Threads
        PROVE  /\ t \in Started' => StartedInv(t)'
               /\ t \notin Started' => NotStartedInv(t)'
    <2>1. /\ t \in Started => StartedInv(t)
          /\ t \notin Started => NotStartedInv(t)
      BY DEF ThreadInv
    <2> QED
      BY <2>1 DEF StartedInv, NotStartedInv
  <1> QED
    BY <1>1 DEF ThreadInv

LEMMA JoinInv == IInv /\ Join => IInv'
  <1> SUFFICES ASSUME IInv, Join PROVE IInv'
    OBVIOUS
  <1> USE DEF IInv, Join
  <1>1. thread_count \in Nat /\ i \in Nat /\ i < thread_count
    BY MaxThreadsAssumption, SMT DEF TypeOK
  <1>2. TypeOK'
    BY <1>1, SMT DEF TypeOK
  <1>3. ThreadInv'
    BY CallerOnly DEF Started
  <1>4. CallerInv'
    <2>1. \A t \in 0 .. i - 1 : tpc[t] = "exit"
      BY DEF CallerInv
    <2>2. \A t \in 0 .. (i + 1) - 1 : t = i \/ t \in 0 .. i - 1
      BY <1>1, SMT
    <2>3. \A t \in 0 .. i' - 1 : tpc'[t] = "exit"
      BY <2>1, <2>2
    <2> QED
      BY <2>3 DEF CallerInv
  <1>5. IdleInv'
    BY DEF IdleInv
  <1> QED
    BY <1>2, <1>3, <1>4, <1>5

LEMMA SumInv == IInv /\ Sum => IInv'
  <1> SUFFICES ASSUME IInv, Sum PROVE IInv'
    OBVIOUS
  <1> USE DEF IInv, Sum
  <1>1. thread_count \in 1 .. MaxThreads /\ i \in 0 .. thread_count - 1
    BY MaxThreadsAssumption, SMT DEF TypeOK
  <1> DEFINE first == idx_begin(thread_count, i)  last == idx_end(thread_count, i)
  <1>2. /\ first \in Nat /\ last \in Nat /\ first <= last
        /\ last = idx_begin(thread_count, i + 1)
        /\ i \in Threads
    BY <1>1, SampleAssumption, SliceBounds, SMT
  <1>3. i \in Started /\ tpc[i] = "exit"
    BY <1>1 DEF Started, CallerInv
  <1>4. params[i].cnt = Among(near, first, last)
    <2>1. StartedInv(i)
      BY <1>2, <1>3 DEF ThreadInv
    <2> QED
      BY <1>3, <2>1 DEF StartedInv
  <1>5. cnt' = Among(near, 0, last)
    <2>1. near \in SUBSET Locations /\ 0 \in Nat /\ 0 <= first
      BY <1>2, SMT DEF TypeOK
    <2>2. Among(near, 0, last) = Among(near, 0, first) + Among(near, first, last)
      BY <1>2, <2>1, AmongJoin
    <2> QED
      BY <1>4, <2>2 DEF CallerInv
  <1>6. TypeOK'
    <2>1. cnt' \in 0 .. Sample
      <3>1. near \in SUBSET Locations /\ 0 \in Nat
        BY DEF TypeOK
      <3>2. Among(near, 0, last) \in 0 .. Sample
        BY <1>2, <3>1, AmongType
      <3> QED
        BY <1>5, <3>2
    <2>2. i' \in 0 .. thread_count'
      BY <1>1, MaxThreadsAssumption, SMT
    <2> QED
      BY <2>1, <2>2 DEF TypeOK
  <1>7. ThreadInv'
    BY CallerOnly DEF Started
  <1>8. CallerInv'
    BY <1>2, <1>5 DEF CallerInv, Started
  <1>9. IdleInv'
    BY DEF IdleInv
  <1> QED
    BY <1>6, <1>7, <1>8, <1>9

LEMMA EndLoopInv == IInv /\ EndLoop => IInv'
  <1> SUFFICES ASSUME IInv, EndLoop PROVE IInv'
    OBVIOUS
  <1> USE DEF IInv, EndLoop
  <1>1. /\ thread_count \in Nat \ {0} /\ 0 \in 0 .. thread_count
        /\ near \in SUBSET Locations
    BY MaxThreadsAssumption, SMT DEF TypeOK
  <1>2. \/ mpc = "create" /\ mpc' = "join"
        \/ mpc = "join" /\ mpc' = "sum"
        \/ mpc = "sum" /\ mpc' = "returned"
    BY DEF AfterLoop
  <1>3. TypeOK'
    BY <1>1, <1>2, SMT DEF TypeOK
  <1>4. Started' = Started /\ Started = 0 .. thread_count - 1
    BY <1>2 DEF Started
  <1>5. ThreadInv'
    BY <1>2, <1>4, CallerOnly
  <1>6. idx_begin(thread_count, 0) = 0 /\ idx_begin(thread_count, thread_count) = Sample
    BY <1>1, SlicesAreContiguous
  <1>7. CallerInv'
    <2>1. CASE mpc = "create"
      <3>1. 0 .. i' - 1 = {}
        BY SMT
      <3> QED
        BY <1>2, <2>1, <3>1 DEF CallerInv
    <2>2. CASE mpc = "join"
      <3>1. Among(near, 0, 0) = 0
        BY AmongEmpty
      <3>2. cnt' = Among(near', 0, idx_begin(thread_count', i'))
        BY <1>6, <2>2, <3>1 DEF CallerInv
      <3>3. \A t \in Started' : tpc'[t] = "exit"
        BY <1>4, <2>2 DEF CallerInv
      <3> QED
        BY <1>2, <2>2, <3>2, <3>3 DEF CallerInv
    <2>3. CASE mpc = "sum"
      <3>1. Among(near, 0, Sample) = Cardinality(near)
        BY <1>1, AmongAll
      <3>2. cnt' = Cardinality(near')
        BY <1>6, <2>3, <3>1 DEF CallerInv
      <3>3. \A t \in Started' : tpc'[t] = "exit"
        BY <1>4, <2>3 DEF CallerInv
      <3> QED
        BY <1>2, <2>3, <3>2, <3>3 DEF CallerInv
    <2> QED
      BY <1>2, <2>1, <2>2, <2>3
  <1>8. IdleInv'
    BY <1>2 DEF IdleInv
  <1> QED
    BY <1>3, <1>5, <1>7, <1>8

\* Only a started thread runs, and it is one of the call's.
LEMMA RunningIsStarted ==
    ASSUME IInv, NEW t \in Threads, tpc[t] = "run"
    PROVE  /\ mpc # "idle" /\ t \in Started /\ StartedInv(t)
           /\ thread_count \in 1 .. MaxThreads
           /\ t \in 0 .. thread_count - 1
           /\ idx_begin(thread_count, t) \in 0 .. Sample
           /\ idx_end(thread_count, t) \in 0 .. Sample
  <1>1. mpc # "idle"
    BY DEF IInv, IdleInv
  <1>2. t \in Started
    <2>1. SUFFICES ASSUME t \notin Started PROVE FALSE
      OBVIOUS
    <2>2. NotStartedInv(t)
      BY <1>1, <2>1 DEF IInv, ThreadInv
    <2> QED
      BY <2>2 DEF NotStartedInv
  <1>3. StartedInv(t)
    BY <1>2 DEF IInv, ThreadInv
  <1>4. thread_count \in 1 .. MaxThreads /\ i \in 0 .. thread_count
    BY DEF IInv, TypeOK
  <1>5. t \in 0 .. thread_count - 1
    BY <1>1, <1>2, <1>4, MaxThreadsAssumption, SMT DEF Started
  <1> QED
    BY <1>1, <1>2, <1>3, <1>4, <1>5, SliceBounds

LEMMA VisitInv ==
    ASSUME NEW t \in Threads, IInv, Visit(t)
    PROVE  IInv'
  <1> USE DEF Visit
  <1> DEFINE n == thread_count  first == idx_begin(n, t)  last == idx_end(n, t)
             here == k[t]
  <1>1. /\ mpc # "idle" /\ t \in Started /\ StartedInv(t)
        /\ n \in 1 .. MaxThreads /\ t \in 0 .. n - 1
        /\ first \in 0 .. Sample /\ last \in 0 .. Sample
    BY RunningIsStarted
  <1>2. /\ here \in Nat /\ first <= here /\ here + 1 <= last
        /\ here \in Locations /\ here \in Slice(n, t)
        /\ first \in Nat /\ last \in Nat /\ here + 1 \in Nat
    BY <1>1, SampleAssumption, SMT DEF StartedInv, Slice, Locations
  <1>3. /\ params' = [params EXCEPT ![t].cnt = @ + Flag(here \in near)]
        /\ params'[t].cnt = Among(near, first, here + 1)
        /\ params'[t].cnt \in 0 .. Sample
    <2>1. near \in SUBSET Locations
      BY DEF IInv, TypeOK
    <2>2. Among(near, first, here + 1) = Among(near, first, here) + Flag(here \in near)
      BY <1>2, <2>1, AmongStep
    <2>3. Among(near, first, here + 1) \in 0 .. Sample
      BY <1>2, <2>1, AmongType
    <2>4. params'[t].cnt = params[t].cnt + Flag(here \in near)
      BY DEF IInv, TypeOK
    <2>5. params[t].cnt = Among(near, first, here)
      BY <1>1 DEF StartedInv
    <2> QED
      BY <2>2, <2>3, <2>4, <2>5
  <1>4. TypeOK'
    <2>1. /\ params \in [Threads -> [idx_begin : 0 .. Sample, idx_end : 0 .. Sample,
                                      cnt : 0 .. Sample]]
          /\ k \in [Threads -> 0 .. Sample]
          /\ selected \in [Locations -> {0, 1, Garbage}]
      BY DEF IInv, TypeOK
    <2>2. params' \in [Threads -> [idx_begin : 0 .. Sample, idx_end : 0 .. Sample,
                                   cnt : 0 .. Sample]]
      BY <1>3, <2>1
    <2>3. here + 1 \in 0 .. Sample
      BY <1>1, <1>2, SampleAssumption, SMT
    <2>4. k' \in [Threads -> 0 .. Sample]
      BY <2>1, <2>3
    <2>5. selected' \in [Locations -> {0, 1, Garbage}]
      BY <2>1 DEF Flag
    <2> QED
      BY <2>2, <2>4, <2>5 DEF IInv, TypeOK
  <1>5. Started' = Started
    BY DEF Started
  <1>6. \A l \in Locations : selected'[l] = IF l = here THEN Flag(here \in near) ELSE selected[l]
    BY DEF IInv, TypeOK
  <1>7. StartedInv(t)'
    <2>1. /\ params'[t].idx_begin = params[t].idx_begin
          /\ params'[t].idx_end = params[t].idx_end
          /\ k'[t] = here + 1
          /\ tpc'[t] = "run"
      BY DEF IInv, TypeOK
    <2>2. here + 1 \in first .. last
      BY <1>2, SMT
    <2>3. ASSUME NEW l \in first .. (here + 1) - 1
          PROVE  selected'[l] = Flag(l \in near)
      <3>1. l \in Locations /\ (l = here \/ l \in first .. here - 1)
        BY <1>1, <1>2, SampleAssumption, SMT DEF Locations
      <3>2. l \in first .. here - 1 => selected[l] = Flag(l \in near)
        BY <1>1 DEF StartedInv
      <3> QED
        BY <1>6, <3>1, <3>2
    <2>4. ASSUME NEW l \in here + 1 .. last - 1
          PROVE  selected'[l] = Garbage
      <3>1. l \in Locations /\ l # here /\ l \in here .. last - 1
        BY <1>1, <1>2, SampleAssumption, SMT DEF Locations
      <3>2. selected[l] = Garbage
        BY <1>1, <3>1 DEF StartedInv
      <3> QED
        BY <1>6, <3>1, <3>2
    <2> QED
      BY <1>1, <1>3, <2>1, <2>2, <2>3, <2>4 DEF StartedInv
  <1>8. ASSUME NEW u \in Threads, u # t
        PROVE  /\ u \in Started' => StartedInv(u)'
               /\ u \notin Started' => NotStartedInv(u)'
    <2>1. params'[u] = params[u] /\ tpc'[u] = tpc[u] /\ k'[u] = k[u]
      BY <1>8 DEF IInv, TypeOK
    <2>2. ASSUME u < n, NEW l \in Slice(n, u)
          PROVE  selected'[l] = selected[l]
      <3>1. u \in 0 .. n - 1
        BY <1>1, <2>2, ThreadOfCall
      <3>2. l # here
        BY <1>1, <1>2, <1>8, <3>1, SliceOwner
      <3>3. idx_begin(n, u) \in 0 .. Sample /\ idx_end(n, u) \in 0 .. Sample
        BY <1>1, <3>1, SliceBounds
      <3>4. l \in Locations
        BY <3>3, SampleAssumption, SMT DEF Slice, Locations
      <3> QED
        BY <1>6, <3>2, <3>4
    <2>3. CASE u \in Started
      <3>1. u \in 0 .. n - 1 /\ u < n
        <4>1. i \in 0 .. n
          BY DEF IInv, TypeOK
        <4> QED
          BY <1>1, <2>3, <4>1, MaxThreadsAssumption, SMT DEF Started
      <3>2. StartedInv(u)
        BY <2>3 DEF IInv, ThreadInv
      <3>3. idx_begin(n, u) \in 0 .. Sample /\ idx_end(n, u) \in 0 .. Sample
        BY <1>1, <3>1, SliceBounds
      <3>4. k[u] \in idx_begin(n, u) .. idx_end(n, u)
        BY <3>2 DEF StartedInv
      <3>5. /\ idx_begin(n, u) .. k[u] - 1 \subseteq Slice(n, u)
            /\ k[u] .. idx_end(n, u) - 1 \subseteq Slice(n, u)
        BY <3>3, <3>4, SampleAssumption, SMT DEF Slice
      <3>6. StartedInv(u)'
        BY <2>1, <2>2, <3>1, <3>2, <3>5 DEF StartedInv
      <3> QED
        BY <1>5, <2>3, <3>6
    <2>4. CASE u \notin Started
      <3>1. NotStartedInv(u)
        BY <1>1, <2>4 DEF IInv, ThreadInv
      <3>2. NotStartedInv(u)'
        BY <2>1, <2>2, <3>1 DEF NotStartedInv
      <3> QED
        BY <1>5, <2>4, <3>2
    <2> QED
      BY <2>3, <2>4
  <1>9. ThreadInv'
    <2>1. ASSUME NEW u \in Threads
          PROVE  /\ u \in Started' => StartedInv(u)'
                 /\ u \notin Started' => NotStartedInv(u)'
      BY <1>1, <1>5, <1>7, <1>8
    <2> QED
      BY <2>1 DEF ThreadInv
  <1>10. CallerInv' /\ IdleInv'
    BY <1>5 DEF IInv, CallerInv, IdleInv
  <1> QED
    BY <1>4, <1>9, <1>10 DEF IInv

LEMMA ExitInv ==
    ASSUME NEW t \in Threads, IInv, Exit(t)
    PROVE  IInv'
  <1> USE DEF Exit
  <1> DEFINE n == thread_count  last == idx_end(n, t)
  <1>1. /\ mpc # "idle" /\ t \in Started /\ StartedInv(t)
        /\ idx_begin(n, t) \in 0 .. Sample /\ last \in 0 .. Sample
    BY RunningIsStarted
  <1>2. k[t] = last
    BY <1>1, SampleAssumption, SMT DEF StartedInv
  <1>3. TypeOK'
    BY DEF IInv, TypeOK
  <1>4. Started' = Started
    BY DEF Started
  <1>5. ASSUME NEW u \in Threads
        PROVE  /\ u \in Started' => StartedInv(u)'
               /\ u \notin Started' => NotStartedInv(u)'
    <2>1. tpc'[u] = IF u = t THEN "exit" ELSE tpc[u]
      BY DEF IInv, TypeOK
    <2>2. /\ u \in Started => StartedInv(u)
          /\ u \notin Started => NotStartedInv(u)
      BY <1>1 DEF IInv, ThreadInv
    <2>3. CASE u = t
      BY <1>1, <1>2, <1>4, <2>1, <2>3 DEF StartedInv
    <2>4. CASE u # t
      BY <1>4, <2>1, <2>2, <2>4 DEF StartedInv, NotStartedInv
    <2> QED
      BY <2>3, <2>4
  <1>6. ThreadInv'
    BY <1>5 DEF ThreadInv
  <1>7. CallerInv'
    <2>1. \A u \in Threads : tpc[u] = "exit" => tpc'[u] = "exit"
      BY DEF IInv, TypeOK
    <2>2. 0 .. i - 1 \subseteq Threads /\ Started \subseteq Threads
      <3>1. i \in 0 .. n /\ n \in 1 .. MaxThreads
        BY DEF IInv, TypeOK
      <3> QED
        BY <3>1, MaxThreadsAssumption, SMT DEF Threads, Started
    <2>3. mpc = "join" => \A u \in 0 .. i - 1 : tpc'[u] = "exit"
      BY <2>1, <2>2 DEF IInv, CallerInv
    <2>4. mpc \in {"sum", "returned"} => \A u \in Started : tpc'[u] = "exit"
      BY <2>1, <2>2 DEF IInv, CallerInv
    <2> QED
      BY <1>4, <2>3, <2>4 DEF IInv, CallerInv
  <1>8. IdleInv'
    BY <1>1 DEF IInv, IdleInv
  <1> QED
    BY <1>3, <1>6, <1>7, <1>8 DEF IInv

LEMMA StutterInv == IInv /\ UNCHANGED vars => IInv'
  <1> SUFFICES ASSUME IInv, UNCHANGED vars PROVE IInv'
    OBVIOUS
  <1>1. Started' = Started
    BY DEF vars, Started
  <1>2. TypeOK' /\ CallerInv' /\ IdleInv'
    BY <1>1 DEF IInv, vars, TypeOK, CallerInv, IdleInv
  <1>3. ThreadInv'
    <2>1. ASSUME NEW t \in Threads
          PROVE  /\ t \in Started' => StartedInv(t)'
                 /\ t \notin Started' /\ mpc' # "idle" => NotStartedInv(t)'
      <3>1. /\ t \in Started => StartedInv(t)
            /\ t \notin Started /\ mpc # "idle" => NotStartedInv(t)
        BY DEF IInv, ThreadInv
      <3> QED
        BY <1>1, <3>1 DEF vars, StartedInv, NotStartedInv
    <2> QED
      BY <2>1 DEF ThreadInv
  <1> QED
    BY <1>2, <1>3 DEF IInv

LEMMA NextInv == IInv /\ [Next]_vars => IInv'
  <1> SUFFICES ASSUME IInv, [Next]_vars PROVE IInv'
    OBVIOUS
  <1>1. CASE Call
    BY <1>1, CallInv
  <1>2. CASE Main
    BY <1>2, CreateInv, JoinInv, SumInv, EndLoopInv DEF Main
  <1>3. ASSUME NEW t \in Threads, Task(t) PROVE IInv'
    BY <1>3, VisitInv, ExitInv DEF Task
  <1>4. CASE UNCHANGED vars
    BY <1>4, StutterInv
  <1> QED
    BY <1>1, <1>2, <1>3, <1>4 DEF Next

THEOREM Invariance == Spec => []IInv
  BY InitInv, NextInv, PTL DEF Spec

------------------------------------------------------------------------------
(* What follows from the invariant.                                         *)

\* Every variable keeps its type in every call of as_scan_thread; no thread
\* index, location index or count leaves its range.
THEOREM TypeCorrect == Spec => []TypeOK
  BY Invariance, PTL DEF IInv

\* What a running thread has still to write is inside its own slice.
LEMMA PendingInSlice ==
    ASSUME IInv, NEW t \in Threads, NEW l \in Pending(t)
    PROVE  /\ tpc[t] = "run" /\ selected[l] = Garbage
           /\ l \in Slice(thread_count, t)
  <1>1. tpc[t] = "run"
    BY DEF Pending
  <1>2. /\ StartedInv(t)
        /\ idx_begin(thread_count, t) \in 0 .. Sample
        /\ idx_end(thread_count, t) \in 0 .. Sample
    BY <1>1, RunningIsStarted
  <1>3. l \in k[t] .. idx_end(thread_count, t) - 1
    BY <1>1, <1>2 DEF Pending, StartedInv
  <1>4. selected[l] = Garbage
    BY <1>2, <1>3 DEF StartedInv
  <1>5. l \in Slice(thread_count, t)
    BY <1>2, <1>3, SampleAssumption, SMT DEF StartedInv, Slice
  <1> QED
    BY <1>1, <1>4, <1>5

\* However the threads interleave, no location is written twice: scan_task
\* needs no lock.
THEOREM WritesAreDisjoint == Spec => []DisjointWrites
  <1>1. IInv => DisjointWrites
    <2> SUFFICES ASSUME IInv PROVE DisjointWrites
      OBVIOUS
    <2>1. ASSUME NEW t \in Threads, NEW l \in Pending(t)
          PROVE  selected[l] = Garbage
      BY PendingInSlice
    <2>2. ASSUME NEW t \in Threads, NEW u \in Threads \ {t}
          PROVE  Pending(t) \cap Pending(u) = {}
      <3>1. SUFFICES ASSUME NEW l \in Pending(t), l \in Pending(u) PROVE FALSE
        OBVIOUS
      <3>2. /\ l \in Slice(thread_count, t) /\ tpc[t] = "run"
            /\ l \in Slice(thread_count, u) /\ tpc[u] = "run"
        BY <3>1, PendingInSlice
      <3>3. /\ thread_count \in 1 .. MaxThreads
            /\ t \in 0 .. thread_count - 1 /\ u \in 0 .. thread_count - 1
        BY <3>2, RunningIsStarted
      <3> QED
        BY <2>2, <3>2, <3>3, SliceOwner
    <2> QED
      BY <2>1, <2>2 DEF DisjointWrites
  <1> QED
    BY <1>1, Invariance, PTL

\* Nothing is freed or read by the caller while a thread still runs.
THEOREM NoThreadOutlivesTheCall == Spec => []NoThreadLeft
  <1>1. IInv => NoThreadLeft
    <2> SUFFICES ASSUME IInv, mpc \in {"sum", "returned"}, NEW t \in Threads,
                        tpc[t] = "run"
                 PROVE  FALSE
      BY DEF NoThreadLeft
    <2>1. t \in Started
      BY RunningIsStarted
    <2> QED
      BY <2>1 DEF IInv, CallerInv
  <1> QED
    BY <1>1, Invariance, PTL

\* A scan that returned has flagged exactly the near locations.
LEMMA ReturnedFlags ==
    ASSUME IInv, mpc = "returned"
    PROVE  /\ \A l \in Locations : selected[l] = Flag(l \in near)
           /\ cnt = Cardinality(near)
  <1>1. ASSUME NEW l \in Locations
        PROVE  selected[l] = Flag(l \in near)
    <2>1. thread_count \in 1 .. MaxThreads /\ thread_count \in Nat \ {0}
      BY MaxThreadsAssumption, SMT DEF IInv, TypeOK
    <2>2. PICK t \in 0 .. thread_count - 1 : l \in Slice(thread_count, t)
      BY <2>1, SlicesCover
    <2>3. t \in Threads
      BY <2>1, SliceBounds
    <2>4. t \in Started /\ tpc[t] = "exit"
      BY DEF Started, IInv, CallerInv
    <2>5. StartedInv(t)
      BY <2>3, <2>4 DEF IInv, ThreadInv
    <2> QED
      BY <2>2, <2>4, <2>5 DEF StartedInv, Slice
  <1> QED
    BY <1>1 DEF IInv, CallerInv

LEMMA InvReturnsExactly == IInv => ReturnsExactly
  BY ReturnedFlags DEF ReturnsExactly

\* For every number of locations and of threads, what as_scan_thread returns
\* is what a linear scan returns.
THEOREM ScanIsExact == Spec => []ReturnsExactly
  BY InvReturnsExactly, Invariance, PTL

------------------------------------------------------------------------------
(* as_scan_thread implements the contract of a scanner.                     *)

\* Each step of ThreadScan is a step of Scan or leaves its variables alone:
\* the call is Scan's Call, the end of the summing loop its Return.
LEMMA StepIsScanStep ==
    ASSUME IInv, IInv', [Next]_vars
    PROVE  [Contract!Next]_(Contract!vars)
  <1> USE DEF Contract!vars
  <1>1. CASE Call
    <2>1. /\ ~(mpc \in {"create", "join", "sum"})
          /\ mpc' \in {"create", "join", "sum"} /\ mpc' # "returned"
          /\ near' \in SUBSET Locations
      BY <1>1 DEF Call
    <2>2. Contract!Call
      BY <2>1 DEF Contract!Call, Contract!Locations, Contract!NoAnswer, Locations
    <2> QED
      BY <2>2 DEF Contract!Next
  <1>2. CASE Create \/ Join \/ Sum
    <2>1. mpc' = mpc /\ mpc \in {"create", "join", "sum"} /\ near' = near
      BY <1>2 DEF Create, Join, Sum
    <2> QED
      BY <2>1
  <1>3. CASE EndLoop
    <2>1. \/ mpc = "create" /\ mpc' = "join"
          \/ mpc = "join" /\ mpc' = "sum"
          \/ mpc = "sum" /\ mpc' = "returned"
      BY <1>3 DEF EndLoop, AfterLoop
    <2>2. near' = near
      BY <1>3 DEF EndLoop
    <2>3. CASE mpc' # "returned"
      BY <2>1, <2>2, <2>3
    <2>4. CASE mpc' = "returned"
      <3>1. /\ \A l \in Locations : selected'[l] = Flag(l \in near')
            /\ cnt' = Cardinality(near')
        <4>1. ReturnsExactly'
          BY InvReturnsExactly, PTL
        <4> QED
          BY <2>4, <4>1 DEF ReturnsExactly
      <3>2. near \in SUBSET Locations
        BY DEF IInv, TypeOK
      <3>3. FlaggedLocations' = near
        BY <2>2, <3>1, <3>2 DEF FlaggedLocations, Flag
      <3>4. Contract!Cardinality(near) = Cardinality(near)
        BY DEF Cardinality, Contract!Cardinality
      <3>5. Contract!Return
        BY <2>1, <2>2, <2>4, <3>1, <3>3, <3>4 DEF Contract!Return
      <3> QED
        BY <3>5 DEF Contract!Next
    <2> QED
      BY <2>3, <2>4
  <1>4. ASSUME NEW t \in Threads, Task(t)
        PROVE  [Contract!Next]_(Contract!vars)
    <2>1. tpc[t] = "run" /\ mpc' = mpc /\ near' = near
      BY <1>4 DEF Task, Visit, Exit
    <2>2. mpc # "returned"
      <3>1. t \in Started
        BY <2>1, RunningIsStarted
      <3> QED
        BY <2>1, <3>1 DEF IInv, CallerInv
    <2> QED
      BY <2>1, <2>2
  <1>5. CASE UNCHANGED vars
    <2>1. UNCHANGED <<mpc, near, cnt, FlaggedLocations>>
      BY <1>5 DEF vars, FlaggedLocations
    <2> QED
      BY <2>1
  <1> QED
    BY <1>1, <1>2, <1>3, <1>4, <1>5 DEF Next, Main

\* as_scan_thread implements the contract every caller of sdm_scan relies
\* on: one atomic answer that is exactly the near locations.
THEOREM ThreadScanImplementsScan == Spec => ImplementsScan
  <1>1. Init => Contract!Init
    BY DEF Init, Contract!Init, Contract!NoAnswer
  <1>2. IInv /\ IInv' /\ [Next]_vars => [Contract!Next]_(Contract!vars)
    BY StepIsScanStep
  <1> QED
    BY <1>1, <1>2, Invariance, PTL DEF Spec, ImplementsScan, Contract!Spec
==============================================================================
