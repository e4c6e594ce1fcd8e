-------------------------- MODULE ThreadScan2_proofs --------------------------
(***************************************************************************)
(* as_scan_thread2 returns the list of a linear scan, in its order, for    *)
(* every number of hard locations, every thread_count and every            *)
(* interleaving, and so keeps the promise of module Scan.                  *)
(***************************************************************************)
EXTENDS ThreadScan2, FiniteSetTheorems, SequenceTheorems, TLAPS

\* as_scan_thread, with its flags and its count: what is proved there of the
\* division of the locations is true here too.
Flags == INSTANCE ThreadScan_proofs WITH cnt <- Len(selected)

\* A list of the locations of S, each of them once and in ascending order.
Lists(s, S) ==
    /\ s \in Seq(Locations)
    /\ Listed(s) = S
    /\ Ascending(s)

\* The threads the call has started so far, and those whose buffer is merged.
Started ==
    IF mpc = "idle" THEN {}
    ELSE IF mpc = "create" THEN 0 .. i - 1
    ELSE 0 .. thread_count - 1

IsMerged(t) == mpc = "returned" \/ (mpc = "merge" /\ t < i)

\* A started thread has collected the near locations of its slice below k[t].
StartedInv(t) ==
    LET first == idx_begin(thread_count, t)
        last == idx_end(thread_count, t)
    IN  /\ params[t].idx_begin = first
        /\ params[t].idx_end = last
        /\ tpc[t] \in {"run", "exit"}
        /\ k[t] \in first .. last
        /\ tpc[t] = "exit" => k[t] = last
        /\ ~IsMerged(t) => Lists(params[t].selected, near \cap (first .. k[t] - 1))
        /\ IsMerged(t) => params[t].selected = <<>>

ThreadInv ==
    \A t \in Threads :
        /\ t \in Started => StartedInv(t)
        /\ t \notin Started => tpc[t] = "none" \/ mpc = "idle"

\* What the calling thread knows at each loop.
CallerInv ==
    /\ mpc \in {"create", "join"} => selected = <<>>
    /\ mpc = "join" => \A t \in 0 .. i - 1 : tpc[t] = "exit"
    /\ mpc \in {"merge", "returned"} => \A t \in Started : tpc[t] = "exit"
    /\ mpc = "merge" => Lists(selected, near \cap (0 .. idx_begin(thread_count, i) - 1))
    /\ mpc = "returned" => Lists(selected, near)

\* In the initial state no thread exists.
IdleInv == mpc = "idle" => \A t \in Threads : tpc[t] = "none"

IInv == TypeOK /\ ThreadInv /\ CallerInv /\ IdleInv

------------------------------------------------------------------------------
(* Ascending lists of locations.                                            *)

LEMMA EmptyList == Lists(<<>>, {})
  <1>1. <<>> \in Seq(Locations) /\ DOMAIN <<>> = {}
    BY EmptySeq
  <1> QED
    BY <1>1 DEF Lists, Listed, Ascending

\* A location behind all those of a list is appended to it.
LEMMA ListAppend ==
    ASSUME NEW S, NEW s, Lists(s, S), NEW l \in Locations, \A x \in S : x < l
    PROVE  Lists(Append(s, l), S \cup {l})
  <1> DEFINE r == Append(s, l)  n == Len(s)
  <1>1. s \in Seq(Locations) /\ n \in Nat /\ DOMAIN s = 1 .. n
    BY LenProperties DEF Lists
  <1>2. /\ r \in Seq(Locations) /\ DOMAIN r = 1 .. n + 1
        /\ r[n + 1] = l /\ \A j \in 1 .. n : r[j] = s[j]
    BY <1>1, AppendProperties
  <1> HIDE DEF r, n
  <1>3. \A j \in 1 .. n + 1 : j = n + 1 \/ j \in 1 .. n
    BY <1>1, SMT
  <1>4. 1 .. n + 1 = 1 .. n \cup {n + 1}
    BY <1>1, SMT
  <1>5. Listed(r) = S \cup {l}
    <2>1. Listed(r) = {s[j] : j \in 1 .. n} \cup {l}
      BY <1>2, <1>4 DEF Listed
    <2> QED
      BY <1>1, <2>1 DEF Lists, Listed
  <1>6. Ascending(r)
    <2>1. SUFFICES ASSUME NEW a \in 1 .. n + 1, NEW b \in 1 .. n + 1, a < b
                   PROVE  r[a] < r[b]
      BY <1>2 DEF Ascending
    <2>2. a \in 1 .. n /\ s[a] \in S
      <3>1. a \in 1 .. n
        BY <1>1, <2>1, SMT
      <3> QED
        BY <1>1, <3>1 DEF Lists, Listed
    <2>3. CASE b = n + 1
      BY <1>2, <2>2, <2>3
    <2>4. CASE b \in 1 .. n
      BY <1>1, <1>2, <2>1, <2>2, <2>4 DEF Lists, Ascending
    <2> QED
      BY <1>3, <2>3, <2>4
  <1> QED
    BY <1>2, <1>5, <1>6 DEF Lists, r

\* A list whose locations are behind all those of another is put behind it.
LEMMA ListConcat ==
    ASSUME NEW S, NEW T, NEW s, NEW t, Lists(s, S), Lists(t, T),
           \A x \in S, y \in T : x < y
    PROVE  Lists(s \o t, S \cup T)
  <1> DEFINE r == s \o t  m == Len(s)  n == Len(t)
  <1>1. /\ s \in Seq(Locations) /\ m \in Nat /\ DOMAIN s = 1 .. m
        /\ t \in Seq(Locations) /\ n \in Nat /\ DOMAIN t = 1 .. n
    BY LenProperties DEF Lists
  <1>2. /\ r \in Seq(Locations) /\ Len(r) = m + n
        /\ \A j \in 1 .. m + n : r[j] = IF j <= m THEN s[j] ELSE t[j - m]
    BY <1>1, ConcatProperties
  <1>3. DOMAIN r = 1 .. m + n
    BY <1>2, LenProperties
  <1> HIDE DEF r, m, n
  <1>4. ASSUME NEW j \in 1 .. m + n
        PROVE  \/ j <= m /\ j \in 1 .. m /\ r[j] = s[j] /\ s[j] \in S
               \/ m < j /\ j - m \in 1 .. n /\ r[j] = t[j - m] /\ t[j - m] \in T
    <2>1. CASE j <= m
      <3>1. j \in 1 .. m
        BY <1>1, <2>1, SMT
      <3> QED
        BY <1>1, <1>2, <2>1, <3>1 DEF Lists, Listed
    <2>2. CASE m < j
      <3>1. j - m \in 1 .. n /\ ~(j <= m)
        BY <1>1, <2>2, SMT
      <3> QED
        BY <1>1, <1>2, <2>2, <3>1 DEF Lists, Listed
    <2> QED
      BY <1>1, <2>1, <2>2, SMT
  <1>5. Listed(r) = S \cup T
    <2>1. Listed(r) \subseteq S \cup T
      BY <1>3, <1>4 DEF Listed
    <2>2. ASSUME NEW x \in S PROVE x \in Listed(r)
      <3>1. PICK j \in 1 .. m : x = s[j]
        BY <1>1 DEF Lists, Listed
      <3>2. j \in 1 .. m + n /\ j <= m
        BY <1>1, SMT
      <3> QED
        BY <1>2, <1>3, <3>1, <3>2 DEF Listed
    <2>3. ASSUME NEW x \in T PROVE x \in Listed(r)
      <3>1. PICK j \in 1 .. n : x = t[j]
        BY <1>1 DEF Lists, Listed
      <3>2. m + j \in 1 .. m + n /\ ~(m + j <= m) /\ (m + j) - m = j
        BY <1>1, SMT
      <3>3. r[m + j] = x
        BY <1>2, <3>1, <3>2
      <3> QED
        BY <1>3, <3>2, <3>3 DEF Listed
    <2> QED
      BY <2>1, <2>2, <2>3
  <1>6. Ascending(r)
    <2>1. SUFFICES ASSUME NEW a \in 1 .. m + n, NEW b \in 1 .. m + n, a < b
                   PROVE  r[a] < r[b]
      BY <1>3 DEF Ascending
    <2>2. CASE b <= m
      <3>1. a <= m
        BY <1>1, <2>1, <2>2, SMT
      <3>2. a \in 1 .. m /\ b \in 1 .. m /\ r[a] = s[a] /\ r[b] = s[b]
        BY <1>1, <1>4, <2>2, <3>1
      <3> QED
        BY <1>1, <2>1, <3>2 DEF Lists, Ascending
    <2>3. CASE m < b /\ a <= m
      <3>1. r[a] \in S /\ r[b] \in T
        BY <1>1, <1>4, <2>3
      <3> QED
        BY <3>1
    <2>4. CASE m < b /\ m < a
      <3>1. a - m \in 1 .. n /\ b - m \in 1 .. n /\ r[a] = t[a - m] /\ r[b] = t[b - m]
        BY <1>1, <1>4, <2>4
      <3>2. a - m < b - m
        BY <1>1, <2>1, SMT
      <3> QED
        BY <1>1, <3>1, <3>2 DEF Lists, Ascending
    <2> QED
      BY <1>1, <2>2, <2>3, <2>4, SMT
  <1> QED
    BY <1>2, <1>5, <1>6 DEF Lists, r

\* A list is as long as its set is large, and never longer than the buffers.
LEMMA ListLength ==
    ASSUME NEW S, NEW s, Lists(s, S)
    PROVE  Len(s) = Cardinality(S) /\ Len(s) <= Sample /\ IsFiniteSet(S)
  <1>1. s \in Seq(Locations) /\ Len(s) \in Nat /\ DOMAIN s = 1 .. Len(s)
        /\ s \in [1 .. Len(s) -> Locations]
    BY LenProperties DEF Lists
  <1>2. S \subseteq Locations /\ S = {s[j] : j \in 1 .. Len(s)}
    BY <1>1 DEF Lists, Listed
  <1>3. \A a, b \in 1 .. Len(s) : s[a] = s[b] => a = b
    <2>1. SUFFICES ASSUME NEW a \in 1 .. Len(s), NEW b \in 1 .. Len(s), s[a] = s[b], a # b
                   PROVE  FALSE
      OBVIOUS
    <2>2. a < b \/ b < a
      BY <2>1, SMT
    <2>3. s[a] < s[b] \/ s[b] < s[a]
      BY <1>1, <2>2 DEF Lists, Ascending
    <2>4. s[a] \in Int
      BY <1>1, SMT DEF Locations
    <2> QED
      BY <2>1, <2>3, <2>4, SMT
  <1>4. s \in Bijection(1 .. Len(s), S)
    <2>1. s \in [1 .. Len(s) -> S]
      BY <1>1, <1>2
    <2> QED
      BY <1>2, <1>3, <2>1 DEF Bijection, Injection, Surjection, IsInjective
  <1>5. IsFiniteSet(1 .. Len(s)) /\ Cardinality(1 .. Len(s)) = Len(s)
    <2>1. 1 \in Int /\ Len(s) \in Int
      BY <1>1
    <2> QED
      BY <1>1, <2>1, FS_Interval, SMT
  <1>6. Cardinality(S) = Len(s)
    BY <1>4, <1>5, FS_Bijection DEF ExistsBijection
  <1>7. IsFiniteSet(Locations) /\ Cardinality(Locations) = Sample
    <2>1. 0 \in Int /\ Sample - 1 \in Int /\ Sample \in Nat
      BY SampleAssumption
    <2> QED
      BY <2>1, FS_Interval, SMT DEF Locations
  <1>8. Cardinality(S) <= Cardinality(Locations) /\ IsFiniteSet(S)
    BY <1>2, <1>7, FS_Subset
  <1> QED
    BY <1>6, <1>7, <1>8

------------------------------------------------------------------------------
(* The invariant is inductive.                                              *)

\* Both scanners divide the locations by the lines of module Partition.
LEMMA SameDivision ==
    /\ Flags!SampleAssumption /\ Flags!MaxThreadsAssumption
    /\ Flags!Locations = Locations
    /\ \A n, t : /\ Flags!idx_begin(n, t) = idx_begin(n, t)
                /\ Flags!idx_end(n, t) = idx_end(n, t)
                /\ Flags!Slice(n, t) = Slice(n, t)
  BY SampleAssumption, MaxThreadsAssumption
     DEF Flags!SampleAssumption, Flags!MaxThreadsAssumption, Flags!Locations, Locations, Flags!qty, qty, Flags!extra, extra,
         Flags!idx_begin, idx_begin, Flags!len, len, Flags!idx_end, idx_end, Flags!Slice, Slice

LEMMA SliceRange ==
    ASSUME NEW n \in Nat \ {0}, NEW t \in 0 .. n - 1
    PROVE  /\ idx_begin(n, t) \in 0 .. Sample
           /\ idx_end(n, t) \in 0 .. Sample
           /\ idx_begin(n, t) <= idx_end(n, t)
           /\ idx_end(n, t) = idx_begin(n, t + 1)
  BY SameDivision, Flags!SliceRange, Zenon

LEMMA SliceOwner ==
    ASSUME NEW n \in Nat \ {0}, NEW t \in 0 .. n - 1, NEW u \in 0 .. n - 1,
           t # u, NEW l \in Slice(n, t)
    PROVE  l \notin Slice(n, u)
  BY SameDivision, Flags!SliceOwner, Zenon

LEMMA SliceBounds ==
    ASSUME NEW n \in Nat \ {0}
    PROVE  idx_begin(n, 0) = 0 /\ idx_begin(n, n) = Sample
  BY SameDivision, Flags!SlicesAreContiguous, Zenon

LEMMA SlicesCover ==
    ASSUME NEW n \in Nat \ {0}, NEW l \in Locations
    PROVE  \E t \in 0 .. n - 1 : l \in Slice(n, t)
  BY SameDivision, Flags!SlicesCover, Zenon

LEMMA BeginMonotone ==
    ASSUME NEW n \in Nat \ {0}, NEW t \in Nat, NEW u \in Nat, t <= u
    PROVE  /\ idx_begin(n, t) \in Nat
           /\ idx_begin(n, u) \in Nat
           /\ idx_begin(n, t) <= idx_begin(n, u)
  BY SameDivision, Flags!BeginMonotone, Zenon

\* What a call has started is among Threads, with a slice within the locations.
LEMMA CallSlice ==
    ASSUME NEW n \in 1 .. MaxThreads, NEW t \in 0 .. n - 1
    PROVE  /\ t \in Threads
           /\ n \in Nat \ {0}
           /\ idx_begin(n, t) \in 0 .. Sample
           /\ idx_end(n, t) \in 0 .. Sample
           /\ idx_begin(n, t) <= idx_end(n, t)
           /\ idx_end(n, t) = idx_begin(n, t + 1)
  <1>1. n \in Nat \ {0} /\ t \in Threads
    BY MaxThreadsAssumption, SMT DEF Threads
  <1> QED
    BY <1>1, SliceRange

LEMMA InitInv == Init => IInv
  <1> SUFFICES ASSUME Init PROVE IInv
    OBVIOUS
  <1> USE DEF Init
  <1>1. TypeOK
    <2>1. <<>> \in Seq(Locations) /\ Len(<<>>) = 0
      BY EmptySeq
    <2>2. 0 \in 0 .. Sample /\ 0 <= Sample /\ 1 \in 1 .. MaxThreads /\ 0 \in 0 .. 1
      BY SampleAssumption, MaxThreadsAssumption, SMT
    <2> QED
      BY <2>1, <2>2 DEF TypeOK
  <1>2. ThreadInv /\ CallerInv /\ IdleInv
    BY DEF ThreadInv, Started, CallerInv, IdleInv
  <1> QED
    BY <1>1, <1>2 DEF IInv

LEMMA CallInv == IInv /\ Call => IInv'
  <1> SUFFICES ASSUME IInv, Call PROVE IInv'
    OBVIOUS
  <1> USE DEF IInv, Call
  <1>1. TypeOK'
    <2>1. <<>> \in Seq(Locations) /\ Len(<<>>) = 0
      BY EmptySeq
    <2>2. 0 <= Sample /\ 0 \in 0 .. thread_count'
      BY SampleAssumption, MaxThreadsAssumption, SMT
    <2> QED
      BY <2>1, <2>2 DEF TypeOK
  <1>2. Started' = {}
    BY SMT DEF Started
  <1>3. ThreadInv'
    BY <1>2 DEF ThreadInv
  <1>4. CallerInv' /\ IdleInv'
    BY DEF CallerInv, IdleInv
  <1> QED
    BY <1>1, <1>3, <1>4

LEMMA CreateInv == IInv /\ Create => IInv'
  <1> SUFFICES ASSUME IInv, Create PROVE IInv'
    OBVIOUS
  <1> USE DEF IInv, Create
  <1> DEFINE n == thread_count
  <1>1. /\ n \in 1 .. MaxThreads /\ i \in 0 .. n - 1 /\ i \in Threads
        /\ idx_begin(n, i) \in 0 .. Sample /\ idx_end(n, i) \in 0 .. Sample
        /\ idx_begin(n, i) <= idx_end(n, i)
    <2>1. n \in 1 .. MaxThreads /\ i \in 0 .. n - 1
      BY MaxThreadsAssumption, SMT DEF TypeOK
    <2> QED
      BY <2>1, CallSlice
  <1>2. TypeOK'
    <2>1. <<>> \in Seq(Locations) /\ Len(<<>>) = 0 /\ 0 <= Sample
      BY EmptySeq, SampleAssumption
    <2>2. params' \in [Threads -> [idx_begin : 0 .. Sample, idx_end : 0 .. Sample,
                                   selected : Seq(Locations)]]
      BY <1>1, <2>1 DEF TypeOK
    <2>3. \A t \in Threads : Len(params'[t].selected) <= Sample
      BY <2>1 DEF TypeOK
    <2>4. i' \in 0 .. thread_count' /\ thread_count' = thread_count
      BY <1>1, MaxThreadsAssumption, SMT
    <2> QED
      BY <1>1, <2>2, <2>3, <2>4 DEF TypeOK
  <1>3. Started = 0 .. i - 1 /\ Started' = 0 .. i
    BY <1>1, SMT DEF Started
  <1>4. ASSUME NEW t \in Threads, t = i
        PROVE  t \in Started' /\ StartedInv(t)'
    <2>1. params'[t] = [idx_begin |-> idx_begin(n, t), idx_end |-> idx_end(n, t),
                        selected |-> <<>>]
          /\ tpc'[t] = "run" /\ k'[t] = idx_begin(n, t) /\ ~IsMerged(t)'
      BY <1>1, <1>4 DEF TypeOK, IsMerged
    <2>2. near' \cap (idx_begin(n, t) .. idx_begin(n, t) - 1) = {}
      BY <1>1, <1>4, SMT
    <2>3. idx_begin(n, t) \in idx_begin(n, t) .. idx_end(n, t)
      BY <1>1, <1>4, SMT
    <2>4. t \in Started'
      BY <1>1, <1>3, <1>4, SMT
    <2>5. Lists(params'[t].selected, near' \cap (idx_begin(n, t) .. k'[t] - 1))
      <3>1. params'[t].selected = <<>>
        BY <2>1
      <3>2. near' \cap (idx_begin(n, t) .. k'[t] - 1) = {}
        BY <2>1, <2>2
      <3> QED
        BY <3>1, <3>2, EmptyList
    <2> QED
      BY <2>1, <2>3, <2>4, <2>5 DEF StartedInv
  <1>5. ASSUME NEW t \in Threads, t # i
        PROVE  /\ t \in Started' => StartedInv(t)'
               /\ t \notin Started' => tpc'[t] = "none"
    <2>1. t \in Started' <=> t \in Started
      BY <1>1, <1>3, <1>5, SMT
    <2>2. params'[t] = params[t] /\ tpc'[t] = tpc[t] /\ k'[t] = k[t]
          /\ ~IsMerged(t) /\ ~IsMerged(t)'
      BY <1>5 DEF TypeOK, IsMerged
    <2>3. CASE t \in Started
      BY <2>1, <2>2, <2>3 DEF ThreadInv, StartedInv
    <2>4. CASE t \notin Started
      BY <2>1, <2>2, <2>4 DEF ThreadInv
    <2> QED
      BY <2>3, <2>4
  <1>6. ThreadInv'
    <2>1. ASSUME NEW t \in Threads
          PROVE  /\ t \in Started' => StartedInv(t)'
                 /\ t \notin Started' => tpc'[t] = "none"
      BY <1>4, <1>5
    <2> QED
      BY <2>1 DEF ThreadInv
  <1>7. CallerInv' /\ IdleInv'
    BY DEF CallerInv, IdleInv
  <1> QED
    BY <1>2, <1>6, <1>7

LEMMA JoinInv == IInv /\ Join => IInv'
  <1> SUFFICES ASSUME IInv, Join PROVE IInv'
    OBVIOUS
  <1> USE DEF IInv, Join
  <1>1. thread_count \in Nat /\ i \in Nat /\ i < thread_count
    BY MaxThreadsAssumption, SMT DEF TypeOK
  <1>2. TypeOK'
    <2>1. i' \in 0 .. thread_count'
      BY <1>1, SMT
    <2> QED
      BY <2>1 DEF TypeOK
  <1>3. ThreadInv'
    <2>1. Started' = Started /\ \A t \in Threads : ~IsMerged(t) /\ ~IsMerged(t)'
      BY DEF Started, IsMerged
    <2> QED
      BY <2>1 DEF ThreadInv, StartedInv
  <1>4. CallerInv'
    <2>1. \A t \in 0 .. i - 1 : tpc[t] = "exit"
      BY DEF CallerInv
    <2>2. \A t \in 0 .. (i + 1) - 1 : t = i \/ t \in 0 .. i - 1
      BY <1>1, SMT
    <2>3. \A t \in 0 .. i' - 1 : tpc'[t] = "exit"
      BY <2>1, <2>2
    <2> QED
      BY <2>3 DEF CallerInv
  <1>5. IdleInv'
    BY DEF IdleInv
  <1> QED
    BY <1>2, <1>3, <1>4, <1>5

\* When a thread has exited and its buffer is not merged, it is all of its slice.
LEMMA BufferIsSlice ==
    ASSUME IInv, NEW t \in Threads, t \in Started, tpc[t] = "exit", ~IsMerged(t)
    PROVE  Lists(params[t].selected, near \cap Slice(thread_count, t))
  BY DEF IInv, ThreadInv, StartedInv, Slice

LEMMA MergeInv == IInv /\ Merge => IInv'
  <1> SUFFICES ASSUME IInv, Merge PROVE IInv'
    OBVIOUS
  <1> DEFINE n == thread_count  first == idx_begin(n, i)  last == idx_end(n, i)
  <1>1. /\ mpc = "merge" /\ mpc' = mpc /\ i' = i + 1
        /\ selected' = selected \o params[i].selected
        /\ params' = [params EXCEPT ![i].selected = <<>>]
        /\ UNCHANGED <<near, thread_count, tpc, k>>
    BY DEF Merge
  <1>2. n \in 1 .. MaxThreads /\ i \in 0 .. n - 1 /\ i \in Nat
    BY MaxThreadsAssumption, SMT DEF IInv, TypeOK, Merge
  <1>3. /\ first \in Nat /\ last \in Nat /\ first <= last
        /\ last = idx_begin(n, i + 1) /\ i \in Threads
    BY <1>2, SampleAssumption, CallSlice, SMT
  <1>4. i \in Started /\ tpc[i] = "exit" /\ ~IsMerged(i)
    BY <1>1, <1>2 DEF Started, IInv, CallerInv, IsMerged
  <1>5. Lists(selected', near' \cap (0 .. idx_begin(thread_count', i') - 1))
    <2>1. Lists(selected, near \cap (0 .. first - 1))
      BY <1>1 DEF IInv, CallerInv
    <2>2. Lists(params[i].selected, near \cap (first .. last - 1))
      BY <1>3, <1>4, BufferIsSlice DEF Slice
    <2>3. \A x \in near \cap (0 .. first - 1), y \in near \cap (first .. last - 1) : x < y
      BY <1>3, SMT
    <2>4. (near \cap (0 .. first - 1)) \cup (near \cap (first .. last - 1))
              = near \cap (0 .. last - 1)
      BY <1>3, SMT
    <2>5. Lists(selected', near \cap (0 .. last - 1))
      BY <1>1, <2>1, <2>2, <2>3, <2>4, ListConcat
    <2> QED
      BY <1>1, <1>3, <2>5
  <1>6. TypeOK'
    <2>1. selected' \in Seq(Locations) /\ Len(selected') <= Sample
      BY <1>5, ListLength DEF Lists
    <2>2. <<>> \in Seq(Locations) /\ Len(<<>>) = 0 /\ 0 <= Sample
      BY EmptySeq, SampleAssumption
    <2>3. params' \in [Threads -> [idx_begin : 0 .. Sample, idx_end : 0 .. Sample,
                                   selected : Seq(Locations)]]
      BY <1>1, <1>3, <2>2 DEF IInv, TypeOK
    <2>4. \A t \in Threads : Len(params'[t].selected) <= Sample
      BY <1>1, <1>3, <2>2 DEF IInv, TypeOK
    <2>5. i' \in 0 .. thread_count'
      BY <1>1, <1>2, MaxThreadsAssumption, SMT
    <2> QED
      BY <1>1, <2>1, <2>3, <2>4, <2>5 DEF IInv, TypeOK
  <1>7. Started' = Started /\ Started = 0 .. n - 1
    BY <1>1 DEF Started
  <1>8. ASSUME NEW t \in Threads
        PROVE  /\ t \in Started' => StartedInv(t)'
               /\ t \notin Started' => tpc'[t] = "none"
    <2>1. /\ params'[t].idx_begin = params[t].idx_begin
          /\ params'[t].idx_end = params[t].idx_end
          /\ params'[t].selected = IF t = i THEN <<>> ELSE params[t].selected
      BY <1>1, <1>3 DEF IInv, TypeOK
    <2>2. /\ t \in Started => StartedInv(t)
          /\ t \notin Started => tpc[t] = "none"
      BY <1>1 DEF IInv, ThreadInv
    <2>3. IsMerged(t)' <=> IsMerged(t) \/ t = i
      BY <1>1, <1>2, SMT DEF IsMerged, Threads
    <2> QED
      BY <1>1, <1>7, <2>1, <2>2, <2>3 DEF StartedInv
  <1>9. ThreadInv'
    BY <1>1, <1>8 DEF ThreadInv
  <1>10. CallerInv' /\ IdleInv'
    BY <1>1, <1>5, <1>7 DEF IInv, CallerInv, IdleInv
  <1> QED
    BY <1>6, <1>9, <1>10 DEF IInv

LEMMA EndLoopInv == IInv /\ EndLoop => IInv'
  <1> SUFFICES ASSUME IInv, EndLoop PROVE IInv'
    OBVIOUS
  <1> USE DEF IInv, EndLoop
  <1>1. /\ thread_count \in Nat \ {0} /\ 0 \in 0 .. thread_count
        /\ near \in SUBSET Locations
    BY MaxThreadsAssumption, SMT DEF TypeOK
  <1>2. \/ mpc = "create" /\ mpc' = "join"
        \/ mpc = "join" /\ mpc' = "merge"
        \/ mpc = "merge" /\ mpc' = "returned"
    BY DEF AfterLoop
  <1>3. TypeOK'
    BY <1>1, <1>2 DEF TypeOK
  <1>4. Started' = Started /\ Started = 0 .. thread_count - 1
    BY <1>2 DEF Started
  <1>5. \A t \in Started : t \in Threads => (IsMerged(t)' <=> IsMerged(t))
    BY <1>1, <1>2, <1>4, SMT DEF IsMerged
  <1>6. ThreadInv'
    <2>1. ASSUME NEW t \in Threads
          PROVE  /\ t \in Started' => StartedInv(t)'
                 /\ t \notin Started' => tpc'[t] = "none"
      BY <1>2, <1>4, <1>5 DEF ThreadInv, StartedInv
    <2> QED
      BY <2>1 DEF ThreadInv
  <1>7. idx_begin(thread_count, 0) = 0 /\ idx_begin(thread_count, thread_count) = Sample
    BY <1>1, SliceBounds
  <1>8. CallerInv'
    <2>1. CASE mpc = "create"
      <3>1. 0 .. i' - 1 = {}
        BY SMT
      <3> QED
        BY <1>2, <2>1, <3>1 DEF CallerInv
    <2>2. CASE mpc = "join"
      <3>1. near \cap (0 .. 0 - 1) = {}
        BY SMT
      <3>2. Lists(selected', near' \cap (0 .. idx_begin(thread_count', i') - 1))
        BY <1>7, <2>2, <3>1, EmptyList DEF CallerInv
      <3>3. \A t \in Started' : tpc'[t] = "exit"
        BY <1>4, <2>2 DEF CallerInv
      <3> QED
        BY <1>2, <2>2, <3>2, <3>3 DEF CallerInv
    <2>3. CASE mpc = "merge"
      <3>1. near \cap (0 .. Sample - 1) = near
        BY <1>1 DEF Locations
      <3>2. Lists(selected', near')
        BY <1>7, <2>3, <3>1 DEF CallerInv
      <3>3. \A t \in Started' : tpc'[t] = "exit"
        BY <1>4, <2>3 DEF CallerInv
      <3> QED
        BY <1>2, <2>3, <3>2, <3>3 DEF CallerInv
    <2> QED
      BY <1>2, <2>1, <2>2, <2>3
  <1>9. IdleInv'
    BY <1>2 DEF IdleInv
  <1> QED
    BY <1>3, <1>6, <1>8, <1>9

\* Only a started thread runs, it is one of the call's, and nothing is merged.
LEMMA RunningIsStarted ==
    ASSUME IInv, NEW t \in Threads, tpc[t] = "run"
    PROVE  /\ mpc \in {"create", "join"} /\ t \in Started /\ StartedInv(t) /\ ~IsMerged(t)
           /\ thread_count \in 1 .. MaxThreads
           /\ t \in 0 .. thread_count - 1
           /\ idx_begin(thread_count, t) \in 0 .. Sample
           /\ idx_end(thread_count, t) \in 0 .. Sample
  <1>1. mpc # "idle"
    BY DEF IInv, IdleInv
  <1>2. t \in Started /\ StartedInv(t)
    BY <1>1 DEF IInv, ThreadInv
  <1>3. mpc \in {"create", "join"}
    BY <1>1, <1>2 DEF IInv, TypeOK, CallerInv
  <1>4. thread_count \in 1 .. MaxThreads /\ i \in 0 .. thread_count
    BY DEF IInv, TypeOK
  <1>5. t \in 0 .. thread_count - 1
    BY <1>1, <1>2, <1>4, MaxThreadsAssumption, SMT DEF Started
  <1> QED
    BY <1>2, <1>3, <1>4, <1>5, CallSlice DEF IsMerged

LEMMA VisitInv ==
    ASSUME NEW t \in Threads, IInv, Visit(t)
    PROVE  IInv'
  <1> USE DEF Visit
  <1> DEFINE n == thread_count  first == idx_begin(n, t)  last == idx_end(n, t)
             here == k[t]
  <1>1. /\ mpc \in {"create", "join"} /\ t \in Started /\ StartedInv(t) /\ ~IsMerged(t)
        /\ first \in 0 .. Sample /\ last \in 0 .. Sample
    BY RunningIsStarted
  <1>2. /\ here \in Nat /\ first <= here /\ here + 1 <= last
        /\ here \in Locations /\ first \in Nat /\ last \in Nat
    BY <1>1, SampleAssumption, SMT DEF StartedInv, Locations
  <1>3. /\ params'[t].idx_begin = first /\ params'[t].idx_end = last
        /\ params'[t].selected = IF here \in near THEN Append(params[t].selected, here)
                                 ELSE params[t].selected
        /\ \A u \in Threads \ {t} : params'[u] = params[u]
        /\ k'[t] = here + 1 /\ \A u \in Threads \ {t} : k'[u] = k[u]
    BY <1>1 DEF IInv, TypeOK, StartedInv
  <1>4. Lists(params'[t].selected, near \cap (first .. (here + 1) - 1))
    <2>1. Lists(params[t].selected, near \cap (first .. here - 1))
      BY <1>1 DEF StartedInv
    <2>2. CASE here \in near
      <3>1. \A x \in near \cap (first .. here - 1) : x < here
        BY <1>2, SMT
      <3>2. near \cap (first .. (here + 1) - 1) = (near \cap (first .. here - 1)) \cup {here}
        BY <1>2, <2>2, SMT
      <3>3. Lists(Append(params[t].selected, here), (near \cap (first .. here - 1)) \cup {here})
        BY <1>2, <2>1, <3>1, ListAppend
      <3> QED
        BY <1>3, <2>2, <3>2, <3>3
    <2>3. CASE here \notin near
      <3>1. near \cap (first .. (here + 1) - 1) = near \cap (first .. here - 1)
        BY <1>2, <2>3, SMT
      <3> QED
        BY <1>3, <2>1, <2>3, <3>1
    <2> QED
      BY <2>2, <2>3
  <1>5. TypeOK'
    <2>1. params'[t].selected \in Seq(Locations) /\ Len(params'[t].selected) <= Sample
      BY <1>4, ListLength DEF Lists
    <2>2. params' \in [Threads -> [idx_begin : 0 .. Sample, idx_end : 0 .. Sample,
                                   selected : Seq(Locations)]]
      <3>1. params \in [Threads -> [idx_begin : 0 .. Sample, idx_end : 0 .. Sample,
                                    selected : Seq(Locations)]]
        BY DEF IInv, TypeOK
      <3>2. CASE here \in near
        <4>1. Append(params[t].selected, here) \in Seq(Locations)
          BY <1>3, <2>1, <3>2
        <4> QED
          BY <3>1, <3>2, <4>1
      <3> QED
        BY <3>1, <3>2
    <2>3. \A u \in Threads : Len(params'[u].selected) <= Sample
      BY <1>3, <2>1 DEF IInv, TypeOK
    <2>4. here + 1 \in 0 .. Sample
      BY <1>1, <1>2, SampleAssumption, SMT
    <2>5. k' \in [Threads -> 0 .. Sample]
      BY <2>4 DEF IInv, TypeOK
    <2> QED
      BY <2>2, <2>3, <2>5 DEF IInv, TypeOK
  <1>6. Started' = Started /\ \A u \in Threads : ~IsMerged(u) /\ ~IsMerged(u)'
    BY <1>1 DEF Started, IsMerged
  <1>7. StartedInv(t)'
    <2>1. here + 1 \in first .. last
      BY <1>2, SMT
    <2>2. Lists(params'[t].selected, near' \cap (first .. k'[t] - 1))
      BY <1>3, <1>4
    <2> QED
      BY <1>3, <1>6, <2>1, <2>2 DEF StartedInv
  <1>8. ASSUME NEW u \in Threads, u # t
        PROVE  /\ u \in Started' => StartedInv(u)'
               /\ u \notin Started' => tpc'[u] = "none"
    <2>1. /\ u \in Started => StartedInv(u)
          /\ u \notin Started => tpc[u] = "none"
      BY <1>1 DEF IInv, ThreadInv
    <2>2. params'[u] = params[u] /\ tpc'[u] = tpc[u] /\ k'[u] = k[u]
      BY <1>3, <1>8
    <2> QED
      BY <1>6, <2>1, <2>2 DEF StartedInv
  <1>9. ThreadInv'
    BY <1>1, <1>6, <1>7, <1>8 DEF ThreadInv
  <1>10. CallerInv' /\ IdleInv'
    BY <1>1 DEF IInv, CallerInv, IdleInv
  <1> QED
    BY <1>5, <1>9, <1>10 DEF IInv

LEMMA ExitInv ==
    ASSUME NEW t \in Threads, IInv, Exit(t)
    PROVE  IInv'
  <1> USE DEF Exit
  <1>1. /\ mpc \in {"create", "join"} /\ t \in Started /\ StartedInv(t)
        /\ idx_begin(thread_count, t) \in 0 .. Sample /\ idx_end(thread_count, t) \in 0 .. Sample
    BY RunningIsStarted
  <1>2. k[t] = idx_end(thread_count, t)
    BY <1>1, SampleAssumption, SMT DEF StartedInv
  <1>3. TypeOK'
    BY DEF IInv, TypeOK
  <1>4. Started' = Started /\ \A u \in Threads : ~IsMerged(u) /\ ~IsMerged(u)'
    BY <1>1 DEF Started, IsMerged
  <1>5. \A u \in Threads : tpc'[u] = IF u = t THEN "exit" ELSE tpc[u]
    BY DEF IInv, TypeOK
  <1>6. ASSUME NEW u \in Threads
        PROVE  /\ u \in Started' => StartedInv(u)'
               /\ u \notin Started' => tpc'[u] = "none"
    <2>1. /\ u \in Started => StartedInv(u)
          /\ u \notin Started => tpc[u] = "none"
      BY <1>1 DEF IInv, ThreadInv
    <2>2. CASE u = t
      BY <1>1, <1>2, <1>4, <1>5, <2>2 DEF StartedInv
    <2>3. CASE u # t
      BY <1>4, <1>5, <2>1, <2>3 DEF StartedInv
    <2> QED
      BY <2>2, <2>3
  <1>7. ThreadInv'
    BY <1>6 DEF ThreadInv
  <1>8. CallerInv'
    <2>1. 0 .. i - 1 \subseteq Threads
      <3>1. i \in 0 .. thread_count /\ thread_count \in 1 .. MaxThreads
        BY DEF IInv, TypeOK
      <3> QED
        BY <3>1, MaxThreadsAssumption, SMT DEF Threads
    <2>2. mpc = "join" => \A u \in 0 .. i - 1 : tpc'[u] = "exit"
      BY <1>5, <2>1 DEF IInv, CallerInv
    <2> QED
      BY <1>1, <2>2 DEF IInv, CallerInv
  <1>9. IdleInv'
    BY <1>1 DEF IdleInv
  <1> QED
    BY <1>3, <1>7, <1>8, <1>9 DEF IInv

LEMMA StutterInv == IInv /\ UNCHANGED vars => IInv'
  <1> SUFFICES ASSUME IInv, UNCHANGED vars PROVE IInv'
    OBVIOUS
  <1>1. Started' = Started /\ \A t \in Threads : IsMerged(t)' <=> IsMerged(t)
    BY DEF vars, Started, IsMerged
  <1>2. TypeOK' /\ CallerInv' /\ IdleInv'
    BY <1>1 DEF IInv, vars, TypeOK, CallerInv, IdleInv
  <1>3. ThreadInv'
    <2>1. ASSUME NEW t \in Threads
          PROVE  /\ t \in Started' => StartedInv(t)'
                 /\ t \notin Started' => tpc'[t] = "none" \/ mpc' = "idle"
      <3>1. /\ t \in Started => StartedInv(t)
            /\ t \notin Started => tpc[t] = "none" \/ mpc = "idle"
        BY DEF IInv, ThreadInv
      <3> QED
        BY <1>1, <3>1 DEF vars, StartedInv
    <2> QED
      BY <2>1 DEF ThreadInv
  <1> QED
    BY <1>2, <1>3 DEF IInv

LEMMA NextInv == IInv /\ [Next]_vars => IInv'
  <1> SUFFICES ASSUME IInv, [Next]_vars PROVE IInv'
    OBVIOUS
  <1>1. CASE Call
    BY <1>1, CallInv
  <1>2. CASE Main
    BY <1>2, CreateInv, JoinInv, MergeInv, EndLoopInv DEF Main
  <1>3. ASSUME NEW t \in Threads, Task(t) PROVE IInv'
    BY <1>3, VisitInv, ExitInv DEF Task
  <1>4. CASE UNCHANGED vars
    BY <1>4, StutterInv
  <1> QED
    BY <1>1, <1>2, <1>3, <1>4 DEF Next

\* The invariant holds in every reachable state.
THEOREM Invariance == Spec => []IInv
  BY InitInv, NextInv, PTL DEF Spec

------------------------------------------------------------------------------
(* What follows from the invariant.                                         *)

\* Loop variables and ranges stay within the locations, and no list outgrows
\* the buffer that was allocated for "sample" indices.
THEOREM ListTypesCorrect == Spec => []TypeOK
  BY Invariance, PTL DEF IInv

\* No buffer is merged or freed while a thread still fills one.
THEOREM MergedAfterTheThreads == Spec => []NoThreadLeft
  <1>1. IInv => NoThreadLeft
    <2> SUFFICES ASSUME IInv, mpc \in {"merge", "returned"}, NEW t \in Threads,
                        tpc[t] = "run"
                 PROVE  FALSE
      BY DEF NoThreadLeft
    <2> QED
      BY RunningIsStarted
  <1> QED
    BY <1>1, Invariance, PTL

\* What a thread holds is near, and is of its own slice.
LEMMA HeldIsOwn ==
    ASSUME IInv, mpc # "idle", NEW t \in Threads, NEW l \in HeldBy(t)
    PROVE  /\ t \in 0 .. thread_count - 1 /\ thread_count \in 1 .. MaxThreads
           /\ t \in Started /\ StartedInv(t) /\ ~IsMerged(t)
           /\ l \in near /\ l < k[t] /\ l \in Slice(thread_count, t)
  <1>1. t \in Started /\ StartedInv(t)
    BY DEF HeldBy, IInv, ThreadInv
  <1>2. t \in 0 .. thread_count - 1 /\ thread_count \in 1 .. MaxThreads
    <2>1. thread_count \in 1 .. MaxThreads /\ i \in 0 .. thread_count
      BY DEF IInv, TypeOK
    <2> QED
      BY <1>1, <2>1, MaxThreadsAssumption, SMT DEF Started
  <1>3. l \in Listed(params[t].selected)
    BY DEF HeldBy
  <1>4. ~IsMerged(t)
    <2>1. params[t].selected # <<>>
      BY <1>3, EmptyList DEF Lists
    <2> QED
      BY <1>1, <2>1 DEF StartedInv
  <1>5. l \in near /\ l \in idx_begin(thread_count, t) .. k[t] - 1
    BY <1>1, <1>3, <1>4 DEF StartedInv, Lists
  <1>6. idx_begin(thread_count, t) \in 0 .. Sample /\ idx_end(thread_count, t) \in 0 .. Sample
    BY <1>2, CallSlice
  <1>7. k[t] \in idx_begin(thread_count, t) .. idx_end(thread_count, t)
    BY <1>1 DEF StartedInv
  <1>8. l < k[t] /\ l \in Slice(thread_count, t)
    BY <1>5, <1>6, <1>7, SampleAssumption, SMT DEF Slice
  <1> QED
    BY <1>1, <1>2, <1>4, <1>5, <1>8

\* What a thread has still to visit is of its own slice, and it does not hold it.
LEMMA ToVisitIsOwn ==
    ASSUME IInv, NEW t \in Threads, NEW l \in ToVisit(t)
    PROVE  /\ t \in 0 .. thread_count - 1 /\ thread_count \in 1 .. MaxThreads
           /\ l \in Slice(thread_count, t)
  <1>1. tpc[t] = "run" /\ l \in k[t] .. params[t].idx_end - 1
    BY DEF ToVisit
  <1>2. /\ t \in 0 .. thread_count - 1 /\ thread_count \in 1 .. MaxThreads /\ StartedInv(t)
        /\ idx_begin(thread_count, t) \in 0 .. Sample
        /\ idx_end(thread_count, t) \in 0 .. Sample
    BY <1>1, RunningIsStarted
  <1>3. l \in Slice(thread_count, t)
    BY <1>1, <1>2, SampleAssumption, SMT DEF StartedInv, Slice
  <1> QED
    BY <1>2, <1>3

\* Whatever the interleaving, a near location is merged, in one buffer, or
\* still to be visited by one thread: none is lost and none is held twice.
THEOREM NoneIsLostOrTwice == Spec => []NeverLost
  <1>1. IInv => NeverLost
    <2> SUFFICES ASSUME IInv, mpc \in {"join", "merge", "returned"} PROVE NeverLost
      BY DEF NeverLost
    <2> DEFINE n == thread_count
    <2>1. /\ n \in 1 .. MaxThreads /\ n \in Nat \ {0} /\ i \in 0 .. n
          /\ near \in SUBSET Locations
      BY MaxThreadsAssumption, SMT DEF IInv, TypeOK
    <2>2. ASSUME NEW l \in near
          PROVE  \/ l \in Listed(selected)
                 \/ \E t \in Threads : l \in HeldBy(t) \cup ToVisit(t)
      <3>1. PICK t \in 0 .. n - 1 : l \in Slice(n, t)
        BY <2>1, SlicesCover
      <3>2. t \in Threads /\ t \in Started /\ StartedInv(t)
        <4>1. t \in Threads
          BY <2>1, CallSlice
        <4> QED
          BY <3>1, <4>1 DEF Started, IInv, ThreadInv
      <3>3. l \in Int /\ k[t] \in Int /\ l \in idx_begin(n, t) .. idx_end(n, t) - 1
            /\ idx_begin(n, t) \in Int /\ idx_end(n, t) \in Int
        <4>1. idx_begin(n, t) \in 0 .. Sample /\ idx_end(n, t) \in 0 .. Sample
          BY <2>1, CallSlice
        <4> QED
          BY <3>1, <3>2, <4>1 DEF Slice, StartedInv
      <3>4. CASE IsMerged(t)
        <4>1. CASE mpc = "returned"
          BY <4>1 DEF IInv, CallerInv, Lists
        <4>2. CASE mpc = "merge" /\ t < i
          <5>1. Listed(selected) = near \cap (0 .. idx_begin(n, i) - 1)
            BY <4>2 DEF IInv, CallerInv, Lists
          <5>2. /\ idx_end(n, t) = idx_begin(n, t + 1) /\ idx_begin(n, t) \in Nat
                /\ t + 1 \in Nat /\ i \in Nat /\ t + 1 <= i
            BY <2>1, <4>2, CallSlice, SMT
          <5>3. /\ idx_begin(n, t + 1) <= idx_begin(n, i)
                /\ idx_begin(n, t + 1) \in Nat /\ idx_begin(n, i) \in Nat
            BY <2>1, <5>2, BeginMonotone
          <5>4. l \in 0 .. idx_begin(n, i) - 1
            BY <3>3, <5>2, <5>3, SMT
          <5> QED
            BY <5>1, <5>4
        <4> QED
          BY <3>4, <4>1, <4>2 DEF IsMerged
      <3>5. CASE ~IsMerged(t) /\ l < k[t]
        <4>1. l \in near \cap (idx_begin(n, t) .. k[t] - 1)
          BY <3>3, <3>5, SMT
        <4>2. l \in HeldBy(t)
          BY <3>2, <3>5, <4>1 DEF StartedInv, Lists, HeldBy
        <4> QED
          BY <3>2, <4>2
      <3>6. CASE ~(l < k[t])
        <4>1. tpc[t] = "run"
          BY <3>2, <3>3, <3>6, SMT DEF StartedInv
        <4>2. l \in k[t] .. params[t].idx_end - 1
          BY <3>2, <3>3, <3>6, SMT DEF StartedInv
        <4> QED
          BY <3>2, <4>1, <4>2 DEF ToVisit
      <3> QED
        BY <3>4, <3>5, <3>6
    <2>3. ASSUME NEW t \in Threads, NEW l \in HeldBy(t), l \in Listed(selected)
          PROVE  FALSE
      <3>1. /\ t \in 0 .. n - 1 /\ ~IsMerged(t) /\ l \in Slice(n, t)
        BY <2>3, HeldIsOwn
      <3>2. CASE mpc = "join"
        BY <2>3, <3>2, EmptyList DEF IInv, CallerInv, Lists
      <3>3. CASE mpc = "merge"
        <4>1. l \in 0 .. idx_begin(n, i) - 1
          BY <2>3, <3>3 DEF IInv, CallerInv, Lists
        <4>2. t \in Nat /\ i \in Nat /\ i <= t
          BY <2>1, <3>1, <3>3, SMT DEF IsMerged
        <4>3. idx_begin(n, i) <= idx_begin(n, t) /\ idx_begin(n, i) \in Nat
              /\ idx_begin(n, t) \in Nat
          BY <2>1, <4>2, BeginMonotone
        <4>4. idx_end(n, t) \in 0 .. Sample
          BY <2>1, <3>1, CallSlice
        <4> QED
          BY <3>1, <4>1, <4>3, <4>4, SMT DEF Slice
      <3> QED
        BY <3>1, <3>2, <3>3 DEF IsMerged
    <2>4. ASSUME NEW t \in Threads, NEW u \in Threads \ {t}, NEW l \in HeldBy(t),
                 l \in HeldBy(u) \cup ToVisit(u)
          PROVE  FALSE
      <3>1. t \in 0 .. n - 1 /\ l \in Slice(n, t)
        BY HeldIsOwn
      <3>2. u \in 0 .. n - 1 /\ l \in Slice(n, u)
        BY <2>4, HeldIsOwn, ToVisitIsOwn
      <3> QED
        BY <2>1, <3>1, <3>2, SliceOwner
    <2>5. near \subseteq (UNION {HeldBy(t) \cup ToVisit(t) : t \in Threads}) \cup Listed(selected)
      BY <2>2
    <2>6. ASSUME NEW t \in Threads
          PROVE  /\ HeldBy(t) \cap Listed(selected) = {}
                 /\ \A u \in Threads \ {t} : HeldBy(t) \cap (HeldBy(u) \cup ToVisit(u)) = {}
      BY <2>3, <2>4
    <2> QED
      BY <2>5, <2>6 DEF NeverLost
  <1> QED
    BY <1>1, Invariance, PTL

LEMMA InvReturnsAscending == IInv => ReturnsAscending
  BY DEF IInv, CallerInv, Lists, ReturnsAscending

\* For every number of locations and of threads, as_scan_thread2 returns the
\* list a linear scan returns: in its order, and nothing twice.
THEOREM ListIsThatOfLinearScan == Spec => []ReturnsAscending
  BY InvReturnsAscending, Invariance, PTL

------------------------------------------------------------------------------
(* as_scan_thread2 implements the contract of a scanner.                    *)

\* The call is Scan's Call, and the end of the merging loop its Return.
LEMMA StepIsScanStep ==
    ASSUME IInv, IInv', [Next]_vars
    PROVE  [Contract!Next]_(Contract!vars)
  <1> USE DEF Contract!vars
  <1>1. CASE Call
    <2>1. /\ ~(mpc \in {"create", "join", "merge"})
          /\ mpc' \in {"create", "join", "merge"} /\ mpc' # "returned"
          /\ near' \in SUBSET Locations
      BY <1>1 DEF Call
    <2>2. Contract!Call
      BY <2>1 DEF Contract!Call, Contract!Locations, Contract!NoAnswer, Locations
    <2> QED
      BY <2>2 DEF Contract!Next
  <1>2. CASE Create \/ Join \/ Merge
    <2>1. mpc' = mpc /\ mpc \in {"create", "join", "merge"} /\ near' = near
      BY <1>2 DEF Create, Join, Merge
    <2> QED
      BY <2>1
  <1>3. CASE EndLoop
    <2>1. \/ mpc = "create" /\ mpc' = "join"
          \/ mpc = "join" /\ mpc' = "merge"
          \/ mpc = "merge" /\ mpc' = "returned"
      BY <1>3 DEF EndLoop, AfterLoop
    <2>2. near' = near
      BY <1>3 DEF EndLoop
    <2>3. CASE mpc' # "returned"
      BY <2>1, <2>2, <2>3
    <2>4. CASE mpc' = "returned"
      <3>1. Lists(selected', near')
        <4>1. CallerInv'
          BY DEF IInv
        <4>2. CallerInv' => (mpc' = "returned" => Lists(selected', near'))
          BY DEF CallerInv
        <4> QED
          BY <2>4, <4>1, <4>2
      <3>2. Len(selected') = Cardinality(near') /\ Listed(selected') = near'
        BY <3>1, ListLength DEF Lists
      <3>3. Contract!Cardinality(near) = Cardinality(near)
        BY DEF Cardinality, Contract!Cardinality
      <3>4. Contract!Return
        BY <2>1, <2>2, <2>4, <3>2, <3>3 DEF Contract!Return
      <3> QED
        BY <3>4 DEF Contract!Next
    <2> QED
      BY <2>3, <2>4
  <1>4. ASSUME NEW t \in Threads, Task(t)
        PROVE  [Contract!Next]_(Contract!vars)
    <2>1. tpc[t] = "run" /\ mpc' = mpc /\ near' = near
      BY <1>4 DEF Task, Visit, Exit
    <2>2. mpc # "returned"
      BY <2>1, RunningIsStarted
    <2> QED
      BY <2>1, <2>2
  <1>5. CASE UNCHANGED vars
    <2>1. UNCHANGED <<mpc, near, selected>>
      BY <1>5 DEF vars
    <2> QED
      BY <2>1 DEF Listed
  <1> QED
    BY <1>1, <1>2, <1>3, <1>4, <1>5 DEF Next, Main

\* as_scan_thread2 implements the contract every caller of sdm_scan2 relies
\* on: one answer with exactly the near locations and their number.
THEOREM ThreadScan2ImplementsScan == Spec => ImplementsScan
  <1>1. Init => Contract!Init
    BY DEF Init, Contract!Init, Contract!NoAnswer
  <1>2. IInv /\ IInv' /\ [Next]_vars => [Contract!Next]_(Contract!vars)
    BY StepIsScanStep
  <1> QED
    BY <1>1, <1>2, Invariance, PTL DEF Spec, ImplementsScan, Contract!Spec
==============================================================================
