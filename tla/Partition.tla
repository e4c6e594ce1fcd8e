------------------------------ MODULE Partition ------------------------------
(***************************************************************************)
(* How as_scan_thread and as_scan_thread2 divide the hard locations of an  *)
(* address space among their threads: thread i is given the half-open      *)
(* range idx_begin(n, i) .. idx_end(n, i) - 1, where n is thread_count.    *)
(***************************************************************************)
EXTENDS Integers

CONSTANT
    Sample          \* number of hard locations (address_space_s.sample)

ASSUME SampleAssumption == Sample \in Nat

\* Indices of the hard locations.
Locations == 0 .. Sample - 1

\* Mutant: the remainder of the division is forgotten.
extra_Dropped(n) == 0

\* scanner_thread.c:37, 38.
qty(n) == Sample \div n
extra(n) == Sample % n

\* Mutant: a range starts where it would if all were equally long.
idx_begin_Overlaps(n, i) == i * qty(n)

\* Mutant: every range is as long as the longest.
len_TooLong(n, i) == qty(n) + 1

\* The first extra(n) threads take one location more than the others.
idx_begin(n, i) == i * qty(n) + IF i < extra(n) THEN i ELSE extra(n)
len(n, i) == qty(n) + IF i < extra(n) THEN 1 ELSE 0
idx_end(n, i) == idx_begin(n, i) + len(n, i)

\* The locations thread i visits.
Slice(n, i) == idx_begin(n, i) .. idx_end(n, i) - 1
==============================================================================
