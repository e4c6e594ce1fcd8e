------------------------------- MODULE Counter -------------------------------
(***************************************************************************)
(* The arithmetic of counter.c on one row of counters (the counters of one *)
(* hard location, or the temporary one of a read).  A bitstring is the set *)
(* of its bits that are 1.  counter_t is an int and, as counter.h ships    *)
(* with COUNTER_CHECK_OVERFLOW commented out, a sum that leaves the range  *)
(* of counter_t wraps around.                                              *)
(***************************************************************************)
EXTENDS Integers

CONSTANTS
    Bits,           \* number of bits of a bitstring (counter_s.bits)
    CounterMax      \* the largest counter_t, INT_MAX in the code

ASSUME BitsAssumption == Bits \in Nat
ASSUME CounterMaxAssumption == CounterMax \in Nat

BitIndex == 0 .. Bits - 1
Bitstrings == SUBSET BitIndex

CounterMin == -CounterMax - 1
CounterValues == CounterMin .. CounterMax
Rows == [BitIndex -> CounterValues]

\* What is stored of an integer in a counter_t.
Wrap(x) == ((x - CounterMin) % (2 * (CounterMax + 1))) + CounterMin

ZeroRow == [b \in BitIndex |-> 0]

\* counter_add_bitstring_weighted; counter_add_bitstring is the weight 1.
AddWeighted(row, bs, weight) ==
    [b \in BitIndex |-> Wrap(row[b] + IF b \in bs THEN weight ELSE -weight)]

\* counter_sub_bitstring moves a counter towards 0 and never past it.
SubBitstring(row, bs) ==
    [b \in BitIndex |-> IF b \in bs
                           THEN IF row[b] > 0 THEN row[b] - 1 ELSE row[b]
                           ELSE IF row[b] < 0 THEN row[b] + 1 ELSE row[b]]

AddCounter(row1, row2) == [b \in BitIndex |-> Wrap(row1[b] + row2[b])]

\* What sdm_generic_read2 adds for a counter v: the z-th power of its
\* magnitude with its sign.  The magnitude of the smallest counter_t does
\* not fit a counter_t: negating it gives it back.
SignedPower(v, z) == IF v < 0 THEN -(Wrap(-v) ^ z)
                     ELSE IF v > 0 THEN v ^ z
                     ELSE 0

\* Mutant: a counter has to pass 1 to count as positive.
ToBitstring_OffByOne(row) ==
    {bs \in Bitstrings : \A b \in BitIndex :
        /\ row[b] > 1 => b \in bs
        /\ row[b] < 0 => b \notin bs}

\* counter_to_bitstring: the sign of each counter; a coin for a counter at 0.
\* The result is the set of bitstrings the coins can produce.
ToBitstring(row) ==
    {bs \in Bitstrings : \A b \in BitIndex :
        /\ row[b] > 0 => b \in bs
        /\ row[b] < 0 => b \notin bs}
==============================================================================
