------------------------------ MODULE Bitstring ------------------------------
(***************************************************************************)
(* bitstring.c: a bitstring of Bits bits in a buffer of len machine words. *)
(* When Bits is not a multiple of the word size, bits_remaining bits of    *)
(* the last word are not part of the bitstring.  Most functions work word  *)
(* by word and do not know which bits those are, and bs_distance counts    *)
(* them, so every function that makes a bitstring has to leave them 0.     *)
(*                                                                         *)
(* A word is the set of the positions of its bits that are 1, position 0   *)
(* being the least significant one.                                        *)
(***************************************************************************)
EXTENDS Integers, FiniteSetsExt, Functions

CONSTANTS
    Bits,           \* number of bits of a bitstring
    WordBits,       \* bits of a bitstring_t, 64 in the code
    IntBits         \* bits of an int, 32 in the code

ASSUME WidthsAssumption ==
    /\ Bits \in Nat \ {0}
    /\ WordBits \in Nat \ {0}
    /\ IntBits \in 1 .. WordBits

VARIABLES
    bs,             \* the buffers of two bitstrings
    unclean         \* history: which may have remaining bits set, by bs_not, bs_average or a string

bitstrings == <<bs, unclean>>

Names == {1, 2}
BitIndex == 0 .. Bits - 1
Word == SUBSET (0 .. WordBits - 1)

\* bs_calculate_params.
len == (Bits \div WordBits) + IF (Bits \div WordBits) * WordBits < Bits THEN 1 ELSE 0
bits_remaining == len * WordBits - Bits

Buffer == [0 .. len - 1 -> Word]

\* Mutant: bit 0 is the least significant bit of its word.
idx_LeastFirst(bit) == bit % WordBits

\* Mutant: positions from 1.
idx_FromOne(bit) == WordBits - (bit % WordBits)

\* Where a bit is kept: bit 0 is the most significant bit of word 0.
offset(bit) == bit \div WordBits
idx(bit) == WordBits - 1 - (bit % WordBits)

bs_get_bit(v, bit) == idx(bit) \in v[offset(bit)]

\* Mutant: the last word is left as it is.
bs_clear_remaining_bits_Not(v) == v

\* The mask of bs_clear_remaining_bits, bs_init_ones and bs_init_random.
bs_clear_remaining_bits(v) ==
    IF bits_remaining > 0 THEN [v EXCEPT ![len - 1] = @ \ (0 .. bits_remaining - 1)]
    ELSE v

FlipBit(v, bit) == [v EXCEPT ![offset(bit)] = SymDiff(@, {idx(bit)})]

\* The three implementations of bs_distance differ in how they count.
bs_distance(v, w) == SumFunction([j \in 0 .. len - 1 |-> Cardinality(SymDiff(v[j], w[j]))])

\* Two bitstrings from bs_alloc, which zeroes the last word only.
bs_alloc ==
    /\ bs \in [Names -> {v \in Buffer : v[len - 1] = {}}]
    /\ unclean = [n \in Names |-> FALSE]

Assign(n, v, dirty) ==
    /\ bs' = [bs EXCEPT ![n] = v]
    /\ unclean' = [unclean EXCEPT ![n] = dirty]

bs_init_zeros(n) == Assign(n, [j \in 0 .. len - 1 |-> {}], FALSE)

bs_init_ones(n) ==
    Assign(n, bs_clear_remaining_bits([j \in 0 .. len - 1 |-> 0 .. WordBits - 1]), FALSE)

bs_init_random(n) == \E v \in Buffer : Assign(n, bs_clear_remaining_bits(v), FALSE)

\* bs_init_hex and bs_init_b64 take the words from the string as they are.
bs_init_string(n) ==
    \E v \in Buffer : Assign(n, v, v # bs_clear_remaining_bits(v))

bs_copy(n, m) == Assign(n, bs[m], unclean[m])

bs_not(n) ==
    Assign(n, [j \in 0 .. len - 1 |-> (0 .. WordBits - 1) \ bs[n][j]], TRUE)

bs_xor(n, m) ==
    Assign(n, [j \in 0 .. len - 1 |-> SymDiff(bs[n][j], bs[m][j])], unclean[n] \/ unclean[m])

bs_and(n, m) ==
    Assign(n, [j \in 0 .. len - 1 |-> bs[n][j] \cap bs[m][j]], unclean[n] /\ unclean[m])

bs_or(n, m) ==
    Assign(n, [j \in 0 .. len - 1 |-> bs[n][j] \cup bs[m][j]], unclean[n] \/ unclean[m])

bs_set_bit(n, bit, value) ==
    Assign(n, [bs[n] EXCEPT ![offset(bit)] = IF value = 0 THEN @ \ {idx(bit)}
                                            ELSE @ \cup {idx(bit)}], unclean[n])

bs_flip_bit(n, bit) == Assign(n, FlipBit(bs[n], bit), unclean[n])

\* bs_flip_random_bits flips the first "flips" elements of a shuffled array of
\* all bits, for flips <= bits: beyond, it reads behind the array.
bs_flip_random_bits(n, flips) ==
    \E chosen \in kSubset(flips, BitIndex) :
        Assign(n, FoldSet(LAMBDA bit, v : FlipBit(v, bit), bs[n], chosen), unclean[n])

\* 1 << bit is an int: shifted into its sign bit it sets all higher bits of
\* the word, and the processor shifts by bit modulo the size of an int.
ShiftedOne(bit) ==
    LET s == bit % IntBits IN IF s = IntBits - 1 THEN s .. WordBits - 1 ELSE {s}

\* One word of bs_average: c is shifted until it is 0, and a coin is flipped
\* for every bit up to its highest one, because "c && 1" is true for them all.
AverageWord(x, y) ==
    LET Mask(coins) == FoldSet(LAMBDA bit, mask : SymDiff(mask, ShiftedOne(bit)), {}, coins)
        c == SymDiff(x, y)
    IN  IF c = {} THEN {x}
        ELSE {SymDiff(x, Mask(coins)) : coins \in SUBSET (0 .. Max(c))}

bs_average(n, m) ==
    \E v \in Buffer :
        /\ \A j \in 0 .. len - 1 : v[j] \in AverageWord(bs[n][j], bs[m][j])
        /\ Assign(n, v, TRUE)

BitstringNext ==
    \E n \in Names :
        \/ bs_init_zeros(n)
        \/ bs_init_ones(n)
        \/ bs_init_random(n)
        \/ bs_init_string(n)
        \/ bs_not(n)
        \/ \E m \in Names :
               \/ bs_copy(n, m)
               \/ bs_xor(n, m)
               \/ bs_and(n, m)
               \/ bs_or(n, m)
               \/ bs_average(n, m)
        \/ \E bit \in BitIndex :
               \/ bs_flip_bit(n, bit)
               \/ \E value \in {0, 1} : bs_set_bit(n, bit, value)
        \/ \E flips \in 0 .. Bits : bs_flip_random_bits(n, flips)

BitstringSpec == bs_alloc /\ [][BitstringNext]_bitstrings

------------------------------------------------------------------------------
\* Every variable has its type: no function sets a bit outside its word.
BuffersOK ==
    /\ bs \in [Names -> Buffer]
    /\ unclean \in [Names -> BOOLEAN]

\* The bits of a bitstring, read with bs_get_bit.
Value(v) == {bit \in BitIndex : bs_get_bit(v, bit)}

\* The Hamming distance of the bitstrings in two buffers.
Hamming(v, w) == Cardinality(SymDiff(Value(v), Value(w)))

\* bs_distance is the Hamming distance of any two bitstrings, however they
\* were made, unless remaining bits came into one of them by bs_not, by
\* bs_average or from a string: no other function lets them in
\* (tests.py:30-48 relies on it).  bitstring.c:128 calls bs_not's a bug.
DistanceIsHamming ==
    \A n, m \in Names :
        ~unclean[n] /\ ~unclean[m] => bs_distance(bs[n], bs[m]) = Hamming(bs[n], bs[m])

\* What the functions promise by their names, of the bits seen through
\* bs_get_bit; of bs_average only that it leaves words alone on which both
\* arguments agree.
Exact(n, m) ==
    /\ bs_init_zeros(n) => Value(bs'[n]) = {}
    /\ bs_init_ones(n) => Value(bs'[n]) = BitIndex
    /\ bs_copy(n, m) => Value(bs'[n]) = Value(bs[m])
    /\ bs_not(n) => Value(bs'[n]) = BitIndex \ Value(bs[n])
    /\ bs_xor(n, m) => Value(bs'[n]) = SymDiff(Value(bs[n]), Value(bs[m]))
    /\ bs_and(n, m) => Value(bs'[n]) = Value(bs[n]) \cap Value(bs[m])
    /\ bs_or(n, m) => Value(bs'[n]) = Value(bs[n]) \cup Value(bs[m])
    /\ bs_average(n, m) => \A bit \in BitIndex :
           bs[n][offset(bit)] = bs[m][offset(bit)]
               => (bit \in Value(bs'[n]) <=> bit \in Value(bs[n]))
    /\ \A bit \in BitIndex :
           /\ bs_flip_bit(n, bit) => SymDiff(Value(bs'[n]), Value(bs[n])) = {bit}
           /\ bs_set_bit(n, bit, 0) => Value(bs'[n]) = Value(bs[n]) \ {bit}
           /\ bs_set_bit(n, bit, 1) => Value(bs'[n]) = Value(bs[n]) \cup {bit}
    /\ \A flips \in 0 .. Bits :
           bs_flip_random_bits(n, flips) => Hamming(bs'[n], bs[n]) = flips

\* The functions that work on words and those that work on bits agree on
\* where each bit is: each but bs_average has the effect on the set of bits that
\* its name promises, and none on bits it is not asked to change.
BitsAreExact == [][\A n, m \in Names : Exact(n, m)]_bitstrings
==============================================================================
