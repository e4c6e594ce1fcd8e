------------------------------ MODULE MCHandles ------------------------------
(* A small instance of Handles.                                             *)
EXTENDS Handles, TLC

\* Objects of one class, and regions of one kind, are not told apart.
Symmetry ==
    Permutations(AddressSpaces) \cup Permutations(Counters)
        \cup Permutations(Heap) \cup Permutations(Maps)
==============================================================================
