---------------------------- MODULE MCAddressFile ----------------------------
(* A small instance of AddressFile.                                         *)
EXTENDS AddressFile, TLC

\* Neither address spaces nor addresses are told apart by any action or property.
Symmetry == Permutations(Spaces) \cup Permutations(Values)
==============================================================================
