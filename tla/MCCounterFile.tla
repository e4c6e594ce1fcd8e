---------------------------- MODULE MCCounterFile ----------------------------
(* A small instance of CounterFile.                                         *)
EXTENDS CounterFile, TLC

\* Neither file names nor handles are told apart by any action or property.
Symmetry == Permutations(Files) \cup Permutations(Handles)
==============================================================================
