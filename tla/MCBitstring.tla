----------------------------- MODULE MCBitstring -----------------------------
(* A small instance of Bitstring; the cfg files give the constants.         *)
EXTENDS Bitstring
==============================================================================
