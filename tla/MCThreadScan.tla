----------------------------- MODULE MCThreadScan -----------------------------
(* A small instance of ThreadScan; MCThreadScan.cfg gives the constants.    *)
EXTENDS ThreadScan
==============================================================================
