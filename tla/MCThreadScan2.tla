---------------------------- MODULE MCThreadScan2 ----------------------------
(* A small instance of ThreadScan2; MCThreadScan2.cfg gives the constants.  *)
EXTENDS ThreadScan2
==============================================================================
