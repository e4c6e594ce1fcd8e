---------------------------- MODULE MCOpenCLLaunch ----------------------------
(* An instance of OpenCLLaunch with the lengths of addresses of 64, 1000,   *)
(* about 2100, 10000 and 33790 bits: one word, less and more than a warp of *)
(* words, and a length that single_scan6 cannot do.                         *)
EXTENDS OpenCLLaunch
==============================================================================
