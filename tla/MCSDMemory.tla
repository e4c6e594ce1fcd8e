------------------------------ MODULE MCSDMemory ------------------------------
(* A small instance of SDMemory.                                            *)
EXTENDS SDMemory

CONSTANTS
    Strings,        \* the bitstrings used as addresses and data of calls
    Unclean,        \* addresses with unused bits set, as bs_not leaves them
    Radii,          \* the radii of calls
    MaxIter         \* the largest max_iter of an sdm_iter_read

Distances == 0 .. Bits

\* sdm_write; sdm_write2_weighted with a negative weight; a weight table that
\* falls with the distance and reaches 0.
WeightTables ==
    {[d \in Distances |-> 1], [d \in Distances |-> -1], [d \in Distances |-> Bits - d]}

MCCalls ==
    [op : {"write"}, addr : Strings, radius : Radii, datum : Strings, weight : WeightTables]
    \cup [op : {"write_sub"}, addr : Strings, radius : Radii, datum : Strings]
    \cup [op : {"read"}, addr : Strings, radius : Radii]
    \cup [op : {"generic_read"}, addr : Strings, radius : Radii, z : {0, 2}]
    \cup [op : {"read_counter"}, addr : Strings, radius : Radii,
          row : {ZeroRow, [b \in BitIndex |-> CounterMax]}]
    \cup [op : {"iter_read"}, addr : Strings, radius : Radii, max_iter : 0 .. MaxIter]
    \cup [op : {"iter_read"}, addr : Unclean, radius : Radii, max_iter : {MaxIter}]
    \cup [op : {"reset"}, index : Locations]
    \cup [op : {"init"}, scanner : {"linear"}, fits : BOOLEAN]

\* Resets and reads, with an OpenCL scanner, and the write that it stops at.
OpenCLCalls ==
    [op : {"read"}, addr : Strings, radius : Radii] \cup [op : {"reset"}, index : Locations]
        \cup [op : {"write_sub"}, addr : Strings, radius : Radii, datum : Strings]
        \cup [op : {"init"}, scanner : {"opencl"}, fits : {TRUE}]
==============================================================================
