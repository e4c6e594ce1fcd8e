----------------------------- MODULE MCGroupScan -----------------------------
(* Small instances of GroupScan.  With a warp of 4 items instead of 32, a   *)
(* multiple of 16 becomes a multiple of 2.                                  *)
EXTENDS GroupScan

Launch(k, words, items, groups) ==
    [kernel |-> k, bs_len |-> words, local_worksize |-> items, num_groups |-> groups]

\* Each kernel within the limits it states: two warps where it may have them.
MCLaunches == {
    Launch("single_scan0", 3, 1, Sample),
    Launch("single_scan1", 3, 1, 1),
    Launch("single_scan2", 5, 6, 1),
    Launch("single_scan3", 5, 8, 1),
    Launch("single_scan3_16", 2, 2, Sample),
    Launch("single_scan4", 5, 6, 1),
    Launch("single_scan5", 5, 8, 1),
    Launch("single_scan5_unroll", 3, 4, Sample),
    Launch("single_scan6", 5, 6, 1)}

ASSUME MCLaunchesAreLegal == \A l \in MCLaunches : WithinLimits(l) /\ SumsAll(l)

\* The default kernel with the work size the library computes for bitstrings
\* of 65 to 128 words (14 and 16 here).
UnrollLaunches == {Launch("single_scan5_unroll", 14, 16, 1)}
==============================================================================
