--------------------------------- MODULE Scan ---------------------------------
(***************************************************************************)
(* What every scanner of the library promises its caller: a call that asks *)
(* for the hard locations within a radius of a bitstring is answered with  *)
(* exactly those locations and with their number.  It is what              *)
(* as_scan_linear and as_scan_linear2 compute in one loop, and what        *)
(* sdm_scan and sdm_scan2 take for granted of whatever scanner is chosen.  *)
(* The distances are abstracted to "near", the locations within the radius *)
(* of the current call.                                                    *)
(***************************************************************************)
EXTENDS Integers, FiniteSets

CONSTANT
    Sample          \* number of hard locations

VARIABLES
    busy,           \* a call is in progress
    near,           \* the locations within the radius of the latest call
    answer          \* what the latest call returned; NoAnswer before it does

vars == <<busy, near, answer>>

Locations == 0 .. Sample - 1

\* Before the first return there is no result to speak of.
NoAnswer == [locations |-> {}, cnt |-> -1]

Init ==
    /\ busy = FALSE
    /\ near = {}
    /\ answer = NoAnswer

Call ==
    /\ ~busy
    /\ busy' = TRUE
    /\ near' \in SUBSET Locations
    /\ answer' = NoAnswer

Return ==
    /\ busy
    /\ busy' = FALSE
    /\ answer' = [locations |-> near, cnt |-> Cardinality(near)]
    /\ UNCHANGED near

Next == Call \/ Return

Spec == Init /\ [][Next]_vars

\* The promise with its liveness: a scan that was called returns.
FairSpec == Spec /\ WF_vars(Return)
==============================================================================
