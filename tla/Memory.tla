-------------------------------- MODULE Memory --------------------------------
(***************************************************************************)
(* What a Sparse Distributed Memory promises the program that calls it:    *)
(* every operation takes effect at once, on exactly the hard locations     *)
(* within the radius of its address, and a read answers with the majority  *)
(* of what those locations hold.                                           *)
(*                                                                         *)
(* A caller makes one call at a time: Begin, then Respond, which does the  *)
(* work of the call, then Take, when the caller has the answer.            *)
(***************************************************************************)
EXTENDS Counter, FiniteSetsExt

CONSTANTS
    Sample,         \* number of hard locations
    Remaining,      \* bits of the last word that are not used
    Calls           \* the calls a caller may make

VARIABLES
    address,        \* address_space_s.addresses
    counter,        \* counter_s.counter
    usable,         \* it was initialised with a scanner
    status,         \* "idle", "called" or "answered"
    call,           \* the call in progress
    answer          \* its return value and what it leaves in its output

vars == <<address, counter, usable, status, call, answer>>

Locations == 0 .. Sample - 1

NoCall == [op |-> "none"]
NoAnswer == [ret |-> 0]

\* All operations scan but these, and an sdm_iter_read that may not iterate.
Scans(c) == c.op \notin {"reset", "init"} /\ (c.op = "iter_read" => c.max_iter > 0)

Distance(x, y) == Cardinality(SymDiff(x, y))

Near(a, radius) == {l \in Locations : Distance(a, address[l]) <= radius}

\* The exact sum of what the locations of S hold for bit b.
Total(S, b) == SumFunctionOnSet([l \in Locations |-> counter[l][b]], S)

\* What a read from a may return: the majority of the near locations, their
\* sum being kept in counter_t's.
Majority(a, radius) ==
    ToBitstring([b \in BitIndex |-> Wrap(Total(Near(a, radius), b))])

\* What sdm_generic_read2 may return for the exponent z: its sum is a double.
PowerMajority(a, radius, z) ==
    ToBitstring([b \in BitIndex |->
        SumFunctionOnSet([l \in Locations |-> SignedPower(counter[l][b], z)], Near(a, radius))])

\* What sdm_iter_read may return, with the number of iterations it reports:
\* the end of a chain of reads, each from the result of the one before, that
\* stopped at its first fixed point or at max_iter.  The chain lives in two
\* buffers; unused bits that are set in the address stay in one of them, and if
\* there are any no result is ever a fixed point.
IterAnswers(a, radius, max_iter) ==
    LET unused == a \ BitIndex
        Held(c, j) == IF j = 0 THEN a ELSE IF j % 2 = 0 THEN c[j] \cup unused ELSE c[j]
        Reads == UNION {{bs} \X Majority(bs, radius) :
                        bs \in Bitstrings \cup {r \cup unused : r \in Bitstrings}}
    IN  UNION {{[ret |-> n, output |-> Held(chain, n)] :
                   chain \in {c \in [1 .. n -> Bitstrings] :
                       /\ \A j \in 1 .. n : /\ <<Held(c, j - 1), c[j]>> \in Reads
                                            /\ Held(c, j) # Held(c, j - 1)
                       /\ n < max_iter => /\ unused = {}
                                          /\ <<Held(c, n), Held(c, n)>> \in Reads}} :
              n \in 0 .. max_iter}

Init ==
    /\ address \in [Locations -> Bitstrings]
    /\ counter = [l \in Locations |-> ZeroRow]
    /\ usable \in BOOLEAN
    /\ status = "idle"
    /\ call = NoCall
    /\ answer = NoAnswer

Begin ==
    /\ status = "idle"
    /\ status' = "called"
    /\ call' \in Calls
    /\ UNCHANGED <<address, counter, usable, answer>>

\* An operation takes effect and answers in one step.
Respond ==
    /\ status = "called"
    /\ status' = "answered"
    /\ UNCHANGED call

\* No scanner: the operation fails and nothing changes.
Fail ==
    /\ Respond
    /\ ~usable
    /\ Scans(call)
    /\ answer' = [ret |-> -1]
    /\ UNCHANGED <<address, counter, usable>>

\* sdm_write, sdm_write2 and its weighted forms.
Write ==
    /\ Respond
    /\ usable
    /\ call.op = "write"
    /\ counter' = [l \in Locations |->
           IF l \in Near(call.addr, call.radius)
              THEN AddWeighted(counter[l], call.datum,
                               call.weight[Distance(call.addr, address[l])])
              ELSE counter[l]]
    /\ answer' = [ret |-> Cardinality(Near(call.addr, call.radius))]
    /\ UNCHANGED <<address, usable>>

WriteSub ==
    /\ Respond
    /\ usable
    /\ call.op = "write_sub"
    /\ counter' = [l \in Locations |->
           IF l \in Near(call.addr, call.radius)
              THEN SubBitstring(counter[l], call.datum)
              ELSE counter[l]]
    /\ answer' = [ret |-> Cardinality(Near(call.addr, call.radius))]
    /\ UNCHANGED <<address, usable>>

Read ==
    /\ Respond
    /\ usable
    /\ call.op = "read"
    /\ \E bs \in Majority(call.addr, call.radius) :
           answer' = [ret |-> Cardinality(Near(call.addr, call.radius)), output |-> bs]
    /\ UNCHANGED <<address, counter, usable>>

GenericRead ==
    /\ Respond
    /\ usable
    /\ call.op = "generic_read"
    /\ \E bs \in PowerMajority(call.addr, call.radius, call.z) :
           answer' = [ret |-> Cardinality(Near(call.addr, call.radius)), output |-> bs]
    /\ UNCHANGED <<address, counter, usable>>

\* sdm_read_counter adds to the counter it is given.
ReadCounter ==
    /\ Respond
    /\ usable
    /\ call.op = "read_counter"
    /\ answer' = [ret |-> Cardinality(Near(call.addr, call.radius)),
                  row |-> [b \in BitIndex |->
                              Wrap(call.row[b] + Total(Near(call.addr, call.radius), b))]]
    /\ UNCHANGED <<address, counter, usable>>

IterRead ==
    /\ Respond
    /\ call.op = "iter_read"
    /\ usable \/ call.max_iter = 0
    /\ answer' \in IterAnswers(call.addr, call.radius, call.max_iter)
    /\ UNCHANGED <<address, counter, usable>>

\* sdm_reset_hardlocation: a new random address and counters at 0.
Reset ==
    /\ Respond
    /\ call.op = "reset"
    /\ \E bs \in Bitstrings : address' = [address EXCEPT ![call.index] = bs]
    /\ counter' = [counter EXCEPT ![call.index] = ZeroRow]
    /\ answer' = [ret |-> 0]
    /\ UNCHANGED usable

\* sdm_init_linear and the others make the memory usable, or fail.
Initialise ==
    /\ Respond
    /\ call.op = "init"
    /\ usable' = (usable \/ call.fits)
    /\ \E ret \in IF call.fits THEN {0} ELSE {-1, -2} : answer' = [ret |-> ret]
    /\ UNCHANGED <<address, counter>>

Take ==
    /\ status = "answered"
    /\ status' = "idle"
    /\ call' = NoCall
    /\ answer' = NoAnswer
    /\ UNCHANGED <<address, counter, usable>>

Next ==
    \/ Begin
    \/ Fail
    \/ Write
    \/ WriteSub
    \/ Read
    \/ GenericRead
    \/ ReadCounter
    \/ IterRead
    \/ Reset
    \/ Initialise
    \/ Take

Spec == Init /\ [][Next]_vars
==============================================================================
