------------------------------- MODULE SDMemory -------------------------------
(***************************************************************************)
(* The operations of operations.c over one address space (address_space.c) *)
(* and its counters (counter.c), at the grain of their loops over the hard *)
(* locations.                                                              *)
(*                                                                         *)
(* An operation asks a scanner for the locations within the radius, then   *)
(* visits them in ascending order: a write updates one row of counters     *)
(* after the other, a read adds one row after the other to a temporary     *)
(* counter and turns that into a bitstring.  The scan is one step, which   *)
(* is what module Scan promises and ThreadScan, ThreadScan2 and GroupScan  *)
(* implement.  The OpenCL scanner scans a copy of the addresses, which it  *)
(* made when it was initialised.  The functions in pairs, sdm_write and    *)
(* sdm_write2 and so on, differ only in whether the scan gives them flags  *)
(* or a list, and are one here; with an OpenCL scanner it is the form with *)
(* the list.  An operation on a row is one step: nobody else looks at it   *)
(* meanwhile, as the library has no lock and the caller makes one call at  *)
(* a time.                                                                 *)
(***************************************************************************)
EXTENDS Counter, FiniteSetsExt

CONSTANTS
    Sample,         \* number of hard locations
    Remaining,      \* bits of the last word that are not used (bs_bits_remaining)
    Scanners,       \* scanner types the sdm_s may be found with
    Calls,          \* the calls a caller may make
    MaxCalls        \* bound on how many it makes

ASSUME SampleAssumption == Sample \in Nat
ASSUME RemainingAssumption == Remaining \in Nat
ASSUME MaxCallsAssumption == MaxCalls \in Nat
ASSUME ScannersAssumption == Scanners \subseteq {"none", "linear", "thread", "opencl"}

VARIABLES
    address,        \* address_space_s.addresses
    counter,        \* counter_s.counter
    scanner_type,   \* of the sdm_s; "none" before it is initialised
    bitstrings_buf, \* the OpenCL scanner's copy of the addresses
    pc,             \* where the operation is
    call,           \* the operation and its arguments
    todo,           \* selected locations the loop has still to visit
    cnt,            \* number of selected locations
    acc,            \* the temporary counter of a read, or the caller's
    bs1,            \* the address read from; bs1 of sdm_iter_read
    rest2,          \* bits of sdm_iter_read's bs2 that are not part of the bitstring
    iter,           \* loop variable of sdm_iter_read
    answer,         \* return value, and what the caller's output holds
    made,           \* number of calls made
    written,        \* history: the data ever written
    exact           \* history: no counter or sum ever wrapped around

vars == <<address, counter, scanner_type, bitstrings_buf, pc, call, todo, cnt, acc, bs1, rest2,
          iter, answer, made, written, exact>>

Locations == 0 .. Sample - 1

\* The words of a bitstring: its bits and the unused ones of the last word, which
\* bs_not sets.
Buffers == SUBSET (0 .. Bits + Remaining - 1)

\* The arguments the functions are declared with.  The tables of weights have an
\* entry for each distance of two bitstrings; an exponent is one that keeps the sums
\* of sdm_generic_read2 whole.
ASSUME CallsAssumption ==
    /\ Calls \subseteq
           [op : {"write"}, addr : Bitstrings, radius : Nat, datum : Bitstrings,
            weight : [0 .. Bits -> Int]]
           \cup [op : {"write_sub"}, addr : Buffers, radius : Nat, datum : Bitstrings]
           \cup [op : {"read"}, addr : Buffers, radius : Nat]
           \cup [op : {"generic_read"}, addr : Buffers, radius : Nat, z : Nat]
           \cup [op : {"read_counter"}, addr : Buffers, radius : Nat, row : Rows]
           \cup [op : {"iter_read"}, addr : Buffers, radius : Nat, max_iter : Nat]
           \cup [op : {"reset"}, index : Locations]
           \cup [op : {"init"}, scanner : {"linear", "thread", "opencl"}, fits : BOOLEAN]
    /\ \A c \in Calls : c.op = "generic_read" =>
           \A v \in CounterValues : SignedPower(v, c.z) \in Int

NoCall == [op |-> "none"]
NoAnswer == [ret |-> 0]

WriteOps == {"write", "write_sub"}
ReadOps == {"read", "generic_read", "read_counter", "iter_read"}

\* bs_distance, which counts the unused bits, too.
bs_distance(x, y) == Cardinality(SymDiff(x, y))

\* Mutant: the radius itself is outside the circle.
as_scan_Open(table, bs, radius) == {l \in Locations : bs_distance(table[l], bs) < radius}

\* as_scan_linear: the locations it flags for bs.
as_scan(table, bs, radius) == {l \in Locations : bs_distance(table[l], bs) <= radius}

\* sdm_scan and sdm_scan2: the table the scanner looks at.
sdm_scan(bs, radius) ==
    as_scan(IF scanner_type = "opencl" THEN bitstrings_buf ELSE address, bs, radius)

\* The addresses as_scanner_opencl_init copies.
Upload(scanner, table) == IF scanner = "opencl" THEN table ELSE <<>>

\* Tables of addresses as as_init_random or a file gives them, counters of
\* counter_init, and an sdm_s, initialised or not.
Init ==
    /\ address \in [Locations -> Bitstrings]
    /\ counter = [l \in Locations |-> ZeroRow]
    /\ scanner_type \in Scanners
    /\ bitstrings_buf = Upload(scanner_type, address)
    /\ pc = "idle"
    /\ call = NoCall
    /\ todo = {}
    /\ cnt = 0
    /\ acc = ZeroRow
    /\ bs1 = {}
    /\ rest2 = {}
    /\ iter = 0
    /\ answer = NoAnswer
    /\ made = 0
    /\ written = {}
    /\ exact = TRUE

\* What has been written once call c has begun; a negative weight writes the
\* opposite of the datum, and counts as having written anything.
WrittenAfter(c) ==
    IF c.op # "write" THEN written
    ELSE IF \A d \in DOMAIN c.weight : c.weight[d] >= 0 THEN written \cup {c.datum}
    ELSE Bitstrings

\* Entry of an operation; sdm_iter_read copies its address to bs1, and bs_alloc
\* clears the last word of bs2.
Begin ==
    /\ pc = "idle"
    /\ made < MaxCalls
    /\ made' = made + 1
    /\ pc' = "entered"
    /\ call' \in Calls
    /\ bs1' = IF call'.op \in {"reset", "init"} THEN {} ELSE call'.addr
    /\ acc' = IF call'.op = "read_counter" THEN call'.row ELSE ZeroRow
    /\ rest2' = {}
    /\ iter' = 0
    /\ written' = WrittenAfter(call')
    /\ UNCHANGED <<address, counter, scanner_type, bitstrings_buf, todo, cnt, answer, exact>>

\* sdm_init_linear, sdm_init_thread and sdm_init_opencl.  The dimensions of
\* an address space and of counters that do not fit each other are an error.
InitScanner ==
    /\ pc = "entered"
    /\ call.op = "init"
    /\ IF call.fits
          THEN /\ scanner_type' = call.scanner
               /\ bitstrings_buf' = Upload(call.scanner, address)
               /\ answer' = [ret |-> 0]
          ELSE /\ answer' \in {[ret |-> -1], [ret |-> -2]}
               /\ UNCHANGED <<scanner_type, bitstrings_buf>>
    /\ pc' = "returned"
    /\ UNCHANGED <<address, counter, call, todo, cnt, acc, bs1, rest2, iter, made, written, exact>>

\* sdm_reset_hardlocation, the whole of it: nobody tells the OpenCL scanner.
ResetHardLocation ==
    /\ pc = "entered"
    /\ call.op = "reset"
    /\ \E bs \in Bitstrings : address' = [address EXCEPT ![call.index] = bs]
    /\ counter' = [counter EXCEPT ![call.index] = ZeroRow]
    /\ answer' = [ret |-> 0]
    /\ pc' = "returned"
    /\ UNCHANGED <<scanner_type, bitstrings_buf, call, todo, cnt, acc, bs1, rest2, iter, made, written, exact>>

\* Mutant: one iteration too many.
IterationsOver_Late == call.op = "iter_read" /\ iter > call.max_iter

\* The for of sdm_iter_read at max_iter: bs1 goes to the output.
IterationsOver == call.op = "iter_read" /\ iter >= call.max_iter

IterEnd ==
    /\ pc = "entered"
    /\ IterationsOver
    /\ answer' = [ret |-> iter, output |-> bs1]
    /\ pc' = "returned"
    /\ UNCHANGED <<address, counter, scanner_type, bitstrings_buf, call, todo, cnt, acc, bs1, rest2, iter, made, written, exact>>

Scanning == pc = "entered" /\ call.op \notin {"reset", "init"} /\ ~IterationsOver

\* sdm_scan with a scanner_type it does not know: -1, before anything changes.
ScanFails ==
    /\ Scanning
    /\ scanner_type = "none"
    /\ answer' = [ret |-> -1]
    /\ pc' = "returned"
    /\ UNCHANGED <<address, counter, scanner_type, bitstrings_buf, call, todo, cnt, acc, bs1, rest2, iter, made, written, exact>>

\* as_scan_opencl, which would give flags, stops the program at assert(0).  Other
\* operations have a second form, with a list; sdm_write_sub has none.
Aborts == scanner_type = "opencl" /\ call.op = "write_sub"

\* sdm_scan, and counter_init of the temporary counter of a read.
Scan ==
    /\ Scanning
    /\ scanner_type # "none"
    /\ ~Aborts
    /\ todo' = sdm_scan(bs1, call.radius)
    /\ cnt' = Cardinality(todo')
    /\ acc' = IF call.op = "read_counter" THEN acc ELSE ZeroRow
    /\ pc' = "loop"
    /\ UNCHANGED <<address, counter, scanner_type, bitstrings_buf, call, bs1, rest2, iter, answer, made, written, exact>>

\* Mutant: the loop does not move on, as when its bound grows with it.
Visiting_Stays(l) ==
    /\ pc = "loop"
    /\ l \in todo
    /\ scanner_type = "opencl" \/ \A m \in todo : l <= m
    /\ todo' = todo

\* The location the loop over the selected ones visits next: they come in
\* ascending order, or from the OpenCL scanner in any order.
Visiting(l) ==
    /\ pc = "loop"
    /\ l \in todo
    /\ scanner_type = "opencl" \/ \A m \in todo : l <= m
    /\ todo' = todo \ {l}

UpdateRow ==
    /\ call.op \in WriteOps
    /\ \E l \in todo :
           LET weight == call.weight[bs_distance(call.addr, address[l])]
           IN  /\ Visiting(l)
               /\ counter' = [counter EXCEPT ![l] =
                      IF call.op = "write" THEN AddWeighted(@, call.datum, weight)
                      ELSE SubBitstring(@, call.datum)]
               /\ exact' = (/\ exact
                            /\ call.op = "write" =>
                                   \A b \in BitIndex :
                                       {counter[l][b] + weight, counter[l][b] - weight}
                                           \subseteq CounterValues)
    /\ UNCHANGED <<address, scanner_type, bitstrings_buf, pc, call, cnt, acc, bs1, rest2, iter, answer, made, written>>

\* The sum of sdm_generic_read2 is a double: it has no bounds.
AddRow ==
    /\ call.op \in ReadOps
    /\ \E l \in todo :
           /\ Visiting(l)
           /\ acc' = IF call.op = "generic_read"
                        THEN [b \in BitIndex |-> acc[b] + SignedPower(counter[l][b], call.z)]
                        ELSE AddCounter(acc, counter[l])
           /\ exact' = (/\ exact
                        /\ call.op # "generic_read" =>
                               \A b \in BitIndex : acc[b] + counter[l][b] \in CounterValues)
    /\ UNCHANGED <<address, counter, scanner_type, bitstrings_buf, pc, call, cnt, bs1, rest2, iter, answer, made, written>>

LoopOver == pc = "loop" /\ todo = {}

\* A write, or a read that returns its counter, ends with the loop.
ReturnCount ==
    /\ LoopOver
    /\ call.op \in WriteOps \cup {"read_counter"}
    /\ answer' = IF call.op = "read_counter" THEN [ret |-> cnt, row |-> acc]
                 ELSE [ret |-> cnt]
    /\ pc' = "returned"
    /\ UNCHANGED <<address, counter, scanner_type, bitstrings_buf, call, todo, cnt, acc, bs1, rest2, iter, made, written, exact>>

ReturnBitstring ==
    /\ LoopOver
    /\ call.op \in {"read", "generic_read"}
    /\ \E bs \in ToBitstring(acc) : answer' = [ret |-> cnt, output |-> bs]
    /\ pc' = "returned"
    /\ UNCHANGED <<address, counter, scanner_type, bitstrings_buf, call, todo, cnt, acc, bs1, rest2, iter, made, written, exact>>

\* The end of one sdm_read of sdm_iter_read, which sets the bits of bs2 and leaves
\* the rest of its words; it stops at a fixed point and else swaps bs1 and bs2.
Iterate ==
    /\ LoopOver
    /\ call.op = "iter_read"
    /\ \E bs \in ToBitstring(acc) :
           LET bs2 == bs \cup rest2
           IN IF bs_distance(bs1, bs2) = 0
                 THEN /\ answer' = [ret |-> iter, output |-> bs1]
                      /\ pc' = "returned"
                      /\ UNCHANGED <<bs1, rest2, iter>>
                 ELSE /\ bs1' = bs2
                      /\ rest2' = bs1 \ BitIndex
                      /\ iter' = iter + 1
                      /\ pc' = "entered"
                      /\ UNCHANGED answer
    /\ UNCHANGED <<address, counter, scanner_type, bitstrings_buf, call, todo, cnt, acc, made, written, exact>>

\* The caller has the answer; what the operation allocated is freed.
Take ==
    /\ pc = "returned"
    /\ pc' = "idle"
    /\ call' = NoCall
    /\ todo' = {}
    /\ cnt' = 0
    /\ acc' = ZeroRow
    /\ bs1' = {}
    /\ rest2' = {}
    /\ iter' = 0
    /\ answer' = NoAnswer
    /\ UNCHANGED <<address, counter, scanner_type, bitstrings_buf, made, written, exact>>

\* A call that is running goes on by itself.
Work ==
    \/ InitScanner
    \/ ResetHardLocation
    \/ IterEnd
    \/ ScanFails
    \/ Scan
    \/ UpdateRow
    \/ AddRow
    \/ ReturnCount
    \/ ReturnBitstring
    \/ Iterate

Next ==
    \/ Begin
    \/ Work
    \/ Take

Spec == Init /\ [][Next]_vars

FairSpec == Spec /\ WF_vars(Work)

------------------------------------------------------------------------------
\* Every variable has its type.  acc stays a counter row except in
\* sdm_generic_read2, and no loop counter passes its bound.
TypeOK ==
    /\ address \in [Locations -> Bitstrings]
    /\ counter \in [Locations -> Rows]
    /\ scanner_type \in {"none", "linear", "thread", "opencl"}
    /\ scanner_type = "opencl" => bitstrings_buf \in [Locations -> Bitstrings]
    /\ pc \in {"idle", "entered", "loop", "returned"}
    /\ call \in Calls \cup {NoCall}
    /\ todo \in SUBSET Locations
    /\ cnt \in 0 .. Sample
    /\ IF call.op = "generic_read" THEN acc \in [BitIndex -> Int] ELSE acc \in Rows
    /\ bs1 \in Buffers
    /\ rest2 \in Buffers /\ rest2 \cap BitIndex = {}
    /\ iter \in 0 .. (IF call.op = "iter_read" THEN call.max_iter ELSE 0)
    /\ answer.ret \in -2 .. Sample \cup Nat
    /\ made \in 0 .. MaxCalls
    /\ written \in SUBSET Bitstrings
    /\ exact \in BOOLEAN

\* tests.py:98-106 writes one datum and reads it back.  As long as one datum
\* only was ever written, under any addresses, radii and positive weights
\* and with any resets and subtractions between, every read that activates
\* a location still holding some of it returns that datum, unless a counter
\* or the sum of the read has wrapped around.
RecallsSoleDatum ==
    /\ pc = "returned"
    /\ call.op = "read"
    /\ answer.ret >= 0
    /\ exact
    /\ Cardinality(written) = 1
    /\ \A b \in BitIndex : \E l \in sdm_scan(call.addr, call.radius) : counter[l][b] # 0
    => written = {answer.output}

\* A write has taken effect, as far as the caller can tell, once the scan
\* has selected its locations: "todo" are the rows it is certain to update.
Committed == pc = "loop" /\ call.op \in WriteOps

Effect(l) ==
    IF call.op = "write"
       THEN AddWeighted(counter[l], call.datum, call.weight[bs_distance(call.addr, address[l])])
       ELSE SubBitstring(counter[l], call.datum)

Atomic == INSTANCE Memory WITH
    usable <- scanner_type # "none",
    status <- IF pc = "idle" THEN "idle"
              ELSE IF pc = "returned" \/ Committed THEN "answered"
              ELSE "called",
    counter <- IF Committed
                  THEN [l \in Locations |-> IF l \in todo THEN Effect(l) ELSE counter[l]]
                  ELSE counter,
    answer <- IF Committed THEN [ret |-> cnt] ELSE answer

\* The loops of operations.c implement operations that take effect at once:
\* each write reaches exactly the locations within the radius, once; each
\* read sums exactly those, however wrapping falls in its partial sums; an
\* sdm_iter_read is a chain of such reads that ends at its first fixed
\* point; a failed scan changes nothing.
ImplementsMemory == Atomic!Spec

\* sdm/__init__.py:236 says of the OpenCL scanner that it "returns exactly the
\* same result as" a linear scan: an operation works on the locations whose
\* address is within the radius, and on no other.
SelectsNear ==
    pc = "loop" => LET near == as_scan(address, bs1, call.radius)
                   IN  todo \subseteq near /\ cnt = Cardinality(near)

\* Every call returns, unless it is one that stops the program.
CallReturns == (pc = "entered" /\ ~Aborts) ~> (pc = "returned")
==============================================================================
