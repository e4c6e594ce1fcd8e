------------------------------ MODULE GroupScan ------------------------------
(***************************************************************************)
(* as_scan_opencl2 (scanner_opencl2.c) on one device, and the kernels of   *)
(* scanner_opencl2.cl.                                                     *)
(*                                                                         *)
(* A kernel runs in num_groups groups of local_worksize work items.  Group *)
(* g visits the locations g, g + num_groups, ...; for each of them item i  *)
(* counts the differing bits of word i and the items add their counts up   *)
(* in partial_dist, which they share.  The items of a warp execute each    *)
(* instruction together, reading before they write, and warps run freely   *)
(* between two barriers.  That is what the kernels' comments assume.       *)
(***************************************************************************)
EXTENDS Integers, SequencesExt

CONSTANTS
    Sample,         \* number of hard locations
    WarpSize,       \* work items of a warp, 32 in the code
    Radius,         \* argument of the calls
    Counts,         \* how many bits of a word may differ
    MaxDistance,    \* bound on the distance of a location
    Launches        \* kernels and work sizes the calls may use

ASSUME SampleAssumption == Sample \in Nat
ASSUME WarpSizeAssumption == WarpSize \in Nat \ {0}
ASSUME CountsAssumption == Counts \subseteq Nat

VARIABLES
    mpc,            \* where the calling thread is
    launch,         \* kernel_name, bs_len and work sizes of the call
    kernel,         \* the instructions of that kernel
    popcount,       \* differing bits in each word of each location
    at,             \* the location and the instruction each warp is at
    partial_dist,   \* local memory of each group
    extra,          \* the same, of single_scan4 and single_scan6
    selected        \* selected_buf, up to counter

vars == <<mpc, launch, kernel, popcount, at, partial_dist, extra, selected>>

Locations == 0 .. Sample - 1

Groups(l) == 0 .. l.num_groups - 1
Warps(l) == 0 .. (l.local_worksize - 1) \div WarpSize

\* The work items of warp w.
Items(w) == {i \in 0 .. launch.local_worksize - 1 : i \div WarpSize = w}

\* How often a loop is entered that begins with stride = n / 2, halves it each
\* time and goes on while it is more than m.
Iterations(n, m) == Max({j \in 0 .. n : j = 0 \/ n \div 2 ^ j > m})

\* stride and old_stride from iteration first to iteration last.
Strides(n, first, last) ==
    [k \in 1 .. last - first + 1 |->
        LET j == first + k - 1 IN [old |-> n \div 2 ^ (j - 1), stride |-> n \div 2 ^ j]]

\* All of them, those wider than a warp, and the rest.
All(n) == Strides(n, 1, Iterations(n, 0))
Wide(n) == Strides(n, 1, Iterations(n, WarpSize))
Rest(n) == Strides(n, Iterations(n, WarpSize) + 1, Iterations(n, 0))

\* The rest without the last iteration, whose stride is 1.
Narrow(n) == Strides(n, Iterations(n, WarpSize) + 1, Iterations(n, 1))

Do(op) == <<[op |-> op]>>
AddStep(s) == <<[op |-> "add", stride |-> s.stride]>>
CarryAddStep(s) == <<[op |-> "carry", old |-> s.old]>> \o AddStep(s)
SyncAdd(s) == Do("barrier") \o AddStep(s)
SyncCarryAdd(s) == Do("barrier") \o CarryAddStep(s)
Loop(strides, Body(_)) == FlattenSeq([j \in DOMAIN strides |-> Body(strides[j])])
End == Do("report") \o Do("barrier")

(* What each kernel executes for one location, with n work items a group.   *)

\* Each work item is a group of its own.  single_scan0 has no loop over the
\* locations: see Advance.
single_scan0 == Do("report_row")

single_scan1 == Do("report_row")

single_scan2 == Do("store") \o Do("barrier") \o Do("report_sum") \o Do("barrier")

\* Mutant: the barrier of the loop is left out.
single_scan3_NoBarrier(n) == Do("store") \o Loop(All(n), AddStep) \o End

single_scan3(n) == Do("store") \o Loop(All(n), SyncAdd) \o End

\* Without the loop, for n = 16.
single_scan3_16(n) == Do("store") \o Do("barrier") \o Loop(All(n), AddStep) \o End

single_scan4(n) == Do("store") \o Do("clear") \o Loop(All(n), SyncCarryAdd) \o End

single_scan5(n) ==
    Do("store") \o Loop(Wide(n), SyncAdd) \o Do("barrier") \o Loop(Rest(n), AddStep) \o End

\* Without the second loop, for powers of 2.  There is no barrier behind the
\* first, and the last addition is done for every n.
single_scan5_unroll(n) ==
    Do("store") \o Loop(Wide(n), SyncAdd) \o Loop(Narrow(n), AddStep)
        \o AddStep([old |-> 2, stride |-> 1]) \o End

single_scan6(n) ==
    Do("store") \o Do("clear") \o Loop(Wide(n), SyncCarryAdd) \o Do("barrier")
        \o Loop(Rest(n), CarryAddStep) \o End

Program(l) ==
    LET n == l.local_worksize
    IN  CASE l.kernel = "single_scan0" -> single_scan0
          [] l.kernel = "single_scan1" -> single_scan1
          [] l.kernel = "single_scan2" -> single_scan2
          [] l.kernel = "single_scan3" -> single_scan3(n)
          [] l.kernel = "single_scan3_16" -> single_scan3_16(n)
          [] l.kernel = "single_scan4" -> single_scan4(n)
          [] l.kernel = "single_scan5" -> single_scan5(n)
          [] l.kernel = "single_scan5_unroll" -> single_scan5_unroll(n)
          [] l.kernel = "single_scan6" -> single_scan6(n)

Kernels == {"single_scan0", "single_scan1", "single_scan2", "single_scan3", "single_scan3_16",
            "single_scan4", "single_scan5", "single_scan5_unroll", "single_scan6"}

\* Kernels 0 and 1 give each work item locations of its own.
Alone(l) == l.kernel \in {"single_scan0", "single_scan1"}

\* The kernels whose items need not be a power of 2.
Carrying(l) == l.kernel \in {"single_scan4", "single_scan6"}

IsPower2(n) == \E e \in 0 .. n : n = 2 ^ e

\* What the kernels need for each location to be visited, and for the barriers
\* they have to be enough; the 16 items of single_scan3_16 are half a warp.  The
\* header (scanner_opencl2.cl:4-12) does not say that the additions of
\* single_scan5_unroll have to fit in one warp, nor that single_scan6 must not
\* carry an item of another warp when it has stopped synchronizing.
WithinLimits(l) ==
    /\ l.kernel \in Kernels
    /\ l.bs_len \in Nat /\ l.local_worksize \in Nat \ {0} /\ l.num_groups \in Nat \ {0}
    /\ Alone(l) => l.local_worksize = 1
    /\ l.kernel = "single_scan0" => l.num_groups = Sample
    /\ l.kernel = "single_scan3_16" => 2 * l.local_worksize = WarpSize
    /\ l.kernel \in {"single_scan3_16", "single_scan5_unroll"} =>
           l.local_worksize \in 2 .. WarpSize /\ IsPower2(l.local_worksize)
    /\ Carrying(l) => WarpSize > 2
    /\ l.kernel = "single_scan6" =>
           \A s \in ToSet(Rest(l.local_worksize)) : s.old % 2 = 0 \/ s.old <= WarpSize

\* What they need besides for their sums to be those of all words.
SumsAll(l) ==
    /\ ~Alone(l) => l.bs_len <= l.local_worksize
    /\ l.kernel \in {"single_scan3", "single_scan5"} => IsPower2(l.local_worksize)

\* What local memory holds before it is written, and what lies behind
\* partial_dist: a count that falsifies every sum it is added to.
Garbage == 1

Init ==
    /\ mpc = "idle"
    /\ launch \in Launches
    /\ kernel = Program(launch)
    /\ popcount = [l \in Locations |-> [j \in 0 .. launch.bs_len - 1 |-> 0]]
    /\ at = <<>>
    /\ partial_dist = <<>>
    /\ extra = <<>>
    /\ selected = <<>>

\* Mutant: the counter is not set to 0.
Call_KeepsCounter ==
    /\ mpc # "running"
    /\ mpc' = "running"
    /\ launch' \in Launches
    /\ kernel' = Program(launch')
    /\ popcount' \in [Locations ->
           {row \in [0 .. launch'.bs_len - 1 -> Counts] : SumFunction(row) <= MaxDistance}]
    /\ at' = [g \in Groups(launch') |-> [w \in Warps(launch') |-> [id |-> g, pc |-> 1]]]
    /\ partial_dist' = [g \in Groups(launch') |-> [i \in 0 .. launch'.local_worksize |-> Garbage]]
    /\ extra' = [g \in Groups(launch') |-> Garbage]
    /\ UNCHANGED selected

\* as_scan_opencl2 up to its clFinish, with any bitstring.
Call ==
    /\ mpc # "running"
    /\ mpc' = "running"
    /\ launch' \in Launches
    /\ kernel' = Program(launch')
    /\ popcount' \in [Locations ->
           {row \in [0 .. launch'.bs_len - 1 -> Counts] : SumFunction(row) <= MaxDistance}]
    /\ at' = [g \in Groups(launch') |-> [w \in Warps(launch') |-> [id |-> g, pc |-> 1]]]
    /\ partial_dist' = [g \in Groups(launch') |-> [i \in 0 .. launch'.local_worksize |-> Garbage]]
    /\ extra' = [g \in Groups(launch') |-> Garbage]
    /\ selected' = <<>>

Busy(g, w) == g \in DOMAIN at /\ w \in DOMAIN at[g] /\ at[g][w].id < Sample

Instruction(g, w) == kernel[at[g][w].pc]

\* Mutant: id++ in the loop over the locations.
Advance_One(l) == 1

\* How far the next location of a group is.  The work items of single_scan0 have
\* no other: that is as good as one behind the last.
Advance(l) == IF l.kernel = "single_scan0" THEN Sample ELSE l.num_groups

\* Mutant: the loop over the locations does not move on.
Execute_Stays(g, w, op) ==
    /\ mpc = "running"
    /\ Busy(g, w)
    /\ Instruction(g, w).op = op
    /\ at' = [at EXCEPT ![g][w] = IF @.pc < Len(kernel) THEN [id |-> @.id, pc |-> @.pc + 1]
                                  ELSE [@ EXCEPT !.pc = 1]]

\* Warp w of group g executes its next instruction; after the last one it
\* goes on with the next location of the group.
Execute(g, w, op) ==
    /\ mpc = "running"
    /\ Busy(g, w)
    /\ Instruction(g, w).op = op
    /\ at' = [at EXCEPT ![g][w] = IF @.pc < Len(kernel) THEN [id |-> @.id, pc |-> @.pc + 1]
                                  ELSE [id |-> @.id + Advance(launch), pc |-> 1]]

\* partial_dist[get_local_id(0)] = dist
Store(g, w) ==
    /\ Execute(g, w, "store")
    /\ partial_dist' = [partial_dist EXCEPT ![g] =
           [i \in DOMAIN @ |-> IF i \notin Items(w) THEN @[i]
                               ELSE IF i < launch.bs_len THEN popcount[at[g][w].id][i]
                               ELSE 0]]
    /\ UNCHANGED <<mpc, launch, kernel, popcount, extra, selected>>

\* extra = 0
Clear(g, w) ==
    /\ Execute(g, w, "clear")
    /\ extra' = [extra EXCEPT ![g] = 0]
    /\ UNCHANGED <<mpc, launch, kernel, popcount, partial_dist, selected>>

\* The item an odd old_stride leaves without a partner.
Carries(g, w) ==
    LET old == Instruction(g, w).old IN old % 2 = 1 /\ old - 1 \in Items(w)

Carry(g, w) ==
    /\ Execute(g, w, "carry")
    /\ extra' = IF Carries(g, w)
                   THEN [extra EXCEPT ![g] = @ + partial_dist[g][Instruction(g, w).old - 1]]
                   ELSE extra
    /\ UNCHANGED <<mpc, launch, kernel, popcount, partial_dist, selected>>

\* The items of w that take part in an addition.
Adding(g, w) == {i \in Items(w) : i < Instruction(g, w).stride}

\* partial_dist[get_local_id(0)] += partial_dist[get_local_id(0) + stride]
Add(g, w) ==
    /\ Execute(g, w, "add")
    /\ partial_dist' = [partial_dist EXCEPT ![g] =
           [i \in DOMAIN @ |-> IF i \in Adding(g, w) THEN @[i] + @[i + Instruction(g, w).stride]
                               ELSE @[i]]]
    /\ UNCHANGED <<mpc, launch, kernel, popcount, extra, selected>>

\* The distance a group has found for its location.
Found(g, w) ==
    CASE Instruction(g, w).op = "report_row" -> SumFunction(popcount[at[g][w].id])
      [] Instruction(g, w).op = "report_sum" ->
            SumFunctionOnSet(partial_dist[g], 0 .. launch.bs_len - 1)
      [] Instruction(g, w).op = "report" ->
            partial_dist[g][0] + IF Carrying(launch) THEN extra[g] ELSE 0

\* Item 0: selected[atomic_inc(counter)] = id if the location is near.
Report(g, w) ==
    /\ \E op \in {"report_row", "report_sum", "report"} : Execute(g, w, op)
    /\ selected' = IF 0 \in Items(w) /\ Found(g, w) <= Radius
                      THEN Append(selected, at[g][w].id)
                      ELSE selected
    /\ UNCHANGED <<mpc, launch, kernel, popcount, partial_dist, extra>>

\* barrier(CLK_LOCAL_MEM_FENCE): no warp goes on before all have arrived.
Barrier(g, w) ==
    /\ Execute(g, w, "barrier")
    /\ \A v \in DOMAIN at[g] :
           \/ at[g][v].id > at[g][w].id
           \/ at[g][v].id = at[g][w].id /\ at[g][v].pc >= at[g][w].pc
    /\ UNCHANGED <<mpc, launch, kernel, popcount, partial_dist, extra, selected>>

\* clFinish returns once every group is done; then counter and selected are
\* read and the kernel is released.
Return ==
    /\ mpc = "running"
    /\ \A g \in DOMAIN at : \A w \in DOMAIN at[g] : ~Busy(g, w)
    /\ mpc' = "returned"
    /\ at' = <<>>
    /\ partial_dist' = <<>>
    /\ extra' = <<>>
    /\ UNCHANGED <<launch, kernel, popcount, selected>>

Step(g, w) ==
    \/ Store(g, w)
    \/ Clear(g, w)
    \/ Carry(g, w)
    \/ Add(g, w)
    \/ Report(g, w)
    \/ Barrier(g, w)

Run == Return \/ \E g \in DOMAIN at : \E w \in DOMAIN at[g] : Step(g, w)

Next == Call \/ Run

Spec == Init /\ [][Next]_vars

\* The device executes some warp that can go on, as long as there is one.
FairSpec == Spec /\ WF_vars(Run)

------------------------------------------------------------------------------
\* Every variable has its type; selected_buf, which has Sample entries, does
\* not overflow.
TypeOK ==
    /\ mpc \in {"idle", "running", "returned"}
    /\ launch \in Launches
    /\ kernel = Program(launch)
    /\ \A g \in DOMAIN at : \A w \in DOMAIN at[g] :
           at[g][w].id \in Nat /\ at[g][w].pc \in DOMAIN kernel
    /\ \A g \in DOMAIN partial_dist : partial_dist[g] \in [0 .. launch.local_worksize -> Nat]
    /\ \A g \in DOMAIN extra : extra[g] \in Nat
    /\ selected \in Seq(Locations)
    /\ Len(selected) <= Sample

\* The cells of local memory a warp is about to read and to write; -1 is
\* extra.  All items set extra to 0 at once, which does no harm.
Reads(g, w) ==
    IF ~Busy(g, w) THEN {}
    ELSE LET ins == Instruction(g, w)
         IN  CASE ins.op = "add" -> Adding(g, w) \cup {i + ins.stride : i \in Adding(g, w)}
               [] ins.op = "carry" /\ Carries(g, w) -> {-1, ins.old - 1}
               [] ins.op = "report" /\ 0 \in Items(w) -> {-1, 0}
               [] ins.op = "report_sum" /\ 0 \in Items(w) -> 0 .. launch.bs_len - 1
               [] OTHER -> {}

Writes(g, w) ==
    IF ~Busy(g, w) THEN {}
    ELSE LET ins == Instruction(g, w)
         IN  CASE ins.op = "store" -> Items(w)
               [] ins.op = "add" -> Adding(g, w)
               [] ins.op = "carry" /\ Carries(g, w) -> {-1}
               [] OTHER -> {}

\* Between two barriers no warp touches a cell of local memory that another
\* warp of its group writes: the barriers the kernels have are enough.
NoRace ==
    \A g \in DOMAIN at : \A v, w \in DOMAIN at[g] :
        v # w => Writes(g, v) \cap (Reads(g, w) \cup Writes(g, w)) = {}

Near == {l \in Locations : SumFunction(popcount[l]) <= Radius}

\* A scan on the device returns exactly the locations within the radius, each
\* once: the two conditions on as_scan_opencl2 that test1.c:80-83 asserts.
ReturnsNear ==
    mpc = "returned" => ToSet(selected) = Near /\ Len(selected) = Cardinality(Near)

\* A launched kernel ends: no barrier waits for a warp that will not come.
ScanReturns == (mpc = "running") ~> (mpc = "returned")

Contract == INSTANCE Scan WITH
    busy <- mpc = "running",
    near <- IF mpc = "idle" THEN {} ELSE Near,
    answer <- IF mpc = "returned"
                 THEN [locations |-> ToSet(selected), cnt |-> Len(selected)]
                 ELSE [locations |-> {}, cnt |-> -1]

\* as_scan_opencl2 keeps the promise of a scanner, with every kernel that is
\* used within its limits (WithinLimits and SumsAll).
ImplementsScan == Contract!Spec
==============================================================================
