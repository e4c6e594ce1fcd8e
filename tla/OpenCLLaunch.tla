----------------------------- MODULE OpenCLLaunch -----------------------------
(***************************************************************************)
(* How as_scan_opencl2 launches a kernel: the work sizes the library and   *)
(* the Python binding compute from the length and the number of addresses, *)
(* their division among the devices of the context, and the queue of each  *)
(* device.  GroupScan has what the work items of one device do; here a     *)
(* kernel is one step, which visits the locations its outer loop runs over *)
(* and finds all of them near.                                             *)
(***************************************************************************)
EXTENDS Integers, Sequences, FiniteSets

CONSTANTS
    Lengths,        \* numbers of words of an address
    Samples,        \* numbers of hard locations
    ComputeUnits,   \* compute units of a device
    DeviceCounts,   \* numbers of devices of the context
    MaxGroup        \* the largest work group of a device

ASSUME LengthsAssumption == Lengths \subseteq 1 .. 2 ^ 30
ASSUME SamplesAssumption == Samples \subseteq Nat \ {0}
ASSUME ComputeUnitsAssumption == ComputeUnits \subseteq Nat \ {0}
ASSUME DeviceCountsAssumption == DeviceCounts \subseteq Nat \ {0}
ASSUME MaxGroupAssumption == MaxGroup \in Nat \ {0}

VARIABLES
    bs_len, sample, max_compute_units, devices_count,
    asserts,        \* whether the library was built with its assertions
    opts,           \* kernel_name and work sizes of opencl_scanner_s
    pc,             \* where the program is
    launched,       \* devices as_scan_opencl2 has launched the kernel on
    queue,          \* commands each device still has to execute
    refused,        \* whether a launch of this scan failed
    counter,        \* counter_buf, which the devices share
    visits          \* history: how often this scan has visited each location

shape == <<bs_len, sample, max_compute_units, devices_count, asserts>>
vars == <<bs_len, sample, max_compute_units, devices_count, asserts, opts, pc, launched,
          queue, refused, counter, visits>>

Locations == 0 .. sample - 1
Devices == 0 .. devices_count - 1
NoOpts == [kernel_name |-> "none"]

Init ==
    /\ bs_len \in Lengths
    /\ sample \in Samples
    /\ max_compute_units \in ComputeUnits
    /\ devices_count \in DeviceCounts
    /\ asserts \in BOOLEAN
    /\ opts = NoOpts
    /\ pc = "idle"
    /\ launched = 0
    /\ queue = [d \in Devices |-> <<>>]
    /\ refused = FALSE
    /\ counter = 0
    /\ visits = [l \in Locations |-> 0]

(* Work sizes.                                                              *)

\* The least multiple of K that is not less than value.
multK(value, K) == (value \div K + IF value % K # 0 THEN 1 ELSE 0) * K

\* Mutant: the loop ends one step early.
power2_Below ==
    2 ^ (CHOOSE k \in 0 .. 30 : bs_len <= 2 ^ (k + 1) /\ \A j \in 0 .. k - 1 : 2 ^ (j + 1) < bs_len)

\* The least power of 2 that is not less than bs_len.
power2 == 2 ^ (CHOOSE k \in 0 .. 30 : bs_len <= 2 ^ k /\ \A j \in 0 .. k - 1 : 2 ^ j < bs_len)

\* Mutant: not rounded up to whole groups.
global_NotRounded(local) == sample \div 20

\* Each group is to compute the distances of around 20 locations.
global(local) == multK(sample \div 20, 2 * max_compute_units * local)

Options(name, local, all) ==
    [kernel_name |-> name, local_worksize |-> local, global_worksize |-> all]

\* OPENCL_KERNEL_WORKSIZE: opencl_worksize_sample, _mult16 and _power2.
KernelOptions ==
    {Options("single_scan0", 0, sample)}
    \cup {Options(k, multK(bs_len, 16), global(multK(bs_len, 16))) :
              k \in {"single_scan1", "single_scan2", "single_scan4", "single_scan6"}}
    \cup {Options(k, power2, global(power2)) :
              k \in {"single_scan3", "single_scan5", "single_scan5_unroll"}}

Idle == pc \in {"idle", "returned"}

\* It can be called again: by sdm_init_opencl for another SDM of these addresses.
as_scanner_opencl_init ==
    /\ Idle
    /\ opts' = Options("single_scan5_unroll", power2, global(power2))
    /\ pc' = "idle"
    /\ UNCHANGED <<shape, launched, queue, refused, counter, visits>>

set_opencl_kernel ==
    /\ Idle
    /\ opts # NoOpts
    /\ opts' \in KernelOptions
    /\ pc' = "idle"
    /\ UNCHANGED <<shape, launched, queue, refused, counter, visits>>

(* as_scan_opencl2.                                                         *)

\* Mutant: the counter is not cleared.
Clear_Missing == <<>>

\* The write of 0 to counter_buf that is enqueued on each device.
Clear == <<"clear">>

as_scan_opencl2 ==
    /\ Idle
    /\ opts # NoOpts
    /\ pc' = "launching"
    /\ queue' = [d \in Devices |-> Clear]
    /\ launched' = 0
    /\ refused' = FALSE
    /\ visits' = [l \in Locations |-> 0]
    /\ UNCHANGED <<shape, opts, counter>>

qty == opts.global_worksize \div devices_count
extra == opts.global_worksize % devices_count
offset(d) == d * qty + IF d < extra THEN d ELSE extra

\* Mutant: the remainder is dropped.
worksize_Dropped(d) == qty

worksize(d) == qty + IF d < extra THEN 1 ELSE 0

\* clEnqueueNDRangeKernel: no work items, a group too large, or a part of one.
Refuses(d) ==
    \/ worksize(d) = 0
    \/ /\ opts.local_worksize > 0
       /\ \/ opts.local_worksize > MaxGroup
          \/ worksize(d) % opts.local_worksize # 0

\* A refused launch fails an assertion; without assertions it is passed over.
Launch ==
    LET d == launched
    IN /\ pc = "launching"
       /\ d < devices_count
       /\ launched' = d + 1
       /\ refused' = (refused \/ Refuses(d))
       /\ queue' = IF Refuses(d) THEN queue
                   ELSE [queue EXCEPT ![d] = Append(@, "run")]
       /\ pc' = IF Refuses(d) /\ asserts THEN "aborted" ELSE pc
       /\ UNCHANGED <<shape, opts, counter, visits>>

\* clFinish of every queue; then counter is read.
Return ==
    /\ pc = "launching"
    /\ launched = devices_count
    /\ \A d \in Devices : queue[d] = <<>>
    /\ pc' = "returned"
    /\ UNCHANGED <<shape, opts, launched, queue, refused, counter, visits>>

(* The devices.                                                             *)

\* The work items or groups whose loop on device d visits location l, each one
\* once.  Global ids begin at the offset, groups are numbered from 0 on every
\* device.
Visitors(d, l) ==
    LET ids == offset(d) .. offset(d) + worksize(d) - 1
        groups == worksize(d) \div opts.local_worksize
    IN CASE opts.kernel_name = "single_scan0" -> ids \cap {l}
         [] opts.kernel_name = "single_scan1" ->
                {i \in ids : l >= i /\ (l - i) % worksize(d) = 0}
         [] OTHER -> {g \in 0 .. groups - 1 : l >= g /\ (l - g) % groups = 0}

\* Each visitor of a location reports it, and adds 1 to the counter.
Reports(d) == UNION {{l} \X Visitors(d, l) : l \in Locations}

ExecuteClear(d) ==
    /\ queue[d] # <<>>
    /\ Head(queue[d]) = "clear"
    /\ counter' = 0
    /\ queue' = [queue EXCEPT ![d] = Tail(@)]
    /\ UNCHANGED <<shape, opts, pc, launched, refused, visits>>

ExecuteKernel(d) ==
    /\ queue[d] # <<>>
    /\ Head(queue[d]) = "run"
    /\ visits' = [l \in Locations |-> visits[l] + Cardinality(Visitors(d, l))]
    /\ counter' = counter + Cardinality(Reports(d))
    /\ queue' = [queue EXCEPT ![d] = Tail(@)]
    /\ UNCHANGED <<shape, opts, pc, launched, refused>>

Next ==
    \/ as_scanner_opencl_init \/ set_opencl_kernel
    \/ as_scan_opencl2 \/ Launch \/ Return
    \/ \E d \in Devices : ExecuteClear(d) \/ ExecuteKernel(d)

Spec == Init /\ [][Next]_vars

(* What the kernels need of the work sizes.                                 *)

\* WARP_SIZE.
WarpSize == 32

\* In the first iteration of single_scan6 whose stride is within a warp, where it no
\* longer synchronizes, old_stride is not odd: it carries no item of another warp.
CarriesInWarp(n) ==
    \A k \in 0 .. 30 :
        LET old == n \div 2 ^ k
        IN  old > WarpSize /\ old \div 2 <= WarpSize => old % 2 = 0

\* A work item for each location, or whole groups, at least one, with a work item
\* for each word; powers of 2 where strides are halved, and no more than a warp and
\* no less than two words where additions are written out without a barrier.
FitsKernel(o) ==
    IF o.kernel_name = "single_scan0" THEN o.global_worksize = sample
    ELSE /\ o.global_worksize > 0
         /\ o.global_worksize % o.local_worksize = 0
         /\ o.local_worksize >= bs_len
         /\ o.kernel_name \in {"single_scan3", "single_scan5", "single_scan5_unroll"} =>
                \E k \in 0 .. 30 : o.local_worksize = 2 ^ k
         /\ o.kernel_name = "single_scan5_unroll" => o.local_worksize \in 2 .. WarpSize
         /\ o.kernel_name = "single_scan6" => CarriesInWarp(o.local_worksize)

\* The work sizes do not fit: none for fewer than 20 locations; the unrolled kernel,
\* which is the default, reads behind partial_dist for addresses of one word and
\* races for more than 32; and some lengths above 512 words race in single_scan6.
Misfit ==
    \/ opts.kernel_name # "single_scan0" /\ sample < 20
    \/ opts.kernel_name = "single_scan5_unroll" /\ bs_len \notin 2 .. WarpSize
    \/ /\ opts.kernel_name = "single_scan6"
       /\ bs_len > 16 * WarpSize /\ ~ CarriesInWarp(opts.local_worksize)

-----------------------------------------------------------------------------
\* Queues are of clears and kernels, in this order, and a scan reports each
\* location once for each device at most.
TypeOK ==
    /\ opts \in KernelOptions \cup {NoOpts}
    /\ pc \in {"idle", "launching", "returned", "aborted"}
    /\ launched \in 0 .. devices_count
    /\ queue \in [Devices -> {<<>>, <<"clear">>, <<"clear", "run">>, <<"run">>}]
    /\ refused \in BOOLEAN
    /\ counter \in 0 .. devices_count * sample
    /\ visits \in [Locations -> 0 .. devices_count]

\* The work sizes of the library and of the binding are what scanner_opencl2.cl:4-12
\* asks for and the loops of its kernels need, exactly but for the misfits below,
\* which nothing in the code looks out for.
SizesFitKernel == opts # NoOpts => (FitsKernel(opts) <=> ~ Misfit)

\* A scan none of whose launches was refused has visited every location, however
\* the work size was divided among the devices.
FullScan ==
    pc = "returned" /\ ~refused => \A l \in Locations : visits[l] >= 1

\* On one device each location is reported exactly once, and so it is by
\* single_scan0 on several; the counter of one device has nothing of earlier scans.
ReportsAreExact ==
    pc = "returned" /\ ~refused =>
        /\ devices_count = 1 => counter = sample
        /\ devices_count = 1 \/ opts.kernel_name = "single_scan0" =>
               \A l \in Locations : visits[l] = 1

\* On one device a launch is refused only for fewer than 20 locations, for which the
\* work size is 0, or for addresses too long for a group of the device.
RefusedOnlyIf ==
    pc # "idle" /\ refused /\ devices_count = 1 =>
        /\ opts.kernel_name # "single_scan0"
        /\ sample < 20 \/ opts.local_worksize > MaxGroup
==============================================================================
