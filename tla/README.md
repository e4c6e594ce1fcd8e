# A TLA+ model of sdm-framework

sdm-framework is a C library, with a Python binding, that implements a *Sparse
Distributed Memory* (SDM): a table of random *hard locations*, each with a bit
address and a row of integer counters. A write adds a bitstring to the counters
of every location within a Hamming radius of an address; a read sums the
counters of the locations within the radius and returns the sign of each sum.
Finding the locations within the radius, the *scan*, is nearly all the work, so
the library has five ways to do it, three of them parallel.

The modules here model the C code in `src/src` and the parts of the binding in
`src/sdm` that have a state of their own. Definitions keep the names of the
source. `PROJECT.json` gives the source lines of every definition.

- [1. Inventory](#1-inventory)
- [2. The modules](#2-the-modules)
- [3. What is checked](#3-what-is-checked)
- [4. What is proved](#4-what-is-proved)
- [5. What the code does otherwise than it says](#5-what-the-code-does-otherwise-than-it-says)
- [6. Limits of the models](#6-limits-of-the-models)
- [7. Plan](#7-plan)

## 1. Inventory

| Component | Source | State | Operations |
|---|---|---|---|
| Bitstrings | `bitstring.c` | a buffer of 64-bit words; the last word may have *remaining bits* that are no part of the bitstring | alloc, init (zeros, ones, random, hex, base64), copy, distance, xor, and, or, not, average, get/set/flip bit, flip random bits |
| Address space | `address_space.c` | `addresses`, one bitstring per hard location | init (random, from a base64 file), save, linear scans by flags and by list, reset of one address, free |
| Threaded scanner (flags) | `scanner_thread.c` | the ranges and counts of the threads, the caller's flags | `as_scan_thread`, `scan_task` |
| Threaded scanner (list) | `scanner_thread2.c` | the same, with a list per thread | `as_scan_thread2`, `scan_task` |
| OpenCL scanner | `scanner_opencl.c`, `scanner_opencl2.c`, `scanner_opencl2.cl` | a device copy of the addresses, a counter and a list on the device, the local memory of each work group | init, free, `as_scan_opencl2`, nine kernels |
| Counters | `counter.c` | `counter`, a row of ints per location, in memory or mapped from a file | init, init/create/load/save file, add/subtract a bitstring or a counter, to bitstring, free |
| SDM operations | `operations.c` | nothing of its own: it drives an address space, a counter and a scanner | write, write_sub, weighted write, read, generic read, read counter, iterated read, reset of a hard location, each by flags or by list |
| Python binding | `sdm/__init__.py` | objects that are C structs, and who refers to whom | the operations through ctypes, constructors, destructors, kernels and work sizes of the OpenCL scanner |

**How they interact.** An SDM operation calls a scanner with an address and a
radius, gets flags or a list, and then loops over the selected locations in
ascending (OpenCL: any) order, updating or summing rows of counters. A scanner
reads the address space; the threaded ones share it between threads, with the
caller's result buffer, and have no lock; the OpenCL one works on a copy made
when the scanner was created. Everything is created by the program above and
freed by it; the library makes one call at a time.

**What is hard.**

| Component | Hard behaviour | What makes it correct |
|---|---|---|
| Threaded scanners | threads fill one buffer without locks; ranges are computed with a remainder; the caller frees what they use | ranges partition the locations; nothing is written twice, lost or left; no thread outlives the call; the call returns; the answer is that of a sequential scan |
| OpenCL scanner | warps of a group run freely between barriers and share local memory; the kernels leave out the barriers they think they can; work sizes are divided among devices that share one counter | no two warps touch a cell between two barriers; the answer is that of a sequential scan, for any kernel and work size; the work sizes the library computes are what the kernels need; the device copy is the address space |
| SDM operations | loops over rows that are meant as one step; overflow of ints; coins for ties; a fixed-point iteration | each operation takes effect as one step on exactly the near locations; a sole datum is recalled; the iteration ends; a failed scan changes nothing |
| Bitstrings | word-wise and bit-wise functions; remaining bits that nobody may see | both agree on where each bit is; the distance is the Hamming distance |
| Counters | files truncated, mapped, partly read | a save can be loaded; a failure or a crash leaves a usable file |
| Address space | parsing a file whose length is not known; saves that look at no error | what is loaded is what was saved; nothing is written behind the table |
| Python binding | destructors run for objects whose initialiser failed; an SDM keeps C pointers | a destructor gives back what is its object's and nothing else; nothing is freed twice or too early |

`PROJECT.json` lists the hazards one by one, each at its line, with the
properties that would catch it going wrong or, where none would, the reason. Some
hazards are in the models and in no property: the code has no answer to them and no
document asks for one (an `int` that overflows, a mapped file that is too short, the
destructor of an object whose initialiser failed), so that a property can only say
that they are where everything that goes wrong comes from, and leaves them out.

## 2. The modules

```
                 Scan  (what a scanner promises)            Memory (what an SDM promises)
               /   |   \                                        |
  ThreadScan  ThreadScan2  GroupScan                         SDMemory      Bitstring
       \        /              |                          /     |
        Partition         OpenCLLaunch         (Scan as one    Counter
                      (kernel as one step)         step)

  CounterFile   AddressFile   (files)          Handles   (the binding's objects)
```

**`Scan`** is the abstract scanner: a call is answered in one step with exactly
the locations within the radius and their number. `ThreadScan`, `ThreadScan2`
and `GroupScan` each show that they implement it; `SDMemory` relies on it and
takes a scan as one step.

**`Partition`** is the arithmetic by which both threaded scanners split the
locations (`scanner_thread.c:29-47`).

**`ThreadScan`** is `as_scan_thread`. The calling thread (`mpc`, `i`, `cnt`) and
the threads (`tpc`, `k`) interleave freely. `Create`, `Join`, `Sum` are one
iteration each of its three loops over the threads, `EndLoop` leaves a loop;
`Visit` is one iteration of `scan_task` and `Exit` its return. A result buffer is
fresh from `malloc` at each call, and holds `Garbage`, neither 0 nor 1. A step is
an iteration of a loop: no variable is accessed by two threads in between, which
`DisjointWrites` and `NoThreadLeft` say.

**`ThreadScan2`** is `as_scan_thread2`: the same, but each thread has a list of
its own and the caller concatenates them (`Merge`).

**`GroupScan`** is `as_scan_opencl2` on one device, with the kernels
`single_scan0` to `single_scan6`, `single_scan3_16` and `single_scan5_unroll`. A
kernel is the list of the instructions that touch shared memory, made for the
launch's work size by an operator of the kernel's name (`single_scan5(n)` and so
on). `at` says where each warp is; the items of a warp execute an instruction
together, reading before they write, as the comments in `scanner_opencl2.cl`
assume; warps interleave freely and wait only at `Barrier`. The number of
differing bits in each word of each location is chosen by the caller. `Strides` is
what a halving loop runs through. A group goes on by the number of groups from one
location to the next (`Advance`), except for `single_scan0`, which has no such loop.
`WithinLimits` says for which launches every location is visited and the barriers of a
kernel are enough, `SumsAll` for which its sum is that of all words.

**`OpenCLLaunch`** is what surrounds the kernels: the work sizes that
`as_scanner_opencl_init` and the binding's `set_opencl_kernel` compute (`power2`,
`multK`, `global`), and `as_scan_opencl2` with its loop over the devices
(`Launch`), each of which has a queue and executes its commands at its own pace
(`ExecuteClear`, `ExecuteKernel`). A kernel is one step here; `Visitors` are the
work items or groups whose outer loop reaches a location. The shape (lengths,
locations, compute units, devices, with or without assertions) is chosen once, in
`Init`. `Reports(d)` is what a device adds to the counter, each location once for each
of its visitors; `visits` is history: how often the scan has looked at each location.
`FitsKernel` is what a kernel needs of its work sizes, as `WithinLimits` and `SumsAll` of
`GroupScan` have it (here `WarpSize` is 32), and `Misfit` names the cases in which it
does not get them.

**`Memory`** is the abstract SDM: each operation is one step on exactly the near
locations. **`SDMemory`** is `operations.c`, loop by loop, over **`Counter`**,
the arithmetic of `counter.c` on one row with ints that wrap around. The
operations that come in pairs (`sdm_write`, `sdm_write2`) differ in whether the
scan returns flags or a list and are one action each. `InitScanner` is
`sdm_init_linear` and its siblings; an OpenCL scanner scans `bitstrings_buf`,
the copy of the addresses made then. The address of a read may have unused bits
set, as `bs_not` leaves them (`Remaining`): `bs1` and `rest2` are the words of
`sdm_iter_read`'s two buffers, and `Memory` says what that iteration may return
then. `sdm_write_sub` has no form with a list, and stops the program at the `assert(0)`
of `as_scan_opencl` if the scanner is OpenCL's (`Aborts`). The arguments of the calls have the types `CallsAssumption` lists; an exponent
of `sdm_generic_read2` is one for which the powers are whole numbers.

**`CounterFile`** is the other half of `counter.c`: counters in memory or mapped
from a file, and `save` and `counter_load_file` step by step. A file name stands
for `meta` and `bin`; `buffer` holds the rows that stdio has not written yet.
`Flush` may write them at any time, `FlushFails` may lose them to a full disk, the
header may be lost when its file is closed (`CloseMetaFails`), and `Crash` may kill the process in every state. `image` and `suspect` are history:
the rows that a file should have, and whether its last save ended well.

**`AddressFile`** is the same for `address_space.c`: `as_save_b64_file` through
stdio's buffer, which may be written up to the middle of a line (`FlushPart`) or
lost to a full disk (`LoseLine`, `LoseStart`), a process killed in any state, and
`as_init_from_b64_file` of whatever file there is. A file is a sequence of lines;
a line that is not on disk as it was written has a `"part"` in it. `job.end` is how
far behind `bs_data` a load has stored: `Chars` is the number of base64 characters of an
address, and `Base64decode` the most bytes the decoder makes of a line, whose pieces it
decodes as one text if lines have run together. `image` and `suspect` are history as in
`CounterFile`.

**`Handles`** is what the objects of the binding hold: memory, maps and file
descriptors, each with its owner. There is an action for each way an initialiser
of the library can end, with the fields it leaves; a destructor (`as_free`,
`counter_free`) works on those fields, whatever happened before; an SDM refers to
two objects. `ProgramStep` is the program around, which allocates, opens files and
closes them in between, and so may own what a stale field names. `robbery` is
history: such a field has been given back, so that somebody else may have lost what is
theirs. `Holds` says that what an object works on is still its own.

**`Bitstring`** is `bitstring.c` over buffers of words, with the remaining bits
of the last word. A word is the set of its 1 bits. Its specification is
`BitstringSpec`, with names of its own so that a module can extend it together with
another.

In every module a definition whose comment begins with "Mutant:" is a plausible
bug. No specification uses it: it exists to show that the property named with it
in `PROJECT.json` fails if the code had that bug.

## 3. What is checked

| Run | Instance | Shows |
|---|---|---|
| `thread_scan` | 4 locations, 1 to 5 threads, every result | type, disjoint writes, no thread left, exact result, termination, `Scan` implemented |
| `thread_scan2` | the same | nothing lost or held twice, ascending result, the rest as above |
| `opencl_scan` | 2 locations, warps of 4, each kernel within its limits (`WithinLimits`, `SumsAll`), with `single_scan0` an item for each location | no race between barriers, termination, `Scan` implemented |
| `opencl_unroll` | default kernel, 14 words, work size 16 | **violated**: a missing barrier gives wrong results (section 5) |
| `sdmemory` | 2 locations, 2 bits and one unused, counters -4..3, 3 calls | `Memory` implemented, a sole datum is recalled, every call returns |
| `sdm_opencl` | the same with an OpenCL scanner, resets and reads | **violated**: scans do not see a reset (section 5) |
| `counter_file` | 2 files, 2 counters, 1 or 2 rows, 2 values, calls without bound | what a load accepts is the last save; what is mapped is whole, unless the last save of the file did not end well |
| `bitstring` | 3 bits in words of 2, ints of 1 | distance is Hamming unless remaining bits were let in; word-wise and bit-wise functions agree |
| `address_file` | 2 address spaces, 1 or 3 locations, 2 addresses, calls without bound | a load gives the last save or fails, a good save can be loaded; what a load stores ends where all addresses decoded as one line would, and one byte behind the table when it returns 0 |
| `address_table` | the same | **violated**: one byte is stored behind the table (section 5) |
| `handles` | 2 address spaces, 2 counters, 2 regions of the heap, a map, 3 descriptors | no object loses what it holds; only destructors of objects whose initialiser failed give back or free twice what is not theirs; the memory an SDM works on is its objects' as long as none of those has taken it |
| `opencl_launch` | 1, 16, 33, 157 and 528 words, 1 to 101 locations, 1 or 3 compute units, 1 to 3 devices | work sizes fit the kernels but for the cases `Misfit` names, in all of which they do not; every location is visited, on one device once, the counter starts at 0; when launches are refused |

**Bounds, and why they are enough.**

- *Threaded scanners.* `Sample = 4`, `MaxThreads = 5` has threads that divide the
  locations evenly, with a remainder of 1, one location each and none at all,
  which are all the cases of the remainder's arithmetic; calls follow each other
  without bound, so that what a call leaves behind meets the next one. The
  proofs lift the bounds for both.
- *OpenCL.* `WarpSize = 4` stands for 32, so that the kernels' "multiple of 16"
  becomes a multiple of 2. `MCLaunches` has a launch of each kernel with two
  warps where its limits allow two, with even and odd strides, with fewer words
  than items, and with one location per group and with a group that visits
  both locations, where the end of one location meets the start of the next. A
  word contributes 0 or 1 (`Counts`) to a distance and a distance is at most
  `MaxDistance = 2` with `Radius = 1`, so that one partial sum lost or counted
  twice changes the answer.
- *SDM.* Counters of 3 bits overflow within 3 calls with weights up to 2, and
  the smallest counter, whose negation does not fit, is reached. Tables of
  addresses are all of `[Locations -> Bitstrings]`, equal ones included. The
  calls `MCCalls` are one or more of each operation, weighted and negative
  writes included; a failed scan is a table whose scanner is unknown.
  `MaxCalls = 3` is the bound in `Begin`'s guard: reset, write, read and every
  other sequence of that length. The caller may stop, hence
  `CHECK_DEADLOCK FALSE` (as in `Handles`, whose process may be killed by a
  second `free`, and in `OpenCLLaunch`, where an assertion may end it). One unused
  bit and an address that has it (`Unclean`) is what keeps `sdm_iter_read` from its
  fixed point, with `max_iter` 2: both buffers have been read into and out of.
- *Files.* Two files and two counters are what it takes to save one to the file
  another is mapped from, to load into a mapped one, and to mix two saves; two
  sizes, so that an old header can meet rows of a new size; two values, so that
  rows of two saves differ. Nothing bounds the calls: the 1,152,019 states, up to
  a symmetry of file names and of counters, are all there are.
- *Addresses.* Three locations have a first, a middle and a last line to lose, one
  is the file whose rows are fewer than those of the save before; two address
  spaces, to load beside the one that was saved. `RowBytes = 16` is an address of two
  words: 22 characters, whose last one has bits that are not used. Two such addresses
  that have run together are 44 characters, which decode to 33 bytes and a zero byte,
  one more than two addresses apart; an address of 8 bytes has no such rest.
- *Handles.* Two objects of each class contend for two regions of the heap, one
  map and, beside the standard input, two descriptors, with the program as a third
  party: one object can hold what another still has in its fields.
- *OpenCL launches.* The lengths are those of 64, 1000, about 2100, 10000 and 33790
  bits: one word, which is too short for the default kernel; less than a warp; one word
  more than a warp and several warps, for which it lacks a barrier; and a length that
  `single_scan6` cannot do, also too long for groups of `MaxGroup = 256`. 1, 19, 20 and 101 locations lie on
  both sides of the division by 20 and of one location for each group; three
  devices leave remainders of 0, 1 and 2.
- *Bitstrings.* Two words, the last with one bit that is not part of the
  bitstring, and an int of half as many bits as a word; the calls are
  unbounded.

**Fairness.** `ThreadScan`, `ThreadScan2`: weak fairness of the caller's loops and
of each thread, as POSIX threads are scheduled; no fairness of `Call`, a program
need not scan. `GroupScan`: the device executes some warp that can go on, as long
as there is one (nothing says which). `SDMemory`: a call that runs goes on by
itself. Each of these is weak fairness of actions that the code enables with no
help from another process than those named.

## 4. What is proved

TLAPS checks every theorem, from the assumptions on constants that the modules name.
They say what kind of thing each constant is and, but for one, not how large:

| Proofs of | For any | Assumptions |
|---|---|---|
| `Partition`, `ThreadScan`, `ThreadScan2` | number of locations and of threads | `Sample \in Nat`, `MaxThreads \in Nat \ {0}` |
| `GroupScan` | number of locations, warp size, work sizes, number of groups, words and differing bits, every kernel | `Sample \in Nat`, `WarpSize \in Nat \ {0}`, `Counts \subseteq Nat`; each launch is one of `WithinLimits` and, for what a scan returns, of `SumsAll` |
| `SDMemory` | number of bits, unused bits and locations, range of a counter, radii, calls and number of calls | `CallsAssumption`: the arguments have the types of the C declarations; `ScannersAssumption`: the kinds of scanner |
| `OpenCLLaunch` | lengths, numbers of addresses, compute units and devices | all of them positive; lengths of up to 2^30 words, more than an `unsigned int` can number the bits of |
| `Bitstring` | number of bits, widths of a word and of an int | `Bits`, `WordBits \in Nat \ {0}`, `IntBits \in 1 .. WordBits` |
| `CounterFile` | files, `counter_s`'s, values and numbers of rows | `Samples \subseteq Nat \ {0}`, `0 \in Values`; `"none"` and `"zeros"` are no names |
| `AddressFile` | addresses, numbers of them, lengths | `Samples \subseteq Nat \ {0}`, `RowBytes \in Nat \ {0}`; the words for the other contents of a line are no addresses |
| `Handles` | objects, regions of memory, limit of descriptors | `MaxFd \in Nat`; the names of `NamesAssumption` are distinct |

The theorems of `GroupScan` and `SDMemoryImplementsMemory` have hypotheses of their
own (below).

**`ThreadScan_proofs`.** First the ranges. `SlicesAreContiguous`: those of
successive threads meet, the first starts at 0, the last ends at `Sample`. From it
`SlicesAreDisjoint` and `SlicesCover`. The arithmetic rests on
`x = y * (x \div y) + x % y`, which is all that Z3 is asked of division.

Then the threads. `Invariance` is the inductive invariant `IInv`; from it
`TypeCorrect`, `WritesAreDisjoint`, `NoThreadOutlivesTheCall`, `ScanIsExact`, and
`ThreadScanImplementsScan`, the refinement of `Scan`.

`DisjointWrites` and `ReturnsExactly` are not inductive: that nobody else writes
a flag follows only from *which* range each thread was given and how far it has
come. `IInv` therefore says of each thread the call has created that its range is
the one `Partition` computes, that what it has passed is flagged exactly and
counted in its `cnt`, and that what it has not reached is still unwritten; of the
caller, that the threads it has passed in the join loop have exited and that
`cnt` in the sum loop is the number of near locations below the ranges still to
be added. The lemmas on ranges then give the result: the ranges cover
all locations, so at the end nothing is unwritten, and they are contiguous, so
the sums add up to the whole.

**`ThreadScan2_proofs`.** `Invariance`, and from it `ListTypesCorrect`,
`MergedAfterTheThreads`, `NoneIsLostOrTwice`, `ListIsThatOfLinearScan` and
`ThreadScan2ImplementsScan`.

`NeverLost` counts where each near location is, and `ReturnsAscending` speaks of the
end only: neither says why. `IInv` says of each started thread that its buffer is
*the* ascending list of the near locations between the start of its range and
`k[t]`, until it is merged, and empty from then on (`IsMerged`); of the caller, that
its list is that of the near locations below the range it merges next. `Lists(s, S)`
is that notion, and four lemmas are all the proof needs of sequences: the empty list,
a list with a larger location appended (`Visit`), two lists one behind the other
(`Merge`, whose ranges meet by `SlicesAreContiguous`), and the length of a list,
which is the cardinality of its set. The last gives the bound of the buffers that
the code does not check.

**`SDMemory_proofs`.** `Invariance`, and from it `MemoryTypesCorrect` and
`SoleDatumIsRecalled`; and the refinement `SDMemoryImplementsMemory`.

The sums of a read are folds over the set of selected locations, which a loop visits
one by one in an order nobody knows. The library's theorems about folds are
inductions over an operator, out of the prover's reach, so the first part proves what
is needed of `SumFunctionOnSet` from its definition: `SumIsCellSum` says that it is
the difference of two cardinalities, of the cells below the positive values and of
those below the negated ones, since there is no smallest set for which it is not.
`SumStep`, one more element adds its value, is then a fact about cardinalities.
`ModShift` and `WrapSum` say that a sum that wraps around at each addition is the sum
wrapped around at the end.

`RecallsSoleDatum` speaks of an answer. `SoleInv` says why it holds: as long as
nothing but `d` was written, no counter disagrees with `d`, and the temporary counter
of a read agrees with it and is not 0 where it has met a counter that is not;
`WriteInv` says that what is being written is in `written`, and with which sign.
`PhaseInv` is where an operation is and what it has in hand there.

For the refinement `RInv` says what a loop has done so far: `SumInv`, that the
temporary counter is the sum of what the locations visited hold; `ChainInv`, that
`sdm_iter_read` is at the end of a chain of reads of which each has given something
else than the one before, with the unused bits in one of its two buffers; `CopyInv`,
that an OpenCL scanner looks at the addresses as they are. One lemma for each action
(`UpdateRowRefines` and so on) maps its step to a step of `Memory` or a stutter. The
hypothesis `CopyIsKept` is that no location is reset or that no scanner is OpenCL's.
It is needed: without it the claim is false, which the run `sdm_opencl` shows.

**`CounterFile_proofs`.** `FilesInvariant` is the inductive invariant `IInv` of the
files; from it `FileTypesCorrect`, `LoadIsCorrect` and `MappingIsCorrect`.

`LoadGivesSave` is not inductive: that a load of the right number of rows gives the
right rows rests on what every file, whatever happened to it, can look like.
`BinInv` says so: `.bin` is never longer than the last save of it, and if it is as
long it *is* that save (`counter_load_file` compares the length by reading to the
end). `MetaInv` says when that length is the one in the header. Both hold between
two calls because `SaveInv` holds during a save: what is in the file, followed by
what stdio has buffered, is the beginning of what the file should be, or a row is
missing and the file stays too short for good. `SourceInv` adds that this beginning
is what the program sees of the counters it saves, unless it saves mapped counters
over their own file, which gives no rows at all. `LoadInv` does for the loop of the
load what `SaveInv` does for the save, and `MappedInv` is what `MappedIsWhole` says
of live mappings. One lemma for each action (`InitStep` to `FlushStep`) proves that
the action keeps `IInv`; `SetRowKeeps` is used by two of them, since a row of live
counters changes the same way whether it is loaded or added to.

**`AddressFile_proofs`.** `Invariance`, and from it `FileTypesCorrect`,
`LoadedIsLastSave`, `FullSaveIsLoaded` and `LoadStaysInTable`.

A file of addresses has no length to compare, as that of counters has, and a load
counts the lines when all of them are stored. What keeps it in its table is a bound
on each line (`BodyFits`): if lines have run together in one, as many are missing, since
each of those was one of the image and none is in the file twice; so a line has at most
one piece more than there are lines missing. `DecodedTogether` is the arithmetic: such
lines, the others in their places before it, end no further than all addresses would
if they were one line. `DecodedAlone` is that of a line that is one address. If as many lines are there as the
image has, none ran into another, and each is its address or a part of it
(`BodyDecodes`). `SaveInv` says so of the lines that have left stdio's buffer, with
what the buffer still holds (`HeaderPends`, `ImagePends`); `FileInv` says it of
every file between two calls. A file whose save lost nothing and ended is the
image (`BodyIsImage`), which is `GoodSaveLoads`.

**`OpenCLLaunch_proofs`.** `Invariance`, and from it `LaunchTypesCorrect`,
`WorkSizesFitKernel`, `ScanIsFull`, `OneDeviceIsExact` and `OneDeviceRefusesOnlyIf`.

Much of it is arithmetic: `power2` is a power of 2 not below the length
(`power2IsPower`, which is where lengths have a bound) and within a warp if and only if
the length is (`power2InWarp`), `multK` the next multiple (`multKProperties`), and
`OptionsFit` puts them together for every kernel. `WorkSizesFitKernel` is an
equivalence, so both directions are proved: the sizes are none if and only if there
are fewer than 20 locations (`SomeItems`), and multiples of 16 up to 512 never halve to
an odd number just above a warp (`SmallCarriesInWarp`). The work
size is divided among the devices by the formula that divides the locations among
threads; `DevicesDivide` says of it what `SlicesAreContiguous` says of those.
The state is what the devices have still to do. `Done` are the devices that have
nothing left: `BoundInv` bounds visits and, once a first clear is behind, the counter
by their number; `VisitInv` says that those whose launch was not refused have visited
what is theirs, and that a refusal is remembered; `CounterInv` is the exact count on
one device and `OnceInv` that of `single_scan0` on several, whose ranges are disjoint.
On several devices no more is proved of the counter than `BoundInv`, because no more
is true (section 5).

**`GroupScan_proofs`.** `BarriersAreEnough` (there is no race), `SelectedFits` (the
type, with the bound of `selected_buf`), `GroupScanReturnsNear` and
`GroupScanImplementsScan`, the refinement of `Scan`.

A kernel is a list of instructions, of another length for each work size, so the
proof begins with what these lists are: `Halving`, `LoopEnds` and `RoundsAre` say what
the strides of a loop are, and `ProgramLayout`, for all the kernels that halve, at
which place each addition, each carry and each barrier is. Lists that are the
concatenation of a list of lists are known by induction only; `Flattened` is proved by the
least length for which it is not so.

*No race.* `NoConflict` is a fact about programs alone: two instructions of one
kernel that no barrier separates, executed by two warps, do not touch a cell that one
of them writes. `Placed` and `InStep` are the invariant: no barrier lies between the
places of two warps of a group, and a warp that has begun the next location has left
the others at the last barrier. `NoRace` is both together.

*The type.* `DataOK` says what local memory is; `SelectedOK` that the groups visit
locations of their own, and that what is selected is behind them (`Past`), so that
nothing is selected twice and `selected_buf` is as large as it need be.

*The result.* `Values` and `Extras` are what the cells and `extra` are after each round
of halving, as functions of the words alone. `NothingLost`: in each round the cells
that still count, and what was carried aside, have the sum of all words; without
carrying, what is lost is nothing if the work size is a power of 2. `CellsOK` says that
the cells of each warp are the values of the last round it has executed. A warp that
adds reads cells of others: that they are there (`PartnerReady`) is `InStep` again.
`ExtraOK` says the same of `extra`, up to the rounds whose odd item has carried. So
`Found` is the distance, and `Answered` that every location a group has passed is
selected if and only if it is near. All seven together are the inductive `IInv`.

*The hypotheses.* `WithinLimits` is what the header of `scanner_opencl2.cl` demands
(a work item for each location in `single_scan0`, 16 items, half a warp, in
`single_scan3_16`), and two things that it does not: the additions of
`single_scan5_unroll` without barriers must fit in one warp and have two items at
least, and `single_scan6` must not carry, when it has stopped synchronizing, an item
of another warp than the first. Without the first the claim is false, as the run
`opencl_unroll` shows. Without the second item 0 reads `extra` while another warp may
write it, as with 65 items and warps of 32, or with 9 and warps of 4.
`SumsAll` is that each word has an item, and the power of 2 the header asks for.

*Bitstrings.* The last part proves `Bitstring`, whose distance is the sum the kernels
compute: `BuffersAreWords`, `DistanceIsExact` and `FunctionsAreExact`. Where a bit is
kept is arithmetic: `PlaceOf`, `PlacesDiffer` and `BitAt` say that `offset` and `idx`
are a bijection between the bits and the places that are none of the remaining bits.
So, if those are 0 in both (`CleanOK`, the invariant that `DistanceIsHamming` needs), the
places that differ are as many as the bits that do (`DistanceOfClean`), and
`DistanceCounts` says that their number is the sum over the words. `FlipsAll` is what
the fold over randomly chosen bits makes of a buffer, in whatever order they come.
`DeviceSelectsWithinRadius` puts both halves together: what the device returns are the
locations within the Hamming distance `Radius` of the target.

**`Handles_proofs`.** `ObjectsInvariant` is the inductive invariant `IInv` of the
binding's objects; from it `ObjectTypesCorrect`, `NothingIsEverLost`,
`SDMsKeepTheirObjects`, and the two action properties `OnlyOwnersGiveBack` and
`NothingIsFreedTwice`.

That a destructor gives back what is its own follows from neither the type of the
fields nor `NothingIsLost`: the object must *still* have what its fields name.
`LiveHold` says so, as long as no destructor of an object whose initialiser failed
has taken it (`robbery`); `ReferencesAreLive` says that an SDM's objects are initialised and not
deleted, and with `LiveHold` gives `SDMsKeepTheirObjects`: what the SDM reads and writes
is still theirs. `HoldersAreLive` is the converse of `LiveHold`, that only initialised
objects hold anything, and is why deleting an object that failed loses nothing.
The actions on objects have three shapes (`FailsKeeping`, `GetsKeeping`,
`DeletesKeeping`), each proved to keep `IInv` once (`FailureKeeps`,
`InitialisationKeeps`, `DeletionKeeps`); `StepShapes` says that every step has one
of them or is the program's, an SDM's or a leak, and the action properties follow
from it with `DestructorsGiveTheirOwn`. That `open` returns a descriptor that was
free (`LowestFdIsFree`) is the least element of a set of naturals, from `WFMin`.

**Only model-checked.** The theorems are of `Spec`, without fairness: that a scan
(`ScanReturns`) and a call (`CallReturns`) return is liveness, which the prover does
not reach. Every invariant and every action property of the passing runs is proved.
What `bs_average` stores in words that differ is checked for its type only, as it
does not keep what its name promises (section 5). Of the counter that several OpenCL devices share no more is proved than `BoundInv`.

## 5. What the code does otherwise than it says

1. **The default OpenCL kernel lacks a barrier** (`opencl_unroll`).
   `single_scan5_unroll` goes from its loop to the unrolled additions without a
   barrier, with the comment "We do not need to sync because they all run in the
   same warp" (`scanner_opencl2.cl:378`). That holds for the additions, not for
   what they read: with a work size of two warps or more, that was written by
   another warp. TLC shows a scan that returns a wrong set of locations. The work
   size is the least power of 2 for the words of an address, so this begins with
   33 words. With one warp (`opencl_scan`) the kernel is right, and with one
   item, for addresses of one word, its last addition reads behind `partial_dist`
   (`scanner_opencl2.cl:396`); `SizesFitKernel` says that these are the lengths it
   does not fit. `single_scan5`, which has the
   barrier, is right with two.
2. **The OpenCL scanner does not see resets** (`sdm_opencl`).
   `sdm_reset_hardlocation` changes the address table, of which the scanner
   copied its own at initialisation. `sdm/__init__.py:236` promises the result of
   a linear scan. Initialising the scanner again brings the copy up to date.

3. **Reading a bitstring from base64 stores a byte behind it** (`address_table`).
   The decoder ends what it stores with a zero byte (`lib/base64.c:168`), and
   `bs_init_b64` lets it decode straight into the bitstring, for which
   `docs/c-api.rst:54` asks for the bitstring's memory and no more. Within a table
   the next address is decoded over that byte; the last one's lies behind the
   table. `StoresEndNearTable` shows that it is one byte if the load returns 0. If the
   load fails because lines are missing that have run together, it may have stored
   more, by what the unused bits of the last characters of all addresses add up to:
   two bytes for two addresses of 16 bytes, and never more than all saved addresses
   decoded as one line.

More that is worth knowing, and that the models have or say:

- *Files.* A save that cannot open `.bin` makes the last save unloadable; a save
  with a full disk, which may lose header and rows, returns 0; `counter_init_file` maps a `.bin` that is too short,
  which `counter_load_file` refuses, after it has overwritten counters; saving
  mapped counters to their own file loses them. A file of addresses has nothing to
  check a line by: one that is cut loads as some other address, if the number of
  lines is right (`LoadGivesSave` says when). A header cut in the middle may kill
  the program. `as_save_b64_file` formats a line in 1000 bytes
  (`address_space.c:144`): enough for addresses of up to 5952 bits.
- *Objects.* After a failed initialiser the destructor runs: it frees the memory
  once more (`address_space.c:246`, `:65`), or closes a descriptor that is not the
  object's, 0 if none was ever set (`counter.c:229`). `Doubtful` names those
  objects. Failed loads and saves leave streams open (`Leaks`).
- *OpenCL.* For fewer than 20 locations the work size of all kernels but
  `single_scan0` is 0 and the launch is refused; that fails an assertion or, in a
  library built without assertions, is passed over, and the scan returns 0. With
  several devices every device scans all locations (all kernels but
  `single_scan0`, as group ids start at 0 on each), and the list may get more
  entries than it has room for. `single_scan6` needs work sizes that are not odd
  when halved down to just above a warp, as 528 is: item 0 then reads `extra`
  without a barrier after an item of another warp has added to it
  (`scanner_opencl2.cl:456`; its header says it has no constraints). The sizes of
  `set_opencl_kernel` reach that only for bitstrings of over 32000 bits
  (`SizesFitKernel`). `write_sub` asks for flags, which the OpenCL scanner answers with
  `assert(0)` (`scanner_opencl.c:301`): it never works there, and `CallReturns` leaves
  it out.
  Initialising the scanner again goes back to the default kernel.
- *Bitstrings.* `bs_not` sets bits that are not part of the bitstring, and
  `bs_distance` counts them; its comment says so (`bitstring.c:128`), and
  `DistanceIsHamming` shows which other functions do. With an address made by
  `bs_not`, `sdm_iter_read` never finds a fixed point and goes on up to `max_iter`.
  `bs_average` tests `c && 1` where it needs `c & 1`, and shifts an `int`: it
  changes bits on which its arguments agree, but no word that is the same in both,
  which is all that `BitsAreExact` says of it. Nothing in the library calls it.
- *Called by nothing.* `counter_add_bitstring1` skips indices above `bits` and not
  `bits` itself (`counter.c:378`); `sdm_weighted_read2` increments the bound of its
  own loop (`operations.c:420`) and is declared under another name.
- *Binding.* It ignores return codes: after a scan that failed, `read` returns a
  bitstring nobody wrote (`__init__.py:547`). `scan_linear` and `scan_thread`
  compare bytes with `'\x00'` (`:198`), which in Python 3 no item equals.

## 6. Limits of the models

- The scan inside `SDMemory` is one step. This is what `Scan` promises and the
  scanners' modules show.
- A killed process is the only crash of `CounterFile`: the operating system
  lives on, so what was written to a file or a mapping is there. The header is
  written in one piece or not at all, being shorter than stdio's buffer.
- A killed process is the only crash of `AddressFile`, too. What a damaged line
  decodes to is one value, `Junk`.
- The data and the tables of addresses in `SDMemory` have no unused bits set, and
  tables of weights are used with clean addresses; `Bitstring` says when that is
  right. A crash between two rows of a write to mapped counters is not modelled:
  `CounterFile` has the crash, `SDMemory` the loop.
- In `OpenCLLaunch` a kernel is one step and every location is near; kernels of
  several devices do not interleave within one. `GroupScan` is of one device.
- `Handles` has one region for all that an object allocates, and one map.
- But for `Handles` and a load of addresses memory is never short: `malloc` does
  not fail, as the code assumes nearly everywhere. `pthread_create` does not fail: its result is not looked at.
- `bs_flip_random_bits` with more flips than bits reads behind an array, and is
  called with at most that many.
- Base64 is third-party code, of which only the bytes it stores are modelled; printing, build files, notebooks, statistics of
  the critical distance (`sdm/utils.py`) have no behaviour to model. The
  kernels in `scanner_opencl.cl` are not reached: their caller stops at
  `assert(0)` (`scanner_opencl.c:301`).

- Not modelled: `sdm_free` and `as_scanner_opencl_free`, which release the device's
  objects and nothing else, `sdm_weighted_read2` and `counter_add_bitstring1`
  (above), and the methods of the binding that only pass their arguments on.

## 7. Plan

1. *Done:* `Partition`, `Scan`, `ThreadScan`, `ThreadScan2`, `GroupScan`; `Counter`,
   `Memory`, `SDMemory`, with unused bits; `OpenCLLaunch`; `CounterFile`,
   `AddressFile`; `Handles`; `Bitstring`: all with proofs.
2. A crash between two rows of a write: `SDMemory` over mapped counters.
