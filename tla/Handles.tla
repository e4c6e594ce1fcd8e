------------------------------- MODULE Handles -------------------------------
(***************************************************************************)
(* What the objects of the Python binding hold: memory of the heap, maps   *)
(* of files and descriptors.  A class method makes an object whose fields  *)
(* are all 0, calls an initialiser of the library and raises an exception  *)
(* when that fails; the destructor of the object calls as_free or          *)
(* counter_free all the same, some time later, when nothing refers to the  *)
(* object any more.  The program around the binding has memory and files   *)
(* of its own.                                                             *)
(*                                                                         *)
(* One region stands for all that an object allocates: the initialisers    *)
(* give back all of it or nothing.                                         *)
(***************************************************************************)
EXTENDS Integers, FiniteSetsExt

CONSTANTS
    AddressSpaces,  \* objects of class AddressSpace
    Counters,       \* objects of class Counter
    Heap,           \* regions malloc returns
    Maps,           \* regions mmap returns
    MaxFd           \* descriptors are 0 .. MaxFd

Program == "program"
Nobody == "nobody"
Lost == "lost"      \* the owner of a stream that nobody has a pointer to
Null == "null"

Objects == AddressSpaces \cup Counters
Regions == Heap \cup Maps
Fds == 0 .. MaxFd

ASSUME MaxFdAssumption == MaxFd \in Nat
ASSUME NamesAssumption ==
    /\ AddressSpaces \cap Counters = {}
    /\ Heap \cap Maps = {}
    /\ Objects \cap {Program, Nobody, Lost} = {}
    /\ Null \notin Regions

VARIABLES
    made,           \* how far an object is: "none", "live" or "failed"
    data,           \* its field bs_data or data
    fd,             \* field fd of a counter_s
    owner,          \* whose a region is
    open,           \* whose a descriptor is
    sdms,           \* pairs an SDM object refers to
    alive,          \* FALSE when the process was killed
    robbery         \* history: a destructor gave back what was not its object's

vars == <<made, data, fd, owner, open, sdms, alive, robbery>>

\* Descriptor 0 is the standard input.
Init ==
    /\ made = [o \in Objects |-> "none"]
    /\ data = [o \in Objects |-> Null]
    /\ fd = [c \in Counters |-> 0]
    /\ owner = [r \in Regions |-> Nobody]
    /\ open = [d \in Fds |-> IF d = 0 THEN Program ELSE Nobody]
    /\ sdms = {}
    /\ alive = TRUE
    /\ robbery = FALSE

FreeFds == {d \in Fds : open[d] = Nobody}
LowestFd == Min(FreeFds)

\* An object is made and its initialiser called.
Making(o) ==
    /\ alive
    /\ made[o] = "none"
    /\ UNCHANGED <<sdms, alive, robbery>>

Fails(o) == Making(o) /\ made' = [made EXCEPT ![o] = "failed"]

\* Region r is o's.
Gets(o, r) ==
    /\ owner[r] = Nobody
    /\ made' = [made EXCEPT ![o] = "live"]
    /\ data' = [data EXCEPT ![o] = r]
    /\ owner' = [owner EXCEPT ![r] = o]

\* Region r was o's and is free again, but o has its address.
GivesBack(o, r) ==
    /\ owner[r] = Nobody
    /\ data' = [data EXCEPT ![o] = r]
    /\ UNCHANGED owner

\* A stream is opened and never closed.
Leaks ==
    /\ FreeFds # {}
    /\ open' = [open EXCEPT ![LowestFd] = Lost]

\* AddressSpace(bits = 256) and Counter(bits = 256): no initialiser is called.
NoInitializer(o) ==
    /\ Fails(o)
    /\ UNCHANGED <<data, fd, owner, open>>

(* AddressSpace.                                                            *)

\* Mutant: what a load frees when it fails is freed in any case.
as_init_AlwaysFrees(s) ==
    /\ Making(s)
    /\ \E r \in Heap : /\ GivesBack(s, r)
                       /\ made' = [made EXCEPT ![s] = "live"]
    /\ UNCHANGED <<fd, open>>

\* as_init, for as_init_random and as_init_from_b64_file.
as_init(s) ==
    /\ Making(s)
    /\ \E r \in Heap : Gets(s, r)
    /\ UNCHANGED <<fd, open>>

\* The first malloc fails; also a file that cannot be opened or whose header is
\* not accepted.
as_init_Fails(s) ==
    /\ Fails(s)
    /\ UNCHANGED <<data, fd, owner, open>>

\* A later malloc fails, or the file has another number of lines: everything is
\* freed and the fields stay as they are.
as_init_FailsLate(s) ==
    /\ Fails(s)
    /\ \E r \in Heap : GivesBack(s, r)
    /\ UNCHANGED <<fd, open>>

\* The first line of the file is not "SDM ADDRESS SPACE".
as_init_from_b64_file_Refuses(s) ==
    /\ Fails(s)
    /\ Leaks
    /\ UNCHANGED <<data, fd, owner>>

(* Counter.                                                                 *)

\* Mutant: fd keeps the value it has in a new object.
counter_init_KeepsFd(c) ==
    /\ Making(c)
    /\ \E r \in Heap : Gets(c, r)
    /\ UNCHANGED <<fd, open>>

counter_init(c) ==
    /\ Making(c)
    /\ \E r \in Heap : Gets(c, r)
    /\ fd' = [fd EXCEPT ![c] = -1]
    /\ UNCHANGED open

counter_init_Fails(c) ==
    /\ Fails(c)
    /\ \/ UNCHANGED data
       \/ \E r \in Heap : GivesBack(c, r)
    /\ fd' = [fd EXCEPT ![c] = -1]
    /\ UNCHANGED <<owner, open>>

\* .meta is closed before .bin is opened.
counter_init_file(c) ==
    /\ Making(c)
    /\ FreeFds # {}
    /\ \E r \in Maps : Gets(c, r)
    /\ fd' = [fd EXCEPT ![c] = LowestFd]
    /\ open' = [open EXCEPT ![LowestFd] = c]

\* -1: counter_check_meta_file fails; it keeps .meta open if the first line is
\* not "SDM COUNTER".
counter_init_file_NoMeta(c) ==
    /\ Fails(c)
    /\ Leaks \/ UNCHANGED open
    /\ UNCHANGED <<data, fd, owner>>

\* -2: .bin cannot be opened.
counter_init_file_NoBin(c) ==
    /\ Fails(c)
    /\ fd' = [fd EXCEPT ![c] = -1]
    /\ UNCHANGED <<data, owner, open>>

\* Mutant: the descriptor is not closed when mmap or _post_init fails.
counter_init_file_NoMemory_Open(c) ==
    /\ Fails(c)
    /\ FreeFds # {}
    /\ fd' = [fd EXCEPT ![c] = -1]
    /\ open' = [open EXCEPT ![LowestFd] = c]
    /\ \/ UNCHANGED data
       \/ \E r \in Maps : GivesBack(c, r)
    /\ UNCHANGED owner

\* -3 and -4: mmap or _post_init fails.  MAP_FAILED is as good as Null.
counter_init_file_NoMemory(c) ==
    /\ Fails(c)
    /\ FreeFds # {}
    /\ fd' = [fd EXCEPT ![c] = LowestFd]
    /\ \/ UNCHANGED data
       \/ \E r \in Maps : GivesBack(c, r)
    /\ UNCHANGED <<owner, open>>

\* save cannot open .bin, and forgets .meta.
save_NoBin(c) ==
    /\ alive
    /\ made[c] = "live"
    /\ Leaks
    /\ UNCHANGED <<made, data, fd, owner, sdms, alive, robbery>>

\* -5, the file is too short, or -1, it is none.
counter_load_file_Refuses(c) ==
    /\ alive
    /\ made[c] = "live"
    /\ Leaks
    /\ UNCHANGED <<made, data, fd, owner, sdms, alive, robbery>>

(* SDM.                                                                     *)

\* The SDM object keeps pointers to both, and refers to them.
NewSDM(s, c) ==
    /\ alive
    /\ made[s] = "live" /\ made[c] = "live"
    /\ sdms' = sdms \cup {<<s, c>>}
    /\ UNCHANGED <<made, data, fd, owner, open, alive, robbery>>

DropSDM(s, c) ==
    /\ alive
    /\ <<s, c>> \in sdms
    /\ sdms' = sdms \ {<<s, c>>}
    /\ UNCHANGED <<made, data, fd, owner, open, alive, robbery>>

\* Mutant: it keeps the pointers only.
Referenced_Never(o) == FALSE

Referenced(o) == \E p \in sdms : o \in {p[1], p[2]}

(* Destructors.                                                             *)

\* An object that was not initialised, but has an address of memory or a
\* descriptor in its fields: its initialiser failed after it had set them, or
\* never set fd, which then is 0.
Doubtful(o) ==
    /\ made[o] = "failed"
    /\ \/ data[o] # Null
       \/ o \in Counters /\ fd[o] # -1

Deleting(o) ==
    /\ alive
    /\ made[o] # "none"
    /\ ~Referenced(o)
    /\ made' = [made EXCEPT ![o] = "none"]
    /\ data' = [data EXCEPT ![o] = Null]
    /\ robbery' = (robbery \/ (Doubtful(o) /\ <<owner', open'>> # <<owner, open>>))
    /\ UNCHANGED sdms

\* free(NULL) does nothing, and to free what is free already kills the process.
Free(r) ==
    /\ owner' = [x \in Regions |-> IF x = r THEN Nobody ELSE owner[x]]
    /\ alive' = (r \in Regions => owner[r] # Nobody)

as_free(s) ==
    /\ Free(data[s])
    /\ UNCHANGED <<fd, open>>
    /\ Deleting(s)

\* munmap and close fail on what is not mapped or not open, which is ignored.
counter_free(c) ==
    /\ fd' = [fd EXCEPT ![c] = 0]
    /\ IF fd[c] # -1
       THEN /\ owner' = [x \in Regions |-> IF x = data[c] THEN Nobody ELSE owner[x]]
            /\ open' = [open EXCEPT ![fd[c]] = Nobody]
            /\ UNCHANGED alive
       ELSE Free(data[c]) /\ UNCHANGED open
    /\ Deleting(c)

(* The program's own memory and files.                                      *)

ProgramStep ==
    /\ alive
    /\ \/ /\ \/ \E r \in Regions : \/ owner[r] = Nobody /\ owner' = [owner EXCEPT ![r] = Program]
                                   \/ owner[r] = Program /\ owner' = [owner EXCEPT ![r] = Nobody]
          /\ UNCHANGED open
       \/ /\ \/ FreeFds # {} /\ open' = [open EXCEPT ![LowestFd] = Program]
             \/ \E d \in Fds : open[d] = Program /\ open' = [open EXCEPT ![d] = Nobody]
          /\ UNCHANGED owner
    /\ UNCHANGED <<made, data, fd, sdms, alive, robbery>>

Next ==
    \/ \E o \in Objects : NoInitializer(o)
    \/ \E s \in AddressSpaces :
           \/ as_init(s) \/ as_init_Fails(s) \/ as_init_FailsLate(s)
           \/ as_init_from_b64_file_Refuses(s) \/ as_free(s)
    \/ \E c \in Counters :
           \/ counter_init(c) \/ counter_init_Fails(c)
           \/ counter_init_file(c) \/ counter_init_file_NoMeta(c)
           \/ counter_init_file_NoBin(c) \/ counter_init_file_NoMemory(c)
           \/ save_NoBin(c) \/ counter_load_file_Refuses(c) \/ counter_free(c)
    \/ \E s \in AddressSpaces, c \in Counters : NewSDM(s, c) \/ DropSDM(s, c)
    \/ ProgramStep

Spec == Init /\ [][Next]_vars

-----------------------------------------------------------------------------
\* The fields of an object that is not made are 0, and an initialised one has
\* memory of the kind its destructor gives back: fd tells counter_free which.
TypeOK ==
    /\ made \in [Objects -> {"none", "live", "failed"}]
    /\ data \in [Objects -> Regions \cup {Null}]
    /\ fd \in [Counters -> -1 .. MaxFd]
    /\ owner \in [Regions -> Objects \cup {Program, Nobody}]
    /\ open \in [Fds -> Objects \cup {Program, Nobody, Lost}]
    /\ sdms \subseteq AddressSpaces \X Counters
    /\ alive \in BOOLEAN
    /\ robbery \in BOOLEAN
    /\ \A o \in Objects : made[o] = "none" => data[o] = Null
    /\ \A c \in Counters : made[c] = "none" => fd[c] = 0
    /\ \A s \in AddressSpaces : made[s] = "live" => data[s] \in Heap
    /\ \A c \in Counters :
           made[c] = "live" => data[c] \in IF fd[c] = -1 THEN Heap ELSE Maps

\* No object loses memory or a descriptor, whatever failed: what is an object's
\* is in the fields its destructor looks at.  (Streams are lost: see Leaks.)
NothingIsLost ==
    /\ \A r \in Regions : owner[r] \in Objects => data[owner[r]] = r
    /\ \A d \in Fds : open[d] \in Objects => fd[open[d]] = d

\* The objects whose destructors a step runs, and those a step may take from.
Deleted == {o \in Objects : made[o] # "none" /\ made'[o] = "none"}
Givers == {Nobody} \cup (IF made' = made THEN {Program} ELSE Deleted)
ByDoubtful == \E o \in Deleted : Doubtful(o)

\* The first time that memory is given back by another than its owner, or a file is
\* closed that is the program's or another object's, it is by the destructor of a
\* doubtful object: that of an initialised one takes nothing from others.
GivenBackByOwner ==
    [][~robbery =>
        /\ \A r \in Regions : owner'[r] # owner[r] => owner[r] \in Givers \/ ByDoubtful
        /\ \A d \in Fds : open'[d] # open[d] => open[d] \in Givers \/ ByDoubtful]_vars

\* Nothing is freed twice but by the destructor of a doubtful object, or after one
\* has robbed another.
NoDoubleFree == [][alive /\ ~alive' => robbery \/ ByDoubtful]_vars

\* The memory that o works on is its own, and so is the file that a counter maps.
Holds(o) ==
    /\ data[o] \in Regions /\ owner[data[o]] = o
    /\ o \in Counters /\ fd[o] # -1 => open[fd[o]] = o

\* An SDM object works on the memory of its address space and its counters, to which
\* it keeps C pointers: whatever else is made, fails, is saved, loaded or deleted
\* meanwhile, that is still theirs, unless the destructor of a doubtful object has
\* given it back.
SDMsHoldTheirMemory == ~robbery => \A p \in sdms : Holds(p[1]) /\ Holds(p[2])
==============================================================================
