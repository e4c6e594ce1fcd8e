------------------------------ MODULE ThreadScan ------------------------------
(***************************************************************************)
(* as_scan_thread (scanner_thread.c): the calling thread splits the hard   *)
(* locations into thread_count ranges, starts one thread per range, joins  *)
(* them all and adds up their counts.  The threads write the flags of      *)
(* their own range into the caller's buffer without any lock.              *)
(*                                                                         *)
(* One step of a thread is one iteration of its loop.  That is as fine as  *)
(* the program: nobody reads params[t].cnt before the join, and            *)
(* DisjointWrites says that no other live thread touches selected[k].      *)
(***************************************************************************)
EXTENDS Partition, FiniteSets

CONSTANT
    MaxThreads      \* bound on the thread_count argument of a call

ASSUME MaxThreadsAssumption == MaxThreads \in Nat \ {0}

VARIABLES
    near,           \* locations within the radius of the call's bitstring
    thread_count,   \* argument of the call
    mpc,            \* where the calling thread is
    i,              \* its loop variable
    cnt,            \* the number of locations it returns
    params,         \* thread_params_t of each thread, malloc'ed by the call
    tpc,            \* where each thread is
    k,              \* the loop variable "i" of each scan_task
    selected        \* the caller's buffer, one flag per location

vars == <<near, thread_count, mpc, i, cnt, params, tpc, k, selected>>

Threads == 0 .. MaxThreads - 1

\* Content of a buffer the caller has just malloc'ed: neither 0 nor 1.
Garbage == 2

Flag(b) == IF b THEN 1 ELSE 0

Init ==
    /\ near = {}
    /\ thread_count = 1
    /\ mpc = "idle"
    /\ i = 0
    /\ cnt = 0
    /\ params = [t \in Threads |-> [idx_begin |-> 0, idx_end |-> 0, cnt |-> 0]]
    /\ tpc = [t \in Threads |-> "none"]
    /\ k = [t \in Threads |-> 0]
    /\ selected = [l \in Locations |-> Garbage]

\* A call with any bitstring and radius, a fresh result buffer and params
\* straight from malloc: they hold what an earlier call left there.
Call ==
    /\ mpc \in {"idle", "returned"}
    /\ near' \in SUBSET Locations
    /\ thread_count' \in 1 .. MaxThreads
    /\ mpc' = "create"
    /\ i' = 0
    /\ cnt' = 0
    /\ tpc' = [t \in Threads |-> "none"]
    /\ selected' = [l \in Locations |-> Garbage]
    /\ UNCHANGED <<params, k>>

\* One iteration of the loop that fills params[i] and starts thread i.
Create ==
    /\ mpc = "create"
    /\ i < thread_count
    /\ params' = [params EXCEPT ![i] = [idx_begin |-> idx_begin(thread_count, i),
                                        idx_end |-> idx_end(thread_count, i),
                                        cnt |-> 0]]
    /\ tpc' = [tpc EXCEPT ![i] = "run"]
    /\ k' = [k EXCEPT ![i] = idx_begin(thread_count, i)]
    /\ i' = i + 1
    /\ UNCHANGED <<near, thread_count, mpc, cnt, selected>>

\* Mutant: the join does not wait.
Join_NoWait ==
    /\ mpc = "join"
    /\ i < thread_count
    /\ i' = i + 1
    /\ UNCHANGED <<near, thread_count, mpc, cnt, params, tpc, k, selected>>

\* pthread_join(threads[i]): blocks until that thread has returned.
Join ==
    /\ mpc = "join"
    /\ i < thread_count
    /\ tpc[i] = "exit"
    /\ i' = i + 1
    /\ UNCHANGED <<near, thread_count, mpc, cnt, params, tpc, k, selected>>

Sum ==
    /\ mpc = "sum"
    /\ i < thread_count
    /\ cnt' = cnt + params[i].cnt
    /\ i' = i + 1
    /\ UNCHANGED <<near, thread_count, mpc, params, tpc, k, selected>>

\* Where the calling thread goes when a loop over the threads is over; after
\* the last one it frees params and returns.
AfterLoop == [create |-> "join", join |-> "sum", sum |-> "returned"]

EndLoop ==
    /\ mpc \in DOMAIN AfterLoop
    /\ i = thread_count
    /\ mpc' = AfterLoop[mpc]
    /\ i' = 0
    /\ UNCHANGED <<near, thread_count, cnt, params, tpc, k, selected>>

\* Mutant: cnt counts the locations visited instead of those within the radius.
Visit_CountsAll(t) ==
    /\ tpc[t] = "run"
    /\ k[t] < params[t].idx_end
    /\ selected' = [selected EXCEPT ![k[t]] = Flag(k[t] \in near)]
    /\ params' = [params EXCEPT ![t].cnt = @ + 1]
    /\ k' = [k EXCEPT ![t] = @ + 1]
    /\ UNCHANGED <<near, thread_count, mpc, i, cnt, tpc>>

\* One iteration of scan_task's loop.
Visit(t) ==
    /\ tpc[t] = "run"
    /\ k[t] < params[t].idx_end
    /\ selected' = [selected EXCEPT ![k[t]] = Flag(k[t] \in near)]
    /\ params' = [params EXCEPT ![t].cnt = @ + Flag(k[t] \in near)]
    /\ k' = [k EXCEPT ![t] = @ + 1]
    /\ UNCHANGED <<near, thread_count, mpc, i, cnt, tpc>>

\* Mutant: the loop goes on at its bound.
Exit_Late(t) ==
    /\ tpc[t] = "run"
    /\ k[t] > params[t].idx_end
    /\ tpc' = [tpc EXCEPT ![t] = "exit"]
    /\ UNCHANGED <<near, thread_count, mpc, i, cnt, params, k, selected>>

\* scan_task returns.
Exit(t) ==
    /\ tpc[t] = "run"
    /\ k[t] >= params[t].idx_end
    /\ tpc' = [tpc EXCEPT ![t] = "exit"]
    /\ UNCHANGED <<near, thread_count, mpc, i, cnt, params, k, selected>>

Main == Create \/ Join \/ Sum \/ EndLoop

Task(t) == Visit(t) \/ Exit(t)

Next == Call \/ Main \/ \E t \in Threads : Task(t)

Spec == Init /\ [][Next]_vars

\* A started thread is scheduled until it returns, and so is the caller.
Fairness == WF_vars(Main) /\ \A t \in Threads : WF_vars(Task(t))

FairSpec == Spec /\ Fairness

------------------------------------------------------------------------------
\* Every variable has its type; in particular k[t] stays inside the buffer.
TypeOK ==
    /\ near \in SUBSET Locations
    /\ thread_count \in 1 .. MaxThreads
    /\ mpc \in {"idle", "create", "join", "sum", "returned"}
    /\ i \in 0 .. thread_count
    /\ cnt \in 0 .. Sample
    /\ params \in [Threads -> [idx_begin : 0 .. Sample, idx_end : 0 .. Sample,
                               cnt : 0 .. Sample]]
    /\ tpc \in [Threads -> {"none", "run", "exit"}]
    /\ k \in [Threads -> 0 .. Sample]
    /\ selected \in [Locations -> {0, 1, Garbage}]

\* The locations a live thread has still to write.
Pending(t) == IF tpc[t] = "run" THEN k[t] .. params[t].idx_end - 1 ELSE {}

\* No location is ever written twice in a call: what a live thread has still
\* to write is neither in the range of another live thread nor filled
\* already (scan_task's unlocked selected[i] = ..., line 76).
DisjointWrites ==
    \A t \in Threads :
        /\ \A l \in Pending(t) : selected[l] = Garbage
        /\ \A u \in Threads \ {t} : Pending(t) \cap Pending(u) = {}

\* While the caller adds up the counts, and after it has freed params and
\* given the buffer back, no thread is left that reads or writes them
\* (lines 55 to 63).
NoThreadLeft ==
    mpc \in {"sum", "returned"} => \A t \in Threads : tpc[t] # "run"

\* A scan that has returned flagged every location within the radius, no
\* other one, left none unwritten, and returned their number, for every
\* thread_count: what as_scan_linear computes (test1.c:46-52 asserts it).
ReturnsExactly ==
    mpc = "returned" =>
        /\ \A l \in Locations : selected[l] = Flag(l \in near)
        /\ cnt = Cardinality(near)

\* A call of as_scan_thread returns: no join waits forever.
ScanReturns == (mpc = "create") ~> (mpc = "returned")

\* The flags read as a set, the way sdm_write and sdm_read read them.
FlaggedLocations == {l \in Locations : selected[l] = 1}

Contract == INSTANCE Scan WITH
    busy <- mpc \in {"create", "join", "sum"},
    answer <- IF mpc = "returned"
                 THEN [locations |-> FlaggedLocations, cnt |-> cnt]
                 ELSE [locations |-> {}, cnt |-> -1]

\* as_scan_thread keeps the promise of a scanner: seen from its caller, a
\* call is answered in one step with exactly the near locations.
ImplementsScan == Contract!Spec
==============================================================================
