----------------------------- MODULE ThreadScan2 -----------------------------
(***************************************************************************)
(* as_scan_thread2 (scanner_thread2.c): the ranges of as_scan_thread, but  *)
(* each thread collects the indices it finds in a buffer of its own, and   *)
(* the calling thread copies the buffers one after the other into the      *)
(* caller's list once all threads are joined.                              *)
(*                                                                         *)
(* A buffer is the sequence of the indices stored in it, so the cnt that   *)
(* goes with it in the code is its length.                                 *)
(***************************************************************************)
EXTENDS Partition, Sequences, FiniteSets

CONSTANT
    MaxThreads      \* bound on the thread_count argument of a call

ASSUME MaxThreadsAssumption == MaxThreads \in Nat \ {0}

VARIABLES
    near,           \* locations within the radius of the call's bitstring
    thread_count,   \* argument of the call
    mpc,            \* where the calling thread is
    i,              \* its loop variable
    params,         \* the range and the buffer of each thread
    tpc,            \* where each thread is
    k,              \* the loop variable "i" of each scan_task
    selected        \* the caller's list

vars == <<near, thread_count, mpc, i, params, tpc, k, selected>>

Threads == 0 .. MaxThreads - 1

Init ==
    /\ near = {}
    /\ thread_count = 1
    /\ mpc = "idle"
    /\ i = 0
    /\ params = [t \in Threads |-> [idx_begin |-> 0, idx_end |-> 0, selected |-> <<>>]]
    /\ tpc = [t \in Threads |-> "none"]
    /\ k = [t \in Threads |-> 0]
    /\ selected = <<>>

\* Mutant: cnt is not set to 0, the list goes on behind that of the last call.
Call_KeepsList ==
    /\ mpc \in {"idle", "returned"}
    /\ near' \in SUBSET Locations
    /\ thread_count' \in 1 .. MaxThreads
    /\ mpc' = "create"
    /\ i' = 0
    /\ tpc' = [t \in Threads |-> "none"]
    /\ UNCHANGED <<params, k, selected>>

\* A call with any bitstring and radius.
Call ==
    /\ mpc \in {"idle", "returned"}
    /\ near' \in SUBSET Locations
    /\ thread_count' \in 1 .. MaxThreads
    /\ mpc' = "create"
    /\ i' = 0
    /\ tpc' = [t \in Threads |-> "none"]
    /\ selected' = <<>>
    /\ UNCHANGED <<params, k>>

\* One iteration of the loop that fills params[i], with a new buffer, and
\* starts thread i.
Create ==
    /\ mpc = "create"
    /\ i < thread_count
    /\ params' = [params EXCEPT ![i] = [idx_begin |-> idx_begin(thread_count, i),
                                        idx_end |-> idx_end(thread_count, i),
                                        selected |-> <<>>]]
    /\ tpc' = [tpc EXCEPT ![i] = "run"]
    /\ k' = [k EXCEPT ![i] = idx_begin(thread_count, i)]
    /\ i' = i + 1
    /\ UNCHANGED <<near, thread_count, mpc, selected>>

\* Mutant: the join does not wait.
Join_NoWait ==
    /\ mpc = "join"
    /\ i < thread_count
    /\ i' = i + 1
    /\ UNCHANGED <<near, thread_count, mpc, params, tpc, k, selected>>

\* pthread_join(threads[i]): blocks until that thread has returned.
Join ==
    /\ mpc = "join"
    /\ i < thread_count
    /\ tpc[i] = "exit"
    /\ i' = i + 1
    /\ UNCHANGED <<near, thread_count, mpc, params, tpc, k, selected>>

\* Mutant: the buffer of a later thread is put in front.
Merge_InFront ==
    /\ mpc = "merge"
    /\ i < thread_count
    /\ selected' = params[i].selected \o selected
    /\ params' = [params EXCEPT ![i].selected = <<>>]
    /\ i' = i + 1
    /\ UNCHANGED <<near, thread_count, mpc, tpc, k>>

\* One iteration of the merging loop: copies the buffer of thread i behind
\* what the earlier threads found, and frees it.
Merge ==
    /\ mpc = "merge"
    /\ i < thread_count
    /\ selected' = selected \o params[i].selected
    /\ params' = [params EXCEPT ![i].selected = <<>>]
    /\ i' = i + 1
    /\ UNCHANGED <<near, thread_count, mpc, tpc, k>>

\* Where the calling thread goes when a loop over the threads is over.
AfterLoop == [create |-> "join", join |-> "merge", merge |-> "returned"]

EndLoop ==
    /\ mpc \in DOMAIN AfterLoop
    /\ i = thread_count
    /\ mpc' = AfterLoop[mpc]
    /\ i' = 0
    /\ UNCHANGED <<near, thread_count, params, tpc, k, selected>>

\* Mutant: the index is stored without cnt++.
Visit_Overwrites(t) ==
    /\ tpc[t] = "run"
    /\ k[t] < params[t].idx_end
    /\ params' = IF k[t] \in near THEN [params EXCEPT ![t].selected = <<k[t]>>] ELSE params
    /\ k' = [k EXCEPT ![t] = @ + 1]
    /\ UNCHANGED <<near, thread_count, mpc, i, tpc, selected>>

\* One iteration of scan_task's loop.
Visit(t) ==
    /\ tpc[t] = "run"
    /\ k[t] < params[t].idx_end
    /\ params' = IF k[t] \in near
                    THEN [params EXCEPT ![t].selected = Append(@, k[t])]
                    ELSE params
    /\ k' = [k EXCEPT ![t] = @ + 1]
    /\ UNCHANGED <<near, thread_count, mpc, i, tpc, selected>>

\* Mutant: the loop goes on at its bound.
Exit_Late(t) ==
    /\ tpc[t] = "run"
    /\ k[t] > params[t].idx_end
    /\ tpc' = [tpc EXCEPT ![t] = "exit"]
    /\ UNCHANGED <<near, thread_count, mpc, i, params, k, selected>>

\* scan_task returns.
Exit(t) ==
    /\ tpc[t] = "run"
    /\ k[t] >= params[t].idx_end
    /\ tpc' = [tpc EXCEPT ![t] = "exit"]
    /\ UNCHANGED <<near, thread_count, mpc, i, params, k, selected>>

Main == Create \/ Join \/ Merge \/ EndLoop

Task(t) == Visit(t) \/ Exit(t)

Next == Call \/ Main \/ \E t \in Threads : Task(t)

Spec == Init /\ [][Next]_vars

\* A started thread is scheduled until it returns, and so is the caller.
Fairness == WF_vars(Main) /\ \A t \in Threads : WF_vars(Task(t))

FairSpec == Spec /\ Fairness

------------------------------------------------------------------------------
\* Every variable has its type.  Both kinds of buffer are malloc'ed for
\* "sample" indices, and no list ever grows beyond that.
TypeOK ==
    /\ near \in SUBSET Locations
    /\ thread_count \in 1 .. MaxThreads
    /\ mpc \in {"idle", "create", "join", "merge", "returned"}
    /\ i \in 0 .. thread_count
    /\ params \in [Threads -> [idx_begin : 0 .. Sample, idx_end : 0 .. Sample,
                              selected : Seq(Locations)]]
    /\ \A t \in Threads : Len(params[t].selected) <= Sample
    /\ tpc \in [Threads -> {"none", "run", "exit"}]
    /\ k \in [Threads -> 0 .. Sample]
    /\ selected \in Seq(Locations)
    /\ Len(selected) <= Sample

\* The indices in a list.
Listed(s) == {s[j] : j \in DOMAIN s}

\* Strictly ascending: so nothing is listed twice either.
Ascending(s) == \A a, b \in DOMAIN s : a < b => s[a] < s[b]

\* Where a location within the radius is while the scan runs: already merged,
\* in the buffer of the one thread that visited it, or still to be visited.
\* No location is ever lost between the buffers, held by two of them, or
\* merged and kept (lines 29 to 69 over any interleaving).
HeldBy(t) == IF tpc[t] = "none" THEN {} ELSE Listed(params[t].selected)

ToVisit(t) == IF tpc[t] = "run" THEN k[t] .. params[t].idx_end - 1 ELSE {}

NeverLost ==
    mpc \in {"join", "merge", "returned"} =>
        /\ near \subseteq (UNION {HeldBy(t) \cup ToVisit(t) : t \in Threads}) \cup Listed(selected)
        /\ \A t \in Threads :
               /\ HeldBy(t) \cap Listed(selected) = {}
               /\ \A u \in Threads \ {t} : HeldBy(t) \cap (HeldBy(u) \cup ToVisit(u)) = {}

\* While buffers are merged and freed, no thread is left that fills one.
NoThreadLeft ==
    mpc \in {"merge", "returned"} => \A t \in Threads : tpc[t] # "run"

\* The list a scan returns has exactly the locations within the radius, in
\* ascending order and each of them once, for every thread_count: the list
\* as_scan_linear2 returns, whose order its loop fixes (test1.c:72-79).
ReturnsAscending ==
    mpc = "returned" => Listed(selected) = near /\ Ascending(selected)

\* A call of as_scan_thread2 returns.
ScanReturns == (mpc = "create") ~> (mpc = "returned")

Contract == INSTANCE Scan WITH
    busy <- mpc \in {"create", "join", "merge"},
    answer <- IF mpc = "returned"
                 THEN [locations |-> Listed(selected), cnt |-> Len(selected)]
                 ELSE [locations |-> {}, cnt |-> -1]

\* as_scan_thread2 keeps the promise of a scanner.
ImplementsScan == Contract!Spec
==============================================================================
