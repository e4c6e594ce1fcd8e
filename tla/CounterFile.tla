----------------------------- MODULE CounterFile -----------------------------
(***************************************************************************)
(* The files of counter.c.  The counters of the hard locations, a row for  *)
(* each, are kept in memory or are mapped from a file, and can be saved to *)
(* a file and loaded from one.  A file name stands for two files: .meta,   *)
(* the header, and .bin, the rows.                                         *)
(*                                                                         *)
(* The process may be killed at any point and started anew.  The files     *)
(* survive that, with all that was changed through a mapping; what stdio   *)
(* has buffered does not.  Bits are compared like the sample and are left  *)
(* out.  A call whose first fopen fails changes nothing and is left out.   *)
(***************************************************************************)
EXTENDS Integers, Sequences

CONSTANTS
    Files,          \* file names
    Handles,        \* counter_s's of the program
    Samples,        \* numbers of hard locations it uses
    Values          \* what a row may hold, 0 being the row of zeros

ASSUME SamplesAssumption == Samples \subseteq Nat \ {0}
ASSUME ValuesAssumption == 0 \in Values
ASSUME NamesAssumption == "none" \notin Files /\ "zeros" \notin Handles

VARIABLES
    meta,           \* the sample in each .meta, 0 if it has no header
    bin,            \* the rows in each .bin
    handle,         \* each counter_s: where its rows are, and those in memory
    pc,             \* where the call in progress is
    job,            \* its arguments and its progress
    buffer,         \* rows it has written that stdio still has
    image,          \* history: the rows each file should have
    suspect         \* history: files whose last save did not end well

vars == <<meta, bin, handle, pc, job, buffer, image, suspect>>

NoJob == [op |-> "none"]

Zeros(n) == [l \in 1 .. n |-> 0]

Free == [file |-> "none", rows |-> <<>>, sample |-> 0]

IsMapped(h) == handle[h].file \in Files
InUse(h) == handle[h].sample > 0

\* A mapping can be longer than its file.
Reaches(h, l) == IsMapped(h) => l <= Len(bin[handle[h].file])

\* What the program sees of its counters; behind the end of a mapped file the
\* rest of the last page is 0.
View(h) ==
    IF IsMapped(h)
       THEN [l \in 1 .. handle[h].sample |->
                IF Reaches(h, l) THEN bin[handle[h].file][l] ELSE 0]
       ELSE handle[h].rows

\* Behind the last page there is nothing: the row cannot be accessed.
Accessible(h, l) ==
    IsMapped(h) => LET rows == bin[handle[h].file] IN l <= Len(rows) \/ rows # <<>>

Init ==
    /\ meta = [f \in Files |-> 0]
    /\ bin = [f \in Files |-> <<>>]
    /\ handle = [h \in Handles |-> Free]
    /\ pc = "idle"
    /\ job = NoJob
    /\ buffer = <<>>
    /\ image = [f \in Files |-> <<>>]
    /\ suspect = [f \in Files |-> FALSE]

\* The program makes one call at a time.
Idle == pc \in {"idle", "returned"}

Done(ret) ==
    /\ pc' = "returned"
    /\ job' = [job EXCEPT !.ret = ret]

AtOnce == pc' = "idle" /\ job' = NoJob

counter_init(h, n) ==
    /\ Idle
    /\ ~InUse(h)
    /\ handle' = [handle EXCEPT ![h] = [file |-> "none", rows |-> Zeros(n), sample |-> n]]
    /\ AtOnce
    /\ UNCHANGED <<meta, bin, buffer, image, suspect>>

\* counter_init_file: the header says how much of .bin is mapped.  Without
\* one it fails: counter_check_meta_file returns -1, or mmap, for 0 bytes.
counter_init_file(f, h) ==
    /\ Idle
    /\ ~InUse(h)
    /\ meta[f] > 0
    /\ handle' = [handle EXCEPT ![h] = [file |-> f, rows |-> <<>>, sample |-> meta[f]]]
    /\ AtOnce
    /\ UNCHANGED <<meta, bin, buffer, image, suspect>>

counter_free(h) ==
    /\ Idle
    /\ InUse(h)
    /\ handle' = [handle EXCEPT ![h] = Free]
    /\ AtOnce
    /\ UNCHANGED <<meta, bin, buffer, image, suspect>>

\* Row l of h gets the value v, in memory or in the file; what is written
\* behind the end of the file is lost.
SetRow(h, l, v) ==
    LET f == handle[h].file
    IN  IF ~IsMapped(h)
           THEN /\ handle' = [handle EXCEPT ![h].rows[l] = v]
                /\ UNCHANGED <<bin, image>>
        ELSE IF Reaches(h, l)
           THEN /\ bin' = [bin EXCEPT ![f][l] = v]
                /\ image' = [image EXCEPT ![f][l] = v]
                /\ UNCHANGED handle
        ELSE UNCHANGED <<handle, bin, image>>

\* counter_add_bitstring, counter_reset and so on: any change to a row.
Change(h) ==
    /\ Idle
    /\ \E l \in 1 .. handle[h].sample, v \in Values :
           /\ Accessible(h, l)
           /\ SetRow(h, l, v)
    /\ AtOnce
    /\ UNCHANGED <<meta, buffer, suspect>>

(* save, of counter_save_file and counter_create_file.                      *)

\* Mutant: the header is written, and flushed, before .bin is opened.
OpenMeta_WritesHeader(f, source, n) ==
    /\ Idle
    /\ meta' = [meta EXCEPT ![f] = n]
    /\ pc' = "open_bin"
    /\ job' = [op |-> "save", file |-> f, source |-> source, sample |-> n, done |-> 0,
               failed |-> FALSE, ret |-> 0]
    /\ UNCHANGED <<bin, handle, buffer, image, suspect>>

\* fopen(meta, "w") empties the header of the last save.  Its source is one
\* of the handles or, for a file that is created, a row of zeros.
OpenMeta(f, source, n) ==
    /\ Idle
    /\ meta' = [meta EXCEPT ![f] = 0]
    /\ pc' = "open_bin"
    /\ job' = [op |-> "save", file |-> f, source |-> source, sample |-> n, done |-> 0,
               failed |-> FALSE, ret |-> 0]
    /\ UNCHANGED <<bin, handle, buffer, image, suspect>>

counter_save_file(h, f) == InUse(h) /\ OpenMeta(f, h, handle[h].sample)

counter_create_file(f, n) == OpenMeta(f, "zeros", n)

SourceRows == IF job.source \in Handles THEN View(job.source) ELSE Zeros(job.sample)

\* Mutant: opened with "a" instead of "w".
OpenBin_Appends ==
    /\ pc = "open_bin"
    /\ image' = [image EXCEPT ![job.file] = SourceRows]
    /\ suspect' = [suspect EXCEPT ![job.file] = TRUE]
    /\ pc' = "rows"
    /\ UNCHANGED <<meta, bin, handle, job, buffer>>

\* fopen(bin, "w"): from here on .bin is not what the last save left.
OpenBin ==
    /\ pc = "open_bin"
    /\ bin' = [bin EXCEPT ![job.file] = <<>>]
    /\ image' = [image EXCEPT ![job.file] = SourceRows]
    /\ suspect' = [suspect EXCEPT ![job.file] = TRUE]
    /\ pc' = "rows"
    /\ UNCHANGED <<meta, handle, job, buffer>>

OpenBinFails ==
    /\ pc = "open_bin"
    /\ Done(-2)
    /\ UNCHANGED <<meta, bin, handle, buffer, image, suspect>>

\* fwrite of the next row.  If it is behind the end of a mapped file, it may
\* also come back short, which is not looked at (or it kills the process).
WriteRow ==
    LET l == job.done + 1
        readable == job.source \in Handles => Accessible(job.source, l)
        sure == job.source \in Handles => Reaches(job.source, l)
    IN  /\ pc = "rows"
        /\ l <= job.sample
        /\ \/ /\ readable
              /\ buffer' = Append(buffer, SourceRows[l])
              /\ job' = [job EXCEPT !.done = l]
           \/ /\ ~sure
              /\ job' = [job EXCEPT !.done = l, !.failed = TRUE]
              /\ UNCHANGED buffer
        /\ UNCHANGED <<meta, bin, handle, pc, image, suspect>>

\* stdio writes its buffer when it likes, and at the latest in fclose.
Flush ==
    /\ buffer # <<>>
    /\ bin' = [bin EXCEPT ![job.file] = Append(@, Head(buffer))]
    /\ buffer' = Tail(buffer)
    /\ UNCHANGED <<meta, handle, pc, job, image, suspect>>

\* The disk is full; no error is looked at.
FlushFails ==
    /\ buffer # <<>>
    /\ buffer' = Tail(buffer)
    /\ job' = [job EXCEPT !.failed = TRUE]
    /\ UNCHANGED <<meta, bin, handle, pc, image, suspect>>

\* fclose(fp1): the header, short enough for stdio's buffer, is written now.
CloseMeta ==
    /\ pc = "rows"
    /\ job.done = job.sample
    /\ meta' = [meta EXCEPT ![job.file] = job.sample]
    /\ pc' = "close_bin"
    /\ UNCHANGED <<bin, handle, job, buffer, image, suspect>>

\* The disk is full, and the header is lost as a whole: it is shorter than a block.
\* Nobody looks at what fclose returns.
CloseMetaFails ==
    /\ pc = "rows"
    /\ job.done = job.sample
    /\ pc' = "close_bin"
    /\ UNCHANGED <<meta, bin, handle, job, buffer, image, suspect>>

\* fclose(fp2): the save has ended well if the header and every row were written
\* and nobody had the file mapped while it was emptied.
CloseBin ==
    /\ pc = "close_bin"
    /\ buffer = <<>>
    /\ suspect' = [suspect EXCEPT ![job.file] =
           \/ meta[job.file] = 0 \/ job.failed
           \/ \E h \in Handles : handle[h].file = job.file]
    /\ Done(0)
    /\ UNCHANGED <<meta, bin, handle, buffer, image>>

(* counter_load_file.                                                       *)

\* The header must be that of counters of the same size.
counter_load_file(h, f) ==
    /\ Idle
    /\ InUse(h)
    /\ job' = [op |-> "load", file |-> f, target |-> h, done |-> 0,
               ret |-> IF meta[f] = handle[h].sample THEN 0 ELSE IF meta[f] = 0 THEN -1 ELSE -3]
    /\ pc' = IF meta[f] = handle[h].sample THEN "load" ELSE "returned"
    /\ UNCHANGED <<meta, bin, handle, buffer, image, suspect>>

\* fread copies the rows one after the other into the live counters.
LoadRow ==
    LET l == job.done + 1
    IN  /\ pc = "load"
        /\ l <= handle[job.target].sample
        /\ l <= Len(bin[job.file])
        /\ Accessible(job.target, l)
        /\ SetRow(job.target, l, bin[job.file][l])
        /\ job' = [job EXCEPT !.done = l]
        /\ UNCHANGED <<meta, pc, buffer, suspect>>

\* Mutant: the number of rows that fread has read is not looked at.
LoadEnd_Unchecked ==
    /\ pc = "load"
    /\ \/ job.done = handle[job.target].sample
       \/ job.done >= Len(bin[job.file])
       \/ ~Reaches(job.target, job.done + 1)
    /\ Done(0)
    /\ UNCHANGED <<meta, bin, handle, buffer, image, suspect>>

\* fread is over: all rows are read, or the file ends before, or the next
\* row of the counters cannot be written.
LoadEnd ==
    /\ pc = "load"
    /\ \/ job.done = handle[job.target].sample
       \/ job.done >= Len(bin[job.file])
       \/ ~Reaches(job.target, job.done + 1)
    /\ Done(IF job.done = handle[job.target].sample THEN 0 ELSE -5)
    /\ UNCHANGED <<meta, bin, handle, buffer, image, suspect>>

\* The process is killed, or accesses a row it cannot; a new one starts.
Crash ==
    /\ handle' = [h \in Handles |-> Free]
    /\ pc' = "idle"
    /\ job' = NoJob
    /\ buffer' = <<>>
    /\ UNCHANGED <<meta, bin, image, suspect>>

Next ==
    \/ \E h \in Handles :
           \/ counter_free(h)
           \/ Change(h)
           \/ \E n \in Samples : counter_init(h, n)
           \/ \E f \in Files :
                  \/ counter_init_file(f, h)
                  \/ counter_save_file(h, f)
                  \/ counter_load_file(h, f)
    \/ \E f \in Files, n \in Samples : counter_create_file(f, n)
    \/ OpenBin
    \/ OpenBinFails
    \/ WriteRow
    \/ Flush
    \/ FlushFails
    \/ CloseMeta
    \/ CloseMetaFails
    \/ CloseBin
    \/ LoadRow
    \/ LoadEnd
    \/ Crash

Spec == Init /\ [][Next]_vars

------------------------------------------------------------------------------
Rows == Seq(Values)

SaveJobs == [op : {"save"}, file : Files, source : Handles \cup {"zeros"}, sample : Samples,
             done : Nat, failed : BOOLEAN, ret : {0, -2}]

LoadJobs == [op : {"load"}, file : Files, target : Handles, done : Nat, ret : {0, -1, -3, -5}]

\* Every variable has its type; no loop passes its bound and no file gets more
\* rows than its header says.
TypeOK ==
    /\ meta \in [Files -> Samples \cup {0}]
    /\ bin \in [Files -> Rows]
    /\ handle \in [Handles -> [file : Files \cup {"none"}, rows : Rows, sample : Samples \cup {0}]]
    /\ \A h \in Handles : Len(handle[h].rows) = IF IsMapped(h) THEN 0 ELSE handle[h].sample
    /\ pc \in {"idle", "open_bin", "rows", "close_bin", "load", "returned"}
    /\ pc \in {"open_bin", "rows", "close_bin"} => job \in SaveJobs /\ job.done <= job.sample
    /\ pc = "load" => job \in LoadJobs /\ job.done <= handle[job.target].sample
    /\ pc = "returned" => job \in SaveJobs \cup LoadJobs
    /\ pc \notin {"rows", "close_bin"} => buffer = <<>>
    /\ buffer \in Rows
    /\ image \in [Files -> Rows]
    /\ suspect \in [Files -> BOOLEAN]
    /\ \A f \in Files : meta[f] > 0 => Len(bin[f]) <= meta[f]

\* Whatever crashed, failed or was saved before, in whatever order: counters
\* that counter_load_file says it has loaded are the ones of the last save of
\* that file, with what was changed since through a mapping of it, and never a
\* mixture of two saves.  (The counters must not themselves be mapped from a
\* file that a save has cut off.)
LoadGivesSave ==
    /\ pc = "returned"
    /\ job.op = "load"
    /\ job.ret = 0
    /\ IsMapped(job.target) => ~suspect[handle[job.target].file]
    => View(job.target) = image[job.file]

\* counter_init_file compares the length of .bin with nothing.  All the same,
\* no counters are mapped that go on behind the end of their file, unless the
\* last save of the file was killed, was not written in full, or was made
\* while the file was mapped.
MappedIsWhole ==
    \A h \in Handles :
        IsMapped(h) /\ ~suspect[handle[h].file]
            => handle[h].sample = Len(bin[handle[h].file])
==============================================================================
