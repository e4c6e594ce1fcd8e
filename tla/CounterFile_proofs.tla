-------------------------- MODULE CounterFile_proofs --------------------------
(***************************************************************************)
(* A load that succeeds gives the last save, and what is mapped is whole,  *)
(* for any number of files, counters and rows, and any failures and        *)
(* crashes between them.                                                   *)
(***************************************************************************)
EXTENDS CounterFile, SequenceTheorems, TLAPS

\* How far .bin may differ from what it should be: it can be too short, but
\* if it has all the rows they are the right ones.
BinInv(f) ==
    /\ Len(bin[f]) <= Len(image[f])
    /\ Len(bin[f]) = Len(image[f]) => \A l \in 1 .. Len(image[f]) : bin[f][l] = image[f][l]

\* A header tells the size of the last save.
MetaInv(f) ==
    /\ meta[f] > 0 => meta[f] = Len(image[f])
    /\ meta[f] > 0 /\ ~suspect[f] => Len(bin[f]) = meta[f]

Saving == pc \in {"rows", "close_bin"}

\* The rows written so far, as long as no fwrite came back short, are those
\* the file should have; a source that is mapped from the file itself has been
\* cut off by the save and gives no rows at all.
SaveInv ==
    LET f == job.file
        b == Len(bin[f])
    IN  /\ suspect[f]
        /\ Len(image[f]) = job.sample
        /\ pc = "close_bin" => job.done = job.sample
        /\ meta[f] \in {0} \cup IF pc = "rows" THEN {} ELSE {job.sample}
        /\ b + Len(buffer) <= job.done
        /\ job.failed => b + Len(buffer) < job.done
        /\ ~job.failed => /\ b + Len(buffer) = job.done
                          /\ \A l \in 1 .. b : bin[f][l] = image[f][l]
                          /\ \A l \in 1 .. Len(buffer) : buffer[l] = image[f][b + l]

SourceInv ==
    LET f == job.file
        h == job.source
    IN  IF h \notin Handles THEN \A l \in 1 .. job.sample : image[f][l] = 0
        ELSE /\ handle[h].sample = job.sample
             /\ IF handle[h].file = f
                   THEN bin[f] = <<>> /\ buffer = <<>> /\ (job.done > 0 => job.failed)
                   ELSE \A l \in 1 .. job.sample : image[f][l] = View(h)[l]

\* Before .bin is opened the header is gone already.
OpenInv ==
    /\ meta[job.file] = 0
    /\ job.done = 0
    /\ ~job.failed
    /\ job.source \in Handles => handle[job.source].sample = job.sample

\* The rows loaded so far are in the counters.
LoadInv ==
    LET h == job.target
    IN  /\ InUse(h)
        /\ handle[h].sample = meta[job.file]
        /\ job.ret = 0
        /\ job.done <= Len(bin[job.file])
        /\ (IsMapped(h) => ~suspect[handle[h].file])
               => \A l \in 1 .. job.done : View(h)[l] = bin[job.file][l]

MappedInv(h) ==
    IsMapped(h) =>
        /\ InUse(h)
        /\ ~suspect[handle[h].file] => handle[h].sample = Len(bin[handle[h].file])

IInv ==
    /\ TypeOK
    /\ \A f \in Files : BinInv(f) /\ MetaInv(f)
    /\ \A h \in Handles : MappedInv(h)
    /\ pc = "open_bin" => OpenInv
    /\ Saving => SaveInv /\ SourceInv
    /\ pc = "load" => LoadInv
    /\ LoadGivesSave

------------------------------------------------------------------------------
\* Rows of zeros are rows.
LEMMA ZerosAreRows ==
    ASSUME NEW n \in Nat
    PROVE  Zeros(n) \in Rows /\ Len(Zeros(n)) = n
  BY ValuesAssumption DEF Zeros, Rows

\* The fields of a counter_s.
LEMMA HandleType ==
    ASSUME TypeOK, NEW h \in Handles
    PROVE  /\ handle[h].file \in Files \cup {"none"}
           /\ handle[h].rows \in Rows
           /\ handle[h].sample \in Samples \cup {0}
           /\ handle[h].sample \in Nat
           /\ handle[h].file \in Files => Len(handle[h].rows) = 0
           /\ handle[h].file \notin Files => Len(handle[h].rows) = handle[h].sample
  <1>1. handle \in [Handles -> [file : Files \cup {"none"}, rows : Rows,
                                sample : Samples \cup {0}]]
    BY DEF TypeOK
  <1>2. /\ handle[h].file \in Files \cup {"none"}
        /\ handle[h].rows \in Rows
        /\ handle[h].sample \in Samples \cup {0}
    BY <1>1
  <1>3. Len(handle[h].rows) = IF handle[h].file \in Files THEN 0 ELSE handle[h].sample
    BY DEF TypeOK, IsMapped
  <1>4. Samples \cup {0} \subseteq Nat
    BY SamplesAssumption
  <1>5. handle[h].sample \in Nat
    BY <1>2, <1>4
  <1> QED
    BY <1>2, <1>3, <1>5

\* What the program sees of its counters are as many rows as it has asked for.
LEMMA ViewIsRows ==
    ASSUME TypeOK, NEW h \in Handles
    PROVE  View(h) \in Rows /\ Len(View(h)) = handle[h].sample
  <1> DEFINE f == handle[h].file  n == handle[h].sample
  <1>1. CASE IsMapped(h)
    <2>1. f \in Files /\ bin[f] \in Rows
      BY <1>1 DEF IsMapped, TypeOK
    <2>2. \A l \in 1 .. n : (IF Reaches(h, l) THEN bin[f][l] ELSE 0) \in Values
      BY <1>1, <2>1, HandleType, ValuesAssumption DEF Reaches, Rows
    <2> QED
      BY <1>1, <2>2, HandleType DEF View, Rows
  <1>2. CASE ~IsMapped(h)
    BY <1>2, HandleType DEF View, IsMapped
  <1> QED
    BY <1>1, <1>2

\* A row of what the program sees.
LEMMA ViewRow ==
    ASSUME TypeOK, NEW h \in Handles, NEW l \in 1 .. handle[h].sample
    PROVE  View(h)[l] =
               IF ~IsMapped(h) THEN handle[h].rows[l]
               ELSE IF l <= Len(bin[handle[h].file]) THEN bin[handle[h].file][l] ELSE 0
  BY DEF View, Reaches

\* Before the first call there is nothing to be wrong.
LEMMA InitIInv == Init => IInv
  <1> SUFFICES ASSUME Init PROVE IInv
    OBVIOUS
  <1> USE DEF Init
  <1>1. TypeOK
    BY NamesAssumption DEF TypeOK, Rows, Free, IsMapped
  <1>2. \A f \in Files : BinInv(f) /\ MetaInv(f)
    <2> TAKE f \in Files
    <2>1. meta[f] = 0 /\ bin[f] = <<>> /\ image[f] = <<>>
      OBVIOUS
    <2>2. Len(<<>>) = 0
      OBVIOUS
    <2> HIDE DEF Init
    <2> QED
      BY <2>1, <2>2 DEF BinInv, MetaInv
  <1>3. \A h \in Handles : MappedInv(h)
    BY NamesAssumption DEF MappedInv, IsMapped, Free
  <1> QED
    BY <1>1, <1>2, <1>3 DEF IInv, Saving, LoadGivesSave

\* A call that leaves the files alone leaves them as they should be.
LEMMA FilesUnchanged ==
    ASSUME IInv, UNCHANGED <<meta, bin, image, suspect>>
    PROVE  \A f \in Files : BinInv(f)' /\ MetaInv(f)'
  BY DEF IInv, BinInv, MetaInv

\* counter_init: counters in memory are not mapped.
LEMMA InitStep ==
    ASSUME IInv, NEW h \in Handles, NEW n \in Samples, counter_init(h, n)
    PROVE  IInv'
  <1> DEFINE new == [file |-> "none", rows |-> Zeros(n), sample |-> n]
  <1>1. /\ handle' = [handle EXCEPT ![h] = new]
        /\ pc' = "idle" /\ job' = NoJob
        /\ UNCHANGED <<meta, bin, buffer, image, suspect>>
        /\ Idle
    BY DEF counter_init, AtOnce
  <1>2. n \in Nat /\ Zeros(n) \in Rows /\ Len(Zeros(n)) = n
    BY ZerosAreRows, SamplesAssumption
  <1>3. TypeOK'
    BY <1>1, <1>2, NamesAssumption DEF IInv, TypeOK, IsMapped, Idle
  <1>4. \A k \in Handles : MappedInv(k)'
    BY <1>1, NamesAssumption DEF IInv, TypeOK, MappedInv, IsMapped, InUse
  <1> QED
    BY <1>1, <1>3, <1>4, FilesUnchanged DEF IInv, Saving, LoadGivesSave

\* counter_init_file: a file whose last save ended well is as long as its
\* header says.
LEMMA InitFileStep ==
    ASSUME IInv, NEW f \in Files, NEW h \in Handles, counter_init_file(f, h)
    PROVE  IInv'
  <1> DEFINE new == [file |-> f, rows |-> <<>>, sample |-> meta[f]]
  <1>1. /\ handle' = [handle EXCEPT ![h] = new]
        /\ pc' = "idle" /\ job' = NoJob
        /\ UNCHANGED <<meta, bin, buffer, image, suspect>>
        /\ Idle /\ meta[f] > 0
    BY DEF counter_init_file, AtOnce
  <1>2. <<>> \in Rows /\ Len(<<>>) = 0
    BY EmptySeq DEF Rows
  <1>3. TypeOK'
    BY <1>1, <1>2, NamesAssumption DEF IInv, TypeOK, IsMapped, Idle
  <1>4. \A k \in Handles : MappedInv(k)'
    BY <1>1 DEF IInv, TypeOK, MappedInv, MetaInv, IsMapped, InUse
  <1> QED
    BY <1>1, <1>3, <1>4, FilesUnchanged DEF IInv, Saving, LoadGivesSave

LEMMA FreeStep ==
    ASSUME IInv, NEW h \in Handles, counter_free(h)
    PROVE  IInv'
  <1>1. /\ handle' = [handle EXCEPT ![h] = Free]
        /\ pc' = "idle" /\ job' = NoJob
        /\ UNCHANGED <<meta, bin, buffer, image, suspect>>
        /\ Idle
    BY DEF counter_free, AtOnce
  <1>2. <<>> \in Rows /\ Len(<<>>) = 0
    BY EmptySeq DEF Rows
  <1>3. TypeOK'
    BY <1>1, <1>2, NamesAssumption DEF IInv, TypeOK, IsMapped, Idle, Free
  <1>4. \A k \in Handles : MappedInv(k)'
    BY <1>1, NamesAssumption DEF IInv, TypeOK, MappedInv, IsMapped, InUse, Free
  <1> QED
    BY <1>1, <1>3, <1>4, FilesUnchanged DEF IInv, Saving, LoadGivesSave

\* A crash forgets the mappings and what was buffered.
LEMMA CrashStep ==
    ASSUME IInv, Crash
    PROVE  IInv'
  <1>1. /\ handle' = [h \in Handles |-> Free]
        /\ pc' = "idle" /\ job' = NoJob /\ buffer' = <<>>
        /\ UNCHANGED <<meta, bin, image, suspect>>
    BY DEF Crash
  <1>2. <<>> \in Rows /\ Len(<<>>) = 0
    BY EmptySeq DEF Rows
  <1>3. TypeOK'
    BY <1>1, <1>2, NamesAssumption DEF IInv, TypeOK, IsMapped, Free
  <1>4. \A k \in Handles : MappedInv(k)'
    BY <1>1, NamesAssumption DEF MappedInv, IsMapped, Free
  <1> QED
    BY <1>1, <1>3, <1>4, FilesUnchanged DEF IInv, Saving, LoadGivesSave

\* A changed row is changed in the file and in what the file should be, and
\* the lengths of both stay.
LEMMA SetRowKeeps ==
    ASSUME IInv, NEW h \in Handles, NEW l \in 1 .. handle[h].sample, NEW v \in Values,
           SetRow(h, l, v), UNCHANGED <<meta, suspect>>
    PROVE  /\ bin' \in [Files -> Rows]
           /\ image' \in [Files -> Rows]
           /\ handle' \in [Handles -> [file : Files \cup {"none"}, rows : Rows,
                                       sample : Samples \cup {0}]]
           /\ \A f \in Files : /\ Len(bin'[f]) = Len(bin[f])
                               /\ BinInv(f)'
                               /\ MetaInv(f)'
           /\ \A k \in Handles : /\ Len(handle'[k].rows) = Len(handle[k].rows)
                                 /\ handle'[k].file = handle[k].file
                                 /\ handle'[k].sample = handle[k].sample
                                 /\ MappedInv(k)'
  <1> DEFINE f == handle[h].file
  <1>1. /\ bin \in [Files -> Rows] /\ image \in [Files -> Rows]
        /\ handle \in [Handles -> [file : Files \cup {"none"}, rows : Rows,
                                   sample : Samples \cup {0}]]
        /\ TypeOK
    BY DEF IInv, TypeOK
  <1>2. CASE ~IsMapped(h)
    <2>1. handle' = [handle EXCEPT ![h].rows[l] = v] /\ UNCHANGED <<bin, image>>
      BY <1>2 DEF SetRow
    <2>2. /\ handle[h].rows \in Rows
          /\ Len(handle[h].rows) = handle[h].sample
      BY <1>1, <1>2, HandleType DEF IsMapped
    <2>3. /\ [handle[h].rows EXCEPT ![l] = v] \in Rows
          /\ Len([handle[h].rows EXCEPT ![l] = v]) = Len(handle[h].rows)
      BY <2>2, ExceptSeq DEF Rows
    <2>4. handle' = [handle EXCEPT ![h] = [@ EXCEPT !.rows = [handle[h].rows EXCEPT ![l] = v]]]
      BY <2>1, <1>1
    <2>5. /\ handle' \in [Handles -> [file : Files \cup {"none"}, rows : Rows,
                                      sample : Samples \cup {0}]]
          /\ \A k \in Handles : /\ Len(handle'[k].rows) = Len(handle[k].rows)
                                /\ handle'[k].file = handle[k].file
                                /\ handle'[k].sample = handle[k].sample
      BY <1>1, <2>3, <2>4
    <2> QED
      BY <1>1, <2>1, <2>5, FilesUnchanged DEF IInv, MappedInv, IsMapped, InUse
  <1>3. CASE IsMapped(h) /\ Reaches(h, l)
    <2>1. /\ bin' = [bin EXCEPT ![f][l] = v]
          /\ image' = [image EXCEPT ![f][l] = v]
          /\ UNCHANGED handle
      BY <1>3 DEF SetRow
    <2>2. /\ f \in Files /\ bin[f] \in Rows /\ image[f] \in Rows
          /\ BinInv(f) /\ MetaInv(f)
          /\ l \in 1 .. Len(bin[f])
      BY <1>1, <1>3 DEF IsMapped, Reaches, IInv
    <2>3. l \in 1 .. Len(image[f])
      BY <2>2 DEF BinInv, Rows
    <2>4. /\ [bin[f] EXCEPT ![l] = v] \in Rows
          /\ Len([bin[f] EXCEPT ![l] = v]) = Len(bin[f])
          /\ \A j \in 1 .. Len(bin[f]) : [bin[f] EXCEPT ![l] = v][j] = IF j = l THEN v ELSE bin[f][j]
      BY <2>2, ExceptSeq DEF Rows
    <2>5. /\ [image[f] EXCEPT ![l] = v] \in Rows
          /\ Len([image[f] EXCEPT ![l] = v]) = Len(image[f])
          /\ \A j \in 1 .. Len(image[f]) :
                 [image[f] EXCEPT ![l] = v][j] = IF j = l THEN v ELSE image[f][j]
      BY <2>2, <2>3, ExceptSeq DEF Rows
    <2>6. /\ bin' = [bin EXCEPT ![f] = [bin[f] EXCEPT ![l] = v]]
          /\ image' = [image EXCEPT ![f] = [image[f] EXCEPT ![l] = v]]
      BY <2>1
    <2>7. bin' \in [Files -> Rows] /\ image' \in [Files -> Rows]
      BY <1>1, <2>4, <2>5, <2>6
    <2>8. ASSUME NEW g \in Files
          PROVE  Len(bin'[g]) = Len(bin[g]) /\ BinInv(g)' /\ MetaInv(g)'
      <3>1. CASE g # f
        BY <1>1, <2>6, <3>1 DEF IInv, BinInv, MetaInv
      <3>2. CASE g = f
        <4>1. bin'[g] = [bin[g] EXCEPT ![l] = v] /\ image'[g] = [image[g] EXCEPT ![l] = v]
          BY <1>1, <2>2, <2>6, <3>2
        <4>2. /\ l \in 1 .. Len(bin[g])
              /\ Len(bin'[g]) = Len(bin[g])
              /\ Len(image'[g]) = Len(image[g])
              /\ \A j \in 1 .. Len(bin[g]) : bin'[g][j] = IF j = l THEN v ELSE bin[g][j]
              /\ \A j \in 1 .. Len(image[g]) : image'[g][j] = IF j = l THEN v ELSE image[g][j]
          BY <2>2, <2>4, <2>5, <3>2, <4>1
        <4>3. BinInv(g)'
          BY <2>2, <3>2, <4>2 DEF BinInv
        <4>4. MetaInv(g)'
          BY <2>2, <3>2, <4>2 DEF MetaInv
        <4> QED
          BY <4>2, <4>3, <4>4
      <3> QED
        BY <3>1, <3>2
    <2> QED
      BY <1>1, <2>1, <2>7, <2>8 DEF IInv, MappedInv, IsMapped, InUse
  <1>4. CASE IsMapped(h) /\ ~Reaches(h, l)
    <2>1. UNCHANGED <<handle, bin, image>>
      BY <1>4 DEF SetRow
    <2> QED
      BY <1>1, <2>1, FilesUnchanged DEF IInv, MappedInv, IsMapped, InUse
  <1> QED
    BY <1>2, <1>3, <1>4

\* Any change to counters between two calls.
LEMMA ChangeStep ==
    ASSUME IInv, NEW h \in Handles, Change(h)
    PROVE  IInv'
  <1>1. PICK l \in 1 .. handle[h].sample, v \in Values : SetRow(h, l, v)
    BY DEF Change
  <1>2. /\ pc' = "idle" /\ job' = NoJob
        /\ UNCHANGED <<meta, buffer, suspect>>
        /\ Idle
    BY DEF Change, AtOnce
  <1>3. TypeOK'
    BY <1>1, <1>2, SetRowKeeps DEF IInv, TypeOK, IsMapped, Idle
  <1> QED
    BY <1>1, <1>2, <1>3, SetRowKeeps DEF IInv, Saving, LoadGivesSave

\* fopen(meta, "w"): no header, no claim about .bin.
LEMMA OpenMetaStep ==
    ASSUME IInv, NEW f \in Files, NEW source \in Handles \cup {"zeros"}, NEW n \in Samples,
           source \in Handles => handle[source].sample = n,
           OpenMeta(f, source, n)
    PROVE  IInv'
  <1> DEFINE new == [op |-> "save", file |-> f, source |-> source, sample |-> n, done |-> 0,
                     failed |-> FALSE, ret |-> 0]
  <1>1. /\ meta' = [meta EXCEPT ![f] = 0]
        /\ pc' = "open_bin" /\ job' = new
        /\ UNCHANGED <<bin, handle, buffer, image, suspect>>
        /\ Idle
    BY DEF OpenMeta
  <1>2. new \in SaveJobs /\ new.done <= new.sample
    BY SamplesAssumption DEF SaveJobs
  <1>3. TypeOK'
    BY <1>1, <1>2 DEF IInv, TypeOK, IsMapped, Idle
  <1>4. \A g \in Files : BinInv(g)' /\ MetaInv(g)'
    BY <1>1 DEF IInv, TypeOK, BinInv, MetaInv
  <1>5. \A k \in Handles : MappedInv(k)'
    BY <1>1 DEF IInv, MappedInv, IsMapped, InUse
  <1>6. OpenInv'
    BY <1>1 DEF IInv, TypeOK, OpenInv
  <1> QED
    BY <1>1, <1>3, <1>4, <1>5, <1>6 DEF IInv, Saving, LoadGivesSave

LEMMA OpenBinFailsStep ==
    ASSUME IInv, OpenBinFails
    PROVE  IInv'
  <1>1. /\ pc = "open_bin" /\ job \in SaveJobs
        /\ pc' = "returned" /\ job' = [job EXCEPT !.ret = -2]
        /\ UNCHANGED <<meta, bin, handle, buffer, image, suspect>>
    BY DEF OpenBinFails, Done, IInv, TypeOK
  <1>2. job' \in SaveJobs /\ job'.op = "save"
    BY <1>1 DEF SaveJobs
  <1>3. TypeOK'
    BY <1>1, <1>2 DEF IInv, TypeOK, IsMapped
  <1>4. \A k \in Handles : MappedInv(k)'
    BY <1>1 DEF IInv, MappedInv, IsMapped, InUse
  <1> QED
    BY <1>1, <1>2, <1>3, <1>4, FilesUnchanged DEF IInv, Saving, LoadGivesSave

\* counter_load_file: nothing is loaded yet.
LEMMA LoadStartStep ==
    ASSUME IInv, NEW h \in Handles, NEW f \in Files, counter_load_file(h, f)
    PROVE  IInv'
  <1> DEFINE r == IF meta[f] = handle[h].sample THEN 0 ELSE IF meta[f] = 0 THEN -1 ELSE -3
             new == [op |-> "load", file |-> f, target |-> h, done |-> 0, ret |-> r]
  <1>1. /\ job' = new
        /\ pc' = IF meta[f] = handle[h].sample THEN "load" ELSE "returned"
        /\ UNCHANGED <<meta, bin, handle, buffer, image, suspect>>
        /\ Idle /\ InUse(h)
    BY DEF counter_load_file
  <1>2. new \in LoadJobs
    BY DEF LoadJobs
  <1>3. 0 <= handle[h].sample
    BY HandleType DEF IInv
  <1>4. TypeOK'
    BY <1>1, <1>2, <1>3 DEF IInv, TypeOK, IsMapped, Idle
  <1>5. \A k \in Handles : MappedInv(k)'
    BY <1>1 DEF IInv, MappedInv, IsMapped, InUse
  <1>6. Len(bin[f]) \in Nat
    BY DEF IInv, TypeOK, Rows
  <1>7. pc' = "load" => LoadInv'
    BY <1>1, <1>6 DEF LoadInv, InUse
  <1>8. LoadGivesSave'
    BY <1>1 DEF LoadGivesSave
  <1> QED
    BY <1>1, <1>4, <1>5, <1>7, <1>8, FilesUnchanged DEF IInv, Saving

\* The rows of f that were loaded are all that f has and should have.
LEMMA LoadEndStep ==
    ASSUME IInv, LoadEnd
    PROVE  IInv'
  <1> DEFINE h == job.target  f == job.file
             r == IF job.done = handle[h].sample THEN 0 ELSE -5
  <1>1. /\ pc = "load" /\ job \in LoadJobs
        /\ pc' = "returned" /\ job' = [job EXCEPT !.ret = r]
        /\ UNCHANGED <<meta, bin, handle, buffer, image, suspect>>
    BY DEF LoadEnd, Done, IInv, TypeOK
  <1>2. /\ h \in Handles /\ f \in Files /\ job.done \in Nat
        /\ job' \in LoadJobs
        /\ job'.target = h /\ job'.file = f /\ job'.ret = r
    BY <1>1 DEF LoadJobs
  <1>3. TypeOK'
    BY <1>1, <1>2 DEF IInv, TypeOK, IsMapped
  <1>4. \A k \in Handles : MappedInv(k)'
    BY <1>1 DEF IInv, MappedInv, IsMapped, InUse
  <1>5. ASSUME job.done = handle[h].sample,
               IsMapped(h) => ~suspect[handle[h].file]
        PROVE  View(h) = image[f]
    <2>1. LoadInv /\ BinInv(f) /\ MetaInv(f) /\ TypeOK
      BY <1>1, <1>2 DEF IInv
    <2>2. View(h) \in Rows /\ Len(View(h)) = handle[h].sample /\ handle[h].sample \in Nat
      BY <1>2, <2>1, ViewIsRows, HandleType
    <2>3. image[f] \in Rows /\ Len(image[f]) \in Nat /\ Len(bin[f]) \in Nat
      BY <1>2, <2>1 DEF TypeOK, Rows
    <2>4. handle[h].sample = Len(image[f]) /\ Len(bin[f]) = Len(image[f])
      BY <1>5, <2>1, <2>2, <2>3 DEF LoadInv, InUse, BinInv, MetaInv
    <2>5. \A l \in 1 .. Len(image[f]) : View(h)[l] = bin[f][l] /\ bin[f][l] = image[f][l]
      BY <1>5, <2>1, <2>4 DEF LoadInv, BinInv
    <2> QED
      BY <2>2, <2>3, <2>4, <2>5, SeqEqual DEF Rows
  <1>6. LoadGivesSave'
    BY <1>1, <1>2, <1>5 DEF LoadGivesSave, View, IsMapped, Reaches
  <1> QED
    BY <1>1, <1>3, <1>4, <1>6, FilesUnchanged DEF IInv, Saving

\* fread of one more row.
LEMMA LoadRowStep ==
    ASSUME IInv, LoadRow
    PROVE  IInv'
  <1> DEFINE h == job.target  f == job.file  l == job.done + 1
  <1>1. /\ pc = "load" /\ job \in LoadJobs /\ TypeOK /\ LoadInv
        /\ l <= handle[h].sample /\ l <= Len(bin[f])
        /\ SetRow(h, l, bin[f][l])
        /\ job' = [job EXCEPT !.done = l]
        /\ UNCHANGED <<meta, pc, buffer, suspect>>
    BY DEF LoadRow, IInv, TypeOK
  <1>2. /\ h \in Handles /\ f \in Files /\ job.done \in Nat /\ l \in Nat
        /\ job' \in LoadJobs
        /\ job'.target = h /\ job'.file = f /\ job'.done = l /\ job'.ret = job.ret
    BY <1>1 DEF LoadJobs
  <1>3. handle[h].sample \in Nat /\ bin[f] \in Rows
    BY <1>1, <1>2, HandleType DEF TypeOK
  <1>4. l \in 1 .. handle[h].sample /\ bin[f][l] \in Values
    BY <1>1, <1>2, <1>3, ElementOfSeq DEF Rows
  <1>5. /\ bin' \in [Files -> Rows]
        /\ image' \in [Files -> Rows]
        /\ handle' \in [Handles -> [file : Files \cup {"none"}, rows : Rows,
                                    sample : Samples \cup {0}]]
        /\ \A g \in Files : Len(bin'[g]) = Len(bin[g]) /\ BinInv(g)' /\ MetaInv(g)'
        /\ \A k \in Handles : /\ Len(handle'[k].rows) = Len(handle[k].rows)
                              /\ handle'[k].file = handle[k].file
                              /\ handle'[k].sample = handle[k].sample
                              /\ MappedInv(k)'
    BY <1>1, <1>2, <1>4, SetRowKeeps
  <1>6. TypeOK'
    BY <1>1, <1>2, <1>5 DEF TypeOK, IsMapped
  <1>7. ASSUME IsMapped(h) => ~suspect[handle[h].file],
               NEW k \in 1 .. l
        PROVE  View(h)'[k] = bin'[f][k]
    <2>1. k < l => View(h)[k] = bin[f][k]
      BY <1>1, <1>2, <1>7 DEF LoadInv
    <2>2. k \in 1 .. handle[h].sample
      BY <1>1, <1>2, <1>3
    <2>3. View(h)[k] = IF ~IsMapped(h) THEN handle[h].rows[k]
                       ELSE IF k <= Len(bin[handle[h].file]) THEN bin[handle[h].file][k] ELSE 0
      BY <1>1, <1>2, <2>2, ViewRow
    <2>4. CASE ~IsMapped(h)
      <3>1. handle' = [handle EXCEPT ![h].rows[l] = bin[f][l]] /\ bin' = bin
        BY <1>1, <2>4 DEF SetRow
      <3>2. handle[h].rows \in Rows /\ Len(handle[h].rows) = handle[h].sample
        BY <1>1, <1>2, <2>4, HandleType DEF IsMapped
      <3>3. handle'[h].rows = [handle[h].rows EXCEPT ![l] = bin[f][l]]
        BY <1>1, <1>2, <3>1 DEF TypeOK
      <3>4. handle'[h].rows[k] = IF k = l THEN bin[f][l] ELSE handle[h].rows[k]
        BY <1>4, <2>2, <3>2, <3>3, ExceptSeq DEF Rows
      <3>5. View(h)' = handle'[h].rows
        BY <1>2, <1>5, <2>4 DEF View, IsMapped
      <3> QED
        BY <1>2, <2>1, <2>3, <2>4, <3>1, <3>4, <3>5
    <2>5. CASE IsMapped(h)
      <3> DEFINE g == handle[h].file
      <3>1. g \in Files /\ bin[g] \in Rows /\ Len(bin[g]) = handle[h].sample
        BY <1>1, <1>2, <1>7, <2>5 DEF IsMapped, IInv, MappedInv, TypeOK
      <3>2. bin' = [bin EXCEPT ![g][l] = bin[f][l]]
        BY <1>1, <1>4, <2>5, <3>1 DEF SetRow, Reaches
      <3>3. bin' = [bin EXCEPT ![g] = [bin[g] EXCEPT ![l] = bin[f][l]]]
        BY <3>2
      <3>4. /\ l \in 1 .. Len(bin[g]) /\ k \in 1 .. Len(bin[g])
            /\ bin'[g] = [bin[g] EXCEPT ![l] = bin[f][l]]
        BY <1>1, <1>4, <2>2, <3>1, <3>3 DEF TypeOK
      <3>5. bin'[g][k] = IF k = l THEN bin[f][l] ELSE bin[g][k]
        BY <1>4, <3>1, <3>4, ExceptSeq DEF Rows
      <3>6. bin'[f][k] = bin[f][k]
        BY <1>1, <1>2, <3>1, <3>3, <3>5 DEF TypeOK
      <3>7. View(h)'[k] = bin'[g][k]
        BY <1>2, <1>5, <2>2, <2>5, <3>1 DEF View, IsMapped, Reaches
      <3> QED
        BY <1>2, <2>1, <2>3, <2>5, <3>1, <3>4, <3>5, <3>6, <3>7
    <2> QED
      BY <2>4, <2>5
  <1>8. LoadInv'
    <2>1. /\ InUse(h)'
          /\ handle'[job'.target].sample = meta'[job'.file]
          /\ job'.ret = 0
          /\ job'.done <= Len(bin'[job'.file])
      BY <1>1, <1>2, <1>5 DEF LoadInv, InUse
    <2>2. (IsMapped(h) => ~suspect[handle[h].file])'
             => (IsMapped(h) => ~suspect[handle[h].file])
      BY <1>1, <1>2, <1>5 DEF IsMapped
    <2>3. (IsMapped(h) => ~suspect[handle[h].file])'
             => \A k \in 1 .. job'.done : View(h)'[k] = bin'[job'.file][k]
      BY <1>2, <1>7, <2>2
    <2> QED
      BY <2>1, <2>3 DEF LoadInv
  <1> QED
    BY <1>1, <1>5, <1>6, <1>8 DEF IInv, Saving, LoadGivesSave

\* What is known of a save that has opened .bin.
LEMMA SavingFacts ==
    ASSUME IInv, Saving
    PROVE  /\ job \in SaveJobs
           /\ job.file \in Files /\ job.source \in Handles \cup {"zeros"}
           /\ job.sample \in Samples /\ job.sample \in Nat \ {0}
           /\ job.done \in Nat /\ job.failed \in BOOLEAN
           /\ job.done <= job.sample
           /\ bin[job.file] \in Rows /\ image[job.file] \in Rows /\ buffer \in Rows
           /\ Len(bin[job.file]) \in Nat /\ Len(image[job.file]) \in Nat /\ Len(buffer) \in Nat
           /\ suspect[job.file]
           /\ SaveInv /\ SourceInv /\ TypeOK
  <1>1. TypeOK /\ SaveInv /\ SourceInv
    BY DEF IInv
  <1>2. job \in SaveJobs /\ job.done <= job.sample
    BY <1>1 DEF TypeOK, Saving
  <1>3. /\ job.file \in Files /\ job.source \in Handles \cup {"zeros"}
        /\ job.sample \in Samples /\ job.sample \in Nat \ {0}
        /\ job.done \in Nat /\ job.failed \in BOOLEAN
    BY <1>2, SamplesAssumption DEF SaveJobs
  <1>4. bin[job.file] \in Rows /\ image[job.file] \in Rows /\ buffer \in Rows
    BY <1>1, <1>3 DEF TypeOK
  <1>5. Len(bin[job.file]) \in Nat /\ Len(image[job.file]) \in Nat /\ Len(buffer) \in Nat
    BY <1>4 DEF Rows
  <1>6. suspect[job.file]
    BY <1>1 DEF SaveInv
  <1> QED
    BY <1>1, <1>2, <1>3, <1>4, <1>5, <1>6

\* What a save writes.
LEMMA SourceIsRows ==
    ASSUME TypeOK, job \in SaveJobs,
           job.source \in Handles => handle[job.source].sample = job.sample
    PROVE  SourceRows \in Rows /\ Len(SourceRows) = job.sample
  <1>1. job.sample \in Nat
    BY SamplesAssumption DEF SaveJobs
  <1> QED
    BY <1>1, ViewIsRows, ZerosAreRows DEF SourceRows

\* fopen(bin, "w"): no row of the file is there, none is written.
LEMMA OpenBinStep ==
    ASSUME IInv, OpenBin
    PROVE  IInv'
  <1> DEFINE f == job.file  h == job.source
  <1>1. /\ pc = "open_bin" /\ job \in SaveJobs /\ TypeOK /\ OpenInv /\ buffer = <<>>
        /\ bin' = [bin EXCEPT ![f] = <<>>]
        /\ image' = [image EXCEPT ![f] = SourceRows]
        /\ suspect' = [suspect EXCEPT ![f] = TRUE]
        /\ pc' = "rows"
        /\ UNCHANGED <<meta, handle, job, buffer>>
    BY DEF OpenBin, IInv, TypeOK
  <1>2. /\ f \in Files /\ job.sample \in Nat \ {0}
        /\ job.done = 0 /\ ~job.failed /\ meta[f] = 0
        /\ h \in Handles => handle[h].sample = job.sample
    BY <1>1, SamplesAssumption DEF SaveJobs, OpenInv
  <1>3. <<>> \in Rows /\ Len(<<>>) = 0
    BY EmptySeq DEF Rows
  <1>4. SourceRows \in Rows /\ Len(SourceRows) = job.sample
    BY <1>1, <1>2, SourceIsRows
  <1>5. /\ bin'[f] = <<>> /\ image'[f] = SourceRows /\ suspect'[f] = TRUE
        /\ \A g \in Files \ {f} :
               bin'[g] = bin[g] /\ image'[g] = image[g] /\ suspect'[g] = suspect[g]
    BY <1>1, <1>2 DEF TypeOK
  <1>6. TypeOK'
    BY <1>1, <1>2, <1>3, <1>4 DEF TypeOK, IsMapped
  <1>7. ASSUME NEW g \in Files
        PROVE  BinInv(g)' /\ MetaInv(g)'
    <2>1. CASE g = f
      BY <1>1, <1>2, <1>3, <1>4, <1>5, <2>1 DEF BinInv, MetaInv
    <2>2. CASE g # f
      BY <1>1, <1>5, <2>2 DEF IInv, BinInv, MetaInv
    <2> QED
      BY <2>1, <2>2
  <1>8. \A k \in Handles : MappedInv(k)'
    BY <1>1, <1>2, <1>5 DEF IInv, MappedInv, IsMapped, InUse
  <1>9. SaveInv'
    BY <1>1, <1>2, <1>3, <1>4, <1>5 DEF SaveInv
  <1>10. SourceInv'
    <2>1. CASE h \notin Handles
      <3>1. SourceRows = Zeros(job.sample)
        BY <2>1 DEF SourceRows
      <3>2. \A l \in 1 .. job.sample : Zeros(job.sample)[l] = 0
        BY DEF Zeros
      <3> QED
        BY <1>1, <1>5, <2>1, <3>1, <3>2 DEF SourceInv
    <2>2. CASE h \in Handles /\ handle[h].file = f
      BY <1>1, <1>2, <1>5, <2>2 DEF SourceInv
    <2>3. CASE h \in Handles /\ handle[h].file # f
      <3>1. View(h)' = View(h)
        BY <1>1, <1>5, <2>3 DEF View, IsMapped, Reaches
      <3>2. SourceRows = View(h)
        BY <2>3 DEF SourceRows
      <3> QED
        BY <1>1, <1>2, <1>5, <2>3, <3>1, <3>2 DEF SourceInv
    <2> QED
      BY <2>1, <2>2, <2>3
  <1> QED
    BY <1>1, <1>6, <1>7, <1>8, <1>9, <1>10 DEF IInv, LoadGivesSave

\* fwrite of one more row.
LEMMA WriteRowStep ==
    ASSUME IInv, WriteRow
    PROVE  IInv'
  <1> DEFINE f == job.file  h == job.source  l == job.done + 1
             readable == h \in Handles => Accessible(h, l)
             sure == h \in Handles => Reaches(h, l)
  <1>1. /\ pc = "rows" /\ pc' = "rows" /\ Saving /\ l <= job.sample
        /\ UNCHANGED <<meta, bin, handle, image, suspect>>
        /\ \/ readable /\ buffer' = Append(buffer, SourceRows[l]) /\ job' = [job EXCEPT !.done = l]
           \/ ~sure /\ buffer' = buffer /\ job' = [job EXCEPT !.done = l, !.failed = TRUE]
    BY DEF WriteRow, Saving
  <1>2. /\ job \in SaveJobs /\ f \in Files /\ h \in Handles \cup {"zeros"}
        /\ job.sample \in Samples /\ job.sample \in Nat \ {0}
        /\ job.done \in Nat /\ job.failed \in BOOLEAN
        /\ bin[f] \in Rows /\ image[f] \in Rows /\ buffer \in Rows
        /\ Len(bin[f]) \in Nat /\ Len(buffer) \in Nat
        /\ SaveInv /\ SourceInv /\ TypeOK
    BY <1>1, SavingFacts
  <1>3. l \in 1 .. job.sample
    BY <1>1, <1>2
  <1>4. /\ job' \in SaveJobs /\ job'.done = l /\ job'.done <= job'.sample
        /\ job'.file = f /\ job'.source = h /\ job'.sample = job.sample
    <2>1. job' \in SaveJobs /\ job'.done = l
          /\ job'.file = f /\ job'.source = h /\ job'.sample = job.sample
      <3>1. CASE job' = [job EXCEPT !.done = l]
        BY <1>2, <3>1 DEF SaveJobs
      <3>2. CASE job' = [job EXCEPT !.done = l, !.failed = TRUE]
        <4>1. [job EXCEPT !.done = l] \in SaveJobs
          BY <1>2 DEF SaveJobs
        <4>2. [[job EXCEPT !.done = l] EXCEPT !.failed = TRUE] \in SaveJobs
          BY <4>1 DEF SaveJobs
        <4> QED
          BY <1>2, <3>2, <4>2 DEF SaveJobs
      <3> QED
        BY <1>1, <3>1, <3>2
    <2> QED
      BY <1>1, <2>1
  <1>5. SourceRows \in Rows /\ Len(SourceRows) = job.sample
    BY <1>2, SourceIsRows DEF SourceInv
  <1>6. SourceRows[l] \in Values
    BY <1>3, <1>5, ElementOfSeq DEF Rows
  <1>7. Append(buffer, SourceRows[l]) \in Rows
    BY <1>2, <1>6, AppendProperties DEF Rows
  <1>8. TypeOK'
    BY <1>1, <1>2, <1>4, <1>7 DEF TypeOK, IsMapped
  <1>9. \A k \in Handles : MappedInv(k)'
    BY <1>1 DEF IInv, MappedInv, IsMapped, InUse
  <1>10. CASE readable /\ buffer' = Append(buffer, SourceRows[l]) /\ job' = [job EXCEPT !.done = l]
    <2>1. /\ Len(buffer') = Len(buffer) + 1
          /\ \A i \in 1 .. Len(buffer) : buffer'[i] = buffer[i]
          /\ buffer'[Len(buffer) + 1] = SourceRows[l]
      BY <1>2, <1>6, <1>10, AppendProperties DEF Rows
    <2>2. job'.failed = job.failed
      BY <1>2, <1>10 DEF SaveJobs
    <2>3. h \in Handles => handle[h].file # f
      <3> SUFFICES ASSUME h \in Handles, handle[h].file = f PROVE FALSE
        OBVIOUS
      <3>1. bin[f] = <<>> /\ IsMapped(h)
        BY <1>2 DEF SourceInv, IsMapped
      <3>2. ~(l <= Len(<<>>))
        BY <1>2
      <3> QED
        BY <1>10, <3>1, <3>2 DEF Accessible
    <2>4. SourceRows[l] = image[f][l]
      BY <1>2, <1>3, <2>3 DEF SourceRows, SourceInv, Zeros
    <2>5. SaveInv'
      <3> DEFINE b == Len(bin[f])  n == Len(buffer)
      <3>1. /\ b \in Nat /\ n \in Nat /\ suspect[f] /\ Len(image[f]) = job.sample
            /\ meta[f] = 0 /\ b + n <= job.done
            /\ job.failed => b + n < job.done
            /\ ~job.failed => /\ b + n = job.done
                              /\ \A i \in 1 .. b : bin[f][i] = image[f][i]
                              /\ \A i \in 1 .. n : buffer[i] = image[f][b + i]
        BY <1>1, <1>2 DEF SaveInv
      <3>2. ~job.failed => buffer'[n + 1] = image[f][b + (n + 1)]
        <4> SUFFICES ASSUME ~job.failed PROVE buffer'[n + 1] = image[f][b + (n + 1)]
          OBVIOUS
        <4>1. b + n = job.done
          BY <3>1
        <4> HIDE DEF b, n
        <4>2. b + (n + 1) = l
          BY <1>2, <3>1, <4>1
        <4> QED
          BY <2>1, <2>4, <4>2 DEF n
      <3>3. ~job.failed => \A i \in 1 .. n + 1 : buffer'[i] = image[f][b + i]
        <4> SUFFICES ASSUME ~job.failed, NEW i \in 1 .. n + 1
                     PROVE  buffer'[i] = image[f][b + i]
          OBVIOUS
        <4>1. CASE i \in 1 .. n
          BY <2>1, <3>1, <4>1
        <4>2. CASE i = n + 1
          BY <3>2, <4>2
        <4> QED
          BY <3>1, <4>1, <4>2
      <3>4. /\ b + (n + 1) <= l
            /\ job.failed => b + (n + 1) < l
            /\ ~job.failed => b + (n + 1) = l
        <4> HIDE DEF b, n
        <4>1. b + n <= job.done => b + (n + 1) <= l
          BY <1>2, <3>1
        <4>2. b + n < job.done => b + (n + 1) < l
          BY <1>2, <3>1
        <4>3. b + n = job.done => b + (n + 1) = l
          BY <1>2, <3>1
        <4> QED
          BY <3>1, <4>1, <4>2, <4>3
      <3>5. /\ Len(bin'[job'.file]) = b /\ Len(buffer') = n + 1
            /\ job'.done = l /\ job'.failed = job.failed
            /\ bin'[job'.file] = bin[f] /\ image'[job'.file] = image[f]
        BY <1>1, <1>4, <2>1, <2>2
      <3>6. /\ suspect'[job'.file] /\ Len(image'[job'.file]) = job'.sample
            /\ meta'[job'.file] = 0
        BY <1>1, <1>4, <3>1
      <3> HIDE DEF b, n, l
      <3>7. /\ Len(bin'[job'.file]) + Len(buffer') <= job'.done
            /\ job'.failed => Len(bin'[job'.file]) + Len(buffer') < job'.done
        BY <3>4, <3>5
      <3>8. ~job'.failed =>
                /\ Len(bin'[job'.file]) + Len(buffer') = job'.done
                /\ \A i \in 1 .. Len(bin'[job'.file]) : bin'[job'.file][i] = image'[job'.file][i]
                /\ \A i \in 1 .. Len(buffer') :
                       buffer'[i] = image'[job'.file][Len(bin'[job'.file]) + i]
        <4> SUFFICES ASSUME ~job.failed
                     PROVE  /\ b + (n + 1) = l
                            /\ \A i \in 1 .. b : bin[f][i] = image[f][i]
                            /\ \A i \in 1 .. n + 1 : buffer'[i] = image[f][b + i]
          BY <3>5
        <4> QED
          BY <3>1, <3>3, <3>4
      <3> QED
        BY <1>1, <3>6, <3>7, <3>8 DEF SaveInv
    <2>6. SourceInv'
      <3>1. View(h)' = View(h)
        BY <1>1, <1>4 DEF View, IsMapped, Reaches
      <3> QED
        BY <1>1, <1>2, <1>4, <2>3, <3>1 DEF SourceInv
    <2> QED
      BY <1>1, <1>8, <1>9, <2>5, <2>6, FilesUnchanged DEF IInv, LoadGivesSave
  <1>11. CASE ~sure /\ buffer' = buffer /\ job' = [job EXCEPT !.done = l, !.failed = TRUE]
    <2>1. job'.failed = TRUE
      BY <1>2, <1>11 DEF SaveJobs
    <2>2. SaveInv'
      BY <1>1, <1>2, <1>4, <1>11, <2>1 DEF SaveInv
    <2>3. View(h)' = View(h)
      BY <1>1, <1>4 DEF View, IsMapped, Reaches
    <2>4. SourceInv'
      BY <1>1, <1>2, <1>4, <1>11, <2>1, <2>3 DEF SourceInv
    <2> QED
      BY <1>1, <1>8, <1>9, <2>2, <2>4, FilesUnchanged DEF IInv, LoadGivesSave
  <1> QED
    BY <1>1, <1>10, <1>11

\* The rows a save has still to write, whose source is not cut off.
LEMMA BufferedRow ==
    ASSUME IInv, buffer # <<>>
    PROVE  /\ Saving
           /\ Len(buffer) \in Nat \ {0} /\ Head(buffer) \in Values
           /\ Tail(buffer) \in Rows /\ Len(Tail(buffer)) = Len(buffer) - 1
           /\ Head(buffer) = buffer[1]
           /\ \A i \in 1 .. Len(buffer) - 1 : Tail(buffer)[i] = buffer[i + 1]
           /\ job.source \in Handles => handle[job.source].file # job.file
  <1>1. Saving /\ buffer \in Rows
    BY DEF IInv, TypeOK, Saving
  <1>2. SourceInv
    BY <1>1, SavingFacts
  <1>3. Len(buffer) \in Nat \ {0}
    BY <1>1, EmptySeq DEF Rows
  <1>4. /\ Head(buffer) \in Values
        /\ Tail(buffer) \in Rows /\ Len(Tail(buffer)) = Len(buffer) - 1
        /\ \A i \in 1 .. Len(Tail(buffer)) : Tail(buffer)[i] = buffer[i + 1]
    BY <1>1, HeadTailProperties DEF Rows
  <1>5. Head(buffer) = buffer[1]
    BY <1>1 DEF Rows
  <1> QED
    BY <1>1, <1>2, <1>3, <1>4, <1>5 DEF SourceInv

\* A row is lost: from here on the save does not end well.
LEMMA FlushFailsStep ==
    ASSUME IInv, FlushFails
    PROVE  IInv'
  <1> DEFINE f == job.file  h == job.source
  <1>1. /\ buffer # <<>> /\ buffer' = Tail(buffer)
        /\ job' = [job EXCEPT !.failed = TRUE]
        /\ UNCHANGED <<meta, bin, handle, pc, image, suspect>>
    BY DEF FlushFails
  <1>2. /\ Saving /\ Saving'
        /\ Tail(buffer) \in Rows /\ Len(Tail(buffer)) = Len(buffer) - 1
        /\ h \in Handles => handle[h].file # f
    BY <1>1, BufferedRow DEF Saving
  <1>3. /\ job \in SaveJobs /\ job.done \in Nat /\ job.done <= job.sample
        /\ Len(bin[f]) \in Nat /\ Len(buffer) \in Nat
        /\ SaveInv /\ SourceInv /\ TypeOK
    BY <1>2, SavingFacts
  <1>4. /\ job' \in SaveJobs /\ job'.failed = TRUE /\ job'.done = job.done
        /\ job'.file = f /\ job'.source = h /\ job'.sample = job.sample
    BY <1>1, <1>3 DEF SaveJobs
  <1>5. TypeOK'
    BY <1>1, <1>2, <1>3, <1>4 DEF TypeOK, IsMapped, Saving
  <1>6. \A k \in Handles : MappedInv(k)'
    BY <1>1 DEF IInv, MappedInv, IsMapped, InUse
  <1>7. SaveInv'
    BY <1>1, <1>2, <1>3, <1>4 DEF SaveInv
  <1>8. View(h)' = View(h)
    BY <1>1, <1>4 DEF View, IsMapped, Reaches
  <1>9. SourceInv'
    BY <1>1, <1>2, <1>3, <1>4, <1>8 DEF SourceInv
  <1> QED
    BY <1>1, <1>2, <1>5, <1>6, <1>7, <1>9, FilesUnchanged DEF IInv, LoadGivesSave, Saving

\* fclose(fp1).
LEMMA CloseMetaStep ==
    ASSUME IInv, CloseMeta
    PROVE  IInv'
  <1> DEFINE f == job.file  h == job.source
  <1>1. /\ pc = "rows" /\ Saving /\ job.done = job.sample
        /\ meta' = [meta EXCEPT ![f] = job.sample]
        /\ pc' = "close_bin"
        /\ UNCHANGED <<bin, handle, job, buffer, image, suspect>>
    BY DEF CloseMeta, Saving
  <1>2. /\ job \in SaveJobs /\ f \in Files /\ job.sample \in Samples
        /\ job.sample \in Nat \ {0} /\ job.done \in Nat /\ job.done <= job.sample
        /\ Len(bin[f]) \in Nat /\ Len(buffer) \in Nat /\ suspect[f]
        /\ SaveInv /\ SourceInv /\ TypeOK
    BY <1>1, SavingFacts
  <1>3. /\ meta'[f] = job.sample /\ \A g \in Files \ {f} : meta'[g] = meta[g]
    BY <1>1, <1>2 DEF TypeOK
  <1>4. Len(image[f]) = job.sample /\ Len(bin[f]) <= job.sample
    BY <1>1, <1>2 DEF SaveInv
  <1>5. TypeOK'
    BY <1>1, <1>2, <1>3, <1>4 DEF TypeOK, IsMapped
  <1>6. \A g \in Files : BinInv(g)' /\ MetaInv(g)'
    BY <1>1, <1>2, <1>3, <1>4 DEF IInv, BinInv, MetaInv
  <1>7. \A k \in Handles : MappedInv(k)'
    BY <1>1 DEF IInv, MappedInv, IsMapped, InUse
  <1>8. SaveInv'
    BY <1>1, <1>2, <1>3 DEF SaveInv
  <1>9. View(h)' = View(h)
    BY <1>1 DEF View, IsMapped, Reaches
  <1>10. SourceInv'
    BY <1>1, <1>2, <1>9 DEF SourceInv
  <1> QED
    BY <1>1, <1>5, <1>6, <1>7, <1>8, <1>10 DEF IInv, LoadGivesSave, Saving

\* The header is lost.
LEMMA CloseMetaFailsStep ==
    ASSUME IInv, CloseMetaFails
    PROVE  IInv'
  <1>1. /\ pc = "rows" /\ Saving /\ job.done = job.sample
        /\ pc' = "close_bin"
        /\ UNCHANGED <<meta, bin, handle, job, buffer, image, suspect>>
    BY DEF CloseMetaFails, Saving
  <1>2. SaveInv /\ SourceInv /\ TypeOK /\ job \in SaveJobs /\ job.done <= job.sample
    BY <1>1, SavingFacts
  <1>3. TypeOK'
    BY <1>1, <1>2 DEF TypeOK, IsMapped
  <1>4. \A g \in Files : BinInv(g)' /\ MetaInv(g)'
    BY <1>1 DEF IInv, BinInv, MetaInv
  <1>5. \A k \in Handles : MappedInv(k)' /\ View(k)' = View(k)
    BY <1>1 DEF IInv, MappedInv, IsMapped, InUse, View, Reaches
  <1>6. SaveInv'
    BY <1>1, <1>2 DEF SaveInv
  <1>7. SourceInv'
    BY <1>1, <1>2, <1>5 DEF SourceInv
  <1> QED
    BY <1>1, <1>3, <1>4, <1>5, <1>6, <1>7 DEF IInv, LoadGivesSave, Saving

\* fclose(fp2): if nothing failed, .bin has as many rows as the header says.
LEMMA CloseBinStep ==
    ASSUME IInv, CloseBin
    PROVE  IInv'
  <1> DEFINE f == job.file
             bad == \/ meta[f] = 0 \/ job.failed
                    \/ \E k \in Handles : handle[k].file = f
  <1>1. /\ pc = "close_bin" /\ Saving /\ buffer = <<>>
        /\ suspect' = [suspect EXCEPT ![f] = bad]
        /\ pc' = "returned" /\ job' = [job EXCEPT !.ret = 0]
        /\ UNCHANGED <<meta, bin, handle, buffer, image>>
    BY DEF CloseBin, Done, Saving
  <1>2. /\ job \in SaveJobs /\ f \in Files /\ job.sample \in Nat \ {0}
        /\ job.failed \in BOOLEAN
        /\ Len(bin[f]) \in Nat /\ SaveInv /\ TypeOK
    BY <1>1, SavingFacts
  <1>3. job' \in SaveJobs /\ job'.op = "save"
    BY <1>1, <1>2 DEF SaveJobs
  <1>4. /\ suspect'[f] = bad /\ \A g \in Files \ {f} : suspect'[g] = suspect[g]
        /\ suspect' \in [Files -> BOOLEAN]
    BY <1>1, <1>2 DEF TypeOK
  <1>5. TypeOK'
    BY <1>1, <1>2, <1>3, <1>4 DEF TypeOK, IsMapped
  <1>6. ~bad => Len(bin[f]) = meta[f]
    <2>1. Len(<<>>) = 0
      OBVIOUS
    <2> QED
      BY <1>1, <1>2, <2>1 DEF SaveInv
  <1>7. \A g \in Files : BinInv(g)'
    BY <1>1 DEF IInv, BinInv
  <1>8. \A g \in Files : MetaInv(g)'
    BY <1>1, <1>4, <1>6 DEF IInv, MetaInv
  <1>9. \A k \in Handles : MappedInv(k)'
    BY <1>1, <1>4 DEF IInv, MappedInv, IsMapped, InUse
  <1> QED
    BY <1>1, <1>3, <1>5, <1>7, <1>8, <1>9 DEF IInv, LoadGivesSave, Saving

\* A row reaches the file.
LEMMA FlushStep ==
    ASSUME IInv, Flush
    PROVE  IInv'
  <1> DEFINE f == job.file  h == job.source
             b == Len(bin[f])  n == Len(buffer)
             longer == Append(bin[f], Head(buffer))
  <1>1. /\ buffer # <<>> /\ buffer' = Tail(buffer)
        /\ bin' = [bin EXCEPT ![f] = longer]
        /\ UNCHANGED <<meta, handle, pc, job, image, suspect>>
    BY DEF Flush
  <1>2. /\ Saving /\ Saving'
        /\ n \in Nat \ {0} /\ Head(buffer) \in Values /\ Head(buffer) = buffer[1]
        /\ Tail(buffer) \in Rows /\ Len(Tail(buffer)) = n - 1
        /\ \A i \in 1 .. n - 1 : Tail(buffer)[i] = buffer[i + 1]
        /\ h \in Handles => handle[h].file # f
    BY <1>1, BufferedRow DEF Saving
  <1>3. /\ job \in SaveJobs /\ f \in Files /\ job.sample \in Nat \ {0}
        /\ job.done \in Nat /\ job.failed \in BOOLEAN /\ job.done <= job.sample
        /\ bin[f] \in Rows /\ b \in Nat /\ suspect[f]
        /\ SaveInv /\ SourceInv /\ TypeOK
    BY <1>2, SavingFacts
  <1>4. /\ longer \in Rows /\ Len(longer) = b + 1
        /\ \A i \in 1 .. b : longer[i] = bin[f][i]
        /\ longer[b + 1] = buffer[1]
    BY <1>2, <1>3, AppendProperties DEF Rows
  <1>5. /\ bin'[f] = longer /\ \A g \in Files \ {f} : bin'[g] = bin[g]
        /\ bin' \in [Files -> Rows]
    BY <1>1, <1>3, <1>4 DEF TypeOK
  <1>6. /\ Len(image[f]) = job.sample
        /\ meta[f] \in {0} \cup IF pc = "rows" THEN {} ELSE {job.sample}
        /\ pc = "close_bin" => job.done = job.sample
        /\ b + n <= job.done
        /\ job.failed => b + n < job.done
        /\ ~job.failed => /\ b + n = job.done
                          /\ \A i \in 1 .. b : bin[f][i] = image[f][i]
                          /\ \A i \in 1 .. n : buffer[i] = image[f][b + i]
    BY <1>3 DEF SaveInv
  <1>7. b + 1 <= job.sample
    <2> HIDE DEF b, n
    <2> QED
      BY <1>2, <1>3, <1>6
  <1>8. ASSUME ~job.failed
        PROVE  /\ \A i \in 1 .. b + 1 : longer[i] = image[f][i]
               /\ \A i \in 1 .. n - 1 : Tail(buffer)[i] = image[f][(b + 1) + i]
    <2> HIDE DEF b, n, longer
    <2>1. longer[b + 1] = image[f][b + 1]
      BY <1>2, <1>4, <1>6, <1>8
    <2>2. \A i \in 1 .. b + 1 : longer[i] = image[f][i]
      BY <1>3, <1>4, <1>6, <1>8, <2>1
    <2>3. ASSUME NEW i \in 1 .. n - 1
          PROVE  Tail(buffer)[i] = image[f][(b + 1) + i]
      <3>1. i + 1 \in 1 .. n /\ (b + 1) + i = b + (i + 1)
        BY <1>2, <1>3
      <3>2. Tail(buffer)[i] = buffer[i + 1]
        BY <1>2
      <3>3. buffer[i + 1] = image[f][b + (i + 1)]
        BY <1>6, <1>8, <3>1
      <3> QED
        BY <3>1, <3>2, <3>3
    <2> QED
      BY <2>2, <2>3
  <1>9. TypeOK'
    BY <1>1, <1>2, <1>3, <1>4, <1>5, <1>6, <1>7 DEF TypeOK, IsMapped, Saving
  <1>10. BinInv(f)'
    <2>1. Len(longer) = Len(image[f]) => ~job.failed
      <3> HIDE DEF b, n, longer
      <3> QED
        BY <1>2, <1>3, <1>4, <1>6
    <2> QED
      BY <1>1, <1>4, <1>5, <1>6, <1>7, <1>8, <2>1 DEF BinInv
  <1>11. \A g \in Files : BinInv(g)' /\ MetaInv(g)'
    <2>1. ASSUME NEW g \in Files \ {f}
          PROVE  BinInv(g)' /\ MetaInv(g)'
      BY <1>1, <1>5 DEF IInv, BinInv, MetaInv
    <2>2. ASSUME NEW g \in Files, g = f
          PROVE  BinInv(g)' /\ MetaInv(g)'
      BY <1>1, <1>3, <1>10, <2>2 DEF IInv, BinInv, MetaInv
    <2> QED
      BY <2>1, <2>2
  <1>12. \A k \in Handles : MappedInv(k)'
    BY <1>1, <1>3, <1>5 DEF IInv, MappedInv, IsMapped, InUse
  <1>13. SaveInv'
    <2>1. /\ Len(bin'[job'.file]) = b + 1 /\ Len(buffer') = n - 1
          /\ bin'[job'.file] = longer
          /\ UNCHANGED <<meta, pc, job, image, suspect>>
      BY <1>1, <1>2, <1>4, <1>5
    <2> HIDE DEF b, n, longer
    <2>2. (b + 1) + (n - 1) = b + n
      BY <1>2, <1>3
    <2>3. /\ Len(bin'[job'.file]) + Len(buffer') <= job'.done
          /\ job'.failed => Len(bin'[job'.file]) + Len(buffer') < job'.done
      BY <1>6, <2>1, <2>2
    <2>4. ~job'.failed =>
              /\ Len(bin'[job'.file]) + Len(buffer') = job'.done
              /\ \A i \in 1 .. Len(bin'[job'.file]) : bin'[job'.file][i] = image'[job'.file][i]
              /\ \A i \in 1 .. Len(buffer') :
                     buffer'[i] = image'[job'.file][Len(bin'[job'.file]) + i]
      BY <1>1, <1>6, <1>8, <2>1, <2>2
    <2>5. /\ suspect'[job'.file] /\ Len(image'[job'.file]) = job'.sample
          /\ pc' = "close_bin" => job'.done = job'.sample
          /\ meta'[job'.file] \in {0} \cup IF pc' = "rows" THEN {} ELSE {job'.sample}
      BY <1>1, <1>3, <1>6
    <2> QED
      BY <2>3, <2>4, <2>5 DEF SaveInv
  <1>14. h \in Handles => View(h)' = View(h)
    BY <1>1, <1>2, <1>3, <1>5 DEF View, IsMapped, Reaches
  <1>15. SourceInv'
    BY <1>1, <1>2, <1>3, <1>14 DEF SourceInv
  <1> QED
    BY <1>1, <1>2, <1>9, <1>11, <1>12, <1>13, <1>15 DEF IInv, LoadGivesSave, Saving

\* Every step of every call, and a crash, keeps the invariant.
LEMMA NextIInv == IInv /\ [Next]_vars => IInv'
  <1> SUFFICES ASSUME IInv, [Next]_vars PROVE IInv'
    OBVIOUS
  <1>1. ASSUME NEW h \in Handles, counter_free(h) PROVE IInv'
    BY <1>1, FreeStep
  <1>2. ASSUME NEW h \in Handles, Change(h) PROVE IInv'
    BY <1>2, ChangeStep
  <1>3. ASSUME NEW h \in Handles, NEW n \in Samples, counter_init(h, n) PROVE IInv'
    BY <1>3, InitStep
  <1>4. ASSUME NEW h \in Handles, NEW f \in Files, counter_init_file(f, h) PROVE IInv'
    BY <1>4, InitFileStep
  <1>5. ASSUME NEW h \in Handles, NEW f \in Files, counter_save_file(h, f) PROVE IInv'
    <2>1. InUse(h) /\ OpenMeta(f, h, handle[h].sample)
      BY <1>5 DEF counter_save_file
    <2>2. handle[h].sample \in Samples
      BY <2>1, HandleType DEF IInv, InUse
    <2> QED
      BY <2>1, <2>2, OpenMetaStep
  <1>6. ASSUME NEW h \in Handles, NEW f \in Files, counter_load_file(h, f) PROVE IInv'
    BY <1>6, LoadStartStep
  <1>7. ASSUME NEW f \in Files, NEW n \in Samples, counter_create_file(f, n) PROVE IInv'
    BY <1>7, OpenMetaStep, NamesAssumption DEF counter_create_file
  <1>8. CASE OpenBin
    BY <1>8, OpenBinStep
  <1>9. CASE OpenBinFails
    BY <1>9, OpenBinFailsStep
  <1>10. CASE WriteRow
    BY <1>10, WriteRowStep
  <1>11. CASE Flush
    BY <1>11, FlushStep
  <1>12. CASE FlushFails
    BY <1>12, FlushFailsStep
  <1>13. CASE CloseMeta
    BY <1>13, CloseMetaStep
  <1>14. CASE CloseBin
    BY <1>14, CloseBinStep
  <1>15. CASE LoadRow
    BY <1>15, LoadRowStep
  <1>16. CASE LoadEnd
    BY <1>16, LoadEndStep
  <1>17. CASE Crash
    BY <1>17, CrashStep
  <1>18. CASE UNCHANGED vars
    <2>1. TypeOK'
      BY <1>18 DEF IInv, TypeOK, vars, IsMapped
    <2>2. \A k \in Handles : MappedInv(k)' /\ View(k)' = View(k)
      BY <1>18 DEF IInv, MappedInv, vars, IsMapped, InUse, View, Reaches
    <2>3. OpenInv' = OpenInv /\ SaveInv' = SaveInv
      BY <1>18 DEF vars, OpenInv, SaveInv
    <2>4. SourceInv' = SourceInv /\ LoadInv' = LoadInv /\ LoadGivesSave' = LoadGivesSave
      BY <1>18 DEF vars, SourceInv, LoadInv, LoadGivesSave, View, IsMapped, InUse, Reaches
    <2> QED
      BY <1>18, <2>1, <2>2, <2>3, <2>4, FilesUnchanged DEF IInv, vars, Saving
  <1>19. CASE CloseMetaFails
    BY <1>19, CloseMetaFailsStep
  <1> QED
    BY <1>1, <1>2, <1>3, <1>4, <1>5, <1>6, <1>7, <1>8, <1>9, <1>10, <1>11, <1>12, <1>13,
       <1>14, <1>15, <1>16, <1>17, <1>18, <1>19 DEF Next

\* The inductive invariant holds at every step of every behaviour.
THEOREM FilesInvariant == Spec => []IInv
  BY InitIInv, NextIInv, PTL DEF Spec

\* Every variable keeps its type, no loop of counter.c passes its bound, and a
\* .bin never gets more rows than its header says.
THEOREM FileTypesCorrect == Spec => []TypeOK
  <1>1. IInv => TypeOK
    BY DEF IInv
  <1> QED
    BY <1>1, FilesInvariant, PTL

\* Whatever was saved, changed, killed or lost before: if counter_load_file
\* returns 0 the counters are those of the last save of the file.
THEOREM LoadIsCorrect == Spec => []LoadGivesSave
  <1>1. IInv => LoadGivesSave
    BY DEF IInv
  <1> QED
    BY <1>1, FilesInvariant, PTL

\* counter_init_file, which does not look at the length of .bin, maps all rows
\* of the file and no more, if the last save of the file ended well.
THEOREM MappingIsCorrect == Spec => []MappedIsWhole
  <1>1. IInv => MappedIsWhole
    BY DEF IInv, MappedInv, MappedIsWhole
  <1> QED
    BY <1>1, FilesInvariant, PTL
==============================================================================
