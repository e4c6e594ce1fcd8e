----------------------------- MODULE AddressFile -----------------------------
(***************************************************************************)
(* The base64 files of address_space.c.  as_save_b64_file writes a header  *)
(* and one line for each hard location through stdio and looks at no       *)
(* error; as_init_from_b64_file reads a file back whose length it does not *)
(* know.                                                                   *)
(*                                                                         *)
(* The text of a file is a sequence of lines, and a line a sequence of      *)
(* pieces.  What is written as one line is one piece: "magic", the first   *)
(* line; "fields", the six lines of the header, the number of locations    *)
(* among them; "blank"; an address in each of the others.  stdio writes in *)
(* blocks that end anywhere in a line.  A piece that is not on disk in     *)
(* full is a "part"; if its end is missing and the file goes on, the line  *)
(* has more pieces.                                                        *)
(***************************************************************************)
EXTENDS Integers, Sequences, FiniteSetsExt

CONSTANTS
    Spaces,         \* address_space_s's of the program
    Samples,        \* numbers of hard locations it uses
    Values,         \* addresses
    RowBytes        \* bytes of one address in memory

HeaderLines == <<"magic", "fields", "blank">>
Junk == "junk"      \* an address that nobody has chosen

ASSUME SamplesAssumption == Samples \subseteq Nat \ {0}
ASSUME ValuesAssumption ==
    Values \cap {Junk, "part", "magic", "fields", "alien", "blank"} = {}
ASSUME RowBytesAssumption == RowBytes \in Nat \ {0}

VARIABLES
    text,           \* the lines of the file
    sample_field,   \* the "Sample" of its header, 0 if there is no file
    tail,           \* its last line: "whole", "begun", or "cut" for good
    space,          \* the addresses of each address_space_s
    pc,             \* where the program is
    job,            \* the call in progress or the one that has returned
    buffer,         \* lines of it that stdio has not written in full
    image,          \* history: the addresses of the last save
    suspect         \* history: that save did not end well

vars == <<text, sample_field, tail, space, pc, job, buffer, image, suspect>>

Addresses == Values \cup {Junk}
None == <<>>
NoJob == [op |-> "none"]

Init ==
    /\ text = <<>>
    /\ sample_field = 0
    /\ tail = "whole"
    /\ space = [s \in Spaces |-> None]
    /\ pc = "idle"
    /\ job = NoJob
    /\ buffer = <<>>
    /\ image = None
    /\ suspect = FALSE

\* The program makes one call at a time, and is started again when it is killed.
Idle == pc \in {"idle", "returned", "killed"}

AtOnce == pc' = "idle" /\ job' = NoJob

(* Calls that work in memory.                                               *)

as_init_random(s, n) ==
    /\ Idle
    /\ space[s] = None
    /\ \E rows \in [1 .. n -> Values] : space' = [space EXCEPT ![s] = rows]
    /\ AtOnce
    /\ UNCHANGED <<text, sample_field, tail, buffer, image, suspect>>

as_free(s) ==
    /\ Idle
    /\ space[s] # None
    /\ space' = [space EXCEPT ![s] = None]
    /\ AtOnce
    /\ UNCHANGED <<text, sample_field, tail, buffer, image, suspect>>

as_reset_address(s) ==
    /\ Idle
    /\ \E l \in DOMAIN space[s], v \in Values : space' = [space EXCEPT ![s][l] = v]
    /\ AtOnce
    /\ UNCHANGED <<text, sample_field, tail, buffer, image, suspect>>

(* as_save_b64_file.                                                        *)

\* Mutant: opened with "a" instead of "w".
as_save_b64_file_Appends(s) ==
    /\ Idle
    /\ space[s] # None
    /\ pc' = "saving"
    /\ job' = [op |-> "save", lost |-> FALSE]
    /\ sample_field' = Len(space[s])
    /\ buffer' = HeaderLines \o space[s]
    /\ image' = space[s]
    /\ suspect' = TRUE
    /\ UNCHANGED <<text, tail, space>>

\* fopen(filename, "w") and all of the fprintf's, which stdio buffers.
as_save_b64_file(s) ==
    /\ Idle
    /\ space[s] # None
    /\ pc' = "saving"
    /\ job' = [op |-> "save", lost |-> FALSE]
    /\ text' = <<>>
    /\ tail' = "whole"
    /\ sample_field' = Len(space[s])
    /\ buffer' = HeaderLines \o space[s]
    /\ image' = space[s]
    /\ suspect' = TRUE
    /\ UNCHANGED space

\* The text when a piece of the next line in buffer is written behind what is
\* there: a new line, more of the piece at the end, or another piece.
Written(piece) ==
    LET last == text[Len(text)]
    IN CASE tail = "whole" -> Append(text, <<piece>>)
         [] tail = "begun" /\ Len(last) = 1 -> [text EXCEPT ![Len(text)] = <<piece>>]
         [] tail = "begun" /\ Len(last) > 1 -> text
         [] tail = "cut" -> [text EXCEPT ![Len(text)] = Append(last, "part")]

\* A block of stdio's buffer ends in the middle of a line.
FlushPart ==
    /\ buffer # <<>>
    /\ Head(buffer) # "blank"
    /\ tail # "begun"
    /\ text' = Written("part")
    /\ tail' = "begun"
    /\ UNCHANGED <<sample_field, space, pc, job, buffer, image, suspect>>

\* A line is on disk up to its end.
Flush ==
    /\ buffer # <<>>
    /\ text' = Written(Head(buffer))
    /\ tail' = "whole"
    /\ buffer' = Tail(buffer)
    /\ UNCHANGED <<sample_field, space, pc, job, image, suspect>>

\* The disk is full, and a line is lost, or what is left of it.  Lines of the
\* header are lost together: they are shorter than a block.
LoseLine ==
    /\ buffer # <<>>
    /\ buffer' = IF Head(buffer) \in Addresses THEN Tail(buffer) ELSE image
    /\ tail' = IF tail = "begun" THEN "cut" ELSE tail
    /\ job' = [job EXCEPT !.lost = TRUE]
    /\ UNCHANGED <<text, sample_field, space, pc, image, suspect>>

\* The same, but what is lost ends before the line does.
LoseStart ==
    /\ buffer # <<>>
    /\ Head(buffer) \in Addresses
    /\ text' = Written("part")
    /\ tail' = "whole"
    /\ buffer' = Tail(buffer)
    /\ job' = [job EXCEPT !.lost = TRUE]
    /\ UNCHANGED <<sample_field, space, pc, image, suspect>>

\* Mutant: the file is not closed, and what stdio still has is not written.
CloseFile_Missing ==
    /\ pc = "saving"
    /\ suspect' = job.lost
    /\ pc' = "returned"
    /\ buffer' = <<>>
    /\ tail' = IF tail = "begun" THEN "cut" ELSE tail
    /\ UNCHANGED <<text, sample_field, space, job, image>>

\* fclose.  as_save_b64_file returns 0 whatever was lost.
CloseFile ==
    /\ pc = "saving"
    /\ buffer = <<>>
    /\ suspect' = job.lost
    /\ pc' = "returned"
    /\ UNCHANGED <<text, sample_field, tail, space, job, buffer, image>>

\* The file is replaced by one of another version, format or byte order.
Replace ==
    /\ Idle
    /\ \E n \in Samples, v \in Values :
           /\ text' = << <<"magic">>, <<"alien">>, <<"blank">> >> \o [l \in 1 .. n |-> <<v>>]
           /\ sample_field' = n
    /\ tail' = "whole"
    /\ image' = None
    /\ suspect' = TRUE
    /\ AtOnce
    /\ UNCHANGED <<space, buffer>>

(* as_init_from_b64_file.                                                   *)

HeaderIsWhole ==
    Len(text) >= 3 /\ SubSeq(text, 1, 3) = << <<"magic">>, <<"fields">>, <<"blank">> >>

\* The lines behind the header: each one is stored as an address.
BodyLines == SubSeq(text, 4, Len(text))

\* Base64 characters of an address, 3 bytes in 4 of them.  Padding, which ends a
\* line that is whole, is none of them.
Chars == (4 * RowBytes + 2) \div 3

\* How many bytes the decoder stores at most: those of all the characters of the
\* line, and a '\0' for the end of the string it takes them for.
Base64decode(line) == (3 * Len(line) * Chars) \div 4 + 1

\* The end of what is stored, counted from bs_data.
Stored ==
    LET End(l) == (l - 1) * RowBytes + Base64decode(BodyLines[l])
    IN Max({0} \cup {End(l) : l \in DOMAIN BodyLines})

\* An address whose line is damaged is made of a part of it, the address behind
\* it and what malloc found.
Decoded(line) == IF Head(line) = "part" THEN Junk ELSE Head(line)

Contents == [l \in DOMAIN BodyLines |-> Decoded(BodyLines[l])]

At(l, piece) == Len(text) >= l /\ Head(text[l]) = piece

\* The return codes of a file whose header is not whole.  No line at all leaves
\* the array "line" as it was, and a part may end where a header may.
HeaderCodes ==
    CASE text = <<>> -> IF sample_field = 0 THEN {-1} ELSE {-1, -6}
      [] text # <<>> /\ ~At(1, "magic") -> {-1}
      [] At(1, "magic") /\ Len(text) = 1 -> {-6}
      [] At(1, "magic") /\ At(2, "alien") -> {-2, -3, -4, -5}
      [] At(1, "magic") /\ At(2, "part") -> (-9 .. -2) \ {-7}
      [] At(1, "magic") /\ At(2, "fields") /\ (Len(text) = 2 \/ At(3, "part")) -> {-8, -9}
      [] OTHER -> {}

\* A line of the header without a colon or without an end kills the program.
HeaderKills ==
    /\ At(1, "magic")
    /\ \E l \in {2, 3}, piece \in Addresses \cup {"part"} : At(l, piece)

Loads(s, ret, end) ==
    /\ pc' = "returned"
    /\ job' = [op |-> "load", space |-> s, ret |-> ret, end |-> end]
    /\ UNCHANGED <<text, sample_field, tail, buffer, image, suspect>>

\* Mutant: only a file with too many lines is refused.
IsComplete_Short(cnt) == cnt <= sample_field

\* cnt == sample, tested when all lines are stored.
IsComplete(cnt) == cnt = sample_field

LoadWhole(s) ==
    /\ Idle
    /\ space[s] = None
    /\ HeaderIsWhole
    /\ IF IsComplete(Len(BodyLines))
       THEN Loads(s, 0, Stored) /\ space' = [space EXCEPT ![s] = Contents]
       ELSE Loads(s, -9, Stored) /\ UNCHANGED space       \* as_free

\* as_init finds no memory.
LoadFindsNoMemory(s) ==
    /\ Idle
    /\ space[s] = None
    /\ HeaderIsWhole
    /\ Loads(s, -8, 0)
    /\ UNCHANGED space

LoadStopsInHeader(s) ==
    /\ Idle
    /\ space[s] = None
    /\ ~HeaderIsWhole
    /\ \E ret \in HeaderCodes : Loads(s, ret, 0)
    /\ UNCHANGED space

LoadDies(s) ==
    /\ Idle
    /\ space[s] = None
    /\ ~HeaderIsWhole
    /\ HeaderKills
    /\ pc' = "killed"
    /\ job' = [op |-> "load", space |-> s]
    /\ space' = [t \in Spaces |-> None]
    /\ UNCHANGED <<text, sample_field, tail, buffer, image, suspect>>

as_init_from_b64_file(s) ==
    LoadWhole(s) \/ LoadFindsNoMemory(s) \/ LoadStopsInHeader(s) \/ LoadDies(s)

\* The program is killed: what stdio has not written is lost.
Crash ==
    /\ pc' = "killed"
    /\ job' = NoJob
    /\ space' = [s \in Spaces |-> None]
    /\ buffer' = <<>>
    /\ tail' = IF tail = "begun" THEN "cut" ELSE tail
    /\ UNCHANGED <<text, sample_field, image, suspect>>

Next ==
    \/ \E s \in Spaces :
           \/ \E n \in Samples : as_init_random(s, n)
           \/ as_free(s) \/ as_reset_address(s)
           \/ as_save_b64_file(s) \/ as_init_from_b64_file(s)
    \/ FlushPart \/ Flush \/ LoseLine \/ LoseStart \/ CloseFile
    \/ Replace \/ Crash

Spec == Init /\ [][Next]_vars

-----------------------------------------------------------------------------
\* Address spaces have one of the lengths the program uses, only a save in
\* progress has lines in its buffer, and only it leaves a line begun.
TypeOK ==
    /\ text \in Seq(Seq(Addresses \cup {"part", "magic", "fields", "alien", "blank"}) \ {<<>>})
    /\ sample_field \in Samples \cup {0}
    /\ tail \in {"whole", "begun", "cut"}
    /\ tail # "whole" => text # <<>>
    /\ space \in [Spaces -> Seq(Addresses)]
    /\ \A s \in Spaces : Len(space[s]) \in Samples \cup {0}
    /\ pc \in {"idle", "saving", "returned", "killed"}
    /\ buffer \in Seq(Addresses \cup {"magic", "fields", "blank"})
    /\ (buffer # <<>> \/ tail = "begun") => pc = "saving"
    /\ image \in Seq(Addresses)
    /\ suspect \in BOOLEAN

HasLoaded == pc = "returned" /\ job.op = "load"

\* When as_init_from_b64_file returns 0 the addresses are those of the last
\* save, in their places, whatever of it was lost; only if that save was killed
\* or ran out of space may some of them be damaged.
LoadGivesSave ==
    HasLoaded /\ job.ret = 0 =>
        /\ Len(space[job.space]) = Len(image)
        /\ \A l \in DOMAIN image :
               space[job.space][l] # image[l] => suspect /\ space[job.space][l] = Junk

\* What was saved well can be loaded: such a file is never refused for what is
\* in it, and never kills the program.
GoodSaveLoads ==
    ~suspect /\ text # <<>> =>
        /\ HasLoaded => job.ret \in {0, -8}
        /\ pc = "killed" => job = NoJob

\* as_init_from_b64_file stores the lines before it counts them.  Whatever is left of
\* a file of as_save_b64_file, what it stores ends where all characters of the file's
\* addresses would if they were one line; and with the table, but for one byte, when
\* it returns 0.
StoresEndNearTable ==
    HasLoaded =>
        /\ job.end <= (3 * sample_field * Chars) \div 4 + 1
        /\ job.ret = 0 => job.end <= sample_field * RowBytes + 1

\* docs/c-api.rst:54 asks for nothing but the bitstring's memory when one is
\* read from base64: nothing is stored behind it.
NothingBehindTable == HasLoaded => job.end <= sample_field * RowBytes
==============================================================================
