-------------------------- MODULE AddressFile_proofs --------------------------
(***************************************************************************)
(* What as_init_from_b64_file makes of a file is what was last saved in    *)
(* it, whatever was lost or killed then, and ends with the table: for any  *)
(* addresses, any numbers of them and any length.                          *)
(***************************************************************************)
EXTENDS AddressFile, SequenceTheorems, WellFoundedInduction, TLAPS

Pieces == Addresses \cup {"part", "magic", "fields", "alien", "blank"}
Lines == Seq(Pieces) \ {<<>>}

\* One more line is in the file than the save has finished.
Begun == IF tail = "begun" THEN 1 ELSE 0

\* What stdio has still to write is the last lines of the header, from line
\* h + 1 on, and all of the image; or it is the image but for its first n lines.
HeaderPends(h) ==
    /\ Len(buffer) = Len(image) + 3 - h
    /\ \A j \in 1 .. 3 - h : buffer[j] = HeaderLines[h + j]
    /\ \A j \in 1 .. Len(image) : buffer[3 - h + j] = image[j]

ImagePends(n) ==
    /\ Len(buffer) = Len(image) - n
    /\ \A j \in 1 .. Len(buffer) : buffer[j] = image[n + j]

\* The file is the first h lines of the header, and the next one may be begun.
HeaderWritten(h) ==
    /\ tail # "cut"
    /\ Len(text) = h + Begun
    /\ \A j \in 1 .. h : text[j] = <<HeaderLines[j]>>
    /\ tail = "begun" => text[h + 1] = <<"part">>

\* The lines behind a whole header when m lines of the image are written or
\* lost: no line has more pieces than there were lines but for the others, and if
\* there are as many lines, each one is its address or a part of it.
BodyFits(m) ==
    /\ Len(text) - 3 <= m
    /\ \A l \in 4 .. Len(text) : Len(text) - 4 + Len(text[l]) <= m

BodyDecodes(n) ==
    \A l \in 4 .. n + 3 : Head(text[l]) \in {image[l - 3], "part"}

BodyIsImage(n) ==
    \A l \in 4 .. n + 3 : text[l] = <<image[l - 3]>>

BodyInv(n) ==
    /\ BodyFits(n + Begun)
    /\ tail # "whole" => Len(text) > 3
    /\ Len(text) - 3 = n + Begun =>
           /\ BodyDecodes(n)
           /\ tail = "begun" => text[Len(text)] = <<"part">>
    /\ ~job.lost => /\ tail # "cut"
                    /\ Len(text) - 3 = n + Begun
                    /\ BodyIsImage(n)

\* During a save.
SaveInv ==
    pc = "saving" =>
        /\ job \in [op : {"save"}, lost : BOOLEAN]
        /\ suspect
        /\ Len(image) \in Samples
        /\ sample_field = Len(image)
        /\ \/ ~job.lost /\ \E h \in 0 .. 2 : HeaderPends(h) /\ HeaderWritten(h)
           \/ \E n \in 0 .. Len(image) :
                  /\ ImagePends(n)
                  /\ tail = "begun" => n < Len(image)
                  /\ HeaderIsWhole => BodyInv(n)
                  /\ ~job.lost => HeaderIsWhole

\* Between two calls: what any save, any number of crashes and any other program
\* can have left.
FileInv ==
    pc # "saving" =>
        /\ HeaderIsWhole =>
               /\ Len(image) \in Samples
               /\ sample_field = Len(image)
               /\ BodyFits(Len(image))
               /\ Len(text) - 3 = Len(image) => BodyDecodes(Len(image))
        /\ ~suspect /\ text # <<>> =>
               HeaderIsWhole /\ Len(text) - 3 = Len(image) /\ BodyIsImage(Len(image))

IInv ==
    /\ TypeOK
    /\ SaveInv
    /\ FileInv
    /\ LoadGivesSave
    /\ GoodSaveLoads
    /\ StoresEndNearTable

-----------------------------------------------------------------------------
(* Lines and texts.                                                         *)

\* The header of a text, line by line.
HasHeader(t) ==
    /\ Len(t) >= 3
    /\ t[1] = <<"magic">> /\ t[2] = <<"fields">> /\ t[3] = <<"blank">>

LEMMA HeaderByLines ==
    ASSUME NEW t \in Seq(Lines)
    PROVE  Len(t) >= 3 /\ SubSeq(t, 1, 3) = << <<"magic">>, <<"fields">>, <<"blank">> >>
               <=> HasHeader(t)
<1> DEFINE h == << <<"magic">>, <<"fields">>, <<"blank">> >>
<1>1. Len(t) \in Nat
  BY LenProperties
<1>2. SUFFICES ASSUME Len(t) >= 3
               PROVE  SubSeq(t, 1, 3) = h <=> t[1] = h[1] /\ t[2] = h[2] /\ t[3] = h[3]
  BY DEF HasHeader
<1>3. \A j \in 1 .. 3 : t[j] \in Lines
  BY <1>1, <1>2, ElementOfSeq
<1>4. /\ SubSeq(t, 1, 3) \in Seq(Lines) /\ Len(SubSeq(t, 1, 3)) = 3
      /\ \A j \in 1 .. 3 : SubSeq(t, 1, 3)[j] = t[j]
  BY <1>3, SubSeqProperties
<1>5. h \in Seq(Seq(Pieces)) /\ Len(h) = 3
  BY DEF Pieces
<1>6. SubSeq(t, 1, 3) \in Seq(Seq(Pieces))
  BY <1>4, SeqMonotonic DEF Lines
<1>7. SubSeq(t, 1, 3) = h <=> \A j \in 1 .. 3 : SubSeq(t, 1, 3)[j] = h[j]
  BY <1>4, <1>5, <1>6, SeqEqual
<1> HIDE DEF h
<1> QED
  BY <1>4, <1>7

\* A line is not empty, and has its first piece.
LEMMA LineProperties ==
    ASSUME NEW line \in Lines
    PROVE  /\ Len(line) \in Nat \ {0}
           /\ Head(line) = line[1] /\ Head(line) \in Pieces
           /\ Append(line, "part") \in Lines
           /\ Len(Append(line, "part")) = Len(line) + 1
<1>1. line \in Seq(Pieces) /\ line # <<>> /\ "part" \in Pieces
  BY DEF Lines, Pieces
<1>2. Len(line) \in Nat \ {0} /\ Head(line) \in Pieces
  BY <1>1, EmptySeq, HeadTailProperties
<1>3. /\ Append(line, "part") \in Seq(Pieces) /\ Len(Append(line, "part")) = Len(line) + 1
  BY <1>1, AppendProperties
<1>4. Append(line, "part") # <<>>
  BY <1>2, <1>3, EmptySeq
<1> QED
  BY <1>1, <1>2, <1>3, <1>4 DEF Lines

LEMMA PieceIsLine ==
    ASSUME NEW piece \in Pieces
    PROVE  /\ <<piece>> \in Lines /\ Len(<<piece>>) = 1 /\ Head(<<piece>>) = piece
<1>1. <<piece>> \in Seq(Pieces) /\ <<piece>> # <<>>
  OBVIOUS
<1> QED
  BY <1>1 DEF Lines

\* SMT knows more of Len(s) = 1 than it can use; of a number it does not.
LEMMA OneOrMore == \A m \in Nat \ {0} : m = 1 \/ m > 1
  OBVIOUS

LEMMA ThreeOrMore == \A m \in Nat : m >= 3 => m = 3 \/ m > 3
  OBVIOUS

\* The text after a piece is written: one more line, or the last one changed.
LEMMA WrittenText ==
    ASSUME TypeOK, NEW piece \in Pieces
    PROVE  LET t == Written(piece)
           IN  /\ t \in Seq(Lines)
               /\ Len(t) = Len(text) + IF tail = "whole" THEN 1 ELSE 0
               /\ \A j \in 1 .. Len(t) - 1 : t[j] = text[j]
               /\ t[Len(t)] = IF tail = "cut" THEN Append(text[Len(text)], "part")
                              ELSE IF tail = "begun" /\ Len(text[Len(text)]) > 1
                              THEN text[Len(text)]
                              ELSE <<piece>>
<1>1. text \in Seq(Lines) /\ tail \in {"whole", "begun", "cut"} /\ Len(text) \in Nat
  BY LenProperties DEF TypeOK, Lines, Pieces
<1>2. <<piece>> \in Lines
  BY PieceIsLine
<1>3. CASE tail = "whole"
  <2>1. Written(piece) = Append(text, <<piece>>)
    BY <1>3 DEF Written
  <2> QED
    BY <1>1, <1>2, <1>3, <2>1, AppendProperties
<1>4. CASE tail # "whole"
  <2>1. text # <<>> /\ Len(text) \in 1 .. Len(text)
    <3>1. text # <<>>
      BY <1>4 DEF TypeOK
    <3> QED
      BY <1>1, <3>1, EmptySeq
  <2> DEFINE last == text[Len(text)]
  <2>2. last \in Lines /\ Append(last, "part") \in Lines /\ Len(last) \in Nat \ {0}
    BY <1>1, <2>1, ElementOfSeq, LineProperties
  <2>3. CASE tail = "begun" /\ Len(last) = 1
    <3>1. Written(piece) = [text EXCEPT ![Len(text)] = <<piece>>]
      BY <2>3 DEF Written
    <3> QED
      BY <1>1, <1>2, <2>1, <2>3, <3>1, ExceptSeq
  <2>4. CASE tail = "begun" /\ Len(last) > 1
    <3>1. Written(piece) = text
      BY <2>4 DEF Written
    <3> QED
      BY <1>1, <2>4, <3>1
  <2>5. CASE tail = "cut"
    <3>1. Written(piece) = [text EXCEPT ![Len(text)] = Append(last, "part")]
      BY <2>5 DEF Written
    <3> QED
      BY <1>1, <2>1, <2>2, <2>5, <3>1, ExceptSeq
  <2>6. \/ tail = "begun" /\ Len(last) = 1
        \/ tail = "begun" /\ Len(last) > 1
        \/ tail = "cut"
    <3>1. Len(last) = 1 \/ Len(last) > 1
      BY <2>2, OneOrMore, Zenon
    <3> QED
      BY <1>1, <1>4, <3>1
  <2> QED
    BY <2>3, <2>4, <2>5, <2>6
<1> QED
  BY <1>3, <1>4

\* Once an address or a part of a line is written behind a header that is not
\* whole, it never will be; and a whole one stays when lines behind it change.
LEMMA HeaderKept ==
    ASSUME TypeOK, NEW piece \in Addresses \cup {"part"}, text' = Written(piece)
    PROVE  /\ text' \in Seq(Lines)
           /\ ~HeaderIsWhole => ~HeaderIsWhole'
           /\ HeaderIsWhole /\ (tail # "whole" => Len(text) > 3) => HeaderIsWhole'
<1>1. piece \in Pieces /\ piece \notin {"magic", "fields", "blank"}
  BY ValuesAssumption DEF Pieces, Addresses, Junk
<1>2. text \in Seq(Lines) /\ Len(text) \in Nat /\ tail \in {"whole", "begun", "cut"}
      /\ (tail # "whole" => Len(text) # 0)
  <2>1. text \in Seq(Lines) /\ (tail # "whole" => text # <<>>)
        /\ tail \in {"whole", "begun", "cut"}
    BY DEF TypeOK, Lines, Pieces
  <2> QED
    BY <2>1, EmptySeq, LenProperties
<1>3. /\ text' \in Seq(Lines)
      /\ Len(text') = Len(text) + IF tail = "whole" THEN 1 ELSE 0
      /\ \A j \in 1 .. Len(text') - 1 : text'[j] = text[j]
      /\ text'[Len(text')] = IF tail = "cut" THEN Append(text[Len(text)], "part")
                             ELSE IF tail = "begun" /\ Len(text[Len(text)]) > 1
                             THEN text[Len(text)]
                             ELSE <<piece>>
  BY <1>1, WrittenText
<1>4. /\ HeaderIsWhole <=> HasHeader(text)
      /\ HeaderIsWhole' <=> HasHeader(text')
  BY <1>2, <1>3, HeaderByLines DEF HeaderIsWhole
<1>5. ASSUME HasHeader(text') PROVE HasHeader(text)
  <2>1. Len(text') \in Nat /\ Len(text') >= 3
    BY <1>3, <1>5, LenProperties DEF HasHeader
  <2>2. CASE Len(text') > 3
    BY <1>2, <1>3, <1>5, <2>1, <2>2 DEF HasHeader
  <2>3. CASE Len(text') = 3
    <3>1. text'[3] = <<"blank">> /\ Len(text'[3]) = 1
      BY <1>5 DEF HasHeader
    <3>2. ~(tail = "begun" /\ Len(text[Len(text)]) > 1)
      <4>1. SUFFICES ASSUME tail = "begun", Len(text[Len(text)]) > 1 PROVE FALSE
        OBVIOUS
      <4>2. text'[Len(text')] = text[Len(text)]
        BY <1>3, <4>1
      <4>3. Len(text[Len(text)]) = 1
        BY <2>3, <3>1, <4>2, Zenon
      <4> QED
        BY <4>1, <4>3
    <3>3. tail # "cut"
      <4>1. SUFFICES ASSUME tail = "cut" PROVE FALSE
        OBVIOUS
      <4>2. Len(text) = 3 /\ text[3] \in Lines
        <5>1. Len(text') = Len(text) + 0
          BY <1>3, <4>1
        <5>2. Len(text) = 3
          BY <1>2, <2>3, <5>1
        <5>3. 3 \in 1 .. Len(text)
          BY <5>2
        <5> QED
          BY <1>2, <5>2, <5>3, ElementOfSeq, Zenon
      <4>3. Len(text'[3]) = Len(text[3]) + 1 /\ Len(text[3]) \in Nat \ {0}
        BY <1>3, <2>3, <4>1, <4>2, LineProperties
      <4> QED
        BY <3>1, <4>3
    <3>4. text'[3] = <<piece>>
      BY <1>2, <1>3, <2>3, <3>2, <3>3
    <3> QED
      BY <1>1, <3>1, <3>4
  <2>4. Len(text') > 3 \/ Len(text') = 3
    BY <2>1, ThreeOrMore, Zenon
  <2> QED
    BY <2>2, <2>3, <2>4
<1>6. ASSUME HasHeader(text), tail # "whole" => Len(text) > 3
      PROVE  HasHeader(text')
  BY <1>2, <1>3, <1>6 DEF HasHeader
<1> QED
  BY <1>3, <1>4, <1>5, <1>6

\* What a piece of the next line does to the lines behind the header.
LEMMA BodyWritten ==
    ASSUME TypeOK, NEW piece \in Addresses \cup {"part"}, text' = Written(piece),
           UNCHANGED image, HeaderIsWhole, NEW n \in Nat, BodyInv(n)
    PROVE  /\ HeaderIsWhole'
           /\ Len(text') > 3
           /\ BodyFits(n + 1)'
           /\ Len(text') - 3 = n + 1 =>
                  /\ BodyDecodes(n)'
                  /\ text'[n + 4] = <<piece>>
           /\ ~job.lost =>
                  /\ Len(text') - 3 = n + 1
                  /\ BodyIsImage(n)'
<1>1. piece \in Pieces
  BY DEF Pieces
<1>2. text \in Seq(Lines) /\ Len(text) \in Nat /\ tail \in {"whole", "begun", "cut"}
  BY LenProperties DEF TypeOK, Lines, Pieces
<1>3. Len(text) >= 3 /\ (tail # "whole" => Len(text) > 3)
  BY DEF HeaderIsWhole, BodyInv
<1>4. HeaderIsWhole' /\ text' \in Seq(Lines)
  BY <1>3, HeaderKept
<1>5. /\ Len(text') = Len(text) + IF tail = "whole" THEN 1 ELSE 0
      /\ \A j \in 1 .. Len(text') - 1 : text'[j] = text[j]
      /\ text'[Len(text')] = IF tail = "cut" THEN Append(text[Len(text)], "part")
                             ELSE IF tail = "begun" /\ Len(text[Len(text)]) > 1
                             THEN text[Len(text)]
                             ELSE <<piece>>
  BY <1>1, WrittenText
<1>6. Len(text') > 3 /\ Len(text') \in Nat
  BY <1>2, <1>3, <1>5
<1>7. /\ Begun = IF tail = "begun" THEN 1 ELSE 0
      /\ Len(text) - 3 <= n + Begun
      /\ \A l \in 4 .. Len(text) : Len(text) - 4 + Len(text[l]) <= n + Begun
  BY DEF Begun, BodyInv, BodyFits
<1>8. \A l \in 1 .. Len(text) : Len(text[l]) \in Nat \ {0} /\ text[l] \in Lines
  BY <1>2, ElementOfSeq, LineProperties
<1>9. BodyFits(n + 1)'
  <2>1. Len(text') - 3 <= n + 1
    BY <1>2, <1>5, <1>7
  <2>2. ASSUME NEW l \in 4 .. Len(text')
        PROVE  Len(text') - 4 + Len(text'[l]) <= n + 1
    <3>1. CASE l < Len(text')
      <4>1. l \in 1 .. Len(text') - 1 /\ l \in 4 .. Len(text) /\ l \in 1 .. Len(text)
        BY <1>2, <1>5, <1>6, <3>1
      <4>2. text'[l] = text[l] /\ Len(text) - 4 + Len(text[l]) <= n + Begun /\ Len(text[l]) \in Nat
        BY <1>5, <1>7, <1>8, <4>1
      <4>3. Len(text') + Begun <= Len(text) + 1 /\ Len(text') \in Nat /\ Begun \in {0, 1}
        <5>1. Len(text') = Len(text) + IF tail = "whole" THEN 1 ELSE 0
          BY <1>5
        <5>2. Begun = IF tail = "begun" THEN 1 ELSE 0
          BY <1>7
        <5>3. Len(text) \in Nat /\ Len(text') \in Nat
          BY <1>2, <1>6
        <5>4. CASE tail = "whole"
          BY <5>1, <5>2, <5>3, <5>4
        <5>5. CASE tail # "whole"
          BY <5>1, <5>2, <5>3, <5>5
        <5> QED
          BY <5>4, <5>5
      <4>4. Len(text') - 4 + Len(text[l]) <= n + 1
        BY <1>2, <4>2, <4>3
      <4> QED
        BY <4>2, <4>4
    <3>2. CASE l = Len(text')
      <4>1. CASE text'[l] = <<piece>>
        <5>1. Len(text'[l]) = 1
          BY <1>1, <4>1, PieceIsLine
        <5> QED
          BY <2>1, <3>2, <5>1, <1>6
      <4>2. CASE tail = "begun" /\ text'[l] = text[Len(text)]
        <5>1. Len(text) - 4 + Len(text[Len(text)]) <= n + 1 /\ l = Len(text)
          BY <1>2, <1>3, <1>5, <1>7, <3>2, <4>2
        <5>2. Len(text') = Len(text)
          BY <1>5, <4>2
        <5> QED
          BY <4>2, <5>1, <5>2
      <4>3. CASE tail = "cut"
        <5>1. Len(text) \in 4 .. Len(text) /\ Len(text) \in 1 .. Len(text) /\ l = Len(text)
          BY <1>2, <1>3, <1>5, <3>2, <4>3
        <5>2. Len(text) - 4 + Len(text[Len(text)]) <= n /\ text[Len(text)] \in Lines
              /\ Len(text[Len(text)]) \in Nat
          BY <1>7, <1>8, <4>3, <5>1
        <5>3. Len(text'[l]) = Len(text[Len(text)]) + 1
          BY <1>5, <3>2, <4>3, <5>2, LineProperties
        <5>4. Len(text') = Len(text)
          BY <1>5, <4>3
        <5> QED
          BY <5>1, <5>2, <5>3, <5>4
      <4> QED
        BY <1>2, <1>5, <3>2, <4>1, <4>2, <4>3
    <3> QED
      BY <1>6, <3>1, <3>2
  <2> QED
    BY <2>1, <2>2 DEF BodyFits
<1>10. ASSUME Len(text') - 3 = n + 1
       PROVE  /\ Len(text) - 3 = n + Begun
              /\ text'[n + 4] = <<piece>>
              /\ \A l \in 4 .. n + 3 : text'[l] = text[l]
  <2>1. tail # "cut" /\ Len(text) - 3 = n + Begun
    BY <1>2, <1>5, <1>7, <1>10
  <2>2. tail = "begun" => text[Len(text)] = <<"part">>
    BY <2>1 DEF BodyInv
  <2>3. text'[Len(text')] = <<piece>>
    <3>1. ~(Len(<<"part">>) > 1)
      OBVIOUS
    <3>2. ~(tail = "begun" /\ Len(text[Len(text)]) > 1)
      BY <2>2, <3>1, Zenon
    <3> QED
      BY <1>5, <2>1, <3>2
  <2>4. Len(text') = n + 4
    BY <1>6, <1>10
  <2> QED
    BY <1>5, <2>1, <2>3, <2>4
<1>11. ASSUME Len(text') - 3 = n + 1
       PROVE  BodyDecodes(n)' /\ text'[n + 4] = <<piece>>
  <2>1. BodyDecodes(n)
    BY <1>10, <1>11 DEF BodyInv
  <2> QED
    BY <1>10, <1>11, <2>1 DEF BodyDecodes
<1>12. ASSUME ~job.lost
       PROVE  Len(text') - 3 = n + 1 /\ BodyIsImage(n)'
  <2>1. tail # "cut" /\ Len(text) - 3 = n + Begun /\ BodyIsImage(n)
    BY <1>12 DEF BodyInv
  <2>2. Len(text') - 3 = n + 1
    BY <1>2, <1>5, <1>7, <2>1
  <2> QED
    BY <1>10, <2>1, <2>2 DEF BodyIsImage
<1> QED
  BY <1>4, <1>6, <1>9, <1>11, <1>12

-----------------------------------------------------------------------------
(* What stdio has still to write.                                           *)

LEMMA HeaderLinesProperties ==
    /\ HeaderLines \in Seq(Addresses \cup {"magic", "fields", "blank"})
    /\ Len(HeaderLines) = 3
    /\ HeaderLines[1] = "magic" /\ HeaderLines[2] = "fields" /\ HeaderLines[3] = "blank"
    /\ \A h \in 1 .. 3 : HeaderLines[h] \in Pieces /\ HeaderLines[h] \notin Addresses
<1>1. /\ HeaderLines \in Seq(Addresses \cup {"magic", "fields", "blank"})
      /\ Len(HeaderLines) = 3
      /\ HeaderLines[1] = "magic" /\ HeaderLines[2] = "fields" /\ HeaderLines[3] = "blank"
  BY DEF HeaderLines
<1>2. \A h \in 1 .. 3 : h = 1 \/ h = 2 \/ h = 3
  OBVIOUS
<1>3. \A piece \in {"magic", "fields", "blank"} : piece \in Pieces /\ piece \notin Addresses
  BY ValuesAssumption DEF Pieces, Addresses, Junk
<1> QED
  BY <1>1, <1>2, <1>3

LEMMA BufferProperties ==
    ASSUME TypeOK
    PROVE  /\ Len(buffer) \in Nat /\ Len(image) \in Nat
           /\ \A j \in 1 .. Len(image) : image[j] \in Addresses
           /\ buffer # <<>> <=> Len(buffer) > 0
           /\ buffer # <<>> =>
                  /\ Head(buffer) = buffer[1] /\ Head(buffer) \in Pieces
                  /\ Tail(buffer) \in Seq(Addresses \cup {"magic", "fields", "blank"})
                  /\ Len(Tail(buffer)) = Len(buffer) - 1
                  /\ \A j \in 1 .. Len(buffer) - 1 : Tail(buffer)[j] = buffer[j + 1]
<1> DEFINE S == Addresses \cup {"magic", "fields", "blank"}
<1>1. buffer \in Seq(S) /\ image \in Seq(Addresses)
  BY DEF TypeOK
<1>2. S \subseteq Pieces
  BY DEF Pieces
<1>3. Len(buffer) \in Nat /\ Len(image) \in Nat
      /\ \A j \in 1 .. Len(image) : image[j] \in Addresses
  BY <1>1, LenProperties, ElementOfSeq
<1>4. buffer # <<>> <=> Len(buffer) > 0
  BY <1>1, EmptySeq
<1>5. ASSUME buffer # <<>>
      PROVE  /\ Head(buffer) = buffer[1] /\ Head(buffer) \in S
             /\ Tail(buffer) \in Seq(S) /\ Len(Tail(buffer)) = Len(buffer) - 1
             /\ \A j \in 1 .. Len(buffer) - 1 : Tail(buffer)[j] = buffer[j + 1]
  <2> HIDE DEF S
  <2> QED
    BY <1>1, <1>5, HeadTailProperties
<1> QED
  BY <1>2, <1>3, <1>4, <1>5

\* The next line of the image.
LEMMA NextOfImage ==
    ASSUME TypeOK, NEW n \in 0 .. Len(image), ImagePends(n), buffer # <<>>
    PROVE  /\ n + 1 \in 0 .. Len(image)
           /\ Head(buffer) = image[n + 1] /\ Head(buffer) \in Addresses
           /\ buffer' = Tail(buffer) /\ UNCHANGED image => ImagePends(n + 1)'
<1>1. Len(buffer) = Len(image) - n /\ \A j \in 1 .. Len(buffer) : buffer[j] = image[n + j]
  BY DEF ImagePends
<1>2. n + 1 \in 0 .. Len(image) /\ n + 1 \in 1 .. Len(image) /\ 1 \in 1 .. Len(buffer)
  BY <1>1, BufferProperties
<1>3. Head(buffer) = image[n + 1] /\ Head(buffer) \in Addresses
  BY <1>1, <1>2, BufferProperties
<1>4. ASSUME buffer' = Tail(buffer), UNCHANGED image
      PROVE  ImagePends(n + 1)'
  <2>1. Len(buffer') = Len(image) - (n + 1)
    BY <1>1, <1>2, <1>4, BufferProperties
  <2>2. ASSUME NEW j \in 1 .. Len(buffer')
        PROVE  buffer'[j] = image[(n + 1) + j]
    <3>1. buffer'[j] = buffer[j + 1] /\ Len(buffer') = Len(buffer) - 1 /\ Len(buffer) \in Nat
      BY <1>4, BufferProperties
    <3>2. j + 1 \in 1 .. Len(buffer)
      BY <3>1
    <3>3. buffer[j + 1] = image[n + (j + 1)]
      BY <1>1, <3>2
    <3>4. n + (j + 1) = (n + 1) + j
      OBVIOUS
    <3> QED
      BY <3>1, <3>3, <3>4
  <2> QED
    BY <1>4, <2>1, <2>2 DEF ImagePends
<1> QED
  BY <1>2, <1>3, <1>4

\* The next line of the header; behind its last one comes the image.
LEMMA NextOfHeader ==
    ASSUME TypeOK, NEW h \in 0 .. 2, HeaderPends(h)
    PROVE  /\ buffer # <<>> /\ Head(buffer) = HeaderLines[h + 1]
           /\ buffer' = Tail(buffer) /\ UNCHANGED image =>
                  /\ h < 2 => HeaderPends(h + 1)'
                  /\ h = 2 => ImagePends(0)'
<1>1. /\ Len(buffer) = Len(image) + 3 - h
      /\ \A j \in 1 .. 3 - h : buffer[j] = HeaderLines[h + j]
      /\ \A j \in 1 .. Len(image) : buffer[3 - h + j] = image[j]
  BY DEF HeaderPends
<1>2. Len(buffer) \in Nat /\ Len(image) \in Nat /\ buffer # <<>> /\ 1 \in 1 .. 3 - h
  BY <1>1, BufferProperties
<1>3. Head(buffer) = HeaderLines[h + 1]
  BY <1>1, <1>2, BufferProperties
<1>4. ASSUME buffer' = Tail(buffer), UNCHANGED image
      PROVE  /\ h < 2 => HeaderPends(h + 1)'
             /\ h = 2 => ImagePends(0)'
  <2>1. /\ Len(buffer') = Len(buffer) - 1
        /\ \A j \in 1 .. Len(buffer) - 1 : buffer'[j] = buffer[j + 1]
    BY <1>2, <1>4, BufferProperties
  <2>2. /\ Len(buffer') = Len(image) + 3 - (h + 1)
        /\ \A j \in 1 .. 3 - (h + 1) : buffer'[j] = HeaderLines[(h + 1) + j]
        /\ \A j \in 1 .. Len(image) : buffer'[3 - (h + 1) + j] = image[j]
    <3>1. Len(buffer') = Len(image) + 3 - (h + 1)
      BY <1>1, <1>2, <2>1
    <3>2. ASSUME NEW j \in 1 .. 3 - (h + 1)
          PROVE  buffer'[j] = HeaderLines[(h + 1) + j]
      <4>1. j \in 1 .. Len(buffer) - 1 /\ j + 1 \in 1 .. 3 - h /\ h + (j + 1) = (h + 1) + j
        BY <1>1, <1>2
      <4> QED
        BY <1>1, <2>1, <4>1
    <3>3. ASSUME NEW j \in 1 .. Len(image)
          PROVE  buffer'[3 - (h + 1) + j] = image[j]
      <4> DEFINE k == 3 - (h + 1) + j
      <4>1. k \in 1 .. Len(buffer) - 1 /\ k + 1 = 3 - h + j
        BY <1>1, <1>2
      <4> QED
        BY <1>1, <2>1, <4>1
    <3> QED
      BY <3>1, <3>2, <3>3
  <2>3. h = 2 => /\ Len(buffer') = Len(image) - 0
                 /\ \A j \in 1 .. Len(image) : buffer'[j] = image[0 + j]
    BY <1>2, <2>2
  <2> QED
    BY <1>4, <2>2, <2>3 DEF HeaderPends, ImagePends
<1> QED
  BY <1>2, <1>3, <1>4

\* A header is not whole until all of its lines are.
LEMMA HeaderNotYet ==
    ASSUME TypeOK, NEW h \in 0 .. 2, HeaderWritten(h)
    PROVE  ~HeaderIsWhole
<1>1. SUFFICES ASSUME HeaderIsWhole PROVE FALSE
  OBVIOUS
<1>2. HasHeader(text)
  <2>1. text \in Seq(Lines)
    BY DEF TypeOK, Lines, Pieces
  <2> QED
    BY <1>1, <2>1, HeaderByLines DEF HeaderIsWhole
<1>3. h = 2 /\ tail = "begun"
  BY <1>2 DEF HasHeader, HeaderWritten, Begun
<1>4. text[3] = <<"part">>
  BY <1>3 DEF HeaderWritten
<1> QED
  BY <1>2, <1>4 DEF HasHeader

-----------------------------------------------------------------------------
(* The invariant, action by action.                                         *)

\* A step after which no load has returned and no program is dead says nothing
\* of a load.
LEMMA NothingLoaded ==
    ASSUME pc' \in {"idle", "saving"}
    PROVE  LoadGivesSave' /\ GoodSaveLoads' /\ StoresEndNearTable'
BY DEF LoadGivesSave, GoodSaveLoads, StoresEndNearTable, HasLoaded

LEMMA InitInv == Init => IInv
<1> SUFFICES ASSUME Init PROVE IInv
  OBVIOUS
<1>1. /\ text = <<>> /\ sample_field = 0 /\ tail = "whole" /\ pc = "idle" /\ job = NoJob
      /\ buffer = <<>> /\ image = <<>> /\ suspect = FALSE
      /\ space = [s \in Spaces |-> <<>>]
  BY DEF Init, None
<1>2. Len(text) = 0
  BY <1>1
<1>3. TypeOK
  <2>1. <<>> \in Seq(Lines) /\ <<>> \in Seq(Addresses)
        /\ <<>> \in Seq(Addresses \cup {"magic", "fields", "blank"})
    BY EmptySeq
  <2>2. space \in [Spaces -> Seq(Addresses)] /\ \A s \in Spaces : Len(space[s]) = 0
    BY <1>1, <2>1, EmptySeq
  <2> QED
    BY <1>1, <2>1, <2>2 DEF TypeOK, Lines, Pieces
<1>4. SaveInv
  BY <1>1 DEF SaveInv
<1>5. FileInv
  BY <1>1, <1>2 DEF FileInv, HeaderIsWhole
<1>6. LoadGivesSave /\ GoodSaveLoads /\ StoresEndNearTable
  BY <1>1 DEF LoadGivesSave, GoodSaveLoads, StoresEndNearTable, HasLoaded
<1> QED
  BY <1>3, <1>4, <1>5, <1>6 DEF IInv

\* A call that reads the file, or does not look at it, leaves it as it is.
LEMMA FileUntouched ==
    ASSUME IInv, Idle, pc' # "saving",
           UNCHANGED <<text, sample_field, tail, buffer, image, suspect>>
    PROVE  SaveInv' /\ FileInv'
<1>1. pc # "saving"
  BY DEF Idle
<1>2. FileInv
  BY DEF IInv
<1> QED
  BY <1>1, <1>2 DEF SaveInv, FileInv, HeaderIsWhole, BodyFits, BodyDecodes, BodyIsImage

\* During a save, from the two cases of SaveInv.
LEMMA SavingInv ==
    ASSUME TypeOK', pc' = "saving", job' \in [op : {"save"}, lost : BOOLEAN], suspect',
           Len(image') \in Samples, sample_field' = Len(image'),
           \/ ~job'.lost /\ \E h \in 0 .. 2 : HeaderPends(h)' /\ HeaderWritten(h)'
           \/ \E n \in 0 .. Len(image') :
                  /\ ImagePends(n)'
                  /\ tail' = "begun" => n < Len(image')
                  /\ HeaderIsWhole' => BodyInv(n)'
                  /\ ~job'.lost => HeaderIsWhole'
    PROVE  IInv'
<1>1. SaveInv'
  BY DEF SaveInv
<1>2. FileInv'
  BY DEF FileInv
<1> QED
  BY <1>1, <1>2, NothingLoaded DEF IInv

\* Writing a piece keeps the types of the text.
LEMMA WrittenTypes ==
    ASSUME TypeOK, NEW piece \in Pieces
    PROVE  Written(piece) \in Seq(Lines) /\ Written(piece) # <<>>
<1>1. /\ Written(piece) \in Seq(Lines)
      /\ Len(Written(piece)) = Len(text) + IF tail = "whole" THEN 1 ELSE 0
  BY WrittenText
<1>2. Len(text) \in Nat /\ (tail # "whole" => Len(text) > 0)
  <2>1. text \in Seq(Lines) /\ (tail # "whole" => text # <<>>)
    BY DEF TypeOK, Lines, Pieces
  <2> QED
    BY <2>1, EmptySeq, LenProperties
<1>3. Len(Written(piece)) > 0
  BY <1>1, <1>2
<1> QED
  BY <1>1, <1>3, EmptySeq

\* The state a step of stdio finds.
LEMMA BufferIsSave ==
    ASSUME IInv, buffer # <<>>
    PROVE  /\ TypeOK /\ pc = "saving"
           /\ job \in [op : {"save"}, lost : BOOLEAN]
           /\ suspect /\ Len(image) \in Samples /\ sample_field = Len(image)
           /\ \/ ~job.lost /\ \E h \in 0 .. 2 : HeaderPends(h) /\ HeaderWritten(h)
              \/ \E n \in 0 .. Len(image) :
                     /\ ImagePends(n)
                     /\ tail = "begun" => n < Len(image)
                     /\ HeaderIsWhole => BodyInv(n)
                     /\ ~job.lost => HeaderIsWhole
BY DEF IInv, TypeOK, SaveInv

LEMMA FlushPartInv == IInv /\ FlushPart => IInv'
<1> SUFFICES ASSUME IInv, FlushPart PROVE IInv'
  OBVIOUS
<1>1. /\ buffer # <<>> /\ Head(buffer) # "blank" /\ tail # "begun"
      /\ text' = Written("part") /\ tail' = "begun"
      /\ UNCHANGED <<sample_field, space, pc, job, buffer, image, suspect>>
  BY DEF FlushPart
<1>2. "part" \in Pieces /\ "part" \in Addresses \cup {"part"}
  BY DEF Pieces
<1>3. TypeOK /\ pc = "saving"
  BY <1>1, BufferIsSave
<1>4. TypeOK'
  BY <1>1, <1>2, <1>3, WrittenTypes DEF TypeOK, Lines, Pieces
<1>5. ASSUME ~job.lost, NEW h \in 0 .. 2, HeaderPends(h), HeaderWritten(h)
      PROVE  h \in 0 .. 1 /\ HeaderPends(h)' /\ HeaderWritten(h)'
  <2>1. h \in 0 .. 1
    BY <1>1, <1>3, <1>5, NextOfHeader, HeaderLinesProperties
  <2>2. tail = "whole" /\ Len(text) = h /\ \A j \in 1 .. h : text[j] = <<HeaderLines[j]>>
    <3>1. tail \in {"whole", "begun", "cut"}
      BY <1>3 DEF TypeOK
    <3> QED
      BY <1>1, <1>5, <3>1 DEF HeaderWritten, Begun
  <2>3. /\ Len(text') = h + 1 /\ text'[h + 1] = <<"part">>
        /\ \A j \in 1 .. h : text'[j] = text[j]
    BY <1>1, <1>2, <1>3, <2>2, WrittenText
  <2>4. HeaderWritten(h)'
    BY <1>1, <2>2, <2>3 DEF HeaderWritten, Begun
  <2> QED
    BY <1>1, <1>5, <2>1, <2>4 DEF HeaderPends
<1>6. ASSUME NEW n \in 0 .. Len(image), ImagePends(n), HeaderIsWhole => BodyInv(n),
             ~job.lost => HeaderIsWhole
      PROVE  /\ ImagePends(n)' /\ n < Len(image)
             /\ HeaderIsWhole' => BodyInv(n)'
             /\ ~job.lost => HeaderIsWhole'
  <2>1. ImagePends(n)' /\ n < Len(image)
    BY <1>1, <1>3, <1>6, NextOfImage, BufferProperties DEF ImagePends
  <2>2. HeaderIsWhole' => HeaderIsWhole
    BY <1>1, <1>2, <1>3, HeaderKept
  <2>3. ASSUME HeaderIsWhole PROVE HeaderIsWhole' /\ BodyInv(n)'
    <3>1. /\ HeaderIsWhole' /\ Len(text') > 3 /\ BodyFits(n + 1)'
          /\ Len(text') - 3 = n + 1 => BodyDecodes(n)' /\ text'[n + 4] = <<"part">>
          /\ ~job.lost => Len(text') - 3 = n + 1 /\ BodyIsImage(n)'
      BY <1>1, <1>2, <1>3, <1>6, <2>3, BodyWritten
    <3>2. Begun' = 1 /\ tail' # "cut" /\ job' = job
      BY <1>1 DEF Begun
    <3>3. BodyFits(n + Begun)'
      BY <3>1, <3>2 DEF BodyFits
    <3>4. Len(text') - 3 = n + 1 => Len(text') = n + 4
      <4>1. Len(text') \in Nat
        BY <1>1, <1>2, <1>3, WrittenTypes, LenProperties
      <4> QED
        BY <4>1
    <3> QED
      BY <3>1, <3>2, <3>3, <3>4 DEF BodyInv
  <2> QED
    BY <2>1, <2>2, <2>3, <1>6
<1> QED
  BY <1>1, <1>4, <1>5, <1>6, BufferIsSave, SavingInv

LEMMA FlushInv == IInv /\ Flush => IInv'
<1> SUFFICES ASSUME IInv, Flush PROVE IInv'
  OBVIOUS
<1>1. /\ buffer # <<>> /\ text' = Written(Head(buffer)) /\ tail' = "whole"
      /\ buffer' = Tail(buffer)
      /\ UNCHANGED <<sample_field, space, pc, job, image, suspect>>
  BY DEF Flush
<1>2. TypeOK /\ pc = "saving" /\ Head(buffer) \in Pieces /\ Len(text) \in Nat
  <2>1. TypeOK /\ pc = "saving"
    BY <1>1, BufferIsSave
  <2> QED
    BY <1>1, <2>1, BufferProperties, LenProperties DEF TypeOK
<1>3. TypeOK'
  BY <1>1, <1>2, WrittenTypes, BufferProperties DEF TypeOK, Lines, Pieces
<1>4. text' \in Seq(Lines) /\ Len(text') \in Nat
  BY <1>1, <1>2, WrittenTypes, LenProperties
<1>5. ASSUME ~job.lost, NEW h \in 0 .. 2, HeaderPends(h), HeaderWritten(h)
      PROVE  \/ h + 1 \in 0 .. 2 /\ HeaderPends(h + 1)' /\ HeaderWritten(h + 1)'
             \/ h = 2 /\ ImagePends(0)' /\ HeaderIsWhole' /\ BodyInv(0)'
  <2> DEFINE piece == HeaderLines[h + 1]
  <2>1. Head(buffer) = piece
    BY <1>2, <1>5, NextOfHeader
  <2>2. /\ tail \in {"whole", "begun"} /\ Len(text) = h + Begun
        /\ \A j \in 1 .. h : text[j] = <<HeaderLines[j]>>
        /\ tail = "begun" => text[h + 1] = <<"part">>
    BY <1>2, <1>5 DEF HeaderWritten, TypeOK
  <2>3. Len(text') = h + 1 /\ \A j \in 1 .. h : text'[j] = text[j]
    <3>1. /\ Len(text') = Len(text) + IF tail = "whole" THEN 1 ELSE 0
          /\ \A j \in 1 .. Len(text') - 1 : text'[j] = text[j]
      BY <1>1, <1>2, WrittenText
    <3>2. Len(text') = h + 1
      BY <1>2, <2>2, <3>1 DEF Begun
    <3>3. Len(text') - 1 = h
      BY <3>2
    <3> QED
      BY <3>1, <3>2, <3>3
  <2>4. text'[h + 1] = <<piece>>
    <3>1. ~(tail = "begun" /\ Len(text[Len(text)]) > 1)
      <4>1. SUFFICES ASSUME tail = "begun" PROVE ~(Len(text[Len(text)]) > 1)
        OBVIOUS
      <4>2. text[Len(text)] = <<"part">>
        BY <2>2, <4>1 DEF Begun
      <4>3. ~(Len(<<"part">>) > 1)
        OBVIOUS
      <4> QED
        BY <4>2, <4>3, Zenon
    <3> QED
      BY <1>1, <1>2, <2>1, <2>2, <2>3, <3>1, WrittenText
  <2>5. \A j \in 1 .. h + 1 : text'[j] = <<HeaderLines[j]>>
    <3>1. \A j \in 1 .. h + 1 : j \in 1 .. h \/ j = h + 1
      OBVIOUS
    <3> QED
      BY <2>2, <2>3, <2>4, <3>1
  <2>6. CASE h < 2
    <3>1. HeaderPends(h + 1)'
      BY <1>1, <1>2, <1>5, <2>6, NextOfHeader
    <3>2. HeaderWritten(h + 1)'
      BY <1>1, <2>3, <2>5 DEF HeaderWritten, Begun
    <3> QED
      BY <2>6, <3>1, <3>2
  <2>7. CASE h = 2
    <3>1. ImagePends(0)'
      BY <1>1, <1>2, <1>5, <2>7, NextOfHeader
    <3>2. HeaderIsWhole'
      <4>1. HasHeader(text')
        BY <2>3, <2>5, <2>7, HeaderLinesProperties DEF HasHeader
      <4> QED
        BY <1>4, <4>1, HeaderByLines DEF HeaderIsWhole
    <3>3. BodyInv(0)'
      <4>1. Len(text') = 3 + 0 /\ Begun' = 0 /\ tail' = "whole"
        BY <1>1, <2>3, <2>7 DEF Begun
      <4> QED
        BY <4>1 DEF BodyInv, BodyFits, BodyDecodes, BodyIsImage
    <3> QED
      BY <2>7, <3>1, <3>2, <3>3
  <2> QED
    BY <2>6, <2>7
<1>6. ASSUME NEW n \in 0 .. Len(image), ImagePends(n), HeaderIsWhole => BodyInv(n),
             ~job.lost => HeaderIsWhole
      PROVE  /\ n + 1 \in 0 .. Len(image) /\ ImagePends(n + 1)'
             /\ HeaderIsWhole' => BodyInv(n + 1)'
             /\ ~job.lost => HeaderIsWhole'
  <2>1. /\ ImagePends(n + 1)' /\ n + 1 \in 0 .. Len(image)
        /\ Head(buffer) = image[n + 1] /\ Head(buffer) \in Addresses
    BY <1>1, <1>2, <1>6, NextOfImage
  <2>2. HeaderIsWhole' => HeaderIsWhole
    BY <1>1, <1>2, <2>1, HeaderKept
  <2>3. ASSUME HeaderIsWhole PROVE HeaderIsWhole' /\ BodyInv(n + 1)'
    <3>1. /\ HeaderIsWhole' /\ Len(text') > 3 /\ BodyFits(n + 1)'
          /\ Len(text') - 3 = n + 1 => BodyDecodes(n)' /\ text'[n + 4] = <<image[n + 1]>>
          /\ ~job.lost => Len(text') - 3 = n + 1 /\ BodyIsImage(n)'
      BY <1>1, <1>2, <1>6, <2>1, <2>3, BodyWritten
    <3>2. Begun' = 0 /\ tail' = "whole" /\ UNCHANGED <<job, image>>
      BY <1>1 DEF Begun
    <3>3. BodyFits((n + 1) + Begun)'
      BY <3>1, <3>2 DEF BodyFits
    <3>4. ASSUME Len(text') - 3 = n + 1
          PROVE  /\ BodyDecodes(n + 1)'
                 /\ BodyIsImage(n)' => BodyIsImage(n + 1)'
      <4>1. \A l \in 4 .. (n + 1) + 3 : l \in 4 .. n + 3 \/ l = n + 4
        OBVIOUS
      <4>2. Head(text'[n + 4]) = image[(n + 4) - 3] /\ text'[n + 4] = <<image[(n + 4) - 3]>>
        BY <2>1, <3>1, <3>4, PieceIsLine DEF Pieces
      <4>3. BodyDecodes(n + 1)'
        BY <3>1, <3>2, <3>4, <4>1, <4>2 DEF BodyDecodes
      <4>4. BodyIsImage(n)' => BodyIsImage(n + 1)'
        BY <3>2, <4>1, <4>2 DEF BodyIsImage
      <4> QED
        BY <4>3, <4>4
    <3> QED
      BY <3>1, <3>2, <3>3, <3>4 DEF BodyInv
  <2> QED
    BY <2>1, <2>2, <2>3, <1>6
<1>7. tail' # "begun" /\ 0 \in 0 .. Len(image)
  BY <1>1, <1>2, BufferProperties
<1>8. \/ ~job'.lost /\ \E h \in 0 .. 2 : HeaderPends(h)' /\ HeaderWritten(h)'
      \/ \E n \in 0 .. Len(image') :
             /\ ImagePends(n)'
             /\ HeaderIsWhole' => BodyInv(n)'
             /\ ~job'.lost => HeaderIsWhole'
  <2>1. CASE ~job.lost /\ \E h \in 0 .. 2 : HeaderPends(h) /\ HeaderWritten(h)
    BY <1>1, <1>5, <1>7, <2>1
  <2>2. CASE \E n \in 0 .. Len(image) :
                 /\ ImagePends(n)
                 /\ HeaderIsWhole => BodyInv(n)
                 /\ ~job.lost => HeaderIsWhole
    BY <1>1, <1>6, <2>2
  <2> QED
    BY <1>1, <2>1, <2>2, BufferIsSave
<1> QED
  BY <1>1, <1>3, <1>7, <1>8, BufferIsSave, SavingInv

\* When a line is lost, or its end, the next one is behind it all the same.
LEMMA LoseLineInv == IInv /\ LoseLine => IInv'
<1> SUFFICES ASSUME IInv, LoseLine PROVE IInv'
  OBVIOUS
<1>1. /\ buffer # <<>> /\ buffer' = IF Head(buffer) \in Addresses THEN Tail(buffer) ELSE image
      /\ tail' = IF tail = "begun" THEN "cut" ELSE tail
      /\ job' = [job EXCEPT !.lost = TRUE]
      /\ UNCHANGED <<text, sample_field, space, pc, image, suspect>>
  BY DEF LoseLine
<1>2. TypeOK /\ pc = "saving" /\ job \in [op : {"save"}, lost : BOOLEAN]
  BY <1>1, BufferIsSave
<1>3. job' \in [op : {"save"}, lost : BOOLEAN] /\ job'.lost /\ tail' # "begun"
  BY <1>1, <1>2
<1>4. TypeOK'
  <2>1. image \in Seq(Addresses \cup {"magic", "fields", "blank"})
    <3>1. image \in Seq(Addresses)
      BY <1>2 DEF TypeOK
    <3> QED
      BY <3>1, SeqMonotonic
  <2>2. buffer' \in Seq(Addresses \cup {"magic", "fields", "blank"})
    BY <1>1, <1>2, <2>1, BufferProperties
  <2>3. tail' \in {"whole", "begun", "cut"} /\ (tail' # "whole" => text' # <<>>)
    BY <1>1, <1>2 DEF TypeOK
  <2> QED
    BY <1>1, <1>2, <1>3, <2>2, <2>3 DEF TypeOK
<1>5. HeaderIsWhole' <=> HeaderIsWhole
  BY <1>1 DEF HeaderIsWhole
<1>6. ASSUME NEW h \in 0 .. 2, HeaderPends(h), HeaderWritten(h)
      PROVE  ImagePends(0)' /\ ~HeaderIsWhole'
  <2>1. Head(buffer) \notin Addresses
    BY <1>2, <1>6, NextOfHeader, HeaderLinesProperties
  <2>2. buffer' = image /\ image' = image /\ Len(image) \in Nat
    BY <1>1, <1>2, <2>1, BufferProperties
  <2>3. ImagePends(0)'
    BY <2>2 DEF ImagePends
  <2> QED
    BY <1>2, <1>5, <1>6, <2>3, HeaderNotYet
<1>7. ASSUME NEW n \in 0 .. Len(image), ImagePends(n), HeaderIsWhole => BodyInv(n)
      PROVE  /\ n + 1 \in 0 .. Len(image) /\ ImagePends(n + 1)'
             /\ HeaderIsWhole' => BodyInv(n + 1)'
  <2>1. /\ Head(buffer) \in Addresses /\ n + 1 \in 0 .. Len(image)
        /\ buffer' = Tail(buffer) /\ UNCHANGED image => ImagePends(n + 1)'
    BY <1>1, <1>2, <1>7, NextOfImage
  <2>2. ImagePends(n + 1)'
    BY <1>1, <2>1
  <2>3. ASSUME HeaderIsWhole PROVE BodyInv(n + 1)'
    <3>1. /\ BodyFits(n + Begun) /\ (tail # "whole" => Len(text) > 3)
          /\ Len(text) - 3 = n + Begun => /\ BodyDecodes(n)
                                          /\ tail = "begun" => text[Len(text)] = <<"part">>
      BY <1>7, <2>3 DEF BodyInv
    <3>2. Begun \in {0, 1} /\ Begun' = 0 /\ (Begun = 1 => tail = "begun")
      BY <1>3 DEF Begun
    <3>3. Len(text) \in Nat /\ \A l \in 4 .. Len(text) : Len(text[l]) \in Nat
      <4>1. text \in Seq(Lines)
        BY <1>2 DEF TypeOK, Lines, Pieces
      <4> QED
        BY <4>1, LenProperties, ElementOfSeq, LineProperties
    <3>4. BodyFits(n + 1)
      BY <3>1, <3>2, <3>3 DEF BodyFits
    <3>5. BodyFits((n + 1) + Begun)'
      BY <1>1, <3>2, <3>4 DEF BodyFits
    <3>6. ASSUME Len(text) - 3 = n + 1 PROVE BodyDecodes(n + 1)'
      <4>1. Begun = 1 /\ BodyDecodes(n) /\ text[n + 4] = <<"part">>
        BY <3>1, <3>2, <3>3, <3>6 DEF BodyFits
      <4>2. Head(text[n + 4]) = "part"
        BY <4>1
      <4>3. \A l \in 4 .. (n + 1) + 3 : l \in 4 .. n + 3 \/ l = n + 4
        OBVIOUS
      <4> QED
        BY <1>1, <4>1, <4>2, <4>3 DEF BodyDecodes
    <3>7. tail' # "whole" => Len(text') > 3
      BY <1>1, <3>1
    <3> QED
      BY <1>1, <1>3, <3>2, <3>5, <3>6, <3>7 DEF BodyInv
  <2> QED
    BY <1>5, <2>1, <2>2, <2>3, <1>7
<1>8. \E n \in 0 .. Len(image') : ImagePends(n)' /\ (HeaderIsWhole' => BodyInv(n)')
  <2>1. CASE \E h \in 0 .. 2 : HeaderPends(h) /\ HeaderWritten(h)
    <3>1. ImagePends(0)' /\ ~HeaderIsWhole' /\ 0 \in 0 .. Len(image')
      BY <1>1, <1>2, <1>6, <2>1, BufferProperties
    <3> QED
      BY <3>1
  <2>2. CASE \E n \in 0 .. Len(image) : ImagePends(n) /\ (HeaderIsWhole => BodyInv(n))
    BY <1>1, <1>7, <2>2
  <2> QED
    BY <1>1, <2>1, <2>2, BufferIsSave
<1> QED
  BY <1>1, <1>3, <1>4, <1>8, BufferIsSave, SavingInv

LEMMA LoseStartInv == IInv /\ LoseStart => IInv'
<1> SUFFICES ASSUME IInv, LoseStart PROVE IInv'
  OBVIOUS
<1>1. /\ buffer # <<>> /\ Head(buffer) \in Addresses
      /\ text' = Written("part") /\ tail' = "whole"
      /\ buffer' = Tail(buffer) /\ job' = [job EXCEPT !.lost = TRUE]
      /\ UNCHANGED <<sample_field, space, pc, image, suspect>>
  BY DEF LoseStart
<1>2. TypeOK /\ pc = "saving" /\ job \in [op : {"save"}, lost : BOOLEAN]
      /\ "part" \in Pieces /\ "part" \in Addresses \cup {"part"}
  BY <1>1, BufferIsSave DEF Pieces
<1>3. job' \in [op : {"save"}, lost : BOOLEAN] /\ job'.lost
  BY <1>1, <1>2
<1>4. TypeOK'
  BY <1>1, <1>2, WrittenTypes, BufferProperties DEF TypeOK, Lines, Pieces
<1>5. \A h \in 0 .. 2 : ~HeaderPends(h)
  BY <1>1, <1>2, NextOfHeader, HeaderLinesProperties
<1>6. ASSUME NEW n \in 0 .. Len(image), ImagePends(n), HeaderIsWhole => BodyInv(n)
      PROVE  /\ n + 1 \in 0 .. Len(image) /\ ImagePends(n + 1)'
             /\ HeaderIsWhole' => BodyInv(n + 1)'
  <2>1. n + 1 \in 0 .. Len(image) /\ ImagePends(n + 1)'
    BY <1>1, <1>2, <1>6, NextOfImage
  <2>2. HeaderIsWhole' => HeaderIsWhole
    BY <1>1, <1>2, HeaderKept
  <2>3. ASSUME HeaderIsWhole PROVE BodyInv(n + 1)'
    <3>1. /\ BodyFits(n + 1)'
          /\ Len(text') - 3 = n + 1 => BodyDecodes(n)' /\ text'[n + 4] = <<"part">>
      BY <1>1, <1>2, <1>6, <2>3, BodyWritten
    <3>2. Begun' = 0 /\ tail' = "whole"
      BY <1>1 DEF Begun
    <3>3. BodyFits((n + 1) + Begun)'
      BY <3>1, <3>2 DEF BodyFits
    <3>4. ASSUME Len(text') - 3 = n + 1 PROVE BodyDecodes(n + 1)'
      <4>1. Head(text'[n + 4]) = "part"
        BY <3>1, <3>4
      <4>2. \A l \in 4 .. (n + 1) + 3 : l \in 4 .. n + 3 \/ l = n + 4
        OBVIOUS
      <4> QED
        BY <3>1, <3>4, <4>1, <4>2 DEF BodyDecodes
    <3> QED
      BY <1>3, <3>2, <3>3, <3>4 DEF BodyInv
  <2> QED
    BY <2>1, <2>2, <2>3, <1>6
<1>7. \E n \in 0 .. Len(image') : ImagePends(n)' /\ (HeaderIsWhole' => BodyInv(n)')
  BY <1>1, <1>5, <1>6, BufferIsSave
<1> QED
  BY <1>1, <1>3, <1>4, <1>7, BufferIsSave, SavingInv

\* What is behind a whole header fits the image wherever the save ends.
LEMMA EndOfSave ==
    ASSUME TypeOK, NEW n \in 0 .. Len(image), n + Begun <= Len(image), BodyInv(n)
    PROVE  /\ BodyFits(Len(image))
           /\ Len(text) - 3 = Len(image) => BodyDecodes(Len(image))
<1>1. /\ Len(text) \in Nat /\ \A l \in 4 .. Len(text) : Len(text[l]) \in Nat
      /\ Len(image) \in Nat
  <2>1. text \in Seq(Lines)
    BY DEF TypeOK, Lines, Pieces
  <2> QED
    BY <2>1, BufferProperties, LenProperties, ElementOfSeq, LineProperties
<1>2. /\ BodyFits(n + Begun)
      /\ Len(text) - 3 = n + Begun => /\ BodyDecodes(n)
                                      /\ tail = "begun" => text[Len(text)] = <<"part">>
  BY DEF BodyInv
<1>3. Begun \in {0, 1} /\ (Begun = 1 => tail = "begun")
  BY DEF Begun
<1>4. BodyFits(Len(image))
  BY <1>1, <1>2, <1>3 DEF BodyFits
<1>5. ASSUME Len(text) - 3 = Len(image) PROVE BodyDecodes(Len(image))
  <2>1. Len(text) - 3 = n + Begun /\ BodyDecodes(n)
    BY <1>1, <1>2, <1>3, <1>5 DEF BodyFits
  <2>2. CASE Begun = 0
    BY <1>1, <1>5, <2>1, <2>2
  <2>3. CASE Begun = 1
    <3>1. Len(image) = n + 1 /\ Len(text) = n + 4
      BY <1>1, <1>5, <2>1, <2>3
    <3>2. Head(text[n + 4]) = "part"
      BY <1>2, <1>3, <2>1, <2>3, <3>1
    <3>3. \A l \in 4 .. (n + 1) + 3 : l \in 4 .. n + 3 \/ l = n + 4
      OBVIOUS
    <3> QED
      BY <2>1, <3>1, <3>2, <3>3 DEF BodyDecodes
  <2> QED
    BY <1>3, <2>2, <2>3
<1> QED
  BY <1>4, <1>5

LEMMA CloseFileInv == IInv /\ CloseFile => IInv'
<1> SUFFICES ASSUME IInv, CloseFile PROVE IInv'
  OBVIOUS
<1>1. /\ pc = "saving" /\ buffer = <<>> /\ suspect' = job.lost /\ pc' = "returned"
      /\ UNCHANGED <<text, sample_field, tail, space, job, buffer, image>>
  BY DEF CloseFile
<1>2. TypeOK /\ Len(buffer) = 0 /\ Len(image) \in Nat
  BY <1>1, BufferProperties DEF IInv
<1>3. /\ job \in [op : {"save"}, lost : BOOLEAN]
      /\ Len(image) \in Samples /\ sample_field = Len(image)
      /\ \/ \E h \in 0 .. 2 : HeaderPends(h)
         \/ \E n \in 0 .. Len(image) :
                /\ ImagePends(n)
                /\ tail = "begun" => n < Len(image)
                /\ HeaderIsWhole => BodyInv(n)
                /\ ~job.lost => HeaderIsWhole
  BY <1>1 DEF IInv, SaveInv
<1>4. \A h \in 0 .. 2 : ~HeaderPends(h)
  BY <1>2 DEF HeaderPends
<1>5. /\ tail # "begun" /\ (HeaderIsWhole => BodyInv(Len(image)))
      /\ ~job.lost => HeaderIsWhole
  <2>1. \A n \in 0 .. Len(image) : ImagePends(n) => n = Len(image)
    BY <1>2 DEF ImagePends
  <2> QED
    BY <1>2, <1>3, <1>4, <2>1
<1>6. Begun = 0
  BY <1>5 DEF Begun
<1>7. TypeOK'
  BY <1>1, <1>2, <1>3, <1>5 DEF TypeOK
<1>8. FileInv'
  <2>1. HeaderIsWhole' => HeaderIsWhole
    BY <1>1 DEF HeaderIsWhole
  <2>2. HeaderIsWhole =>
            /\ BodyFits(Len(image))
            /\ Len(text) - 3 = Len(image) => BodyDecodes(Len(image))
    <3>1. Len(image) \in 0 .. Len(image) /\ Len(image) + Begun <= Len(image)
      BY <1>2, <1>6
    <3> QED
      BY <1>2, <1>5, <3>1, EndOfSave
  <2>3. ~suspect' => HeaderIsWhole /\ Len(text) - 3 = Len(image) + Begun
                                  /\ BodyIsImage(Len(image))
    BY <1>1, <1>5 DEF BodyInv
  <2>4. Len(image) + Begun = Len(image)
    BY <1>2, <1>6
  <2> QED
    BY <1>1, <1>3, <2>1, <2>2, <2>3, <2>4
    DEF FileInv, HeaderIsWhole, BodyFits, BodyDecodes, BodyIsImage
<1>9. SaveInv'
  BY <1>1 DEF SaveInv
<1>10. LoadGivesSave' /\ GoodSaveLoads' /\ StoresEndNearTable'
  <2>1. ~HasLoaded' /\ pc' # "killed"
    BY <1>1, <1>3 DEF HasLoaded
  <2> QED
    BY <2>1 DEF LoadGivesSave, GoodSaveLoads, StoresEndNearTable
<1> QED
  BY <1>7, <1>8, <1>9, <1>10 DEF IInv

LEMMA CrashInv == IInv /\ Crash => IInv'
<1> SUFFICES ASSUME IInv, Crash PROVE IInv'
  OBVIOUS
<1>1. /\ pc' = "killed" /\ job' = NoJob /\ space' = [s \in Spaces |-> None]
      /\ buffer' = <<>> /\ tail' = IF tail = "begun" THEN "cut" ELSE tail
      /\ UNCHANGED <<text, sample_field, image, suspect>>
  BY DEF Crash
<1>2. TypeOK /\ Len(image) \in Nat
  BY BufferProperties DEF IInv
<1>3. TypeOK'
  <2>1. space' \in [Spaces -> Seq(Addresses)] /\ \A s \in Spaces : Len(space'[s]) = 0
    BY <1>1, EmptySeq DEF None
  <2>2. buffer' \in Seq(Addresses \cup {"magic", "fields", "blank"})
    BY <1>1, EmptySeq
  <2>3. tail' \in {"whole", "cut"} /\ (tail' # "whole" => text' # <<>>)
    BY <1>1, <1>2 DEF TypeOK
  <2> QED
    BY <1>1, <1>2, <2>1, <2>2, <2>3 DEF TypeOK
<1>4. SaveInv'
  BY <1>1 DEF SaveInv
<1>5. FileInv'
  <2>1. CASE pc # "saving"
    BY <1>1, <2>1 DEF IInv, FileInv, HeaderIsWhole, BodyFits, BodyDecodes, BodyIsImage
  <2>2. CASE pc = "saving"
    <3>1. /\ suspect /\ Len(image) \in Samples /\ sample_field = Len(image)
          /\ \/ \E h \in 0 .. 2 : HeaderWritten(h)
             \/ \E n \in 0 .. Len(image) :
                    /\ tail = "begun" => n < Len(image)
                    /\ HeaderIsWhole => BodyInv(n)
      BY <2>2 DEF IInv, SaveInv
    <3>2. ASSUME HeaderIsWhole
          PROVE  /\ BodyFits(Len(image))
                 /\ Len(text) - 3 = Len(image) => BodyDecodes(Len(image))
      <4>1. PICK n \in 0 .. Len(image) : (tail = "begun" => n < Len(image)) /\ BodyInv(n)
        BY <1>2, <3>1, <3>2, HeaderNotYet
      <4>2. n + Begun <= Len(image)
        BY <1>2, <4>1 DEF Begun
      <4> QED
        BY <1>2, <4>1, <4>2, EndOfSave
    <3> QED
      BY <1>1, <3>1, <3>2 DEF FileInv, HeaderIsWhole, BodyFits, BodyDecodes
  <2> QED
    BY <2>1, <2>2
<1>6. LoadGivesSave' /\ GoodSaveLoads' /\ StoresEndNearTable'
  BY <1>1 DEF LoadGivesSave, GoodSaveLoads, StoresEndNearTable, HasLoaded
<1> QED
  BY <1>3, <1>4, <1>5, <1>6 DEF IInv

-----------------------------------------------------------------------------
(* The calls that begin and end between two saves.                          *)

LEMMA as_save_b64_fileInv ==
    ASSUME IInv, NEW s \in Spaces, as_save_b64_file(s)
    PROVE  IInv'
<1>1. /\ Idle /\ space[s] # <<>> /\ pc' = "saving" /\ job' = [op |-> "save", lost |-> FALSE]
      /\ text' = <<>> /\ tail' = "whole" /\ sample_field' = Len(space[s])
      /\ buffer' = HeaderLines \o space[s] /\ image' = space[s] /\ suspect' = TRUE
      /\ UNCHANGED space
  BY DEF as_save_b64_file, None
<1>2. TypeOK
  BY DEF IInv
<1>3. space[s] \in Seq(Addresses) /\ Len(space[s]) \in Samples /\ Len(space[s]) \in Nat
  <2>1. space[s] \in Seq(Addresses) /\ Len(space[s]) \in Samples \cup {0}
    BY <1>2 DEF TypeOK
  <2> QED
    BY <1>1, <2>1, EmptySeq, LenProperties
<1>4. /\ buffer' \in Seq(Addresses \cup {"magic", "fields", "blank"})
      /\ Len(buffer') = 3 + Len(space[s])
      /\ \A j \in 1 .. 3 + Len(space[s]) :
             buffer'[j] = IF j <= 3 THEN HeaderLines[j] ELSE space[s][j - 3]
  <2>1. space[s] \in Seq(Addresses \cup {"magic", "fields", "blank"})
    BY <1>3, SeqMonotonic
  <2>2. /\ HeaderLines \in Seq(Addresses \cup {"magic", "fields", "blank"})
        /\ Len(HeaderLines) = 3
    BY HeaderLinesProperties
  <2>3. /\ buffer' \in Seq(Addresses \cup {"magic", "fields", "blank"})
        /\ Len(buffer') = Len(HeaderLines) + Len(space[s])
        /\ \A j \in 1 .. Len(HeaderLines) + Len(space[s]) :
               buffer'[j] = IF j <= Len(HeaderLines) THEN HeaderLines[j]
                            ELSE space[s][j - Len(HeaderLines)]
    BY <1>1, <2>1, <2>2, ConcatProperties, Zenon
  <2> QED
    BY <2>2, <2>3
<1>5. TypeOK'
  <2>1. text' \in Seq(Lines)
    BY <1>1, EmptySeq
  <2> QED
    BY <1>1, <1>2, <1>3, <1>4, <2>1 DEF TypeOK, Lines, Pieces
<1>6. HeaderPends(0)'
  <2>1. Len(buffer') = Len(image') + 3 - 0
    BY <1>1, <1>3, <1>4
  <2>2. \A j \in 1 .. 3 - 0 : buffer'[j] = HeaderLines[0 + j]
    BY <1>3, <1>4
  <2>3. \A j \in 1 .. Len(image') : buffer'[3 - 0 + j] = image'[j]
    BY <1>1, <1>3, <1>4
  <2> QED
    BY <2>1, <2>2, <2>3 DEF HeaderPends
<1>7. HeaderWritten(0)'
  BY <1>1 DEF HeaderWritten, Begun
<1> QED
  BY <1>1, <1>3, <1>5, <1>6, <1>7, SavingInv

\* Another program's file has no whole header of as_save_b64_file.
LEMMA ReplaceInv == IInv /\ Replace => IInv'
<1> SUFFICES ASSUME IInv, Replace PROVE IInv'
  OBVIOUS
<1>1. TypeOK /\ Idle
  BY DEF IInv, Replace
<1> DEFINE h == << <<"magic">>, <<"alien">>, <<"blank">> >>
<1>2. PICK n \in Samples, v \in Values :
          text' = h \o [l \in 1 .. n |-> <<v>>] /\ sample_field' = n
  BY DEF Replace
<1>3. /\ tail' = "whole" /\ image' = <<>> /\ suspect' = TRUE
      /\ pc' = "idle" /\ job' = NoJob /\ UNCHANGED <<space, buffer>>
  BY DEF Replace, AtOnce, None
<1>4. n \in Nat /\ v \in Pieces
  BY SamplesAssumption DEF Pieces, Addresses
<1>5. text' \in Seq(Lines) /\ Len(text') = 3 + n /\ text'[2] = <<"alien">>
  <2> DEFINE body == [l \in 1 .. n |-> <<v>>]
  <2>1. body \in Seq(Lines) /\ Len(body) = n
    <3>1. body \in [1 .. n -> Lines]
      BY <1>4, PieceIsLine
    <3> QED
      BY <1>4, <3>1
  <2>2. h \in Seq(Lines) /\ Len(h) = 3 /\ h[2] = <<"alien">>
    <3>1. <<"magic">> \in Lines /\ <<"alien">> \in Lines /\ <<"blank">> \in Lines
      BY PieceIsLine DEF Pieces
    <3> QED
      BY <3>1
  <2> HIDE DEF h, body
  <2>3. text' = h \o body
    BY <1>2 DEF body, h
  <2>4. /\ text' \in Seq(Lines) /\ Len(text') = Len(h) + Len(body)
        /\ \A j \in 1 .. Len(h) + Len(body) :
               text'[j] = IF j <= Len(h) THEN h[j] ELSE body[j - Len(h)]
    BY <2>1, <2>2, <2>3, ConcatProperties, Zenon
  <2> QED
    BY <1>4, <2>1, <2>2, <2>4
<1>6. ~HeaderIsWhole'
  BY <1>5, HeaderByLines DEF HeaderIsWhole, HasHeader
<1>7. buffer' = <<>> /\ pc # "saving"
  BY <1>1, <1>3 DEF TypeOK, Idle
<1>8. TypeOK'
  <2>1. image' \in Seq(Addresses)
    BY <1>3, EmptySeq
  <2> QED
    BY <1>1, <1>2, <1>3, <1>5, <1>7, <2>1 DEF TypeOK, Lines, Pieces
<1>9. SaveInv' /\ FileInv'
  BY <1>3, <1>6 DEF SaveInv, FileInv
<1> QED
  BY <1>3, <1>8, <1>9, NothingLoaded DEF IInv

\* Calls that work in memory.
LEMMA MemoryCallsInv ==
    ASSUME IInv, NEW s \in Spaces,
           \/ \E n \in Samples : as_init_random(s, n)
           \/ as_free(s)
           \/ as_reset_address(s)
    PROVE  IInv'
<1>1. TypeOK
  BY DEF IInv
<1>2. /\ Idle /\ pc' = "idle" /\ job' = NoJob
      /\ UNCHANGED <<text, sample_field, tail, buffer, image, suspect>>
  BY DEF as_init_random, as_free, as_reset_address, AtOnce
<1>3. space' \in [Spaces -> Seq(Addresses)] /\ \A t \in Spaces : Len(space'[t]) \in Samples \cup {0}
  <2>1. space \in [Spaces -> Seq(Addresses)] /\ \A t \in Spaces : Len(space[t]) \in Samples \cup {0}
    BY <1>1 DEF TypeOK
  <2>2. ASSUME NEW n \in Samples, as_init_random(s, n)
        PROVE  space' \in [Spaces -> Seq(Addresses)]
               /\ \A t \in Spaces : Len(space'[t]) \in Samples \cup {0}
    <3>1. PICK rows \in [1 .. n -> Values] : space' = [space EXCEPT ![s] = rows]
      BY <2>2 DEF as_init_random
    <3>2. rows \in Seq(Addresses) /\ Len(rows) = n
      <4>1. rows \in [1 .. n -> Addresses] /\ n \in Nat
        BY SamplesAssumption DEF Addresses
      <4> QED
        BY <4>1
    <3> QED
      BY <2>1, <3>1, <3>2
  <2>3. ASSUME as_free(s)
        PROVE  space' \in [Spaces -> Seq(Addresses)]
               /\ \A t \in Spaces : Len(space'[t]) \in Samples \cup {0}
    BY <2>1, <2>3, EmptySeq DEF as_free, None
  <2>4. ASSUME as_reset_address(s)
        PROVE  space' \in [Spaces -> Seq(Addresses)]
               /\ \A t \in Spaces : Len(space'[t]) \in Samples \cup {0}
    <3>1. PICK l \in DOMAIN space[s], v \in Values : space' = [space EXCEPT ![s][l] = v]
      BY <2>4 DEF as_reset_address
    <3> DEFINE rows == [space[s] EXCEPT ![l] = v]
    <3>2. rows \in Seq(Addresses) /\ Len(rows) = Len(space[s])
      BY <2>1, LenProperties, ExceptSeq DEF Addresses
    <3>3. space' = [space EXCEPT ![s] = rows]
      BY <3>1
    <3> HIDE DEF rows
    <3> QED
      BY <2>1, <3>2, <3>3
  <2> QED
    BY <2>2, <2>3, <2>4
<1>4. TypeOK'
  BY <1>1, <1>2, <1>3 DEF TypeOK, Idle
<1> QED
  BY <1>2, <1>4, FileUntouched, NothingLoaded DEF IInv

-----------------------------------------------------------------------------
(* Loading.                                                                 *)

\* The greatest of some numbers that have a bound.
LEMMA MaxOfBounded ==
    ASSUME NEW S \in SUBSET Int, S # {}, NEW bound \in Int, \A x \in S : x <= bound
    PROVE  Max(S) \in S
<1> DEFINE D == {bound - x : x \in S}
<1>1. D \subseteq Nat /\ D # {}
  <2>1. PICK x \in S : TRUE
    OBVIOUS
  <2>2. bound - x \in D
    OBVIOUS
  <2>3. \A y \in S : bound - y \in Nat
    OBVIOUS
  <2> QED
    BY <2>2, <2>3
<1>2. PICK d \in D : \A e \in D : ~ (<<e, d>> \in OpToRel(<, Nat))
  <2> HIDE DEF D
  <2> QED
    BY <1>1, WFMin, NatLessThanWellFounded, Zenon
<1>3. \A e \in D : d <= e
  <2>1. \A e \in D : ~ (e < d)
    BY <1>1, <1>2 DEF OpToRel
  <2>2. \A e \in D : e \in Nat
    BY <1>1
  <2> QED
    BY <2>1, <2>2
<1>4. PICK x \in S : d = bound - x
  OBVIOUS
<1>5. \A y \in S : x >= y
  BY <1>3, <1>4
<1> QED
  BY <1>5 DEF Max

\* The lines behind a whole header.
LEMMA BodyLinesProperties ==
    ASSUME TypeOK, HeaderIsWhole
    PROVE  /\ BodyLines \in Seq(Lines) /\ Len(BodyLines) = Len(text) - 3
           /\ Len(text) \in Nat /\ Len(text) >= 3
           /\ DOMAIN BodyLines = 1 .. Len(text) - 3
           /\ \A l \in 1 .. Len(text) - 3 : BodyLines[l] = text[l + 3] /\ text[l + 3] \in Lines
<1>1. text \in Seq(Lines) /\ Len(text) \in Nat /\ Len(text) >= 3
  BY LenProperties DEF TypeOK, Lines, Pieces, HeaderIsWhole
<1>2. \A i \in 4 .. Len(text) : text[i] \in Lines
  BY <1>1, ElementOfSeq
<1>3. /\ BodyLines \in Seq(Lines)
      /\ Len(BodyLines) = IF 4 <= Len(text) THEN Len(text) - 4 + 1 ELSE 0
      /\ \A i \in 1 .. Len(text) - 4 + 1 : BodyLines[i] = text[4 + i - 1]
  BY <1>1, <1>2, SubSeqProperties DEF BodyLines
<1>4. Len(BodyLines) = Len(text) - 3
  <2>1. \A m \in Nat : m >= 3 => (IF 4 <= m THEN m - 4 + 1 ELSE 0) = m - 3
    OBVIOUS
  <2> QED
    BY <1>1, <1>3, <2>1, Zenon
<1>5. DOMAIN BodyLines = 1 .. Len(text) - 3
  BY <1>3, <1>4, LenProperties
<1>6. ASSUME NEW l \in 1 .. Len(text) - 3
      PROVE  BodyLines[l] = text[l + 3] /\ text[l + 3] \in Lines
  BY <1>1, <1>2, <1>3
<1> QED
  BY <1>1, <1>3, <1>4, <1>5, <1>6

LEMMA TimesMonotonic ==
    ASSUME NEW k \in Nat, NEW m \in Nat, k <= m, NEW r \in Nat
    PROVE  k * r <= m * r
<1>1. m * r = k * r + (m - k) * r
  OBVIOUS
<1>2. (m - k) * r \in Nat /\ k * r \in Nat
  BY m - k \in Nat
<1> QED
  BY <1>1, <1>2

\* All characters of m addresses, decoded as one line, end with the last of them or
\* behind it.
LEMMA CharsProperties ==
    /\ Chars \in Nat /\ 4 * RowBytes <= 3 * Chars
    /\ \A m \in Nat : (3 * m * Chars) \div 4 \in Nat
<1>1. RowBytes \in Nat
  BY RowBytesAssumption
<1>2. Chars \in Nat /\ 4 * RowBytes <= 3 * Chars
  BY <1>1 DEF Chars
<1>3. ASSUME NEW m \in Nat PROVE (3 * m * Chars) \div 4 \in Nat
  <2>1. 3 * m * Chars \in Nat
    BY <1>2
  <2> QED
    BY <2>1
<1> QED
  BY <1>2, <1>3

\* p addresses stored in their places, and q decoded as one line behind them.
LEMMA DecodedTogether ==
    ASSUME NEW p \in Nat, NEW q \in Nat
    PROVE  p * RowBytes + (3 * q * Chars) \div 4 <= (3 * (p + q) * Chars) \div 4
<1> DEFINE x == 3 * Chars
           a == p * RowBytes
           b == q * x
           c == p * x
<1>1. RowBytes \in Nat /\ x \in Nat /\ 4 * RowBytes <= x
  BY RowBytesAssumption, CharsProperties
<1>2. a \in Nat /\ b \in Nat /\ c \in Nat
  BY <1>1
<1>3. 4 * a <= c
  <2>1. PICK d \in Nat : x = 4 * RowBytes + d
    BY <1>1
  <2>2. c = 4 * a + p * d /\ p * d \in Nat
    BY <1>1, <2>1
  <2> QED
    BY <1>2, <2>2
<1>4. 3 * q * Chars = b /\ 3 * (p + q) * Chars = c + b
  BY CharsProperties
<1> HIDE DEF a, b, c
<1>5. a + b \div 4 <= (c + b) \div 4
  BY <1>2, <1>3
<1> QED
  BY <1>4, <1>5 DEF a

\* A line that is one address.
LEMMA DecodedAlone ==
    (3 * 1 * Chars) \div 4 = RowBytes
BY RowBytesAssumption DEF Chars

\* Lines that fit the image are stored where its characters would be, and those of
\* as many lines as it has addresses in the table, but for one byte.
LEMMA StoredInTable ==
    ASSUME TypeOK, HeaderIsWhole, BodyFits(Len(image)), sample_field = Len(image)
    PROVE  /\ Stored <= (3 * sample_field * Chars) \div 4 + 1
           /\ Len(text) - 3 = sample_field => Stored <= sample_field * RowBytes + 1
<1> DEFINE End(l) == (l - 1) * RowBytes + Base64decode(BodyLines[l])
           Ends == {0} \cup {End(l) : l \in DOMAIN BodyLines}
           bound == (3 * sample_field * Chars) \div 4 + 1
           table == sample_field * RowBytes + 1
<1>1. /\ RowBytes \in Nat /\ sample_field \in Nat /\ sample_field * RowBytes \in Nat
      /\ Chars \in Nat /\ \A m \in Nat : (3 * m * Chars) \div 4 \in Nat
  <2>1. RowBytes \in Nat /\ sample_field \in Nat
    BY RowBytesAssumption, BufferProperties
  <2>2. sample_field * RowBytes \in Nat
    BY <2>1
  <2> QED
    BY <2>1, <2>2, CharsProperties
<1>2. ASSUME NEW l \in DOMAIN BodyLines
      PROVE  /\ End(l) \in Int /\ End(l) <= bound
             /\ Len(text) - 3 = sample_field => End(l) <= table
  <2> DEFINE p == l - 1
             q == Len(text[l + 3])
             stored == (3 * q * Chars) \div 4
  <2>1. /\ l \in 1 .. Len(text) - 3 /\ Len(text) \in Nat
        /\ BodyLines[l] = text[l + 3] /\ text[l + 3] \in Lines
    BY <1>2, BodyLinesProperties
  <2>2. p \in Nat /\ q \in Nat \ {0} /\ l + 3 \in 4 .. Len(text)
    BY <2>1, LineProperties
  <2>3. Len(text) - 4 + q <= sample_field
    BY <2>2, Zenon DEF BodyFits
  <2>4. p + q <= sample_field /\ p + 1 <= Len(text) - 3
    BY <1>1, <2>1, <2>2, <2>3
  <2>5. End(l) = p * RowBytes + (stored + 1) /\ stored \in Nat
    BY <1>1, <2>1, <2>2 DEF Base64decode
  <2> HIDE DEF p, q, End
  <2>6. p * RowBytes \in Nat
    BY <1>1, <2>2
  <2>7. End(l) <= bound
    <3>1. p * RowBytes + stored <= (3 * (p + q) * Chars) \div 4
      BY <2>2, DecodedTogether
    <3>2. (3 * (p + q) * Chars) \div 4 <= (3 * sample_field * Chars) \div 4
      <4>1. (p + q) * (3 * Chars) <= sample_field * (3 * Chars)
        BY <1>1, <2>2, <2>4, TimesMonotonic
      <4>2. /\ (p + q) * (3 * Chars) = 3 * (p + q) * Chars
            /\ sample_field * (3 * Chars) = 3 * sample_field * Chars
        BY <1>1, <2>2
      <4>3. 3 * (p + q) * Chars \in Nat /\ 3 * sample_field * Chars \in Nat
        BY <1>1, <2>2
      <4>4. \A i \in Nat, j \in Nat : i <= j => i \div 4 <= j \div 4
        OBVIOUS
      <4> QED
        BY <4>1, <4>2, <4>3, <4>4
    <3>3. (3 * (p + q) * Chars) \div 4 \in Nat /\ (3 * sample_field * Chars) \div 4 \in Nat
      BY <1>1, <2>2
    <3> HIDE DEF stored
    <3> QED
      BY <2>5, <2>6, <3>1, <3>2, <3>3
  <2>8. ASSUME Len(text) - 3 = sample_field PROVE End(l) <= table
    <3>1. q = 1
      BY <1>1, <2>2, <2>3, <2>8
    <3>2. stored = RowBytes
      BY <3>1, DecodedAlone
    <3>3. (p + 1) * RowBytes <= sample_field * RowBytes
      BY <1>1, <2>2, <2>4, <2>8, TimesMonotonic
    <3>4. (p + 1) * RowBytes = p * RowBytes + RowBytes
      BY <1>1, <2>2
    <3> HIDE DEF stored
    <3> QED
      BY <1>1, <2>5, <2>6, <3>2, <3>3, <3>4
  <2> QED
    BY <2>5, <2>6, <2>7, <2>8
<1>3. /\ Ends \in SUBSET Int /\ 0 \in Ends /\ bound \in Int /\ \A x \in Ends : x <= bound
      /\ table \in Int /\ (Len(text) - 3 = sample_field => \A x \in Ends : x <= table)
  <2>1. bound \in Nat /\ table \in Nat
    BY <1>1
  <2> HIDE DEF bound, table, End
  <2> QED
    BY <1>2, <2>1
<1>4. Stored = Max(Ends)
  BY DEF Stored
<1> HIDE DEF Ends, bound, table
<1>5. Max(Ends) \in Ends
  BY <1>3, MaxOfBounded
<1>6. Stored <= bound /\ (Len(text) - 3 = sample_field => Stored <= table)
  BY <1>3, <1>4, <1>5
<1> QED
  BY <1>6 DEF bound, table

LEMMA LoadWholeInv == ASSUME IInv, NEW s \in Spaces, LoadWhole(s) PROVE IInv'
<1>1. TypeOK /\ Idle /\ pc # "saving" /\ HeaderIsWhole /\ pc' = "returned"
      /\ UNCHANGED <<text, sample_field, tail, buffer, image, suspect>>
  BY DEF IInv, LoadWhole, Loads, Idle
<1>2. /\ Len(image) \in Samples /\ sample_field = Len(image) /\ BodyFits(Len(image))
      /\ Len(text) - 3 = Len(image) => BodyDecodes(Len(image))
      /\ ~suspect /\ text # <<>> => Len(text) - 3 = Len(image) /\ BodyIsImage(Len(image))
  BY <1>1 DEF IInv, FileInv
<1>3. /\ BodyLines \in Seq(Lines) /\ Len(BodyLines) = Len(text) - 3
      /\ Len(text) \in Nat /\ Len(text) >= 3
      /\ DOMAIN BodyLines = 1 .. Len(text) - 3
      /\ \A l \in 1 .. Len(text) - 3 : BodyLines[l] = text[l + 3] /\ text[l + 3] \in Lines
  BY <1>1, BodyLinesProperties
<1>4. SaveInv' /\ FileInv'
  BY <1>1, FileUntouched
<1>5. /\ Stored <= (3 * sample_field * Chars) \div 4 + 1
      /\ IsComplete(Len(BodyLines)) => Stored <= sample_field * RowBytes + 1
  <2>1. IsComplete(Len(BodyLines)) => Len(text) - 3 = sample_field
    BY <1>3 DEF IsComplete
  <2> QED
    BY <1>1, <1>2, <2>1, StoredInTable
<1>6. space \in [Spaces -> Seq(Addresses)] /\ \A t \in Spaces : Len(space[t]) \in Samples \cup {0}
  BY <1>1 DEF TypeOK
<1>7. CASE IsComplete(Len(BodyLines))
  <2>1. job' = [op |-> "load", space |-> s, ret |-> 0, end |-> Stored]
        /\ space' = [space EXCEPT ![s] = Contents]
    BY <1>7 DEF LoadWhole, Loads
  <2>2. Len(text) - 3 = Len(image) /\ BodyDecodes(Len(image)) /\ Len(image) \in Nat
    BY <1>1, <1>2, <1>3, <1>7, BufferProperties DEF IsComplete
  <2>3. ASSUME NEW l \in 1 .. Len(image)
        PROVE  /\ Decoded(BodyLines[l]) \in Addresses
               /\ Decoded(BodyLines[l]) \in {image[l], Junk}
               /\ ~suspect => Decoded(BodyLines[l]) = image[l]
    <3>1. image[l] \in Addresses /\ image[l] # "part"
      BY <1>1, BufferProperties, ValuesAssumption DEF Addresses, Junk
    <3>2. BodyLines[l] = text[l + 3] /\ l + 3 \in 4 .. Len(image) + 3 /\ (l + 3) - 3 = l
      BY <1>3, <2>2
    <3>3. Head(text[l + 3]) \in {image[l], "part"}
      BY <2>2, <3>2 DEF BodyDecodes
    <3>4. ASSUME ~suspect PROVE Head(text[l + 3]) = image[l]
      <4>1. text # <<>>
        BY <1>3, EmptySeq
      <4>2. text[l + 3] = <<image[l]>>
        BY <1>2, <3>2, <3>4, <4>1 DEF BodyIsImage
      <4> QED
        BY <4>2
    <3> QED
      BY <3>1, <3>2, <3>3, <3>4 DEF Decoded, Addresses
  <2>4. Contents \in [1 .. Len(image) -> Addresses] /\ \A l \in 1 .. Len(image) :
            Contents[l] = Decoded(BodyLines[l])
    BY <1>3, <2>2, <2>3 DEF Contents
  <2>5. Contents \in Seq(Addresses) /\ Len(Contents) = Len(image)
    <3> HIDE DEF Contents
    <3> QED
      BY <2>2, <2>4
  <2>6. TypeOK'
    <3>1. space' \in [Spaces -> Seq(Addresses)]
          /\ \A t \in Spaces : Len(space'[t]) \in Samples \cup {0}
      BY <1>2, <1>6, <2>1, <2>5
    <3> QED
      BY <1>1, <3>1 DEF TypeOK
  <2>7. LoadGivesSave'
    <3>1. space'[s] = Contents
      BY <1>6, <2>1
    <3>2. DOMAIN image = 1 .. Len(image)
      BY <1>1, LenProperties DEF TypeOK
    <3>3. job'.space = s /\ UNCHANGED <<image, suspect>>
      BY <1>1, <2>1
    <3>4. /\ Len(space'[s]) = Len(image)
          /\ \A l \in DOMAIN image : space'[s][l] # image[l] => suspect /\ space'[s][l] = Junk
      BY <2>3, <2>4, <2>5, <3>1, <3>2
    <3> QED
      BY <3>3, <3>4 DEF LoadGivesSave
  <2>8. GoodSaveLoads' /\ StoresEndNearTable'
    BY <1>1, <1>5, <1>7, <2>1 DEF GoodSaveLoads, StoresEndNearTable, HasLoaded
  <2> QED
    BY <1>4, <2>6, <2>7, <2>8 DEF IInv
<1>8. CASE ~IsComplete(Len(BodyLines))
  <2>1. job' = [op |-> "load", space |-> s, ret |-> -9, end |-> Stored] /\ UNCHANGED space
    BY <1>8 DEF LoadWhole, Loads
  <2>2. TypeOK'
    BY <1>1, <2>1 DEF TypeOK
  <2>3. suspect \/ text = <<>>
    BY <1>2, <1>3, <1>8 DEF IsComplete
  <2>4. LoadGivesSave' /\ GoodSaveLoads' /\ StoresEndNearTable'
    BY <1>1, <1>5, <2>1, <2>3 DEF LoadGivesSave, GoodSaveLoads, StoresEndNearTable, HasLoaded
  <2> QED
    BY <1>4, <2>2, <2>4 DEF IInv
<1> QED
  BY <1>7, <1>8

\* A load that stores nothing.
LEMMA RefusedLoadInv ==
    ASSUME IInv, NEW s \in Spaces,
           LoadFindsNoMemory(s) \/ LoadStopsInHeader(s) \/ LoadDies(s)
    PROVE  IInv'
<1>1. TypeOK /\ Idle /\ pc # "saving" /\ pc' \in {"returned", "killed"}
      /\ UNCHANGED <<text, sample_field, tail, buffer, image, suspect>>
  BY DEF IInv, LoadFindsNoMemory, LoadStopsInHeader, LoadDies, Loads, Idle
<1>2. SaveInv' /\ FileInv'
  BY <1>1, FileUntouched
<1>3. ~suspect /\ text # <<>> => HeaderIsWhole
  BY <1>1 DEF IInv, FileInv
<1>4. 0 <= (3 * sample_field * Chars) \div 4 + 1
  <2>1. sample_field \in Nat
    BY <1>1, SamplesAssumption DEF TypeOK
  <2>2. (3 * sample_field * Chars) \div 4 \in Nat
    BY <2>1, CharsProperties
  <2> QED
    BY <2>2
<1>5. ASSUME NEW ret \in Int, pc' = "returned", UNCHANGED space,
             job' = [op |-> "load", space |-> s, ret |-> ret, end |-> 0],
             ret # 0, ret = -8 \/ ~HeaderIsWhole
      PROVE  IInv'
  <2>1. TypeOK'
    BY <1>1, <1>5 DEF TypeOK
  <2>2. LoadGivesSave' /\ GoodSaveLoads' /\ StoresEndNearTable'
    BY <1>1, <1>3, <1>4, <1>5 DEF LoadGivesSave, GoodSaveLoads, StoresEndNearTable, HasLoaded
  <2> QED
    BY <1>2, <2>1, <2>2 DEF IInv
<1>6. CASE LoadFindsNoMemory(s)
  BY <1>5, <1>6 DEF LoadFindsNoMemory, Loads
<1>7. CASE LoadStopsInHeader(s)
  <2>1. PICK ret \in HeaderCodes : Loads(s, ret, 0)
    BY <1>7 DEF LoadStopsInHeader
  <2>2. ret \in Int /\ ret # 0
    BY <2>1 DEF HeaderCodes
  <2> QED
    BY <1>5, <1>7, <2>1, <2>2 DEF LoadStopsInHeader, Loads
<1>8. CASE LoadDies(s)
  <2>1. /\ ~HeaderIsWhole /\ pc' = "killed" /\ space' = [t \in Spaces |-> None]
    BY <1>8 DEF LoadDies
  <2>2. TypeOK'
    <3>1. space' \in [Spaces -> Seq(Addresses)] /\ \A t \in Spaces : Len(space'[t]) = 0
      BY <2>1, EmptySeq DEF None
    <3> QED
      BY <1>1, <2>1, <3>1 DEF TypeOK, Idle
  <2>3. LoadGivesSave' /\ GoodSaveLoads' /\ StoresEndNearTable'
    BY <1>1, <1>3, <2>1 DEF LoadGivesSave, GoodSaveLoads, StoresEndNearTable, HasLoaded
  <2> QED
    BY <1>2, <2>2, <2>3 DEF IInv
<1> QED
  BY <1>6, <1>7, <1>8

-----------------------------------------------------------------------------
LEMMA NextInv == IInv /\ [Next]_vars => IInv'
<1> SUFFICES ASSUME IInv, [Next]_vars PROVE IInv'
  OBVIOUS
<1>1. CASE \E s \in Spaces : \/ \E n \in Samples : as_init_random(s, n)
                            \/ as_free(s)
                            \/ as_reset_address(s)
  BY <1>1, MemoryCallsInv
<1>2. CASE \E s \in Spaces : as_save_b64_file(s)
  BY <1>2, as_save_b64_fileInv
<1>3. CASE \E s \in Spaces : as_init_from_b64_file(s)
  BY <1>3, LoadWholeInv, RefusedLoadInv DEF as_init_from_b64_file
<1>4. CASE FlushPart
  BY <1>4, FlushPartInv
<1>5. CASE Flush
  BY <1>5, FlushInv
<1>6. CASE LoseLine
  BY <1>6, LoseLineInv
<1>7. CASE LoseStart
  BY <1>7, LoseStartInv
<1>8. CASE CloseFile
  BY <1>8, CloseFileInv
<1>9. CASE Replace
  BY <1>9, ReplaceInv
<1>10. CASE Crash
  BY <1>10, CrashInv
<1>11. CASE UNCHANGED vars
  <2> USE <1>11 DEF vars
  <2>1. TypeOK'
    BY DEF IInv, TypeOK
  <2>2. SaveInv'
    BY DEF IInv, SaveInv, HeaderPends, HeaderWritten, ImagePends, HeaderIsWhole, BodyInv,
           BodyFits, BodyDecodes, BodyIsImage, Begun
  <2>3. FileInv'
    BY DEF IInv, FileInv, HeaderIsWhole, BodyFits, BodyDecodes, BodyIsImage
  <2>4. LoadGivesSave' /\ GoodSaveLoads' /\ StoresEndNearTable'
    BY DEF IInv, LoadGivesSave, GoodSaveLoads, StoresEndNearTable, HasLoaded
  <2> QED
    BY <2>1, <2>2, <2>3, <2>4 DEF IInv
<1> QED
  BY <1>1, <1>2, <1>3, <1>4, <1>5, <1>6, <1>7, <1>8, <1>9, <1>10, <1>11 DEF Next

\* The inductive invariant of as_save_b64_file and as_init_from_b64_file.
THEOREM Invariance == Spec => []IInv
BY InitInv, NextInv, PTL DEF Spec

\* What is in memory, in the file and in stdio's buffer has its type.
THEOREM FileTypesCorrect == Spec => []TypeOK
<1>1. IInv => TypeOK
  BY DEF IInv
<1> QED
  BY <1>1, Invariance, PTL

\* When as_init_from_b64_file returns 0, it has read the last save: each address
\* is that which was saved in its place, or, if that save did not end well, the
\* rest of a damaged line.
THEOREM LoadedIsLastSave == Spec => []LoadGivesSave
<1>1. IInv => LoadGivesSave
  BY DEF IInv
<1> QED
  BY <1>1, Invariance, PTL

\* as_init_from_b64_file refuses no file that as_save_b64_file wrote in full, but
\* for want of memory, and does not die of one.
THEOREM FullSaveIsLoaded == Spec => []GoodSaveLoads
<1>1. IInv => GoodSaveLoads
  BY DEF IInv
<1> QED
  BY <1>1, Invariance, PTL

\* Though it counts the lines when all are stored, as_init_from_b64_file stores no more
\* than all characters of the saved addresses would decode to, and one byte; when it
\* returns 0, one byte behind the table at most.
THEOREM LoadStaysInTable == Spec => []StoresEndNearTable
<1>1. IInv => StoresEndNearTable
  BY DEF IInv
<1> QED
  BY <1>1, Invariance, PTL
==============================================================================
