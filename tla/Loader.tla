------------------------------- MODULE Loader -------------------------------
(***************************************************************************)
(* The program loadzero (programs/loadzero.c), which turns a load module   *)
(* unloaded to a file into the storage it takes when loaded at a given     *)
(* address.  A run of it is one more call, as those of Library.            *)
(*                                                                         *)
(* Of a file the model keeps its first eight bytes being right, the        *)
(* lengths of the first three records (and in the third of the directory   *)
(* entry), and of the others the parts they are made of: control records,  *)
(* program text as a sequence of words, and relocation lists.  The text    *)
(* moves to the start of the buffer, where it overwrites only what has     *)
(* been read, since every part follows a longer header; so the file's      *)
(* records stay as they are.                                               *)
(***************************************************************************)
EXTENDS Library

CONSTANTS
  Programs,     \* the files, see File
  Origins,      \* the relocation addresses given (rlad)
  ImageBits,    \* width of a word of the text (32)
  AddressBits,  \* width of a three-byte address in its low part (24)
  MaxExe        \* MAXEXE

\* The types of parts; a part of another type is passed over.
Control    == 1
RLD        == 2
ControlRLD == 3
ControlEnd == 13    \* control, the text behind it is the last
RLDEnd     == 14
CESD       == 32
Text       == -1    \* not in the file: what lastt is after text

(***************************************************************************)
(* An entry adjusts the address of `bytes' bytes in the word `at', one     *)
(* that is loaded before the entry is read; with cont, the next entry has  *)
(* the same R and P pointers and omits them.                               *)
(* `missing' bytes of a list are cut off; `lost' bytes of a record's       *)
(* length.  A part of length 0 is the end of the data.                     *)
(***************************************************************************)
Entry == [at : Nat, bytes : 1..4, negative : BOOLEAN, cont : BOOLEAN]
Part == [type : Nat, text : Seq(Nat), rld : Seq(Entry), len : Nat, missing : Nat]
File == [magic : BOOLEAN, head : Seq(Nat), dir : Nat, entry : Nat,
         records : Seq([parts : Seq(Part), lost : Nat])]

ASSUME LoaderAssumption ==
  /\ Programs \subseteq File /\ Origins \subseteq Nat
  /\ AddressBits \in Nat /\ ImageBits \in Nat /\ AddressBits < ImageBits
  /\ MaxExe \in Nat

----------------------------------------------------------------------------
(* processRLD: `rld' begins behind a header of 16 bytes. *)

Zapped(image, at, rlad) ==
  [image EXCEPT ![at] = (@ + rlad) % (2 ^ ImageBits)]

ZapEntry(s, e, rlad, fin) ==
  LET r == IF s.cont THEN s.r ELSE s.r + 4 IN
  IF s.failed \/ s.r = fin THEN s
  ELSE IF \/ ~s.cont /\ r >= fin
          \/ e.negative
          \/ e.bytes \notin {3, 4}
          \/ e.bytes = 3 /\ rlad >= 2 ^ AddressBits
          \/ r + 4 > fin
       THEN [s EXCEPT !.failed = TRUE]
       ELSE [s EXCEPT !.image = Zapped(@, e.at, rlad), !.r = r + 4, !.cont = e.cont]

processRLD(image, rlad, rld, len) ==
  LET s[i \in 0..Len(rld)] ==
        IF i = 0 THEN [image |-> image, r |-> 16, cont |-> FALSE, failed |-> FALSE]
        ELSE ZapEntry(s[i - 1], rld[i], rlad, len)
  IN s[Len(rld)]

RLDLength(rld) ==
  16 + 8 * Len(rld) - 4 * Cardinality({i \in DOMAIN rld : i > 1 /\ rld[i - 1].cont})

----------------------------------------------------------------------------
(* fixPE: the parts of a record, the records of a file.                    *)
(*                                                                         *)
(* l2 is the length of a part, r2 what remains of the record behind the    *)
(* part's header of 10 bytes.                                              *)

l2(part) ==
  CASE part.text # << >> -> 4 * Len(part.text)
    [] part.rld # << >>  -> RLDLength(part.rld) + part.len - part.missing
    [] OTHER             -> part.len

RecordLength(record) ==
  LET l[i \in 0..Len(record.parts)] ==
        IF i = 0 THEN 4 ELSE l[i - 1] + 12 + l2(record.parts[i])
  IN l[Len(record.parts)] - record.lost

Relocated(s, part, rlad, len, last) ==
  LET z == processRLD(s.image, rlad, part.rld, len)
  IN [s EXCEPT !.image = z.image, !.over = z.failed \/ last,
               !.corrupt = IF last THEN z.failed ELSE @, !.lastt = part.type]

\* Program text is what follows a control record, whatever it looks like.
\* Mutant: it is told from its first byte.
PartByType(s, part, rlad) ==
  IF s.lastt \in {Control, ControlRLD, ControlEnd} /\ part.type \notin {RLD, ControlRLD, RLDEnd}
  THEN [s EXCEPT !.image = @ \o part.text, !.lastt = Text,
                 !.over = s.lastt = ControlEnd,
                 !.corrupt = IF s.lastt = ControlEnd THEN FALSE ELSE @]
  ELSE CASE part.type = RLD        -> Relocated(s, part, rlad, l2(part), FALSE)
         [] part.type = ControlRLD -> Relocated(s, part, rlad, l2(part) - part.len, FALSE)
         [] part.type = RLDEnd     -> Relocated(s, part, rlad, l2(part), TRUE)
         [] OTHER                  -> [s EXCEPT !.lastt = part.type]

PartDone(s, part, rlad) ==
  IF s.lastt \in {Control, ControlRLD, ControlEnd}
  THEN [s EXCEPT !.image = @ \o part.text, !.lastt = Text,
                 !.over = s.lastt = ControlEnd,
                 !.corrupt = IF s.lastt = ControlEnd THEN FALSE ELSE @]
  ELSE CASE part.type = RLD        -> Relocated(s, part, rlad, l2(part), FALSE)
         [] part.type = ControlRLD -> Relocated(s, part, rlad, l2(part) - part.len, FALSE)
         [] part.type = RLDEnd     -> Relocated(s, part, rlad, l2(part), TRUE)
         [] OTHER                  -> [s EXCEPT !.lastt = part.type]

\* Whether the record ends here, and how: cleanly, or as one that is damaged.
NextPart(s, part, rlad) ==
  LET left == s.r2 - 2 - l2(part)
      t    == PartDone(s, part, rlad)
  IN IF s.over \/ s.ended THEN s
     ELSE IF left < 0 THEN [s EXCEPT !.over = TRUE]
     ELSE IF l2(part) = 0 THEN [s EXCEPT !.ended = TRUE]
     ELSE IF t.over THEN t
     ELSE IF left = 0 THEN [t EXCEPT !.ended = TRUE]
     ELSE [t EXCEPT !.over = left < 12, !.r2 = left - 10]

RecordDone(s, record, rlad) ==
  LET l == RecordLength(record)
      t[i \in 0..Len(record.parts)] ==
        IF i = 0 THEN [s EXCEPT !.r2 = l - 14, !.ended = FALSE]
        ELSE NextPart(t[i - 1], record.parts[i], rlad)
  IN IF l < 16 THEN [s EXCEPT !.over = TRUE] ELSE t[Len(record.parts)]

\* A record that is not there completely ends the file; behind the last one
\* nothing is found that could be one.
NextRecord(s, record, rlad) ==
  IF s.over THEN s
  ELSE IF s.rem < 2 \/ RecordLength(record) > s.rem THEN [s EXCEPT !.over = TRUE]
  ELSE RecordDone([s EXCEPT !.rem = @ - RecordLength(record)], record, rlad)

HeadLength(file) == file.head[1] + file.head[2] + file.dir

\* The first len bytes of the file.
fixPE(file, len, rlad) ==
  LET s[i \in 0..Len(file.records)] ==
        IF i = 0
        THEN [image |-> << >>, lastt |-> Text, corrupt |-> TRUE, ended |-> FALSE, r2 |-> 0,
              over |-> len < HeadLength(file) \/ file.dir < 292 \/ file.entry < 32,
              rem |-> len - HeadLength(file)]
        ELSE NextRecord(s[i - 1], file.records[i], rlad)
  IN IF len <= 8 \/ ~file.magic THEN [rc |-> -1, image |-> << >>]
     ELSE IF s[Len(file.records)].corrupt THEN [rc |-> -1, image |-> << >>]
     ELSE [rc |-> 0, image |-> s[Len(file.records)].image]

FileLength(file) ==
  LET l[i \in 0..Len(file.records)] ==
        IF i = 0 THEN HeadLength(file) ELSE l[i - 1] + RecordLength(file.records[i])
  IN l[Len(file.records)]

\* Where a file may end; in the first three records all places are alike.
Cuts(file) == {0, 9} \cup HeadLength(file) - 1..FileLength(file)

\* A run of the program on the first len bytes of a file.
loadzero(file, len, rlad) ==
  /\ call = NoCall
  /\ call' = [op |-> "load", file |-> file, len |-> len, rlad |-> rlad]
  /\ LET fixed == IF len >= MaxExe THEN [rc |-> -1, image |-> << >>] ELSE fixPE(file, len, rlad)
     IN value' = fixed.rc /\ text' = fixed.image
  /\ UNCHANGED <<mem, panicked>>

LoaderNext ==
  \/ Next
  \/ /\ call = NoCall
     /\ \E file \in Programs, rlad \in Origins : \E len \in Cuts(file) : loadzero(file, len, rlad)

LoaderSpec == Init /\ [][LoaderNext]_vars

----------------------------------------------------------------------------
(* Properties *)

Parts(file) == FlattenSeq([i \in DOMAIN file.records |-> file.records[i].parts])
ProgramText(file) == FlattenSeq([i \in DOMAIN Parts(file) |-> Parts(file)[i].text])
Adjustments(file, k) ==
  {<<i, j>> \in (DOMAIN Parts(file)) \X (1..4) :
     j \in DOMAIN Parts(file)[i].rld /\ Parts(file)[i].rld[j].at = k}

\* A file is accepted only if the image is the whole of the program's text, with
\* the origin added once for each entry of its lists, wherever the file was cut
\* off and whatever the text looks like (loadzero.c:207-342).
AcceptsOnlyWhole ==
  call.op = "load" /\ value = 0 =>
    /\ Len(text) = Len(ProgramText(call.file))
    /\ \A k \in DOMAIN text :
         text[k] = (ProgramText(call.file)[k] + call.rlad * Cardinality(Adjustments(call.file, k)))
                     % (2 ^ ImageBits)

Entries(file) == UNION {ToSet(Parts(file)[i].rld) : i \in DOMAIN Parts(file)}
Sound(file) ==
  /\ file.magic /\ file.dir >= 292 /\ file.entry >= 32
  /\ \A i \in DOMAIN file.records : file.records[i].lost = 0
  /\ \A i \in DOMAIN Parts(file) : Parts(file)[i].missing = 0
  /\ \A e \in Entries(file) : ~e.negative /\ e.bytes \in {3, 4}
  /\ \E i \in DOMAIN Parts(file) : Parts(file)[i].type \in {ControlEnd, RLDEnd}

\* A sound file that is there completely is accepted, unless a three-byte
\* address cannot hold the origin (loadzero.c:149, 324-339, 382-432).
AcceptsAllSound ==
  /\ call.op = "load" /\ Sound(call.file)
  /\ call.len = FileLength(call.file) /\ call.len < MaxExe
  /\ \A e \in Entries(call.file) : e.bytes = 3 => call.rlad < 2 ^ AddressBits
  => value = 0

\* The program accepts the files that are sound and whole, and no others.
AcceptsWholePrograms == AcceptsOnlyWhole /\ AcceptsAllSound
=============================================================================
