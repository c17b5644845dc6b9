--------------------------------- MODULE Elf ---------------------------------
(***************************************************************************)
(* The loader for ELF files (exec.c).  A load is one more call, as those   *)
(* of Library, and the file is in the same memory as the sections go to.   *)
(*                                                                         *)
(* Of the file the model keeps its four magic bytes, its sections, and     *)
(* where its header and section table are.  The section table has a field  *)
(* for the address of each section, which the loader writes to.            *)
(***************************************************************************)
EXTENDS Library

CONSTANTS
  ELF_MAGIC,    \* a sequence of numbers
  ElfFiles      \* the files, see ElfFile

Section == [nobits : BOOLEAN, alloc : BOOLEAN, addr : Nat, offset : Nat, size : Nat,
            field : Nat]       \* where the section table has its address
ElfFile == [id : Seq(Nat), sections : Seq(Section), tables : SUBSET Nat]

Target(sect) == sect.addr..sect.addr + sect.size - 1
\* Mutant: a section without an address is loaded, too.
LoadsAnywhere(sect) == ~sect.nobits
Loads(sect) == ~sect.nobits /\ sect.addr # 0
Area(sect) == [dest |-> sect.addr, src |-> sect.offset, n |-> sect.size]

\* A section that has no bytes in the file is given zeroed storage.
IsGiven(sect) == sect.nobits /\ sect.size > 0 /\ sect.alloc
Elsewhere == Cells    \* an address that is not one of the cells

\* What is loaded goes from and to the memory of the model, and the fields are there.
ASSUME ElfAssumption ==
  /\ ELF_MAGIC \in Seq(Nat) /\ ElfFiles \subseteq ElfFile
  /\ \A file \in ElfFiles : \A i \in DOMAIN file.sections :
       /\ Loads(file.sections[i]) => Area(file.sections[i]) \in Extents
       /\ IsGiven(file.sections[i]) => file.sections[i].field \in Addresses \cap file.tables

\* The magic number is compared as KeCompareMemory does, by the sum of differences.
ExCheckElf32IsValid(file) == SumOfDifferences(file.id, ELF_MAGIC, Len(ELF_MAGIC)) = 0

\* One section.  The address of the storage it is given goes into the section table.
\* What goes over the tables changes the sections still to be read.
Loaded(s, sect, tables) ==
  IF s.end # "" THEN s
  ELSE IF IsGiven(sect) THEN [s EXCEPT !.mem[sect.field] = Elsewhere]
  ELSE IF ~Loads(sect) THEN s
  ELSE IF Overlaps(sect.addr, sect.offset, sect.size) THEN [s EXCEPT !.end = "panic"]
  ELSE IF Target(sect) \cap tables # {} THEN [s EXCEPT !.end = "wild"]
  ELSE [s EXCEPT !.mem = ForwardIn(s.mem, Area(sect))]

\* Section after section, then the entry is called.  The name printed of a section is
\* looked for as if its entry were the header of a file, at an address that may not
\* exist ("name"); there may be no storage to give ("storage").
ExLoadElfFromBuffer(file, missing) ==
  LET s[i \in 0..Len(file.sections)] ==
        IF i = 0 THEN [mem |-> mem, end |-> IF ExCheckElf32IsValid(file) THEN "" ELSE "panic"]
        ELSE LET sect == file.sections[i] IN
             IF /\ s[i - 1].end = ""
                /\ "name" \in missing \/ (IsGiven(sect) /\ "storage" \in missing)
             THEN [s[i - 1] EXCEPT !.end = "panic"]
             ELSE Loaded(s[i - 1], sect, file.tables)
  IN s[Len(file.sections)]

LoadElf(file, missing) ==
  LET s == ExLoadElfFromBuffer(file, missing) IN
  /\ call = NoCall
  /\ call' = [op |-> "elf", file |-> file, end |-> s.end]
  /\ mem' = s.mem /\ panicked' = (s.end # "")
  /\ UNCHANGED <<value, text>>

ElfCall ==
  call = NoCall /\ \E file \in ElfFiles, missing \in SUBSET {"name", "storage"} : LoadElf(file, missing)
ElfNext == Next \/ ElfCall
ElfSpec == Init /\ [][ElfNext]_vars

----------------------------------------------------------------------------
(* Properties *)

Places(file) ==
  {i \in DOMAIN file.sections : ~file.sections[i].nobits /\ file.sections[i].addr > 0}

\* What a holds before the turn of section i, if no section goes there: the address of
\* storage, if it is the field of a section before i that was given some.
HeldBefore(file, i, a) ==
  IF \E j \in DOMAIN file.sections :
       j < i /\ IsGiven(file.sections[j]) /\ file.sections[j].field = a
  THEN Elsewhere ELSE Fresh[a]

\* When the entry of a file is called, memory holds what the file says: the bytes of
\* every section are at its address, as they were when their turn came, unless another
\* section goes over them or over where they come from; and where no section goes,
\* nothing has changed except that the section table tells where the storage of the
\* sections without bytes is (exec.c:79-106), whatever overlaps the assertion in
\* KeCopyMemory lets pass.
ElfSectionsAreInPlace ==
  call.op = "elf" /\ call.end = "" =>
    LET sections == call.file.sections IN
    /\ \A i \in Places(call.file) : \A k \in 0..sections[i].size - 1 :
         LET to == sections[i].addr + k
             from == sections[i].offset + k
         IN \/ \E j \in Places(call.file) \ {i} :
                 {to, from} \cap Target(sections[j]) # {}
            \/ mem[to] = HeldBefore(call.file, i, from)
    /\ \A a \in Addresses \ UNION {Target(sections[i]) : i \in Places(call.file)} :
         mem[a] = HeldBefore(call.file, Len(sections) + 1, a)
=============================================================================
