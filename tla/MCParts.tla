------------------------------ MODULE MCParts ------------------------------
(***************************************************************************)
(* The parts of the system that share nothing, in one instance: a part     *)
(* takes a step only while all others are in their first state, so that    *)
(* each is explored by itself.                                             *)
(*                                                                         *)
(* Routines: six cells, words of up to three of three characters, ints of  *)
(* eight bits, formats of up to four conversions.  Load modules: up to     *)
(* four records, sound and with each kind of damage, cut off after any     *)
(* byte.                                                                   *)
(***************************************************************************)
EXTENDS Loader, Deck, Elf, Registry, Users, Services

ShortWords == UNION {[1..n -> 1..3] : n \in 0..3}
SomeItems == {[char |-> 7], [str |-> <<1, 2, 3>>], [str |-> << >>], [val |-> -12]}
SomeFormats == UNION {[1..n -> SomeItems] : n \in 0..4}

Other(type) == [type |-> type, text |-> << >>, rld |-> << >>, len |-> 20, missing |-> 0]
EndOfData   == [Other(0) EXCEPT !.len = 0]
TextOf(words, type) == [Other(type) EXCEPT !.text = words]
List(type, rld) == [Other(type) EXCEPT !.rld = rld, !.len = IF type = ControlRLD THEN 4 ELSE 0]
Adjust(at, bytes, cont) == [at |-> at, bytes |-> bytes, negative |-> FALSE, cont |-> cont]

Records(parts) == [i \in DOMAIN parts |-> [parts |-> parts[i], lost |-> 0]]
ProgramOf(parts) ==
  [magic |-> TRUE, head |-> <<20, 20>>, dir |-> 292, entry |-> 32, records |-> Records(parts)]

\* Text that looks like a relocation list, a word adjusted twice, entries that share
\* their pointers; the program ends with text or with a list, in a record of its
\* own or not.
EndsWithText ==
  ProgramOf(<< <<Other(CESD), Other(Control), TextOf(<<21, 14>>, RLD)>>,
               <<List(RLD, <<Adjust(1, 4, TRUE), Adjust(2, 3, FALSE), Adjust(1, 4, FALSE)>>),
                 EndOfData>>,
               <<Other(128), Other(ControlEnd)>>,
               <<TextOf(<<3>>, ControlEnd)>> >>)
EndsWithList ==
  ProgramOf(<< <<Other(CESD), Other(Control)>>,
               <<TextOf(<<63>>, Control), List(ControlRLD, <<Adjust(1, 4, FALSE)>>)>>,
               <<TextOf(<<9, 15>>, RLDEnd),
                 List(RLDEnd, <<Adjust(2, 3, FALSE), Adjust(3, 4, TRUE)>>)>> >>)

Damaged(file) ==
  { [file EXCEPT !.magic = FALSE], [file EXCEPT !.dir = 291], [file EXCEPT !.entry = 31],
    [file EXCEPT !.records[2].lost = 1], [file EXCEPT !.records[3].lost = 40],
    [file EXCEPT !.records[2].parts[2] = List(RLD, <<Adjust(1, 2, FALSE)>>)],
    [file EXCEPT !.records[3].parts[2] =
       [List(RLDEnd, <<Adjust(1, 4, TRUE), Adjust(2, 4, FALSE)>>) EXCEPT !.missing = 2]],
    [file EXCEPT !.records[3].parts[2] =
       List(RLDEnd, <<[Adjust(1, 4, FALSE) EXCEPT !.negative = TRUE]>>)],
    [file EXCEPT !.records = SubSeq(@, 1, 2)] }

TooBig == [EndsWithText EXCEPT !.head = <<48, 20>>]

SomePrograms ==
  {EndsWithText, EndsWithList, TooBig} \cup Damaged(EndsWithText) \cup Damaged(EndsWithList)

\* ELF files of two sections with any address, place and size in the cells, the last
\* two of which hold their fields in the section table.
SectionsAt(field) ==
  {[nobits |-> FALSE, alloc |-> TRUE, addr |-> e.dest, offset |-> e.src, size |-> e.n, field |-> field] :
     e \in {x \in Extents : x.n <= 2}}
  \cup {[nobits |-> TRUE, alloc |-> alloc, addr |-> 2, offset |-> 0, size |-> 1, field |-> field] :
          alloc \in BOOLEAN}
Magic == <<7, 5, 6>>
SomeElfFiles ==
  {[id |-> Magic, sections |-> <<s, t>>, tables |-> {4, 5}] : s \in SectionsAt(4), t \in SectionsAt(5)}
  \cup {[id |-> id, sections |-> << >>, tables |-> {4, 5}] : id \in {<<7, 6, 5>>, <<7, 5, 5>>}}

\* Names of up to two characters, two of them anagrams; 9 is a separator.
SomeNames == {<<1>>, <<1, 2>>, <<2, 1>>, << >>, <<1, 1, 1>>}
ShortNames == {<<1>>, <<1, 2>>, <<2, 1>>}
TooLong == <<1, 1, 1, 1, 1, 1>>
SomePaths == UNION {[1..n -> {1, 2, 9}] : n \in 0..3} \cup {<<1, 9, 1, 2>>, <<1, 9, 1, 9, 1>>, TooLong}
\* A NUL, a name, or a separator and a name behind the path; names that end and names
\* that do not.
SomeLeftovers ==
  {[path |-> <<0, 0>>, names |-> << >>], [path |-> <<1, 0>>, names |-> <<<<0, 2>>>>],
   [path |-> <<1, 0>>, names |-> <<<< >>, <<2>>>>], [path |-> <<9, 1>>, names |-> <<<<2>>>>]}

\* Ranges that touch, overlap or keep their distance, with lines of both types.
SomeShapes ==
  {[start |-> 0, private |-> private] : private \in {<<FALSE>>, <<TRUE>>, <<TRUE, FALSE>>}}
  \cup {[start |-> start, private |-> <<FALSE>>] : start \in {1, 2, 3}}
BlockSymmetry == Permutations(Blocks)

\* Two ranges only as long as nobody makes supervisor calls, and with one of them at
\* most four blocks in use.
ServicesBounds ==
  \/ SvcInit /\ svcVars' = svcVars
  \/ /\ \A i \in DOMAIN ranges' : i = 1 /\ ranges'[i].start = 0
     /\ ranges' = << >> \/ Cardinality(InUse(heap')) <= 4

PartsInit == Init /\ RegistryInit /\ UsersInit /\ ServicesInit

PartsNext ==
  \/ /\ RegistryInit /\ UsersInit /\ ServicesInit
     /\ \/ LoaderNext
        \/ DeckCall
        \/ ElfCall
     /\ UNCHANGED <<registryVars, usersVars, servicesVars>>
  \/ /\ Init /\ UsersInit /\ ServicesInit /\ RegistryNext
     /\ UNCHANGED <<vars, usersVars, servicesVars>>
  \/ /\ Init /\ RegistryInit /\ ServicesInit /\ UsersNext
     /\ UNCHANGED <<vars, registryVars, servicesVars>>
  \/ /\ Init /\ RegistryInit /\ UsersInit /\ ServicesNext /\ ServicesBounds
     /\ UNCHANGED <<vars, registryVars, usersVars>>

PartsStopped ==
  /\ registryEnd # "" \/ usersEnd \/ ~Going
  /\ UNCHANGED <<vars, registryVars, usersVars, servicesVars>>

partsVars == <<vars, registryVars, usersVars, servicesVars>>
PartsSpec == PartsInit /\ [][PartsNext \/ PartsStopped]_partsVars
=============================================================================
