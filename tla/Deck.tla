-------------------------------- MODULE Deck --------------------------------
(***************************************************************************)
(* bin2rec (tools/raw2mod.c), which punches a binary file on cards: the    *)
(* object deck the kernel is loaded from.  A run of it is one more call,   *)
(* as those of Library.                                                    *)
(*                                                                         *)
(* Of the file only the length matters: byte k is the number k.  A card    *)
(* holds an address, of which three bytes are kept, and Card bytes.        *)
(***************************************************************************)
EXTENDS Library

CONSTANTS
  Card,         \* bytes on a card (56)
  DeckLengths,  \* lengths of files
  DeckBits      \* width of the address on a card (24)
ASSUME DeckAssumption ==
  Card \in Nat \ {0} /\ DeckLengths \subseteq Nat /\ DeckBits \in Nat

End == [addr |-> 0, bytes |-> << >>]

\* The loop at address addr of a file of length len: the end of the file is seen only
\* by reading over it, and what was read then is dropped.
\* Mutant: the end is looked for before reading.
PunchedEarly(addr, len) ==
  IF addr >= len THEN End
  ELSE [addr |-> addr % (2 ^ DeckBits), bytes |-> [i \in 1..Card |-> addr + i - 1]]
Punched(addr, len) ==
  IF addr >= len \/ addr + Card > len THEN End
  ELSE [addr |-> addr % (2 ^ DeckBits), bytes |-> [i \in 1..Card |-> addr + i - 1]]

bin2rec(len) ==
  LET deck[i \in 0..len] ==
        LET card == Punched(i * Card, len)
        IN IF card = End THEN <<End>> ELSE <<card>> \o deck[i + 1]
  IN deck[0]

Punch(len) ==
  /\ call = NoCall
  /\ call' = [op |-> "punch", len |-> len]
  /\ text' = bin2rec(len)
  /\ UNCHANGED <<mem, value, panicked>>

DeckCall == call = NoCall /\ \E len \in DeckLengths : Punch(len)
DeckNext == Next \/ DeckCall
DeckSpec == Init /\ [][DeckNext]_vars

----------------------------------------------------------------------------
(* Properties *)

\* Where a deck's cards go when it is loaded, card after card.
LoadedFrom(deck) ==
  LET m[i \in 0..Len(deck)] ==
        IF i = 0 THEN << >>
        ELSE LET c == deck[i]
                 at == {c.addr + k - 1 : k \in DOMAIN c.bytes}
             IN [a \in at \cup DOMAIN m[i - 1] |->
               IF a \in at THEN c.bytes[a - c.addr + 1] ELSE m[i - 1][a]]
  IN m[Len(deck)]

\* Loaded again, a deck is the file, less what does not fill its last card
\* (raw2mod.c:40): nothing the file does not have, and all of it if it fits the
\* cards, as long as its addresses fit, too.
DeckLoadsTheFile ==
  call.op = "punch" /\ call.len <= 2 ^ DeckBits =>
    LET m == LoadedFrom(text)
    IN /\ Last(text) = End
       /\ DOMAIN m = 0..(call.len - (call.len % Card)) - 1
       /\ \A a \in DOMAIN m : m[a] = a
=============================================================================
