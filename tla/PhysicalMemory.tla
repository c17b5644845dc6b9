--------------------------- MODULE PhysicalMemory --------------------------
(***************************************************************************)
(* What a memory manager promises its callers: an object it gives lies in  *)
(* one of the ranges it was handed, apart from every object given and not  *)
(* taken back, and stays where it is until its owner returns it.           *)
(***************************************************************************)
EXTENDS Integers

CONSTANTS Clients, Ranges
VARIABLES
  arena,        \* the ranges handed to the manager
  owned         \* the object of each client
pmVars == <<arena, owned>>

Nothing == [ptr |-> 0, size |-> 0]
Disjoint(o, q) == o.ptr + o.size <= q.ptr \/ q.ptr + q.size <= o.ptr

Available(o) ==
  /\ o.size > 0
  /\ \E g \in arena : g.base <= o.ptr /\ o.ptr + o.size <= g.base + g.size
  /\ \A c \in Clients : Disjoint(o, owned[c])

Extend(g) == arena' = arena \cup {g} /\ UNCHANGED owned

\* A client without an object gets one, a client with one exchanges it: the
\* new object never overlaps the old one, whose contents are still needed.
Give(c) == Available(owned'[c]) /\ owned' = [owned EXCEPT ![c] = owned'[c]]
           /\ UNCHANGED arena
Take(c) == owned' = [owned EXCEPT ![c] = Nothing] /\ UNCHANGED arena

PMInit == arena = {} /\ owned = [c \in Clients |-> Nothing]
PMNext == (\E g \in Ranges : Extend(g)) \/ (\E c \in Clients : Give(c) \/ Take(c))
PMSpec == PMInit /\ [][PMNext]_pmVars
=============================================================================
