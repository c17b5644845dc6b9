------------------------------ MODULE Storage ------------------------------
(***************************************************************************)
(* The kernel's heap as the callers of mm.c see it: blocks, each given to  *)
(* one owner until somebody frees it, in the order of their addresses,     *)
(* with the free storage between them.  Sizes are left out: an allocation  *)
(* may take any stretch of free storage, all of it or its upper end, see   *)
(* Pmm for what stands behind it.  A free takes the used block that ends   *)
(* where the object begins, if there is one, and the object otherwise      *)
(* (pmm.c:255).                                                            *)
(***************************************************************************)
EXTENDS Naturals, FiniteSets, SequencesExt

CONSTANT Blocks

NULL == "null"
Base == "base"      \* the block of the allocator's own table, the first of the heap
Gap == "gap"        \* free storage
Scrap == "scrap"    \* a used block nobody has a pointer to any more

ASSUME StorageAssumption == IsFiniteSet(Blocks) /\ {NULL, Base, Gap, Scrap} \cap Blocks = {}

VARIABLES
  heap,     \* the owner of each block, the order in memory, and whether a free has
            \* taken a block from an owner who did not ask for it
  halted    \* "" or why the machine does nothing more that could be foretold

Nobody == <<"nobody">>
Panicked == "panic"
Wild == "wild"      \* memory of others was written, or freed memory used

InUse(h) == {b \in Blocks : h.owner[b] # Nobody}
BlocksOf(owner) == {b \in Blocks : heap.owner[b] = owner}
Gaps(h) == {i \in DOMAIN h.order : h.order[i] = Gap}
Position(h, p) == CHOOSE i \in DOMAIN h.order : h.order[i] = p

\* Where an object may be put: a stretch of free storage, all of it or not.
Spots(h) == [gap : Gaps(h), fits : BOOLEAN]
Sites(h) == [block : Blocks \ InUse(h), gap : Gaps(h), fits : BOOLEAN]

\* An object gets the upper end.
Placed(order, at, block) ==
  IF at.fits THEN ReplaceAt(order, at.gap, block) ELSE InsertAt(order, at.gap + 1, block)

MmAllocate(h, at, owner) ==
  [h EXCEPT !.owner[at.block] = owner, !.order = Placed(@, at, at.block)]

\* The block at position i becomes one with the free storage on both its sides.
Released(order, i) ==
  LET first == IF i > 1 /\ order[i - 1] = Gap THEN i - 1 ELSE i
      last  == IF i < Len(order) /\ order[i + 1] = Gap THEN i + 1 ELSE i
  IN SubSeq(order, 1, first - 1) \o <<Gap>> \o SubSeq(order, last + 1, Len(order))

ReleaseObject(h, p) ==
  [h EXCEPT !.owner[p] = Nobody, !.order = Released(@, Position(h, p))]

\* The object stays where the block below it goes: nobody will ask for it again.
ReleaseBelow(h, p) ==
  LET i == Position(h, p) IN
  [h EXCEPT !.owner = [b \in Blocks |-> IF b \in {p, h.order[i - 1]} THEN Nobody ELSE @[b]],
            !.order = Released([@ EXCEPT ![i] = Scrap], i - 1),
            !.robbed = @ \/ h.order[i - 1] # Scrap]

\* Of a pointer behind the first byte of an object.
FreeObject(h, p) == IF p \in InUse(h) THEN ReleaseObject(h, p) ELSE h

\* Mutant: the byte behind a block is not taken for one of the block's.
FreeExactly(h, p) == FreeObject(h, p)
MmFree(h, p) ==
  IF p \notin InUse(h) THEN h
  ELSE IF h.order[Position(h, p) - 1] = Gap THEN ReleaseObject(h, p) ELSE ReleaseBelow(h, p)

\* The new object is made before the old one is freed.
MmReallocate(h, p, at, owner) == MmFree(MmAllocate(h, at, owner), p)

\* The new object lies above the old one, so that its first byte is lost and the byte
\* behind it overwritten, see Library!Backward.
MovesUp(h, p, at) ==
  p \in Blocks /\ LET order == Placed(h.order, at, at.block)
                  IN \E i, j \in DOMAIN order : i < j /\ order[i] = p /\ order[j] = at.block

KePanic == halted' = Panicked

StorageInit ==
  /\ heap = [owner |-> [b \in Blocks |-> Nobody], order |-> <<Base, Gap>>, robbed |-> FALSE]
  /\ halted = ""
=============================================================================
