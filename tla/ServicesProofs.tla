---------------------------- MODULE ServicesProofs ----------------------------
(***************************************************************************)
(* Proofs about Services, for any finite heap, any callers, shapes of      *)
(* ranges, and numbers of ranges, holders and objects.                     *)
(***************************************************************************)
EXTENDS Services, SequenceFacts, FiniteSetTheorems

----------------------------------------------------------------------------
(* The heap *)

HeldBy(h, owner) == {b \in Blocks : h.owner[b] = owner}

\* Owners on the side of the supervisor calls, and on that of the IRQ lines.
SvcOwner(x) == x = Program \/ \E c \in Callers : x = Object(c)
IrqOwner(x) == x = Table \/ (\E i \in Nat : x = LinesOf(i)) \/ (\E i, j \in Nat : x = HandlersOf(i, j))

\* Nobody owns for two sides.
LEMMA OwnersApart ==
  ASSUME NEW x
  PROVE  /\ ~(SvcOwner(x) /\ IrqOwner(x))
         /\ (SvcOwner(x) \/ IrqOwner(x)) => x # Nobody
<1>1. ASSUME SvcOwner(x) PROVE ~IrqOwner(x) /\ x # Nobody
  <2>1. CASE x = Program
    BY <2>1 DEF IrqOwner, Program, Table, LinesOf, HandlersOf, Nobody
  <2>2. ASSUME NEW c, x = Object(c) PROVE ~IrqOwner(x) /\ x # Nobody
    BY <2>2 DEF IrqOwner, Object, Table, LinesOf, HandlersOf, Nobody
  <2>3. QED
    BY <1>1, <2>1, <2>2 DEF SvcOwner
<1>2. IrqOwner(x) => x # Nobody
  <2>1. Table # Nobody
    BY DEF Table, Nobody
  <2>2. \A i, j : LinesOf(i) # Nobody /\ HandlersOf(i, j) # Nobody
    BY DEF LinesOf, HandlersOf, Nobody
  <2>3. QED
    BY <2>1, <2>2 DEF IrqOwner
<1>3. QED
  BY <1>1, <1>2

\* Owners of the supervisor calls differ, so whose a block is says which call got it.
LEMMA SvcOwners ==
  /\ SvcOwner(Program) /\ Program # Nobody
  /\ \A c \in Callers : SvcOwner(Object(c)) /\ Object(c) # Program /\ Object(c) # Nobody
  /\ \A c, d \in Callers : Object(c) = Object(d) => c = d
  BY DEF SvcOwner, Program, Object, Nobody

\* So do the arrays of the IRQ lines (irq.c:22-61).
LEMMA IrqOwners ==
  /\ IrqOwner(Table) /\ Table # Nobody
  /\ \A i \in Nat : IrqOwner(LinesOf(i)) /\ LinesOf(i) # Table /\ LinesOf(i) # Nobody
  /\ \A i, j \in Nat : IrqOwner(HandlersOf(i, j)) /\ HandlersOf(i, j) # Table /\ HandlersOf(i, j) # Nobody
  /\ \A i, j, k \in Nat : HandlersOf(i, j) # LinesOf(k)
  /\ \A i, k \in Nat : LinesOf(i) = LinesOf(k) => i = k
  /\ \A i, j, k, l \in Nat : HandlersOf(i, j) = HandlersOf(k, l) => i = k /\ j = l
  BY DEF IrqOwner, Table, LinesOf, HandlersOf, Nobody


\* There are finitely many blocks, so each owner has so many.
LEMMA Countable ==
  ASSUME NEW h, NEW owner
  PROVE  IsFiniteSet(HeldBy(h, owner)) /\ Cardinality(HeldBy(h, owner)) \in Nat
<1>1. HeldBy(h, owner) \in SUBSET Blocks
  BY DEF HeldBy
<1>2. QED
  BY <1>1, FS_Subset, FS_CardinalityType, StorageAssumption

\* What a heap is, its order aside.
Heap(h) == DOMAIN h = {"owner", "order", "robbed"} /\ DOMAIN h.owner = Blocks

\* From one heap to the next a block is given, or taken.
Gives(h, g, b, owner) ==
  /\ Heap(g) /\ g.owner[b] = owner /\ \A d \in Blocks : d # b => g.owner[d] = h.owner[d]
Takes(h, g, p) ==
  /\ Heap(g) /\ \A d \in Blocks : g.owner[d] = IF d = p THEN Nobody ELSE h.owner[d]

\* A site is a block nobody has.
LEMMA SiteFree ==
  ASSUME NEW h, NEW at \in Sites(h)
  PROVE  at.block \in Blocks /\ h.owner[at.block] = Nobody
  BY DEF Sites, InUse

\* An allocation gives its block (MmAllocate).
LEMMA Allocates ==
  ASSUME NEW h, Heap(h), NEW at \in Sites(h), NEW owner
  PROVE  Gives(h, MmAllocate(h, at, owner), at.block, owner) /\ MmAllocate(h, at, owner).robbed = h.robbed
<1> DEFINE g == MmAllocate(h, at, owner)
<1>1. at.block \in Blocks
  BY SiteFree
<1>2. DOMAIN g = {"owner", "order", "robbed"} /\ g.owner = [h.owner EXCEPT ![at.block] = owner] /\ g.robbed = h.robbed
  BY DEF MmAllocate, Heap
<1> HIDE DEF g
<1>3. QED
  BY <1>1, <1>2 DEF Gives, Heap, g

\* A free of an object by a pointer into it takes the object, if it is in use (FreeObject).
LEMMA FreeObjectTakes ==
  ASSUME NEW h, Heap(h), NEW p
  PROVE  Takes(h, FreeObject(h, p), p) /\ FreeObject(h, p).robbed = h.robbed
<1> DEFINE g == FreeObject(h, p)
<1>1. CASE p \in InUse(h)
  <2>1. /\ DOMAIN g = {"owner", "order", "robbed"} /\ g.owner = [h.owner EXCEPT ![p] = Nobody]
        /\ g.robbed = h.robbed
    BY <1>1 DEF FreeObject, ReleaseObject, Heap
  <2> HIDE DEF g
  <2>2. QED
    BY <2>1 DEF Takes, Heap, g
<1>2. CASE p \notin InUse(h)
  <2>1. g = h
    BY <1>2 DEF FreeObject
  <2>2. \A d \in Blocks : d = p => h.owner[d] = Nobody
    BY <1>2 DEF InUse
  <2> HIDE DEF g
  <2>3. QED
    BY <2>1, <2>2 DEF Takes, g
<1>3. QED
  BY <1>1, <1>2

\* So does any other free that robs nobody: the block below that it took was scrap (MmFree).
LEMMA FreeTakes ==
  ASSUME NEW h, Heap(h), NEW p, ~MmFree(h, p).robbed
  PROVE  Takes(h, MmFree(h, p), p) /\ ~h.robbed
<1> DEFINE g == MmFree(h, p)
           v == h.order[Position(h, p) - 1]
<1>1. CASE p \in InUse(h) /\ v # Gap
  <2>1. g = ReleaseBelow(h, p)
    BY <1>1 DEF MmFree
  <2>2. /\ DOMAIN g = {"owner", "order", "robbed"}
        /\ g.owner = [b \in Blocks |-> IF b \in {p, v} THEN Nobody ELSE h.owner[b]]
        /\ g.robbed = (h.robbed \/ v # Scrap)
    BY <2>1 DEF ReleaseBelow, Heap
  <2> HIDE DEF g, v
  <2>3. ~g.robbed
    BY DEF g
  <2>4. v = Scrap /\ ~h.robbed
    BY <2>2, <2>3, Zenon
  <2>5. v \notin Blocks
    BY <2>4, StorageAssumption
  <2>6. Takes(h, g, p)
    BY <2>2, <2>5 DEF Takes, Heap
  <2>7. QED
    BY <2>4, <2>6 DEF g
<1>2. CASE ~(p \in InUse(h) /\ v # Gap)
  <2>1. g = FreeObject(h, p)
    BY <1>2 DEF MmFree, FreeObject
  <2>2. QED
    BY <2>1, FreeObjectTakes
<1>3. QED
  BY <1>1, <1>2

\* Who has how many blocks when one is given.
LEMMA Given ==
  ASSUME NEW h, Heap(h), NEW b \in Blocks, h.owner[b] = Nobody, NEW owner, owner # Nobody,
         NEW g, Gives(h, g, b, owner)
  PROVE  /\ HeldBy(g, owner) = HeldBy(h, owner) \cup {b}
         /\ Cardinality(HeldBy(g, owner)) = Cardinality(HeldBy(h, owner)) + 1
         /\ \A x : x # owner /\ x # Nobody => HeldBy(g, x) = HeldBy(h, x)
<1>1. HeldBy(g, owner) = HeldBy(h, owner) \cup {b} /\ b \notin HeldBy(h, owner)
  BY DEF HeldBy, Gives
<1>2. Cardinality(HeldBy(g, owner)) = Cardinality(HeldBy(h, owner)) + 1
  BY <1>1, Countable, FS_AddElement
<1>3. ASSUME NEW x, x # owner, x # Nobody PROVE HeldBy(g, x) = HeldBy(h, x)
  BY <1>3 DEF HeldBy, Gives
<1>4. QED
  BY <1>1, <1>2, <1>3

\* A pointer that names no block, or one of the owner's.
PointsTo(h, p, owner) == p \in Blocks => h.owner[p] = owner

\* And when one is taken.
LEMMA Taken ==
  ASSUME NEW h, NEW p, NEW owner, owner # Nobody, PointsTo(h, p, owner), NEW g, Takes(h, g, p)
  PROVE  /\ HeldBy(g, owner) = HeldBy(h, owner) \ {p}
         /\ p \in Blocks => Cardinality(HeldBy(g, owner)) = Cardinality(HeldBy(h, owner)) - 1
         /\ \A x : x # owner /\ x # Nobody => HeldBy(g, x) = HeldBy(h, x)
<1>1. HeldBy(g, owner) = HeldBy(h, owner) \ {p}
  BY DEF HeldBy, Takes
<1>2. p \in Blocks => Cardinality(HeldBy(g, owner)) = Cardinality(HeldBy(h, owner)) - 1
  <2>1. p \in Blocks => p \in HeldBy(h, owner)
    BY DEF HeldBy, PointsTo
  <2>2. QED
    BY <1>1, <2>1, Countable, FS_RemoveElement
<1>3. ASSUME NEW x, x # owner, x # Nobody PROVE HeldBy(g, x) = HeldBy(h, x)
  BY <1>3 DEF HeldBy, Takes, PointsTo
<1>4. QED
  BY <1>1, <1>2, <1>3

----------------------------------------------------------------------------
(* The inductive invariant *)

\* The callers' pointers and counts.
SvcTypes ==
  /\ pointer \in [Callers -> Blocks \cup {NULL}] /\ lost \in [Callers -> Nat]
  /\ asked \in Nat /\ restartWord \in {NULL, Trampoline} /\ answer \in {NULL, Trampoline}

\* What they hold: the object their pointer names, and what they have lost.
HoldsItsOwn(h, c) ==
  /\ pointer[c] # NULL => pointer[c] \in HeldBy(h, Object(c))
  /\ Cardinality(HeldBy(h, Object(c))) = lost[c] + (IF pointer[c] = NULL THEN 0 ELSE 1)
SvcHolds(h) ==
  /\ \A c \in Callers : HoldsItsOwn(h, c)
  /\ Cardinality(HeldBy(h, Program)) = asked

\* The table of ranges and their lines.
Line == [private : BOOLEAN, handlers : Blocks \cup {NULL}, n : Nat, holders : Nat]
Range1 == [start : Nat, block : Blocks, lines : Seq(Line)]
IrqTypes ==
  /\ ranges \in Seq(Range1)
  /\ table \in Blocks \cup {NULL} /\ (ranges # << >> => table # NULL)

\* A line has its array of handlers or none.
LineIsServed(h, i, j) == HeldBy(h, HandlersOf(i, j)) = Handled(ranges[i].lines[j])

\* As long as the table is there, so are the lines of its ranges; and nothing is owned by
\* ranges to come.
IrqHolds(h) ==
  /\ ranges # << >> /\ h.owner[table] = Table =>
       \A i \in DOMAIN ranges : ranges[i].block \in HeldBy(h, LinesOf(i))
  /\ \A i \in DOMAIN ranges : \A j \in DOMAIN ranges[i].lines : LineIsServed(h, i, j)
  /\ \A i \in Nat : i > Len(ranges) => \A j \in Nat : HeldBy(h, HandlersOf(i, j)) = {}

Sound == Heap(heap) /\ SvcHolds(heap) /\ IrqHolds(heap)

IInv ==
  /\ SvcTypes /\ IrqTypes
  /\ Going => Sound
  /\ WildForAReason

----------------------------------------------------------------------------
(* Neither side touches what the other owns. *)

SvcFrame(h, g) == \A x : SvcOwner(x) => HeldBy(g, x) = HeldBy(h, x)
IrqFrame(h, g) == \A x : IrqOwner(x) => HeldBy(g, x) = HeldBy(h, x)

\* Blocks of one owner are all that changes, so the other side's do not.
LEMMA OneOwnerChanges ==
  ASSUME NEW h, NEW g, NEW owner, \A x : x # owner /\ x # Nobody => HeldBy(g, x) = HeldBy(h, x)
  PROVE  (SvcOwner(owner) => IrqFrame(h, g)) /\ (IrqOwner(owner) => SvcFrame(h, g))
  BY OwnersApart DEF SvcFrame, IrqFrame

\* A resize gives the owner another block for the one it had (MmReallocate).
LEMMA Reallocated ==
  ASSUME NEW h, Heap(h), NEW at \in Sites(h), NEW owner, owner # Nobody,
         NEW p, PointsTo(h, p, owner), NEW g, g = MmReallocate(h, p, at, owner), ~g.robbed
  PROVE  /\ Heap(g) /\ ~h.robbed
         /\ HeldBy(g, owner) = (HeldBy(h, owner) \cup {at.block}) \ {p}
         /\ p \in Blocks => Cardinality(HeldBy(g, owner)) = Cardinality(HeldBy(h, owner))
         /\ p \notin Blocks => Cardinality(HeldBy(g, owner)) = Cardinality(HeldBy(h, owner)) + 1
         /\ \A x : x # owner /\ x # Nobody => HeldBy(g, x) = HeldBy(h, x)
<1> DEFINE f == MmAllocate(h, at, owner)
           b == at.block
<1>1. g = MmFree(f, p)
  BY DEF MmReallocate
<1>2. b \in Blocks /\ h.owner[b] = Nobody
  BY SiteFree
<1>3. Gives(h, f, b, owner) /\ f.robbed = h.robbed
  BY Allocates
<1> HIDE DEF f, b
<1>4. Heap(f)
  BY <1>3 DEF Gives
<1>5. Takes(f, g, p) /\ ~f.robbed
  BY <1>1, <1>4, FreeTakes
<1>6. /\ HeldBy(f, owner) = HeldBy(h, owner) \cup {b}
      /\ Cardinality(HeldBy(f, owner)) = Cardinality(HeldBy(h, owner)) + 1
      /\ \A x : x # owner /\ x # Nobody => HeldBy(f, x) = HeldBy(h, x)
  BY <1>2, <1>3, Given
<1>7. PointsTo(f, p, owner)
  BY <1>2, <1>3 DEF PointsTo, Gives
<1>8. /\ HeldBy(g, owner) = HeldBy(f, owner) \ {p}
      /\ p \in Blocks => Cardinality(HeldBy(g, owner)) = Cardinality(HeldBy(f, owner)) - 1
      /\ \A x : x # owner /\ x # Nobody => HeldBy(g, x) = HeldBy(f, x)
  BY <1>5, <1>7, Taken
<1>9. Cardinality(HeldBy(h, owner)) \in Nat
  BY Countable
<1>10. p \notin Blocks => HeldBy(g, owner) = HeldBy(f, owner)
  <2>1. p \notin Blocks => p \notin HeldBy(f, owner)
    BY DEF HeldBy
  <2>2. QED
    BY <1>8, <2>1
<1>11. HeldBy(g, owner) = (HeldBy(h, owner) \cup {b}) \ {p}
  BY <1>6, <1>8
<1>12. p \in Blocks => Cardinality(HeldBy(g, owner)) = Cardinality(HeldBy(h, owner))
  BY <1>6, <1>8, <1>9
<1>13. p \notin Blocks => Cardinality(HeldBy(g, owner)) = Cardinality(HeldBy(h, owner)) + 1
  BY <1>6, <1>10
<1>14. \A x : x # owner /\ x # Nobody => HeldBy(g, x) = HeldBy(h, x)
  BY <1>6, <1>8
<1>15. Heap(g) /\ ~h.robbed
  BY <1>3, <1>5 DEF Takes
<1>16. QED
  BY <1>11, <1>12, <1>13, <1>14, <1>15 DEF b

\* A step of the IRQ lines leaves the callers what they hold.
LEMMA SvcStays ==
  ASSUME SvcHolds(heap), UNCHANGED svcVars, SvcFrame(heap, heap')
  PROVE  SvcHolds(heap)'
  BY SvcOwners DEF SvcHolds, HoldsItsOwn, SvcFrame, svcVars

\* A step of a caller leaves the lines their arrays.
LEMMA IrqStays ==
  ASSUME IrqTypes, Heap(heap), IrqHolds(heap), UNCHANGED irqVars, Heap(heap'), IrqFrame(heap, heap')
  PROVE  IrqHolds(heap)'
<1>1. ranges \in Seq(Range1) /\ UNCHANGED <<table, ranges>>
  BY DEF IrqTypes, irqVars
<1>2. \A i \in DOMAIN ranges : i \in Nat /\ ranges[i].lines \in Seq(Line) /\ \A j \in DOMAIN ranges[i].lines : j \in Nat
  <2>1. \A i \in DOMAIN ranges : i \in Nat /\ ranges[i] \in Range1
    BY <1>1
  <2>2. QED
    BY <2>1 DEF Range1
<1>3. /\ HeldBy(heap', Table) = HeldBy(heap, Table)
      /\ \A i \in Nat : HeldBy(heap', LinesOf(i)) = HeldBy(heap, LinesOf(i))
      /\ \A i, j \in Nat : HeldBy(heap', HandlersOf(i, j)) = HeldBy(heap, HandlersOf(i, j))
  BY IrqOwners DEF IrqFrame
<1>4. ranges # << >> => table \in Blocks
  BY DEF IrqTypes
<1>5. ranges # << >> /\ heap'.owner[table] = Table => heap.owner[table] = Table
  BY <1>3, <1>4 DEF HeldBy
<1>6. QED
  BY <1>1, <1>2, <1>3, <1>5 DEF IrqHolds, LineIsServed

----------------------------------------------------------------------------
(* The supervisor calls (irq.c:132-228) *)

\* Whatever is called, pointers and counts stay such.
LEMMA SvcTypesStep ==
  ASSUME SvcTypes, SvcNext
  PROVE  SvcTypes'
<1> USE DEF SvcTypes, OnlyTheCaller, OnlyTheProgram, Hold, Sites, InUse
<1>1. ASSUME NEW c \in Callers, NEW at \in Sites(heap), GetStorage(c, at) PROVE SvcTypes'
  BY <1>1 DEF GetStorage
<1>2. ASSUME NEW c \in Callers, DropStorage(c) PROVE SvcTypes'
  BY <1>2 DEF DropStorage
<1>3. ASSUME NEW c \in Callers, NEW at \in Sites(heap), ResizeStorage(c, at) PROVE SvcTypes'
  BY <1>3 DEF ResizeStorage
<1>4. ASSUME NEW c \in Callers, ResizeFails(c) PROVE SvcTypes'
  BY <1>4 DEF ResizeFails
<1>5. ASSUME NEW c \in Callers, NEW at \in Sites(heap), FreeNothing(c, at) PROVE SvcTypes'
  BY <1>5 DEF FreeNothing
<1>6. ASSUME NEW at \in Sites(heap), RtlAllocateMemory(at) PROVE SvcTypes'
  BY <1>6 DEF RtlAllocateMemory, RtlDoSvc
<1>7. CASE RtlAllocateFails
  BY <1>7 DEF RtlAllocateFails, RtlDoSvc
<1>8. CASE RtlFreeMemory
  BY <1>8 DEF RtlFreeMemory
<1>9. ASSUME NEW word \in {"restart", "other", "system"}, RtlReallocateMemory(word) PROVE SvcTypes'
  BY <1>9 DEF RtlReallocateMemory
<1>10. ASSUME NEW dataset \in Tried(heap), RtlOpenDataset(dataset) PROVE SvcTypes'
  <2>1. \A h : \A tried \in Tried(h) : Len(tried) \in Nat
    BY DEF Tried
  <2>2. PICK handle \in Tried(MadeIfAny(heap, dataset)) :
          asked' = asked + Len(dataset) + Len(handle)
    BY <1>10 DEF RtlOpenDataset
  <2>3. asked' \in Nat
    BY <2>1, <2>2
  <2>4. QED
    BY <1>10, <2>3 DEF RtlOpenDataset, RtlDoSvc
<1>11. KernelCallers \subseteq Callers /\ MvsCallers \subseteq Callers
  BY DEF Callers
<1> HIDE DEF SvcTypes
<1>12. QED
  BY <1>1, <1>2, <1>3, <1>4, <1>5, <1>6, <1>7, <1>8, <1>9, <1>10, <1>11 DEF SvcNext

\* A call of one caller is none of the others' business.
LEMMA CallerChanges ==
  ASSUME SvcTypes, SvcHolds(heap), NEW c \in Callers,
         \A d \in Callers : d # c => pointer'[d] = pointer[d] /\ lost'[d] = lost[d],
         asked' = asked,
         \A x : x # Object(c) /\ x # Nobody => HeldBy(heap', x) = HeldBy(heap, x),
         HoldsItsOwn(heap, c)'
  PROVE  SvcHolds(heap)'
<1>1. \A d \in Callers : d # c => HoldsItsOwn(heap, d)'
  BY SvcOwners DEF SvcHolds, HoldsItsOwn
<1>2. Cardinality(HeldBy(heap', Program)) = asked'
  BY SvcOwners DEF SvcHolds
<1>3. QED
  BY <1>1, <1>2 DEF SvcHolds

\* A caller that holds nothing gets an object, of which it knows or not (irq.c:155-206).
LEMMA ObjectGot ==
  ASSUME SvcTypes, Heap(heap), SvcHolds(heap), NEW c \in Callers, NEW at \in Sites(heap),
         GetStorage(c, at) \/ FreeNothing(c, at)
  PROVE  Heap(heap') /\ SvcHolds(heap)' /\ IrqFrame(heap, heap')
<1> DEFINE o == Object(c)
           b == at.block
<1>1. heap' = MmAllocate(heap, at, o) /\ pointer[c] = NULL
  BY DEF GetStorage, FreeNothing
<1>2. b \in Blocks /\ heap.owner[b] = Nobody
  BY SiteFree
<1>3. o # Nobody /\ SvcOwner(o)
  BY SvcOwners
<1>0. Gives(heap, heap', b, o)
  BY <1>1, Allocates
<1> HIDE DEF o, b
<1>4. /\ Heap(heap')
      /\ HeldBy(heap', o) = HeldBy(heap, o) \cup {b}
      /\ Cardinality(HeldBy(heap', o)) = Cardinality(HeldBy(heap, o)) + 1
      /\ \A x : x # o /\ x # Nobody => HeldBy(heap', x) = HeldBy(heap, x)
  BY <1>0, <1>2, <1>3, Given DEF Gives
<1>5. IrqFrame(heap, heap')
  BY <1>3, <1>4, OneOwnerChanges
<1>6. Cardinality(HeldBy(heap, o)) = lost[c]
  BY <1>1 DEF SvcHolds, HoldsItsOwn, o, SvcTypes
<1>7. /\ asked' = asked
      /\ \A d \in Callers : d # c => pointer'[d] = pointer[d] /\ lost'[d] = lost[d]
      /\ \/ pointer'[c] = b /\ lost'[c] = lost[c]
         \/ pointer'[c] = NULL /\ lost'[c] = lost[c] + 1
  BY <1>1 DEF GetStorage, FreeNothing, Hold, OnlyTheCaller, SvcTypes, b
<1>8. HoldsItsOwn(heap, c)'
  <2>1. b # NULL /\ b \in HeldBy(heap', o)
    BY <1>2, <1>4, StorageAssumption
  <2>2. lost[c] \in Nat
    BY DEF SvcTypes
  <2>3. QED
    BY <1>4, <1>6, <1>7, <2>1, <2>2 DEF HoldsItsOwn, o
<1>9. QED
  BY <1>4, <1>5, <1>7, <1>8, CallerChanges DEF o

\* A caller frees its object (irq.c:171-201).
LEMMA ObjectDropped ==
  ASSUME SvcTypes, Heap(heap), SvcHolds(heap), NEW c \in Callers, DropStorage(c), ~heap'.robbed
  PROVE  Heap(heap') /\ SvcHolds(heap)' /\ IrqFrame(heap, heap')
<1> DEFINE o == Object(c)
           p == pointer[c]
<1>1. heap' = MmFree(heap, p)
  BY DEF DropStorage
<1>2. p # NULL => p \in HeldBy(heap, o)
  BY DEF SvcHolds, HoldsItsOwn
<1>3. p \in Blocks \cup {NULL} /\ lost[c] \in Nat
  BY DEF SvcTypes
<1>4. PointsTo(heap, p, o) /\ (p \in Blocks <=> p # NULL)
  BY <1>2, <1>3, StorageAssumption DEF PointsTo, HeldBy
<1>5. o # Nobody /\ SvcOwner(o)
  BY SvcOwners
<1>6. Cardinality(HeldBy(heap, o)) = lost[c] + (IF p = NULL THEN 0 ELSE 1)
  BY DEF SvcHolds, HoldsItsOwn
<1> HIDE DEF o, p
<1>0. Takes(heap, heap', p)
  BY <1>1, FreeTakes
<1>7. /\ Heap(heap')
      /\ HeldBy(heap', o) = HeldBy(heap, o) \ {p}
      /\ p \in Blocks => Cardinality(HeldBy(heap', o)) = Cardinality(HeldBy(heap, o)) - 1
      /\ \A x : x # o /\ x # Nobody => HeldBy(heap', x) = HeldBy(heap, x)
  BY <1>0, <1>4, <1>5, Taken DEF Takes
<1>8. IrqFrame(heap, heap')
  BY <1>5, <1>7, OneOwnerChanges
<1>9. Cardinality(HeldBy(heap', o)) = lost[c]
  <2>1. CASE p = NULL
    <3>1. HeldBy(heap', o) = HeldBy(heap, o)
      BY <1>4, <1>7, <2>1 DEF HeldBy
    <3>2. QED
      BY <1>3, <1>6, <2>1, <3>1
  <2>2. CASE p # NULL
    <3>1. Cardinality(HeldBy(heap', o)) = Cardinality(HeldBy(heap, o)) - 1
      BY <1>4, <1>7, <2>2
    <3>2. QED
      BY <1>3, <1>6, <2>2, <3>1
  <2>3. QED
    BY <2>1, <2>2
<1>10. /\ asked' = asked /\ lost' = lost /\ pointer'[c] = NULL
       /\ \A d \in Callers : d # c => pointer'[d] = pointer[d]
  BY DEF DropStorage, Hold, OnlyTheCaller, SvcTypes
<1>11. HoldsItsOwn(heap, c)'
  BY <1>3, <1>9, <1>10 DEF HoldsItsOwn, o
<1>12. QED
  BY <1>7, <1>8, <1>10, <1>11, CallerChanges DEF o

\* The kernel's caller resizes its object, or gets one (irq.c:155-170).
LEMMA ObjectResized ==
  ASSUME SvcTypes, Heap(heap), SvcHolds(heap), NEW c \in Callers, NEW at \in Sites(heap),
         ResizeStorage(c, at), ~heap'.robbed
  PROVE  Heap(heap') /\ SvcHolds(heap)' /\ IrqFrame(heap, heap')
<1> DEFINE o == Object(c)
           p == pointer[c]
           b == at.block
<1>1. heap' = MmReallocate(heap, p, at, o)
  BY DEF ResizeStorage
<1>2. p # NULL => p \in HeldBy(heap, o)
  BY DEF SvcHolds, HoldsItsOwn
<1>3. p \in Blocks \cup {NULL} /\ lost[c] \in Nat
  BY DEF SvcTypes
<1>4. PointsTo(heap, p, o) /\ (p \in Blocks <=> p # NULL)
  BY <1>2, <1>3, StorageAssumption DEF PointsTo, HeldBy
<1>5. o # Nobody /\ SvcOwner(o)
  BY SvcOwners
<1>6. Cardinality(HeldBy(heap, o)) = lost[c] + (IF p = NULL THEN 0 ELSE 1)
  BY DEF SvcHolds, HoldsItsOwn
<1>7. b \in Blocks /\ heap.owner[b] = Nobody
  BY SiteFree
<1>8. b # p /\ b # NULL
  BY <1>4, <1>5, <1>7, StorageAssumption DEF PointsTo
<1>9. /\ asked' = asked /\ lost' = lost /\ pointer'[c] = b
      /\ \A d \in Callers : d # c => pointer'[d] = pointer[d]
  BY DEF ResizeStorage, Hold, OnlyTheCaller, SvcTypes
<1> HIDE DEF o, p
<1>0. /\ Heap(heap')
      /\ HeldBy(heap', o) = (HeldBy(heap, o) \cup {at.block}) \ {p}
      /\ p \in Blocks => Cardinality(HeldBy(heap', o)) = Cardinality(HeldBy(heap, o))
      /\ p \notin Blocks => Cardinality(HeldBy(heap', o)) = Cardinality(HeldBy(heap, o)) + 1
      /\ \A x : x # o /\ x # Nobody => HeldBy(heap', x) = HeldBy(heap, x)
  BY <1>1, <1>4, <1>5, Reallocated, Z3
<1>10. /\ Heap(heap')
       /\ HeldBy(heap', o) = (HeldBy(heap, o) \cup {b}) \ {p}
       /\ p \in Blocks => Cardinality(HeldBy(heap', o)) = Cardinality(HeldBy(heap, o))
       /\ p \notin Blocks => Cardinality(HeldBy(heap', o)) = Cardinality(HeldBy(heap, o)) + 1
       /\ \A x : x # o /\ x # Nobody => HeldBy(heap', x) = HeldBy(heap, x)
  BY <1>0
<1> HIDE DEF b
<1>11. Cardinality(HeldBy(heap', o)) = lost[c] + 1
  <2>1. CASE p = NULL
    <3>1. Cardinality(HeldBy(heap', o)) = Cardinality(HeldBy(heap, o)) + 1
      BY <1>4, <1>10, <2>1
    <3>2. QED
      BY <1>3, <1>6, <2>1, <3>1
  <2>2. CASE p # NULL
    <3>1. Cardinality(HeldBy(heap', o)) = Cardinality(HeldBy(heap, o))
      BY <1>4, <1>10, <2>2
    <3>2. QED
      BY <1>3, <1>6, <2>2, <3>1
  <2>3. QED
    BY <2>1, <2>2
<1>12. b \in HeldBy(heap', o)
  BY <1>8, <1>10
<1>13. HoldsItsOwn(heap, c)'
  BY <1>8, <1>9, <1>11, <1>12 DEF HoldsItsOwn, o
<1>14. IrqFrame(heap, heap')
  BY <1>5, <1>10, OneOwnerChanges
<1>15. QED
  BY <1>9, <1>10, <1>13, <1>14, CallerChanges DEF o

\* A resize that fails makes the caller forget its object (irq.c:155-170, mm.c).
LEMMA ObjectLost ==
  ASSUME SvcTypes, Heap(heap), SvcHolds(heap), NEW c \in Callers, ResizeFails(c)
  PROVE  Heap(heap') /\ SvcHolds(heap)' /\ IrqFrame(heap, heap')
<1>1. heap' = heap /\ asked' = asked /\ pointer[c] # NULL
  BY DEF ResizeFails, OnlyTheCaller
<1>2. pointer'[c] = NULL /\ lost'[c] = lost[c] + 1
      /\ \A d \in Callers : d # c => pointer'[d] = pointer[d] /\ lost'[d] = lost[d]
  BY DEF ResizeFails, Hold, SvcTypes
<1>3. IrqFrame(heap, heap')
  BY <1>1 DEF IrqFrame
<1>4. lost[c] \in Nat /\ Cardinality(HeldBy(heap, Object(c))) = lost[c] + 1
  BY <1>1 DEF SvcTypes, SvcHolds, HoldsItsOwn
<1>5. HoldsItsOwn(heap, c)'
  BY <1>1, <1>2, <1>4 DEF HoldsItsOwn
<1>6. \A x : x # Object(c) /\ x # Nobody => HeldBy(heap', x) = HeldBy(heap, x)
  BY <1>1
<1>7. QED
  BY <1>1, <1>2, <1>3, <1>5, <1>6, CallerChanges

\* What a program calls is none of the callers' business, as long as what was made for
\* it is counted.
LEMMA ProgramChanges ==
  ASSUME SvcTypes, SvcHolds(heap), pointer' = pointer, lost' = lost,
         \A x : x # Program /\ x # Nobody => HeldBy(heap', x) = HeldBy(heap, x),
         Cardinality(HeldBy(heap', Program)) = asked'
  PROVE  SvcHolds(heap)' /\ IrqFrame(heap, heap')
<1>1. \A c \in Callers : HoldsItsOwn(heap, c)'
  BY SvcOwners DEF SvcHolds, HoldsItsOwn
<1>2. IrqFrame(heap, heap')
  BY SvcOwners, OwnersApart DEF IrqFrame
<1>3. QED
  BY <1>1, <1>2 DEF SvcHolds

\* A program asks for storage, which is made for nothing (alloc.c:4-7, krnlas.asm:21).
LEMMA ProgramAsks ==
  ASSUME SvcTypes, Heap(heap), SvcHolds(heap), NEW at \in Sites(heap), RtlAllocateMemory(at)
  PROVE  Heap(heap') /\ SvcHolds(heap)' /\ IrqFrame(heap, heap')
<1>1. heap' = MmAllocate(heap, at, Program) /\ asked' = asked + 1 /\ pointer' = pointer /\ lost' = lost
  BY DEF RtlAllocateMemory, OnlyTheProgram
<1>2. at.block \in Blocks /\ heap.owner[at.block] = Nobody /\ Gives(heap, heap', at.block, Program)
  BY <1>1, SiteFree, Allocates
<1>3. /\ Heap(heap')
      /\ Cardinality(HeldBy(heap', Program)) = Cardinality(HeldBy(heap, Program)) + 1
      /\ \A x : x # Program /\ x # Nobody => HeldBy(heap', x) = HeldBy(heap, x)
  BY <1>2, SvcOwners, Given DEF Gives
<1>4. Cardinality(HeldBy(heap', Program)) = asked'
  BY <1>1, <1>3 DEF SvcHolds
<1>5. QED
  BY <1>1, <1>3, <1>4, ProgramChanges

\* An object made for the program, or none, is counted (dataset.c:44-49).
LEMMA MadeCounts ==
  ASSUME NEW h, Heap(h), NEW tried \in Tried(h), NEW g, g = MadeIfAny(h, tried)
  PROVE  /\ Heap(g) /\ Len(tried) \in Nat
         /\ Cardinality(HeldBy(g, Program)) = Cardinality(HeldBy(h, Program)) + Len(tried)
         /\ \A x : x # Program /\ x # Nobody => HeldBy(g, x) = HeldBy(h, x)
<1>1. Cardinality(HeldBy(h, Program)) \in Nat
  BY Countable
<1>2. CASE tried = << >>
  <2>1. g = h /\ Len(tried) = 0
    BY <1>2 DEF MadeIfAny
  <2>2. QED
    BY <1>1, <2>1
<1>3. ASSUME NEW at \in Sites(h), tried = <<at>>
      PROVE  /\ Heap(g) /\ Len(tried) \in Nat
             /\ Cardinality(HeldBy(g, Program)) = Cardinality(HeldBy(h, Program)) + Len(tried)
             /\ \A x : x # Program /\ x # Nobody => HeldBy(g, x) = HeldBy(h, x)
  <2>1. Len(tried) = 1 /\ tried # << >> /\ tried[1] = at
    BY <1>3
  <2>2. g = MmAllocate(h, at, Program)
    BY <2>1 DEF MadeIfAny
  <2>3. Gives(h, g, at.block, Program) /\ at.block \in Blocks /\ h.owner[at.block] = Nobody
    BY <2>2, Allocates, SiteFree
  <2>4. QED
    BY <2>1, <2>3, Given, SvcOwners DEF Gives
<1>4. QED
  BY <1>2, <1>3 DEF Tried

\* It opens a dataset, of which the same is true (dataset.c:44-49).
LEMMA ProgramOpens ==
  ASSUME SvcTypes, Heap(heap), SvcHolds(heap), NEW dataset \in Tried(heap), RtlOpenDataset(dataset)
  PROVE  Heap(heap') /\ SvcHolds(heap)' /\ IrqFrame(heap, heap')
<1> DEFINE made == MadeIfAny(heap, dataset)
<1>1. PICK handle \in Tried(made) :
        asked' = asked + Len(dataset) + Len(handle) /\ heap' = MadeIfAny(made, handle)
  BY DEF RtlOpenDataset
<1>2. pointer' = pointer /\ lost' = lost
  BY DEF RtlOpenDataset, OnlyTheProgram
<1>3. /\ Heap(made) /\ Len(dataset) \in Nat
      /\ Cardinality(HeldBy(made, Program)) = Cardinality(HeldBy(heap, Program)) + Len(dataset)
      /\ \A x : x # Program /\ x # Nobody => HeldBy(made, x) = HeldBy(heap, x)
  BY MadeCounts
<1> HIDE DEF made
<1>4. /\ Heap(heap') /\ Len(handle) \in Nat
      /\ Cardinality(HeldBy(heap', Program)) = Cardinality(HeldBy(made, Program)) + Len(handle)
      /\ \A x : x # Program /\ x # Nobody => HeldBy(heap', x) = HeldBy(made, x)
  BY <1>1, <1>3, MadeCounts
<1>5. \A x : x # Program /\ x # Nobody => HeldBy(heap', x) = HeldBy(heap, x)
  BY <1>3, <1>4
<1>6. Cardinality(HeldBy(heap', Program)) = asked'
  <2>1. Cardinality(HeldBy(heap, Program)) = asked /\ asked \in Nat
    BY DEF SvcHolds, SvcTypes
  <2>2. QED
    BY <1>1, <1>3, <1>4, <2>1
<1>7. QED
  BY <1>2, <1>4, <1>5, <1>6, ProgramChanges

\* What else it calls leaves the heap alone: it never frees what it did not learn of
\* (alloc.c:9-21).
LEMMA ProgramElse ==
  ASSUME SvcTypes, Heap(heap), SvcHolds(heap),
         \/ RtlAllocateFails \/ RtlFreeMemory
         \/ \E word \in {"restart", "other", "system"} : RtlReallocateMemory(word)
  PROVE  Heap(heap') /\ SvcHolds(heap)' /\ IrqFrame(heap, heap')
<1>1. answer \notin Blocks
  BY StorageAssumption, SupervisorCallsAssumption DEF SvcTypes
<1>2. heap' = heap /\ asked' = asked /\ pointer' = pointer /\ lost' = lost
  BY <1>1 DEF RtlAllocateFails, RtlFreeMemory, RtlReallocateMemory, MmFree, InUse, OnlyTheProgram
<1>3. Cardinality(HeldBy(heap', Program)) = asked'
  BY <1>2 DEF SvcHolds
<1>4. \A x : HeldBy(heap', x) = HeldBy(heap, x)
  BY <1>2
<1>5. QED
  BY <1>2, <1>3, <1>4, ProgramChanges

\* A supervisor call keeps what is promised of all.
LEMMA SvcStep ==
  ASSUME IInv, Going, SvcNext, UNCHANGED irqVars
  PROVE  IInv'
<1>1. SvcTypes'
  BY SvcTypesStep DEF IInv
<1>2. table' = table /\ ranges' = ranges
  BY DEF irqVars
<1>3. halted' # Wild
  BY DEF SvcNext, GetStorage, DropStorage, ResizeStorage, ResizeFails, FreeNothing,
         RtlAllocateMemory, RtlAllocateFails, RtlFreeMemory, RtlReallocateMemory,
         RtlOpenDataset, Wild, Ruined, Going
<1>4. IrqTypes'
  BY <1>2 DEF IInv, IrqTypes
<1>5. ASSUME Going' PROVE Sound'
  <2>1. SvcTypes /\ IrqTypes /\ Sound
    BY DEF IInv
  <2>2. SvcTypes /\ Heap(heap) /\ SvcHolds(heap) /\ IrqHolds(heap)
    BY <2>1 DEF Sound
  <2>3. ~heap'.robbed
    BY <1>5 DEF Going
  <2> DEFINE Good == Heap(heap') /\ SvcHolds(heap)' /\ IrqFrame(heap, heap')
  <2>4. ASSUME NEW c \in Callers, NEW at \in Sites(heap), GetStorage(c, at) \/ FreeNothing(c, at) PROVE Good
    BY <2>2, <2>4, ObjectGot
  <2>5. ASSUME NEW c \in Callers, DropStorage(c) PROVE Good
    BY <2>2, <2>3, <2>5, ObjectDropped
  <2>6. ASSUME NEW c \in Callers, NEW at \in Sites(heap), ResizeStorage(c, at) PROVE Good
    BY <2>2, <2>3, <2>6, ObjectResized
  <2>7. ASSUME NEW c \in Callers, ResizeFails(c) PROVE Good
    BY <2>2, <2>7, ObjectLost
  <2>8. ASSUME NEW at \in Sites(heap), RtlAllocateMemory(at) PROVE Good
    BY <2>2, <2>8, ProgramAsks
  <2>9. ASSUME NEW dataset \in Tried(heap), RtlOpenDataset(dataset) PROVE Good
    BY <2>2, <2>9, ProgramOpens
  <2>10. ASSUME \/ RtlAllocateFails \/ RtlFreeMemory
                \/ \E word \in {"restart", "other", "system"} : RtlReallocateMemory(word)
         PROVE  Good
    BY <2>2, <2>10, ProgramElse
  <2>11. KernelCallers \subseteq Callers /\ MvsCallers \subseteq Callers
    BY DEF Callers
  <2> HIDE DEF Good
  <2>12. Good
    BY <2>4, <2>5, <2>6, <2>7, <2>8, <2>9, <2>10, <2>11 DEF SvcNext
  <2>13. IrqHolds(heap)'
    BY <2>1, <2>2, <2>12, IrqStays DEF Good
  <2>14. QED
    BY <2>12, <2>13 DEF Sound, Good
<1>6. WildForAReason'
  BY <1>3 DEF WildForAReason
<1>7. QED
  BY <1>1, <1>4, <1>5, <1>6 DEF IInv

----------------------------------------------------------------------------
(* The IRQ lines (irq.c:1-130) *)

\* The search for a range or a line finds the first there is (irq.c:56-66, irq.c:90-95).
LEMMA FirstIsLeast ==
  ASSUME NEW S \in SUBSET Nat, S # {}
  PROVE  First(S) \in S /\ \A k \in S : First(S) <= k
  BY LeastExists DEF First

\* What the types say of ranges and lines, by their indices.
LEMMA Indices ==
  ASSUME IrqTypes
  PROVE  /\ Len(ranges) \in Nat /\ DOMAIN ranges = 1 .. Len(ranges)
         /\ \A i \in DOMAIN ranges :
              /\ i \in Nat /\ ranges[i] \in Range1 /\ ranges[i].lines \in Seq(Line)
              /\ Len(ranges[i].lines) \in Nat
              /\ DOMAIN ranges[i].lines = 1 .. Len(ranges[i].lines)
              /\ \A j \in DOMAIN ranges[i].lines : j \in Nat /\ ranges[i].lines[j] \in Line
<1>1. ranges \in Seq(Range1)
  BY DEF IrqTypes
<1>2. Len(ranges) \in Nat /\ DOMAIN ranges = 1 .. Len(ranges) /\ \A i \in DOMAIN ranges : i \in Nat /\ ranges[i] \in Range1
  BY <1>1
<1>3. \A i \in DOMAIN ranges : ranges[i].lines \in Seq(Line)
  BY <1>2 DEF Range1
<1>4. QED
  BY <1>2, <1>3

\* A list of ranges, the ith of which has a jth line.
Indexes(R, i, j) == R \in Seq(Range1) /\ i \in DOMAIN R /\ j \in DOMAIN R[i].lines

\* From R to Q line j of range i gets the array S, or none; no other line gets another.
Handles(R, Q, i, j, S) ==
  /\ Q \in Seq(Range1) /\ Len(Q) = Len(R) /\ DOMAIN Q = DOMAIN R
  /\ \A k \in DOMAIN R : Q[k].block = R[k].block /\ DOMAIN Q[k].lines = DOMAIN R[k].lines
  /\ \A k \in DOMAIN R : \A l \in DOMAIN R[k].lines :
       k # i \/ l # j => Handled(Q[k].lines[l]) = Handled(R[k].lines[l])
  /\ Handled(Q[i].lines[j]) = S

\* What a pair of indexes names: a range and a line of it (struct KeIrqRange).
LEMMA IndexesParts ==
  ASSUME NEW R, NEW i, NEW j, Indexes(R, i, j)
  PROVE  R[i] \in Range1 /\ R[i].lines \in Seq(Line) /\ R[i].lines[j] \in Line
<1>1. ASSUME NEW S, NEW s \in Seq(S), NEW k \in DOMAIN s PROVE s[k] \in S
  OBVIOUS
<1>2. R[i] \in Range1
  BY <1>1, Zenon DEF Indexes
<1>3. R[i].lines \in Seq(Line)
  BY <1>2 DEF Range1
<1>4. R[i].lines[j] \in Line
  BY <1>1, <1>3, Zenon DEF Indexes
<1>5. QED
  BY <1>2, <1>3, <1>4

\* From R to Q line j of range i, and no other, is replaced by l.
SetsOnly(R, Q, i, j, l) ==
  /\ Q[i].lines[j] = l
  /\ \A k \in DOMAIN R : \A m \in DOMAIN R[k].lines :
       k # i \/ m # j => Q[k].lines[m] = R[k].lines[m]

\* A line of a range is set to another (irq.c:76-84, irq.c:109-120).
LEMMA LineSet ==
  ASSUME NEW R, NEW i, NEW j, Indexes(R, i, j), NEW l \in Line, NEW Q, Q = [R EXCEPT ![i].lines[j] = l]
  PROVE  Handles(R, Q, i, j, Handled(l)) /\ Indexes(Q, i, j) /\ SetsOnly(R, Q, i, j, l)
<1> DEFINE L == [R[i].lines EXCEPT ![j] = l]
           r == [R[i] EXCEPT !.lines = L]
<1>1. R \in Seq(Range1) /\ i \in DOMAIN R /\ j \in DOMAIN R[i].lines
  BY DEF Indexes
<1>2. R[i] \in Range1 /\ R[i].lines \in Seq(Line)
  BY IndexesParts, Zenon
<1>3. L \in Seq(Line) /\ DOMAIN L = DOMAIN R[i].lines /\ L[j] = l
  BY <1>1, <1>2
<1>4. \A m \in DOMAIN R[i].lines : m # j => L[m] = R[i].lines[m]
  OBVIOUS
<1> HIDE DEF L
<1>5. r \in Range1 /\ r.lines = L /\ r.block = R[i].block
  BY <1>2, <1>3 DEF Range1
<1>6. Q = [R EXCEPT ![i] = r]
  BY DEF L
<1> HIDE DEF r
<1>7. Q \in Seq(Range1) /\ Len(Q) = Len(R) /\ DOMAIN Q = DOMAIN R /\ Q[i] = r
  BY <1>1, <1>5, <1>6
<1>8. \A k \in DOMAIN R : k # i => Q[k] = R[k]
  BY <1>6
<1>9. \A k \in DOMAIN R : Q[k].block = R[k].block /\ DOMAIN Q[k].lines = DOMAIN R[k].lines
  BY <1>3, <1>5, <1>7, <1>8
<1>10. \A k \in DOMAIN R : \A m \in DOMAIN R[k].lines :
         k # i \/ m # j => Q[k].lines[m] = R[k].lines[m]
  BY <1>4, <1>5, <1>7, <1>8
<1>11. Q[i].lines[j] = l
  BY <1>3, <1>5, <1>7
<1>12. QED
  BY <1>1, <1>3, <1>5, <1>7, <1>9, <1>10, <1>11 DEF Handles, Indexes, SetsOnly

\* With the arrays the ranges stay what they are (IrqTypes, IrqHolds).
LEMMA HoldsAfterChange ==
  ASSUME IrqTypes, IrqHolds(heap), NEW i, NEW j, Indexes(ranges, i, j), NEW S,
         Handles(ranges, ranges', i, j, S), table' = table,
         HeldBy(heap', HandlersOf(i, j)) = S,
         \A x : x # HandlersOf(i, j) /\ x # Nobody => HeldBy(heap', x) = HeldBy(heap, x)
  PROVE  IrqHolds(heap)'
<1>1. /\ DOMAIN ranges = 1 .. Len(ranges) /\ i \in DOMAIN ranges
      /\ \A k \in DOMAIN ranges : k \in Nat /\ \A l \in DOMAIN ranges[k].lines : l \in Nat
  BY Indices DEF Indexes
<1>2. /\ Len(ranges') = Len(ranges) /\ DOMAIN ranges' = DOMAIN ranges
      /\ \A k \in DOMAIN ranges : ranges'[k].block = ranges[k].block /\ DOMAIN ranges'[k].lines = DOMAIN ranges[k].lines
  BY DEF Handles
<1>3. i \in Nat /\ j \in Nat
  BY <1>1 DEF Indexes
<1>4. /\ HeldBy(heap', Table) = HeldBy(heap, Table)
      /\ \A k \in Nat : HeldBy(heap', LinesOf(k)) = HeldBy(heap, LinesOf(k))
      /\ \A k, l \in Nat : k # i \/ l # j => HeldBy(heap', HandlersOf(k, l)) = HeldBy(heap, HandlersOf(k, l))
  <2>1. HandlersOf(i, j) # Table /\ \A k \in Nat : HandlersOf(i, j) # LinesOf(k)
    BY <1>3, IrqOwners
  <2>2. HeldBy(heap', Table) = HeldBy(heap, Table)
    BY <2>1, IrqOwners
  <2>3. \A k \in Nat : HeldBy(heap', LinesOf(k)) = HeldBy(heap, LinesOf(k))
    BY <2>1, IrqOwners
  <2>4. \A k, l \in Nat : k # i \/ l # j => HandlersOf(k, l) # HandlersOf(i, j) /\ HandlersOf(k, l) # Nobody
    BY <1>3, IrqOwners
  <2>5. QED
    BY <2>2, <2>3, <2>4
<1>5. ASSUME NEW k \in DOMAIN ranges, NEW l \in DOMAIN ranges[k].lines
      PROVE  HeldBy(heap', HandlersOf(k, l)) = Handled(ranges'[k].lines[l])
  <2>1. CASE k = i /\ l = j
    BY <2>1 DEF Handles
  <2>2. CASE k # i \/ l # j
    <3>1. HeldBy(heap', HandlersOf(k, l)) = HeldBy(heap, HandlersOf(k, l))
      BY <1>1, <1>4, <2>2
    <3>2. HeldBy(heap, HandlersOf(k, l)) = Handled(ranges[k].lines[l])
      BY DEF IrqHolds, LineIsServed
    <3>3. Handled(ranges'[k].lines[l]) = Handled(ranges[k].lines[l])
      BY <2>2 DEF Handles
    <3>4. QED
      BY <3>1, <3>2, <3>3
  <2>3. QED
    BY <2>1, <2>2
<1>6. ASSUME NEW k \in Nat, k > Len(ranges), NEW l \in Nat PROVE HeldBy(heap', HandlersOf(k, l)) = {}
  <2>1. k # i
    BY <1>1, <1>6, Indices
  <2>2. QED
    BY <1>4, <1>6, <2>1 DEF IrqHolds
<1>7. ranges' # << >> /\ heap'.owner[table'] = Table =>
        \A k \in DOMAIN ranges' : ranges'[k].block \in HeldBy(heap', LinesOf(k))
  <2>1. SUFFICES ASSUME ranges' # << >>, heap'.owner[table'] = Table, NEW k \in DOMAIN ranges'
                 PROVE  ranges'[k].block \in HeldBy(heap', LinesOf(k))
    OBVIOUS
  <2>2. k \in DOMAIN ranges /\ k \in Nat
    BY <1>1, <1>2
  <2>3. ranges # << >>
    BY <2>2
  <2>4. table \in Blocks
    BY <2>3 DEF IrqTypes
  <2>5. heap.owner[table] = Table
    BY <1>4, <2>1, <2>4 DEF HeldBy
  <2>6. ranges[k].block \in HeldBy(heap, LinesOf(k))
    BY <2>2, <2>3, <2>5 DEF IrqHolds
  <2>7. QED
    BY <1>2, <1>4, <2>2, <2>6
<1>8. QED
  BY <1>2, <1>5, <1>6, <1>7 DEF IrqHolds, LineIsServed

\* A line whose handlers were not dropped has the array it points to.
LEMMA LinePoints ==
  ASSUME IrqTypes, IrqHolds(heap), NEW i \in DOMAIN ranges, NEW j \in DOMAIN ranges[i].lines
  PROVE  /\ HeldBy(heap, HandlersOf(i, j)) \subseteq {ranges[i].lines[j].handlers}
         /\ Astray(i, j) => i \in Dropped
         /\ ~Astray(i, j) => PointsTo(heap, ranges[i].lines[j].handlers, HandlersOf(i, j))
<1> DEFINE line == ranges[i].lines[j]
           o    == HandlersOf(i, j)
<1>1. HeldBy(heap, o) = Handled(line)
  BY DEF IrqHolds, LineIsServed
<1>2. line.n \in Nat /\ line.handlers \in Blocks \cup {NULL}
  BY Indices DEF Line
<1>3. Astray(i, j) <=> line.handlers # NULL /\ heap.owner[line.handlers] # o
  BY DEF Astray
<1>4. i \in Dropped <=> \E m \in DOMAIN ranges[i].lines : ranges[i].lines[m].n = 0 /\ ranges[i].lines[m].handlers # NULL
  BY DEF Dropped
<1>5. line.n = 0 /\ line.handlers # NULL => i \in Dropped
  BY <1>4
<1> HIDE DEF line, o
<1>6. HeldBy(heap, o) \subseteq {line.handlers}
  BY <1>1 DEF Handled
<1>7. line.n > 0 => heap.owner[line.handlers] = o
  BY <1>1 DEF Handled, HeldBy
<1>8. Astray(i, j) => i \in Dropped
  BY <1>2, <1>3, <1>5, <1>7
<1>9. ~Astray(i, j) => PointsTo(heap, line.handlers, o)
  BY <1>3, StorageAssumption DEF PointsTo
<1>10. QED
  BY <1>6, <1>8, <1>9 DEF line, o

\* A line with one handler and holder more (irq.c:76-84).
LEMMA LineWith ==
  ASSUME NEW l \in Line, NEW b \in Blocks
  PROVE  /\ [l EXCEPT !.handlers = b, !.n = @ + 1, !.holders = @ + 1] \in Line
         /\ Handled([l EXCEPT !.handlers = b, !.n = @ + 1, !.holders = @ + 1]) = {b}
<1> DEFINE w == [l EXCEPT !.handlers = b]
           v == [w EXCEPT !.n = l.n + 1]
           x == [v EXCEPT !.holders = l.holders + 1]
<1>1. l.n \in Nat /\ l.holders \in Nat
  BY DEF Line
<1>2. x = [l EXCEPT !.handlers = b, !.n = @ + 1, !.holders = @ + 1]
  OBVIOUS
<1>3. w \in Line /\ w.handlers = b
  BY DEF Line
<1> HIDE DEF w
<1>4. v \in Line /\ v.n = l.n + 1 /\ v.handlers = b
  BY <1>1, <1>3 DEF Line
<1> HIDE DEF v
<1>5. x \in Line /\ x.n = l.n + 1 /\ x.handlers = b
  BY <1>1, <1>4 DEF Line
<1> HIDE DEF x
<1>6. Handled(x) = {b}
  BY <1>1, <1>5 DEF Handled
<1>7. QED
  BY <1>2, <1>5, <1>6

\* One with none, and one with a holder less (irq.c:109-120).
LEMMA LineWithout ==
  ASSUME NEW l \in Line
  PROVE  /\ [l EXCEPT !.n = 0, !.private = FALSE] \in Line
         /\ Handled([l EXCEPT !.n = 0, !.private = FALSE]) = {}
         /\ [l EXCEPT !.n = 0, !.private = FALSE].holders = l.holders
         /\ l.holders > 0 => [l EXCEPT !.holders = @ - 1] \in Line
         /\ Handled([l EXCEPT !.holders = @ - 1]) = Handled(l)
<1> DEFINE u == [l EXCEPT !.n = 0]
           y == [u EXCEPT !.private = FALSE]
           z == [l EXCEPT !.holders = l.holders - 1]
<1>1. l.n \in Nat /\ l.holders \in Nat
  BY DEF Line
<1>2. y = [l EXCEPT !.n = 0, !.private = FALSE] /\ z = [l EXCEPT !.holders = @ - 1]
  OBVIOUS
<1>3. u \in Line /\ u.n = 0 /\ u.holders = l.holders
  BY DEF Line
<1>4. (l.holders > 0 => z \in Line) /\ z.n = l.n /\ z.handlers = l.handlers
  BY <1>1 DEF Line
<1> HIDE DEF u, z
<1>5. y \in Line /\ y.n = 0 /\ y.holders = l.holders
  BY <1>3 DEF Line
<1> HIDE DEF y
<1>6. Handled(y) = {} /\ Handled(z) = Handled(l)
  BY <1>4, <1>5 DEF Handled
<1>7. QED
  BY <1>2, <1>4, <1>5, <1>6

\* What a step of the IRQ lines must keep.
IrqGood ==
  /\ IrqTypes' /\ WildForAReason'
  /\ Going' => Heap(heap') /\ IrqHolds(heap)' /\ SvcFrame(heap, heap')

\* Memory that was found to be wild for a reason still is for that reason.
LEMMA WildStays ==
  ASSUME IrqTypes, UNCHANGED <<heap, irqVars>>, halted' = Wild,
         ~Apart(ranges) \/ Dropped # {} \/ heap.owner[table] # Table
  PROVE  IrqGood
<1>1. UNCHANGED <<table, ranges>>
  BY DEF irqVars
<1>2. IrqTypes'
  BY <1>1 DEF IrqTypes
<1>3. Dropped' = Dropped /\ Apart(ranges)' = Apart(ranges)
  BY <1>1 DEF Dropped, Apart
<1>4. WildForAReason'
  BY <1>1, <1>3 DEF WildForAReason
<1>5. ~Going'
  BY DEF Going, Wild
<1>6. QED
  BY <1>2, <1>4, <1>5 DEF IrqGood

\* A handler more on a line (irq.c:53-84).
LEMMA HandlerSet ==
  ASSUME IrqTypes, Heap(heap), IrqHolds(heap), Going, NEW at \in Sites(heap), KeAllocateIrq(at)
  PROVE  IrqGood
<1> DEFINE i == First(Serving)
           j == First(Common(i))
           line == ranges[i].lines[j]
           o == HandlersOf(i, j)
<1>1. i \in DOMAIN ranges /\ j \in DOMAIN ranges[i].lines
  <2>1. Serving # {} /\ Serving \in SUBSET Nat
    BY Indices DEF KeAllocateIrq, Serving
  <2>2. First(Serving) \in Serving
    BY <2>1, FirstIsLeast
  <2>3. i \in DOMAIN ranges /\ Common(i) # {}
    BY <2>2 DEF Serving
  <2>4. Common(i) \in SUBSET Nat
    BY <2>3, Indices DEF Common
  <2>5. First(Common(i)) \in Common(i)
    BY <2>3, <2>4, FirstIsLeast
  <2>6. QED
    BY <2>3, <2>5 DEF Common
<1>2. \/ (~Intact(i) \/ Astray(i, j)) /\ halted' = Wild /\ UNCHANGED <<heap, irqVars>>
      \/ /\ Intact(i) /\ ~Astray(i, j)
         /\ heap' = MmReallocate(heap, line.handlers, at, o)
         /\ ranges' = WithHandler(i, j, at.block)
         /\ UNCHANGED <<table, halted>>
  BY DEF KeAllocateIrq
<1> HIDE DEF i, j
<1>3. i \in Nat /\ j \in Nat /\ Indexes(ranges, i, j)
  BY <1>1, Indices DEF Indexes, IrqTypes
<1>4. CASE (~Intact(i) \/ Astray(i, j)) /\ halted' = Wild /\ UNCHANGED <<heap, irqVars>>
  <2>1. ranges # << >>
    BY <1>1
  <2>2. heap.owner[table] = Table => Intact(i)
    <3>1. ASSUME heap.owner[table] = Table, NEW k \in 1..i PROVE heap.owner[ranges[k].block] = LinesOf(k)
      <4>1. k \in DOMAIN ranges
        BY <1>1, Indices
      <4>2. QED
        BY <2>1, <3>1, <4>1 DEF IrqHolds, HeldBy
    <3>2. QED
      BY <3>1 DEF Intact
  <2>3. Astray(i, j) => Dropped # {}
    BY <1>1, LinePoints
  <2>4. Dropped # {} \/ heap.owner[table] # Table
    BY <1>4, <2>2, <2>3
  <2>5. QED
    BY <1>4, <2>4, WildStays
<1>5. CASE /\ ~Astray(i, j)
           /\ heap' = MmReallocate(heap, line.handlers, at, o)
           /\ ranges' = WithHandler(i, j, at.block)
           /\ UNCHANGED <<table, halted>>
  <2> DEFINE b == at.block
             p == line.handlers
             l == [line EXCEPT !.handlers = b, !.n = @ + 1, !.holders = @ + 1]
  <2>1. ranges' = [ranges EXCEPT ![i].lines[j] = l]
    <3>1. ranges' = WithHandler(i, j, at.block)
      BY <1>5
    <3> HIDE DEF i, j
    <3>2. QED
      BY <3>1 DEF WithHandler
  <2>2. b \in Blocks /\ heap.owner[b] = Nobody
    BY SiteFree
  <2>3. line \in Line
    BY <1>1, Indices
  <2>4. PointsTo(heap, p, o) /\ HeldBy(heap, o) \subseteq {p}
    BY <1>1, <1>5, LinePoints
  <2>5. o # Nobody /\ IrqOwner(o)
    BY <1>3, IrqOwners
  <2> HIDE DEF b, o, line
  <2>6. l \in Line /\ Handled(l) = {b}
    BY <2>2, <2>3, LineWith
  <2> HIDE DEF l
  <2>7. Handles(ranges, ranges', i, j, {b})
    BY <1>3, <2>1, <2>6, LineSet
  <2>8. IrqTypes'
    <3>1. ranges' \in Seq(Range1) /\ table' = table /\ ranges # << >>
      BY <1>1, <1>5, <2>7 DEF Handles
    <3>2. QED
      BY <3>1 DEF IrqTypes
  <2>9. halted' # Wild
    BY <1>5 DEF Going, Wild
  <2>10. ASSUME Going' PROVE Heap(heap') /\ IrqHolds(heap)' /\ SvcFrame(heap, heap')
    <3>1. ~heap'.robbed
      BY <2>10 DEF Going
    <3> HIDE DEF p
    <3>2. /\ Heap(heap')
          /\ HeldBy(heap', o) = (HeldBy(heap, o) \cup {at.block}) \ {p}
          /\ \A x : x # o /\ x # Nobody => HeldBy(heap', x) = HeldBy(heap, x)
      BY <1>5, <2>4, <2>5, <3>1, Reallocated, Z3 DEF p
    <3>3. b # p
      BY <2>2, <2>4, <2>5 DEF PointsTo
    <3>4. HeldBy(heap', o) = {b}
      BY <2>4, <3>2, <3>3 DEF b
    <3>5. SvcFrame(heap, heap')
      BY <2>5, <3>2, OneOwnerChanges
    <3>6. table' = table
      BY <1>5
    <3>7. IrqHolds(heap)'
      BY <1>3, <2>7, <3>2, <3>4, <3>6, HoldsAfterChange DEF o
    <3>8. QED
      BY <3>2, <3>5, <3>7
  <2>11. QED
    BY <2>8, <2>9, <2>10 DEF IrqGood, WildForAReason
<1>6. QED
  BY <1>2, <1>4, <1>5

\* All handlers of a line are dropped, for one holder less: the line that is left is the
\* first of the two changes, the count of holders the second (irq.c:102-120).
LEMMA HandlerFreed ==
  ASSUME IrqTypes, Heap(heap), IrqHolds(heap), Going,
         NEW i \in DOMAIN ranges, NEW j \in DOMAIN ranges[i].lines, KeFreeIrq(i, j)
  PROVE  IrqGood
<1> DEFINE irq == Irq(i, j)
           k == First({r \in DOMAIN ranges : irq \in Claimed(ranges[r])})
           l == irq - ranges[k].start + 1
           wild == \/ heap.owner[table] # Table \/ heap.owner[ranges[k].block] # LinesOf(k)
                   \/ l \notin DOMAIN ranges[k].lines \/ Astray(k, l)
           left == [ranges[k].lines[l] EXCEPT !.n = 0, !.private = FALSE]
           R == [ranges EXCEPT ![k].lines[l] = left]
           less == [R[i].lines[j] EXCEPT !.holders = @ - 1]
<1>1. irq \in Claimed(ranges[i])
  <2>1. ranges[i].start \in Nat /\ j \in 1 .. Len(ranges[i].lines) /\ Len(ranges[i].lines) \in Nat
    BY Indices DEF Range1
  <2>2. irq = ranges[i].start + j - 1
    BY DEF Irq
  <2> HIDE DEF irq
  <2>3. QED
    BY <2>1, <2>2 DEF Claimed
<1>2. k \in DOMAIN ranges /\ irq \in Claimed(ranges[k])
  <2> DEFINE K == {r \in DOMAIN ranges : irq \in Claimed(ranges[r])}
  <2>1. i \in K
    BY <1>1
  <2>2. K \in SUBSET Nat
    BY Indices
  <2>3. First(K) \in K
    BY <2>1, <2>2, FirstIsLeast
  <2>4. QED
    BY <2>3
<1>3. \/ wild /\ halted' = Wild /\ UNCHANGED <<heap, irqVars>>
      \/ /\ ~wild
         /\ heap' = MmFree(heap, ranges[k].lines[l].handlers)
         /\ ranges' = [WithoutHandlers(k, l) EXCEPT ![i].lines[j].holders = @ - 1]
         /\ UNCHANGED <<table, halted>>
  BY DEF KeFreeIrq
<1>4. Apart(ranges) => l \in DOMAIN ranges[k].lines
  <2>1. SUFFICES ASSUME Apart(ranges) PROVE l \in DOMAIN ranges[k].lines
    OBVIOUS
  <2>2. k = i
    BY <1>1, <1>2, <2>1 DEF Apart
  <2>3. ranges[i].start \in Nat /\ j \in Nat
    BY Indices DEF Range1
  <2>4. l = j
    BY <2>2, <2>3 DEF Irq
  <2>5. QED
    BY <2>2, <2>4
<1>5. k \in Nat /\ ranges # << >>
  BY <1>2, Indices
<1>6. ranges[i].lines[j].holders > 0
  BY DEF KeFreeIrq
<1> HIDE DEF irq, k, l
<1>7. CASE wild /\ halted' = Wild /\ UNCHANGED <<heap, irqVars>>
  <2>1. heap.owner[table] = Table => heap.owner[ranges[k].block] = LinesOf(k)
    BY <1>2, <1>5 DEF IrqHolds, HeldBy
  <2>2. l \in DOMAIN ranges[k].lines /\ Astray(k, l) => Dropped # {}
    BY <1>2, LinePoints
  <2>3. ~Apart(ranges) \/ Dropped # {} \/ heap.owner[table] # Table
    BY <1>4, <1>7, <2>1, <2>2
  <2>4. QED
    BY <1>7, <2>3, WildStays
<1>8. CASE /\ ~wild
           /\ heap' = MmFree(heap, ranges[k].lines[l].handlers)
           /\ ranges' = [WithoutHandlers(k, l) EXCEPT ![i].lines[j].holders = @ - 1]
           /\ UNCHANGED <<table, halted>>
  <2> DEFINE o == HandlersOf(k, l)
             p == ranges[k].lines[l].handlers
  <2>1. l \in DOMAIN ranges[k].lines /\ ~Astray(k, l)
    BY <1>8
  <2>2. Indexes(ranges, k, l) /\ l \in Nat
    BY <1>2, <2>1, Indices DEF Indexes, IrqTypes
  <2>3. ranges' = [R EXCEPT ![i].lines[j] = less]
    <3>1. ranges' = [WithoutHandlers(k, l) EXCEPT ![i].lines[j].holders = @ - 1]
      BY <1>8
    <3>2. WithoutHandlers(k, l) = R
      BY DEF WithoutHandlers
    <3> HIDE DEF R
    <3>3. QED
      BY <3>1, <3>2
  <2>4. left \in Line /\ Handled(left) = {} /\ left.holders = ranges[k].lines[l].holders
    <3>1. ranges[k].lines[l] \in Line
      BY <1>2, <2>1, Indices
    <3>2. QED
      BY <3>1, LineWithout, Zenon
  <2>5. Handles(ranges, R, k, l, {}) /\ SetsOnly(ranges, R, k, l, left)
    <3> HIDE DEF left
    <3>1. QED
      BY <2>2, <2>4, LineSet
  <2> HIDE DEF left
  <2>6. R[i].lines[j].holders = ranges[i].lines[j].holders
    <3> HIDE DEF R
    <3>1. QED
      BY <2>4, <2>5 DEF SetsOnly
  <2> HIDE DEF R
  <2>7. Indexes(R, i, j)
    BY <2>5 DEF Handles, Indexes
  <2>8. less \in Line /\ Handled(less) = Handled(R[i].lines[j])
    <3>1. R[i].lines[j] \in Line
      BY <2>7, IndexesParts
    <3>2. R[i].lines[j].holders > 0
      BY <1>6, <2>6
    <3>3. QED
      BY <3>1, <3>2, LineWithout
  <2> HIDE DEF less
  <2>9. Handles(R, ranges', i, j, Handled(R[i].lines[j]))
    BY <2>3, <2>7, <2>8, LineSet
  <2>10. Handles(ranges, ranges', k, l, {})
    <3>1. \A m \in DOMAIN R : \A n \in DOMAIN R[m].lines :
            Handled(ranges'[m].lines[n]) = Handled(R[m].lines[n])
      BY <2>9 DEF Handles
    <3>2. QED
      BY <1>2, <2>1, <2>5, <2>9, <3>1, Z3 DEF Handles
  <2>11. IrqTypes'
    <3>1. ranges' \in Seq(Range1) /\ table' = table
      BY <1>8, <2>10 DEF Handles
    <3>2. QED
      BY <1>5, <3>1 DEF IrqTypes
  <2>12. halted' # Wild
    BY <1>8 DEF Going, Wild
  <2>13. ASSUME Going' PROVE Heap(heap') /\ IrqHolds(heap)' /\ SvcFrame(heap, heap')
    <3>1. ~heap'.robbed
      BY <2>13 DEF Going
    <3>2. heap' = MmFree(heap, p)
      BY <1>8
    <3>3. PointsTo(heap, p, o) /\ HeldBy(heap, o) \subseteq {p}
      BY <1>2, <2>1, LinePoints
    <3>4. o # Nobody /\ IrqOwner(o)
      BY <1>5, <2>2, IrqOwners
    <3> HIDE DEF o, p
    <3>5. Takes(heap, heap', p)
      BY <3>1, <3>2, FreeTakes
    <3>6. HeldBy(heap', o) = {} /\ \A x : x # o /\ x # Nobody => HeldBy(heap', x) = HeldBy(heap, x)
      BY <3>3, <3>4, <3>5, Taken
    <3>7. SvcFrame(heap, heap')
      BY <3>4, <3>6, OneOwnerChanges
    <3>8. table' = table
      BY <1>8
    <3>9. IrqHolds(heap)'
      BY <2>2, <2>10, <3>6, <3>8, HoldsAfterChange DEF o
    <3>10. QED
      BY <3>5, <3>7, <3>9 DEF Takes
  <2>14. QED
    BY <2>11, <2>12, <2>13 DEF IrqGood, WildForAReason
<1>9. QED
  BY <1>3, <1>7, <1>8

\* A free leaves the heap what it is, and what was robbed robbed (pmm.c:228-295).
LEMMA FreeLeavesHeap ==
  ASSUME NEW h, Heap(h), NEW p
  PROVE  Heap(MmFree(h, p)) /\ (~MmFree(h, p).robbed => ~h.robbed)
<1>1. CASE p \in InUse(h) /\ h.order[Position(h, p) - 1] # Gap
  <2>1. MmFree(h, p) = ReleaseBelow(h, p)
    BY <1>1 DEF MmFree
  <2>2. Heap(ReleaseBelow(h, p)) /\ (~ReleaseBelow(h, p).robbed => ~h.robbed)
    BY DEF ReleaseBelow, Heap
  <2>3. QED
    BY <2>1, <2>2
<1>2. CASE ~(p \in InUse(h) /\ h.order[Position(h, p) - 1] # Gap)
  <2>1. MmFree(h, p) = FreeObject(h, p)
    BY <1>2 DEF MmFree, FreeObject
  <2>2. QED
    BY <2>1, FreeObjectTakes DEF Takes
<1>3. QED
  BY <1>1, <1>2

\* New lines have no handlers (irq.c:29-49).
LEMMA NewLines ==
  ASSUME NEW shape \in Shapes, NEW b \in Blocks, NEW r,
         r = [start |-> shape.start, block |-> b,
              lines |-> [j \in DOMAIN shape.private |-> NewLine(shape.private[j])]]
  PROVE  r \in Range1 /\ r.block = b /\ \A j \in DOMAIN r.lines : j \in Nat /\ Handled(r.lines[j]) = {}
<1>1. shape.start \in Nat /\ shape.private \in Seq(BOOLEAN)
  BY IrqLinesAssumption
<1> DEFINE lines == [j \in DOMAIN shape.private |-> NewLine(shape.private[j])]
<1>2. \A p \in BOOLEAN : NewLine(p) \in Line /\ Handled(NewLine(p)) = {}
  BY DEF NewLine, Line, Handled
<1>3. \A j \in DOMAIN shape.private : j \in Nat /\ shape.private[j] \in BOOLEAN
  BY <1>1
<1>4. \A j \in DOMAIN shape.private : NewLine(shape.private[j]) \in Line /\ Handled(NewLine(shape.private[j])) = {}
  BY <1>2, <1>3
<1>5. DOMAIN shape.private = 1 .. Len(shape.private) /\ Len(shape.private) \in Nat
  BY <1>1
<1>6. lines \in Seq(Line) /\ DOMAIN lines = DOMAIN shape.private
  BY <1>4, <1>5
<1>7. \A j \in DOMAIN lines : j \in Nat /\ Handled(lines[j]) = {}
  BY <1>3, <1>4
<1> HIDE DEF lines
<1>8. r = [start |-> shape.start, block |-> b, lines |-> lines]
  BY DEF lines
<1>9. r.start = shape.start /\ r.block = b /\ r.lines = lines
  BY <1>8
<1>10. r \in Range1
  BY <1>1, <1>6, <1>8 DEF Range1
<1>11. QED
  BY <1>7, <1>9, <1>10

\* The heap behind a creation: an object that stays, the lines, a new table for the old
\* one (irq.c:22-52).
LEMMA RangeMade ==
  ASSUME IrqTypes, Heap(heap), table # NULL => heap.owner[table] = Table,
         NEW made, Heap(made), made.owner = heap.owner,
         NEW n \in Nat, NEW lines \in Sites(made),
         NEW full, full = MmAllocate(made, lines, LinesOf(n)),
         NEW at \in Sites(full), heap' = MmReallocate(full, table, at, Table), ~heap'.robbed
  PROVE  /\ Heap(heap') /\ SvcFrame(heap, heap')
         /\ HeldBy(heap', LinesOf(n)) = HeldBy(heap, LinesOf(n)) \cup {lines.block}
         /\ \A x : x # Table /\ x # LinesOf(n) /\ x # Nobody => HeldBy(heap', x) = HeldBy(heap, x)
<1> DEFINE b == lines.block
           o == LinesOf(n)
<1>1. b \in Blocks /\ made.owner[b] = Nobody
  BY SiteFree
<1>2. IrqOwner(o) /\ o # Nobody /\ IrqOwner(Table) /\ Table # Nobody /\ o # Table
  BY IrqOwners
<1>3. Gives(made, full, b, o)
  BY Allocates
<1> HIDE DEF b, o
<1>4. /\ HeldBy(full, o) = HeldBy(made, o) \cup {b}
      /\ \A x : x # o /\ x # Nobody => HeldBy(full, x) = HeldBy(made, x)
  BY <1>1, <1>2, <1>3, Given, Z3
<1>5. \A x : HeldBy(made, x) = HeldBy(heap, x)
  BY DEF HeldBy
<1>6. Heap(full)
  BY <1>3 DEF Gives
<1>7. PointsTo(full, table, Table)
  <2>1. SUFFICES ASSUME table \in Blocks PROVE full.owner[table] = Table
    BY DEF PointsTo
  <2>2. heap.owner[table] = Table
    BY <2>1, StorageAssumption
  <2>3. table # b
    BY <1>1, <1>2, <2>2
  <2>4. QED
    BY <1>3, <2>1, <2>2, <2>3 DEF Gives
<1>8. Heap(heap') /\ \A x : x # Table /\ x # Nobody => HeldBy(heap', x) = HeldBy(full, x)
  BY <1>2, <1>6, <1>7, Reallocated
<1>9. \A x : x # Table /\ x # o /\ x # Nobody => HeldBy(heap', x) = HeldBy(heap, x)
  BY <1>4, <1>5, <1>8
<1>10. HeldBy(heap', o) = HeldBy(heap, o) \cup {b}
  BY <1>2, <1>4, <1>5, <1>8
<1>11. SvcFrame(heap, heap')
  BY <1>2, <1>9, OwnersApart DEF SvcFrame
<1>12. QED
  BY <1>8, <1>9, <1>10, <1>11 DEF b, o

\* A range more (irq.c:22-52).
LEMMA RangeCreated ==
  ASSUME IrqTypes, Heap(heap), IrqHolds(heap), Going, NEW shape \in Shapes, KeCreateIrqRange(shape)
  PROVE  IrqGood
<1> DEFINE n == Len(ranges) + 1
<1>1. CASE table # NULL /\ heap.owner[table] # Table
  <2>1. halted' = Wild /\ UNCHANGED <<heap, irqVars>>
    BY <1>1 DEF KeCreateIrqRange
  <2>2. QED
    BY <1>1, <2>1, WildStays
<1>2. CASE ~(table # NULL /\ heap.owner[table] # Table)
  <2>1. PICK copy \in Spots(heap) :
          LET made == [heap EXCEPT !.order = Placed(@, copy, Scrap)] IN \E lines \in Sites(made) :
          LET full == MmAllocate(made, lines, LinesOf(n)) IN \E at \in Sites(full) :
            /\ heap' = MmReallocate(full, table, at, Table)
            /\ table' = at.block
            /\ ranges' = Append(ranges,
                 [start |-> shape.start, block |-> lines.block,
                  lines |-> [j \in DOMAIN shape.private |-> NewLine(shape.private[j])]])
            /\ halted' = IF MovesUp(full, table, at) THEN Shifted ELSE halted
    BY <1>2 DEF KeCreateIrqRange
  <2> DEFINE made == [heap EXCEPT !.order = Placed(@, copy, Scrap)]
  <2>2. PICK lines \in Sites(made) :
          LET full == MmAllocate(made, lines, LinesOf(n)) IN \E at \in Sites(full) :
            /\ heap' = MmReallocate(full, table, at, Table)
            /\ table' = at.block
            /\ ranges' = Append(ranges,
                 [start |-> shape.start, block |-> lines.block,
                  lines |-> [j \in DOMAIN shape.private |-> NewLine(shape.private[j])]])
            /\ halted' = IF MovesUp(full, table, at) THEN Shifted ELSE halted
    BY <2>1
  <2> DEFINE full == MmAllocate(made, lines, LinesOf(n))
             r == [start |-> shape.start, block |-> lines.block,
                   lines |-> [j \in DOMAIN shape.private |-> NewLine(shape.private[j])]]
  <2>3. PICK at \in Sites(full) :
          /\ heap' = MmReallocate(full, table, at, Table)
          /\ table' = at.block
          /\ ranges' = Append(ranges, r)
          /\ halted' = IF MovesUp(full, table, at) THEN Shifted ELSE halted
    BY <2>2
  <2>4. Heap(made) /\ made.owner = heap.owner
    BY DEF Heap
  <2>5. lines.block \in Blocks /\ at.block \in Blocks
    BY SiteFree
  <2>6. r \in Range1 /\ r.block = lines.block /\ \A j \in DOMAIN r.lines : j \in Nat /\ Handled(r.lines[j]) = {}
    BY <2>5, NewLines
  <2> HIDE DEF made, full, r
  <2>7. /\ Len(ranges) \in Nat /\ DOMAIN ranges = 1 .. Len(ranges) /\ ranges \in Seq(Range1)
        /\ \A i \in DOMAIN ranges : i \in Nat /\ \A j \in DOMAIN ranges[i].lines : j \in Nat
    BY Indices DEF IrqTypes
  <2>8. /\ ranges' \in Seq(Range1) /\ Len(ranges') = n /\ DOMAIN ranges' = 1 .. n /\ ranges'[n] = r
        /\ \A i \in DOMAIN ranges : ranges'[i] = ranges[i]
    BY <2>3, <2>6, <2>7
  <2>9. n \in Nat /\ n # 0 /\ n \notin DOMAIN ranges /\ \A i \in 1 .. n : i = n \/ i \in DOMAIN ranges
    BY <2>7
  <2> HIDE DEF n
  <2>10. IrqTypes'
    BY <2>3, <2>5, <2>8, StorageAssumption DEF IrqTypes
  <2>11. halted' # Wild
    BY <2>3 DEF Shifted, Wild, Going
  <2>12. ASSUME Going' PROVE Heap(heap') /\ IrqHolds(heap)' /\ SvcFrame(heap, heap')
    <3>1. ~heap'.robbed
      BY <2>12 DEF Going
    <3>2. full = MmAllocate(made, lines, LinesOf(n))
      BY DEF full
    <3>3. /\ Heap(heap') /\ SvcFrame(heap, heap')
          /\ HeldBy(heap', LinesOf(n)) = HeldBy(heap, LinesOf(n)) \cup {lines.block}
          /\ \A x : x # Table /\ x # LinesOf(n) /\ x # Nobody => HeldBy(heap', x) = HeldBy(heap, x)
      BY <1>2, <2>3, <2>4, <2>9, <3>1, <3>2, RangeMade
    <3>4. /\ \A i \in DOMAIN ranges : HeldBy(heap', LinesOf(i)) = HeldBy(heap, LinesOf(i))
          /\ \A i, j \in Nat : HeldBy(heap', HandlersOf(i, j)) = HeldBy(heap, HandlersOf(i, j))
      <4>1. \A i \in DOMAIN ranges : LinesOf(i) # LinesOf(n) /\ LinesOf(i) # Table /\ LinesOf(i) # Nobody
        BY <2>7, <2>9, IrqOwners
      <4>2. \A i, j \in Nat : HandlersOf(i, j) # LinesOf(n) /\ HandlersOf(i, j) # Table /\ HandlersOf(i, j) # Nobody
        BY <2>9, IrqOwners
      <4>3. QED
        BY <3>3, <4>1, <4>2
    <3>5. ASSUME NEW i \in 1 .. n PROVE ranges'[i].block \in HeldBy(heap', LinesOf(i))
      <4>1. CASE i = n
        BY <2>6, <2>8, <3>3, <4>1
      <4>2. CASE i \in DOMAIN ranges
        <5>1. ranges # << >>
          BY <4>2
        <5>2. heap.owner[table] = Table
          BY <1>2, <5>1 DEF IrqTypes
        <5>3. ranges[i].block \in HeldBy(heap, LinesOf(i))
          BY <4>2, <5>1, <5>2 DEF IrqHolds
        <5>4. QED
          BY <2>8, <3>4, <4>2, <5>3
      <4>3. QED
        BY <2>9, <4>1, <4>2
    <3>6. \A i, j \in Nat : i > Len(ranges) => HeldBy(heap', HandlersOf(i, j)) = {}
      BY <3>4 DEF IrqHolds
    <3>7. ASSUME NEW i \in 1 .. n, NEW j \in DOMAIN ranges'[i].lines
          PROVE  HeldBy(heap', HandlersOf(i, j)) = Handled(ranges'[i].lines[j])
      <4>1. CASE i = n
        <5>1. j \in Nat /\ Handled(ranges'[i].lines[j]) = {}
          BY <2>6, <2>8, <4>1
        <5>2. n > Len(ranges)
          BY <2>7 DEF n
        <5>3. QED
          BY <2>9, <3>6, <4>1, <5>1, <5>2
      <4>2. CASE i \in DOMAIN ranges
        <5>1. j \in DOMAIN ranges[i].lines /\ ranges'[i].lines[j] = ranges[i].lines[j]
          BY <2>8, <4>2
        <5>2. HeldBy(heap, HandlersOf(i, j)) = Handled(ranges[i].lines[j])
          BY <4>2, <5>1 DEF IrqHolds, LineIsServed
        <5>3. QED
          BY <2>7, <3>4, <4>2, <5>1, <5>2
      <4>3. QED
        BY <2>9, <4>1, <4>2
    <3>8. \A i, j \in Nat : i > n => HeldBy(heap', HandlersOf(i, j)) = {}
      BY <2>7, <3>6 DEF n
    <3>9. IrqHolds(heap)'
      BY <2>8, <3>5, <3>7, <3>8 DEF IrqHolds, LineIsServed
    <3>10. QED
      BY <3>3, <3>9
  <2>13. QED
    BY <2>10, <2>11, <2>12 DEF IrqGood, WildForAReason
<1>3. QED
  BY <1>1, <1>2

\* A range is destroyed, the first one with the table (irq.c:125-130).
LEMMA RangeDestroyed ==
  ASSUME IrqTypes, Heap(heap), IrqHolds(heap), Going,
         NEW i \in DOMAIN ranges, KeDestroyIrqRange(i)
  PROVE  IrqGood
<1> DEFINE p == ranges[i].block
           h == MmFree(heap, p)
           o == LinesOf(i)
<1>1. UNCHANGED <<table, ranges>>
  BY DEF KeDestroyIrqRange, irqVars
<1>2. IrqTypes'
  BY <1>1 DEF IrqTypes
<1>3. halted' # Wild
  BY DEF KeDestroyIrqRange, Stale, Wild, Going
<1>4. ASSUME Going' PROVE Heap(heap') /\ IrqHolds(heap)' /\ SvcFrame(heap, heap')
  <2>1. Intact(i) /\ heap' = IF i = 1 THEN MmFree(h, table) ELSE FreeObject(h, table)
    BY <1>4 DEF KeDestroyIrqRange, Going, Stale
  <2>2. i \in Nat /\ i \in 1 .. i /\ ranges # << >> /\ table \in Blocks
    BY Indices DEF IrqTypes
  <2>3. heap.owner[table] = Table /\ PointsTo(heap, p, o)
    BY <2>1, <2>2 DEF Intact, PointsTo
  <2>4. IrqOwner(o) /\ o # Nobody /\ IrqOwner(Table) /\ Table # Nobody /\ o # Table
    BY <2>2, IrqOwners
  <2>5. ~heap'.robbed
    BY <1>4 DEF Going
  <2>6. Heap(h)
    BY FreeLeavesHeap
  <2> HIDE DEF h
  <2>7. Takes(h, heap', table) /\ ~h.robbed
    BY <2>1, <2>5, <2>6, FreeTakes, FreeObjectTakes
  <2>8. Takes(heap, h, p)
    BY <2>7, FreeTakes DEF h
  <2> HIDE DEF o, p
  <2>9. \A x : x # o /\ x # Nobody => HeldBy(h, x) = HeldBy(heap, x)
    BY <2>3, <2>4, <2>8, Taken
  <2>10. PointsTo(h, table, Table)
    <3>1. table # p
      BY <2>2, <2>3, <2>4 DEF PointsTo
    <3>2. QED
      BY <2>2, <2>3, <2>8, <3>1 DEF PointsTo, Takes
  <2>11. \A x : x # Table /\ x # Nobody => HeldBy(heap', x) = HeldBy(h, x)
    BY <2>4, <2>7, <2>10, Taken
  <2>12. \A x : x # o /\ x # Table /\ x # Nobody => HeldBy(heap', x) = HeldBy(heap, x)
    BY <2>9, <2>11
  <2>13. heap'.owner[table] # Table
    BY <2>2, <2>4, <2>7 DEF Takes
  <2>14. SvcFrame(heap, heap')
    BY <2>4, <2>12, OwnersApart DEF SvcFrame
  <2>15. \A k, j \in Nat : HeldBy(heap', HandlersOf(k, j)) = HeldBy(heap, HandlersOf(k, j))
    <3>1. \A k, j \in Nat : HandlersOf(k, j) # o /\ HandlersOf(k, j) # Table /\ HandlersOf(k, j) # Nobody
      BY <2>2, IrqOwners DEF o
    <3>2. QED
      BY <2>12, <3>1
  <2>16. \A k \in DOMAIN ranges : k \in Nat /\ \A j \in DOMAIN ranges[k].lines : j \in Nat
    BY Indices
  <2>17. IrqHolds(heap)'
    BY <1>1, <2>13, <2>15, <2>16 DEF IrqHolds, LineIsServed
  <2>18. QED
    BY <2>7, <2>14, <2>17 DEF Takes
<1>5. QED
  BY <1>2, <1>3, <1>4 DEF IrqGood, WildForAReason

\* A step of the IRQ lines keeps what is promised of all.
LEMMA IrqStep ==
  ASSUME IInv, Going, IrqNext, UNCHANGED svcVars
  PROVE  IInv'
<1>1. SvcTypes /\ IrqTypes /\ Heap(heap) /\ SvcHolds(heap) /\ IrqHolds(heap)
  BY DEF IInv, Sound
<1>2. SvcTypes'
  BY <1>1 DEF SvcTypes, svcVars
<1>3. ASSUME NEW shape \in Shapes, KeCreateIrqRange(shape) PROVE IrqGood
  BY <1>1, <1>3, RangeCreated
<1>4. ASSUME NEW at \in Sites(heap), KeAllocateIrq(at) PROVE IrqGood
  BY <1>1, <1>4, HandlerSet
<1>5. ASSUME NEW i \in DOMAIN ranges, NEW j \in DOMAIN ranges[i].lines, KeFreeIrq(i, j) PROVE IrqGood
  BY <1>1, <1>5, HandlerFreed
<1>6. ASSUME NEW i \in DOMAIN ranges, KeDestroyIrqRange(i) PROVE IrqGood
  BY <1>1, <1>6, RangeDestroyed
<1>7. ASSUME IrqPanic PROVE IrqGood
  <2>1. halted' = Panicked /\ UNCHANGED <<table, ranges>>
    BY <1>7 DEF IrqPanic, KePanic, irqVars
  <2>2. IrqTypes'
    BY <1>1, <2>1 DEF IrqTypes
  <2>3. ~Going'
    BY <2>1 DEF Going, Panicked
  <2>4. WildForAReason'
    BY <2>1 DEF Panicked, Wild, WildForAReason
  <2>5. QED
    BY <2>2, <2>3, <2>4 DEF IrqGood
<1>8. IrqGood
  BY <1>3, <1>4, <1>5, <1>6, <1>7 DEF IrqNext
<1>9. Going' => Sound'
  BY <1>1, <1>8, SvcStays DEF IrqGood, Sound
<1>10. QED
  BY <1>2, <1>8, <1>9 DEF IInv, IrqGood

----------------------------------------------------------------------------
(* The theorems *)

\* The empty heap is sound.
LEMMA InitIInv == ServicesInit => IInv
<1>1. SUFFICES ASSUME ServicesInit PROVE IInv
  OBVIOUS
<1>2. /\ heap = [owner |-> [b \in Blocks |-> Nobody], order |-> <<Base, Gap>>, robbed |-> FALSE]
      /\ halted = ""
  BY <1>1 DEF ServicesInit, StorageInit
<1>3. Heap(heap)
  BY <1>2 DEF Heap
<1>4. SvcTypes
  BY <1>1 DEF ServicesInit, SvcInit, SvcTypes
<1>5. table = NULL /\ ranges = << >>
  BY <1>1 DEF ServicesInit, IrqInit
<1>6. IrqTypes
  BY <1>5 DEF IrqTypes
<1>7. \A x : x # Nobody => HeldBy(heap, x) = {}
  BY <1>2 DEF HeldBy
<1>8. Cardinality({}) = 0
  BY FS_EmptySet
<1>9. SvcHolds(heap)
  <2>1. \A c \in Callers : HoldsItsOwn(heap, c)
    BY <1>1, <1>7, <1>8, SvcOwners DEF HoldsItsOwn, ServicesInit, SvcInit
  <2>2. Cardinality(HeldBy(heap, Program)) = asked
    BY <1>1, <1>7, <1>8, SvcOwners DEF ServicesInit, SvcInit
  <2>3. QED
    BY <2>1, <2>2 DEF SvcHolds
<1>10. IrqHolds(heap)
  BY <1>5, <1>7, IrqOwners DEF IrqHolds
<1>11. WildForAReason
  BY <1>2 DEF WildForAReason, Wild
<1>12. QED
  BY <1>3, <1>4, <1>6, <1>9, <1>10, <1>11 DEF IInv, Sound

\* Every step keeps the invariant.
LEMMA NextIInv == IInv /\ [ServicesNext]_servicesVars => IInv'
<1>1. SUFFICES ASSUME IInv, [ServicesNext]_servicesVars PROVE IInv'
  OBVIOUS
<1>2. CASE ServicesNext
  BY <1>1, <1>2, IrqStep, SvcStep DEF ServicesNext
<1>3. CASE UNCHANGED servicesVars
  <2>1. UNCHANGED <<heap, halted, table, ranges, pointer, lost, restartWord, answer, asked>>
    BY <1>3 DEF servicesVars, irqVars, svcVars
  <2>2. SvcTypes' /\ IrqTypes'
    BY <1>1, <2>1 DEF IInv, SvcTypes, IrqTypes
  <2>3. Going' => Sound'
    BY <1>1, <2>1 DEF IInv, Going, Sound, SvcHolds, HoldsItsOwn, IrqHolds, LineIsServed
  <2>4. WildForAReason'
    BY <1>1, <2>1 DEF IInv, WildForAReason, Apart, Dropped
  <2>5. QED
    BY <2>2, <2>3, <2>4 DEF IInv
<1>4. QED
  BY <1>1, <1>2, <1>3

\* What holds of callers, lines and program is invariant.
LEMMA Invariance == ServicesSpec => []IInv
  BY InitIInv, NextIInv, PTL DEF ServicesSpec

\* As long as no free has taken a block from another owner (pmm.c:255), callers have the
\* object their pointer names and what they have lost, and each line one array or none,
\* whatever the others do (irq.c:53-206).
THEOREM OwnersKeepTheirStorage == ServicesSpec => []StorageIsItsOwners
<1>1. IInv => StorageIsItsOwners
  <2>1. SUFFICES ASSUME IInv, Going PROVE StorageIsItsOwners
    BY DEF StorageIsItsOwners
  <2>2. SvcHolds(heap) /\ IrqHolds(heap)
    BY <2>1 DEF IInv, Sound
  <2>3. \A x : BlocksOf(x) = HeldBy(heap, x)
    BY DEF BlocksOf, HeldBy
  <2>4. \A c \in Callers :
          /\ pointer[c] # NULL => heap.owner[pointer[c]] = Object(c)
          /\ Cardinality(BlocksOf(Object(c))) = lost[c] + (IF pointer[c] = NULL THEN 0 ELSE 1)
    BY <2>2, <2>3 DEF SvcHolds, HoldsItsOwn, HeldBy
  <2>5. \A i \in DOMAIN ranges : \A j \in DOMAIN ranges[i].lines :
          BlocksOf(HandlersOf(i, j)) = Handled(ranges[i].lines[j])
    BY <2>2, <2>3 DEF IrqHolds, LineIsServed
  <2>6. QED
    BY <2>4, <2>5 DEF StorageIsItsOwners
<1>2. QED
  BY Invariance, <1>1, PTL

\* As long as no free has taken a block from another owner (pmm.c:255), what the kernel
\* made for a program never reaches it and is never given back (krnlas.asm:21, alloc.c:4-21).
THEOREM ProgramsStorageLeaks == ServicesSpec => []ProgramsLeakTheirStorage
<1>1. IInv => ProgramsLeakTheirStorage
  <2>1. SUFFICES ASSUME IInv, Going PROVE ProgramsLeakTheirStorage
    BY DEF ProgramsLeakTheirStorage
  <2>2. SvcTypes /\ SvcHolds(heap)
    BY <2>1 DEF IInv, Sound
  <2>3. answer \notin Blocks
    BY <2>2, StorageAssumption, SupervisorCallsAssumption DEF SvcTypes
  <2>4. BlocksOf(Program) = HeldBy(heap, Program)
    BY DEF BlocksOf, HeldBy
  <2>5. QED
    BY <2>2, <2>3, <2>4 DEF ProgramsLeakTheirStorage, SvcHolds
<1>2. QED
  BY Invariance, <1>1, PTL

\* The calls for IRQ lines meet memory that is not theirs only with ranges that touch or
\* overlap (irq.c:111), behind a free of a line (irq.c:112), or behind the end of the first
\* range (irq.c:125-130).
THEOREM LinesGoWildForAReason == ServicesSpec => []WildForAReason
<1>1. IInv => WildForAReason
  BY DEF IInv
<1>2. QED
  BY Invariance, <1>1, PTL
=============================================================================
