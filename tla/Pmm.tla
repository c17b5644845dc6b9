-------------------------------- MODULE Pmm --------------------------------
(***************************************************************************)
(* The physical memory manager of the kernel (pmm.c) with the allocation   *)
(* calls built on it (mm.c).                                               *)
(*                                                                         *)
(* A region is carved into a list of blocks.  The descriptors of the       *)
(* blocks (struct PmmBlock) are slots of a table at the base of the        *)
(* region, and the table is itself the first block, head[0].  `blocks' is  *)
(* the list as the next pointers chain it; a block carries the address at  *)
(* which a walk that starts at region->base finds it (current_ptr).        *)
(*                                                                         *)
(* Sizes are size_t, arithmetic modulo 2^32.  A negative integer stands    *)
(* for the huge size a subtraction wraps to, see Below.                    *)
(***************************************************************************)
EXTENDS Integers, SequencesExt

CONSTANTS
  Clients,      \* callers of the allocator; each holds at most one object
  Ranges,       \* the [base, size] ranges handed to MmCreateRegion
  Sizes,        \* the sizes callers ask for, 0 among them
  Aligns,       \* the alignments callers ask for, 0 for none
  MaxRegions,   \* MAX_PMM_REGIONS
  BlockSize,    \* sizeof(struct PmmBlock)
  TableRatio,   \* one descriptor per this many bytes (2048)
  GrowBlocks,   \* descriptors added when the table is full (32)
  MaxBlocks     \* bound: no allocation once a region lists this many blocks

(***************************************************************************)
(* A region is large enough for a table of two descriptors and a block     *)
(* behind it, as the one region KeInit creates is.                         *)
(***************************************************************************)
ASSUME GeometryAssumption ==
  /\ MaxRegions \in Nat \ {0}
  /\ BlockSize \in Nat \ {0}
  /\ TableRatio \in Nat \ {0}
  /\ GrowBlocks \in Nat \ {0}
  /\ MaxBlocks \in Nat
ASSUME InputAssumption ==
  /\ Sizes \subseteq Nat
  /\ Aligns \subseteq Nat
  /\ Ranges \subseteq [base : Nat, size : Nat]
  /\ \A g \in Ranges :
       /\ g.size \div TableRatio >= 1
       /\ (g.size \div TableRatio + 1) * BlockSize < g.size

VARIABLES
  regions,      \* g_pmm_regions
  held,         \* the object each client was given and has not freed
  panicked      \* KePanic has stopped the processor
vars == <<regions, held, panicked>>

NULL == [ptr |-> 0, size |-> 0]
NotPresent == [base |-> 0, size |-> 0, blocks |-> << >>, spare |-> {}]
Present(r) == r.blocks # << >>
RegionIds == 1..MaxRegions

\* Unsigned x < y for a y that did not wrap.
Below(x, y) == x >= 0 /\ x < y

----------------------------------------------------------------------------
(* Regions and descriptors *)

(***************************************************************************)
(* A fresh region: the table and one free block.  Slots from 2 on are      *)
(* never cleared; `clear' is the set of those that happen to read          *)
(* PMM_BLOCK_NOT_PRESENT, the others are never used.                       *)
(***************************************************************************)
TableSize(size) == (size \div TableRatio + 1) * BlockSize

NewRegion(g, clear) ==
  LET t == TableSize(g.size) IN
  [base |-> g.base, size |-> g.size, spare |-> clear,
   blocks |-> <<[slot |-> 0, addr |-> g.base, size |-> t, flag |-> "USED"],
                [slot |-> 1, addr |-> g.base + t, size |-> g.size - t,
                 flag |-> "FREE"]>>]

UncertainSlots(g) == 2..(g.size \div TableRatio)

(***************************************************************************)
(* MmCreateBlock takes the first absent slot.  A full table grows into     *)
(* heap[1], which follows it as long as the table is in use.               *)
(***************************************************************************)
Slots(r) == r.blocks[1].size \div BlockSize
Growth == GrowBlocks * BlockSize

CanCreateBlock(r) ==
  \/ r.spare # {}
  \/ r.blocks[2].flag = "FREE" /\ ~Below(r.blocks[2].size, Growth)

Grown(r) ==
  IF r.spare # {} THEN r
  ELSE [r EXCEPT !.blocks[1].size = @ + Growth,
                 !.blocks[2].addr = @ + Growth,
                 !.blocks[2].size = @ - Growth,
                 !.spare = Slots(r)..(Slots(r) + GrowBlocks - 1)]

\* Block i keeps n bytes; a new block behind it takes the rest.
Cut(r, i, n, flag) ==
  [r EXCEPT !.blocks[i].size = n, !.blocks[i].flag = flag]

\* Mutant: the new block is linked in front of the block it was cut from.
SplitInFront(r, i, n, flag, restFlag) ==
  LET g    == Grown(Cut(r, i, n, flag))
      slot == Min(g.spare)
      rest == [slot |-> slot, addr |-> r.blocks[i].addr + n,
               size |-> r.blocks[i].size - n, flag |-> restFlag]
  IN [g EXCEPT !.blocks = InsertAt(@, i, rest), !.spare = @ \ {slot}]

SplitBlock(r, i, n, flag, restFlag) ==
  LET g    == Grown(Cut(r, i, n, flag))
      slot == Min(g.spare)
      rest == [slot |-> slot, addr |-> r.blocks[i].addr + n,
               size |-> r.blocks[i].size - n, flag |-> restFlag]
  IN [g EXCEPT !.blocks = InsertAt(@, i + 1, rest), !.spare = @ \ {slot}]

\* Mutants: the size is not added; the wrong descriptor is given up; the flag of
\* the wrong one is cleared.
AbsorbLosesSize(r, i) ==
  [r EXCEPT !.blocks = RemoveAt(@, i + 1), !.spare = @ \cup {r.blocks[i+1].slot}]
AbsorbGivesUpOwnSlot(r, i) ==
  LET merged == [r.blocks EXCEPT ![i].size = @ + r.blocks[i+1].size] IN
  [r EXCEPT !.blocks = RemoveAt(merged, i + 1), !.spare = @ \cup {r.blocks[i].slot}]
AbsorbClearsFlag(r, i) ==
  [r EXCEPT !.blocks[i].flag = "NOT_PRESENT"]

\* Block i takes over block i + 1, whose slot becomes absent.
AbsorbNext(r, i) ==
  LET merged == [r.blocks EXCEPT ![i].size = @ + r.blocks[i+1].size] IN
  [r EXCEPT !.blocks = RemoveAt(merged, i + 1), !.spare = @ \cup {r.blocks[i+1].slot}]

(***************************************************************************)
(* MmCheckHeap: the sizes of the blocks of every region add up.            *)
(***************************************************************************)
SizeSum(r) == FoldLeft(LAMBDA sum, b : sum + b.size, 0, r.blocks)
MmCheckHeap(regs) ==
  \A i \in RegionIds : Present(regs[i]) => SizeSum(regs[i]) = regs[i].size

----------------------------------------------------------------------------
(* MmAllocatePhysical *)

Misaligned(addr, align) == IF align = 0 THEN 0 ELSE addr % align

Fits(b, size, align) ==
  b.flag = "FREE" /\ ~Below(b.size, size + Misaligned(b.addr, align))

FirstFit(r, size, align) ==
  SelectInSeq(r.blocks, LAMBDA b : Fits(b, size, align))

\* The bytes left free below the object, which sits at the block's far end.
LeftSize(b, size, align) ==
  b.size - size - Misaligned(b.addr + b.size - size, align)

\* The block of the object, with whatever follows it still attached.
CarveLeft(r, i, left) ==
  IF left = 0 THEN [r EXCEPT !.blocks[i].flag = "USED"]
              ELSE SplitBlock(r, i, left, "FREE", "USED")

CarveRight(r, k, size) ==
  IF r.blocks[k].size = size THEN r ELSE SplitBlock(r, k, size, "USED", "FREE")

Carve(r, i, size, align) ==
  LET left == LeftSize(r.blocks[i], size, align)
      k    == IF left = 0 THEN i ELSE i + 1
      r1   == CarveLeft(r, i, left)
      ok1  == left = 0 \/ CanCreateBlock(Cut(r, i, left, "FREE"))
  IN [ok  |-> ok1 /\ (r1.blocks[k].size = size \/ CanCreateBlock(r1)),
      reg |-> CarveRight(r1, k, size),
      ptr |-> r.blocks[i].addr + left]

(***************************************************************************)
(* First fit over the regions in order: the regions afterwards, the object *)
(* (NULL when nothing fits) and whether KePanic was reached.               *)
(***************************************************************************)
Allocation(regs, size, align) ==
  LET fitting == {i \in RegionIds : FirstFit(regs[i], size, align) # 0}
      i == Min(fitting)
      c == Carve(regs[i], FirstFit(regs[i], size, align), size, align)
      after == [regs EXCEPT ![i] = c.reg]
  IN IF size = 0
     THEN [regs |-> regs, obj |-> NULL, panic |-> TRUE]
     ELSE IF fitting = {}
     THEN [regs |-> regs, obj |-> NULL, panic |-> ~MmCheckHeap(regs)]
     ELSE [regs |-> after, obj |-> [ptr |-> c.ptr, size |-> size],
           panic |-> ~c.ok \/ ~MmCheckHeap(after)]

----------------------------------------------------------------------------
(* MmFreePhysical *)

\* Mutant: the first byte of the block does not belong to it.
MatchesBehindStart(b, p) == b.addr < p /\ p <= b.addr + b.size

\* The walk takes a used block that the pointer lies in or directly behind.
Matches(b, p) == b.addr <= p /\ p <= b.addr + b.size
Decides(b, p) == b.flag = "USED" /\ (Matches(b, p) \/ b.addr > p)

InRegion(r, p) == Present(r) /\ r.base <= p /\ p <= r.base + r.size
Decider(r, p) == SelectInSeq(r.blocks, LAMBDA b : Decides(b, p))

\* Mutant: the block before is not coalesced.
ReleasedForward(r, i) ==
  LET freed == [r EXCEPT !.blocks[i].flag = "FREE"] IN
  IF i < Len(freed.blocks) /\ freed.blocks[i+1].flag = "FREE"
  THEN AbsorbNext(freed, i) ELSE freed

Released(r, i) ==
  LET freed  == [r EXCEPT !.blocks[i].flag = "FREE"]
      after  == IF i < Len(freed.blocks) /\ freed.blocks[i+1].flag = "FREE"
                THEN AbsorbNext(freed, i) ELSE freed
  IN IF i > 1 /\ after.blocks[i-1].flag = "FREE"
     THEN AbsorbNext(after, i - 1) ELSE after

\* The region and the block at which the search for an address ends.
Deciding(regs, p) ==
  {i \in RegionIds : InRegion(regs[i], p) /\ Decider(regs[i], p) # 0}
DecidingBlock(regs, p) ==
  LET i == Min(Deciding(regs, p)) IN <<i, Decider(regs[i], p)>>

Freed(regs, p) ==
  LET t == DecidingBlock(regs, p) IN
  IF Deciding(regs, p) # {} /\ Matches(regs[t[1]].blocks[t[2]], p)
  THEN [regs EXCEPT ![t[1]] = Released(@, t[2])]
  ELSE regs

FreePanics(regs, p) == Deciding(regs, p) = {} /\ ~MmCheckHeap(regs)

----------------------------------------------------------------------------
(* The calls, as the clients make them *)

(***************************************************************************)
(* Nothing is said of the kernel after a panic, nor once the descriptor    *)
(* table can be written by a client: it was released itself, or an object  *)
(* lies over it.                                                           *)
(***************************************************************************)
Overlap(p, n, q, m) == p < q + m /\ q < p + n

TableOwned(r) ==
  /\ r.blocks[1].flag = "USED"
  /\ \A c \in Clients :
       ~Overlap(held[c].ptr, held[c].size, r.base, r.blocks[1].size)

Operational ==
  ~panicked /\ \A i \in RegionIds : Present(regions[i]) => TableOwned(regions[i])

WithinBound == \A i \in RegionIds : Len(regions[i].blocks) < MaxBlocks

Settle(panic, regs, c, obj) ==
  /\ panicked' = panic
  /\ regions' = IF panic THEN regions ELSE regs
  /\ held' = IF panic THEN held ELSE [held EXCEPT ![c] = obj]

CreateRegion(g, clear) ==
  LET absent == {i \in RegionIds : ~Present(regions[i])} IN
  /\ Operational
  /\ \A i \in RegionIds :
       ~Overlap(g.base, g.size, regions[i].base, regions[i].size)
  /\ panicked' = (absent = {})
  /\ regions' = IF absent = {} THEN regions
                ELSE [regions EXCEPT ![Min(absent)] = NewRegion(g, clear)]
  /\ UNCHANGED held

DeleteRegion(i) ==
  /\ Operational
  /\ Present(regions[i])
  /\ regions' = [regions EXCEPT ![i] = NotPresent]
  /\ UNCHANGED <<held, panicked>>

\* MmAllocatePhysical; MmAllocate and MmAllocateArray ask for no alignment.
Allocate(c, size, align) ==
  LET a == Allocation(regions, size, align) IN
  /\ Operational /\ WithinBound
  /\ held[c] = NULL
  /\ Settle(a.panic, a.regs, c, a.obj)

\* MmAllocateZero and MmAllocateZeroArray panic where others return NULL.
AllocateZero(c, size) ==
  LET a == Allocation(regions, size, 0) IN
  /\ Operational /\ WithinBound
  /\ held[c] = NULL
  /\ Settle(a.panic \/ a.obj = NULL, a.regs, c, a.obj)

\* Mutant: the old object is freed before the new one is made.
ReallocateFreesFirst(c, size) ==
  LET freed == Freed(regions, held[c].ptr)
      a == Allocation(freed, size, 0)
  IN /\ Operational /\ WithinBound
     /\ held[c] # NULL
     /\ Settle(a.panic, a.regs, c, a.obj)

(***************************************************************************)
(* MmReallocate of an object: a new one is made before the old one is      *)
(* freed, and the old one survives when there is no room for both.         *)
(***************************************************************************)
Reallocate(c, size) ==
  LET a == Allocation(regions, size, 0)
      p == held[c].ptr
  IN /\ Operational /\ WithinBound
     /\ held[c] # NULL
     /\ IF a.obj = NULL
        THEN Settle(a.panic, regions, c, held[c])
        ELSE Settle(a.panic \/ FreePanics(a.regs, p), Freed(a.regs, p), c, a.obj)

\* MmFree and MmFreePhysical.
Free(c) ==
  LET p == held[c].ptr IN
  /\ Operational
  /\ held[c] # NULL
  /\ Settle(FreePanics(regions, p), Freed(regions, p), c, NULL)

Stopped == ~Operational /\ UNCHANGED vars

Init ==
  /\ regions = [i \in RegionIds |-> NotPresent]
  /\ held = [c \in Clients |-> NULL]
  /\ panicked = FALSE

Setup ==
  \/ \E g \in Ranges : \E clear \in SUBSET UncertainSlots(g) :
       CreateRegion(g, clear)
  \/ \E i \in RegionIds : DeleteRegion(i)

Calls(c) ==
  \/ \E size \in Sizes, align \in Aligns : Allocate(c, size, align)
  \/ \E size \in Sizes : AllocateZero(c, size)
  \/ \E size \in Sizes : Reallocate(c, size)
  \/ Free(c)

Next == Setup \/ (\E c \in Clients : Calls(c)) \/ Stopped
Spec == Init /\ [][Next]_vars

(***************************************************************************)
(* Callers that stay clear of the two known traps of the code: they free   *)
(* an object only while the bytes below it are free (MmFreePhysical takes  *)
(* a used block that ends there otherwise, also across a free block of     *)
(* size zero), and they ask for an alignment only where the first fit has  *)
(* room to round down.  No region is deleted.                              *)
(***************************************************************************)
Isolated(regs, p) ==
  \E i \in RegionIds : \E j \in 2..Len(regs[i].blocks) :
     /\ regs[i].blocks[j].addr = p
     /\ regs[i].blocks[j-1].flag = "FREE" /\ regs[i].blocks[j-1].size > 0

Roomy(regs, size, align) ==
  \A i \in RegionIds :
    LET j == FirstFit(regs[i], size, align) IN
    j # 0 => align = 0 \/ regs[i].blocks[j].size >= size + align - 1

CarefulCalls(c) ==
  \/ \E size \in Sizes, align \in Aligns :
       Roomy(regions, size, align) /\ Allocate(c, size, align)
  \/ \E size \in Sizes : AllocateZero(c, size)
  \/ \E size \in Sizes :
       LET a == Allocation(regions, size, 0) IN
       (a.obj = NULL \/ Isolated(a.regs, held[c].ptr)) /\ Reallocate(c, size)
  \/ Isolated(regions, held[c].ptr) /\ Free(c)

CarefulSetup ==
  \E g \in Ranges : \E clear \in SUBSET UncertainSlots(g) : CreateRegion(g, clear)

CarefulNext == CarefulSetup \/ (\E c \in Clients : CarefulCalls(c)) \/ Stopped
CarefulSpec == Init /\ [][CarefulNext]_vars

----------------------------------------------------------------------------
(* Properties *)

Block == [slot : Nat, addr : Int, size : Int, flag : {"FREE", "USED"}]
Region == [base : Nat, size : Nat, blocks : Seq(Block), spare : SUBSET Nat]

\* Every region is absent or a list of well-formed blocks (struct PmmRegion).
TypeOK ==
  /\ regions \in [RegionIds -> Region]
  /\ held \in [Clients -> [ptr : Int, size : Nat]]
  /\ panicked \in BOOLEAN

\* Whatever is allocated, aligned or not, and freed, rightly or not, the sizes
\* of a region's blocks add up to the region: the check that MmCheckHeap
\* (pmm.c:126) makes after each call and would panic on never fails.
HeapAddsUp == MmCheckHeap(regions)

\* Coalescing with one neighbour on each side (pmm.c:258-273) is enough: there
\* are never two free blocks side by side, whatever split and release came
\* before, the zero-sized remains of a heap[1] the table has eaten included.
NoFreeNeighbours ==
  \A i \in RegionIds : \A j \in 1..(Len(regions[i].blocks) - 1) :
     ~(regions[i].blocks[j].flag = "FREE" /\ regions[i].blocks[j+1].flag = "FREE")

\* A descriptor slot is used by one block at a time and lies in the table, and
\* a slot that MmCreateBlock may hand out belongs to no block, also after the
\* table has grown into heap[1] in the middle of an allocation.
SlotsApart ==
  \A i \in RegionIds :
    LET r == regions[i] IN
    Present(r) /\ r.blocks[1].flag = "USED" =>
      /\ \A j, k \in DOMAIN r.blocks : r.blocks[j].slot = r.blocks[k].slot => j = k
      /\ \A j \in DOMAIN r.blocks : r.blocks[j].slot < Slots(r)
      /\ \A s \in r.spare :
           s < Slots(r) /\ \A j \in DOMAIN r.blocks : r.blocks[j].slot # s

\* heap[1] is the block behind the table as long as the table is in use: the
\* bytes MmCreateBlock grows into (pmm.c:80-86) are those of that free block.
HeapOneFollowsTable ==
  \A i \in RegionIds :
    LET r == regions[i] IN
    Present(r) /\ r.blocks[1].flag = "USED" =>
      /\ r.blocks[1].slot = 0 /\ r.blocks[1].addr = r.base
      /\ Len(r.blocks) >= 2 /\ r.blocks[2].slot = 1
      /\ r.blocks[2].addr = r.base + r.blocks[1].size

Objects == {held[c] : c \in {d \in Clients : held[d] # NULL}}
UsedBlocks == UNION {{regions[i].blocks[j] : j \in
                        {k \in 2..Len(regions[i].blocks) :
                           regions[i].blocks[k].flag = "USED"}} : i \in RegionIds}

\* For careful callers the used blocks are exactly the objects held, so nothing
\* leaks and nothing is handed out twice, whatever the order of calls, and no object
\* overlaps another or the table, which may grow while they are held (pmm.c:80).
UsedBlocksAreHeld ==
  ~panicked =>
    /\ {[ptr |-> b.addr, size |-> b.size] : b \in UsedBlocks} = Objects
    /\ \A c, d \in Clients : c # d =>
         ~Overlap(held[c].ptr, held[c].size, held[d].ptr, held[d].size)
    /\ \A i \in RegionIds : Present(regions[i]) => TableOwned(regions[i])

\* Careful callers see a memory manager that keeps its promise: every call is
\* a step of PhysicalMemory, MmReallocate an exchange that never overlaps.
Abstract == INSTANCE PhysicalMemory WITH
  owned <- held,
  arena <- {[base |-> regions[i].base, size |-> regions[i].size] :
              i \in {k \in RegionIds : Present(regions[k])}}
KeepsThePromise == Abstract!PMSpec

\* "Free the requested block" (pmm.c:254): a call that frees an object frees the
\* block that starts at its address and no other.
FreesTheRequestedBlock ==
  [][\A c \in Clients :
       Free(c) /\ ~panicked' =>
         {b.addr : b \in UsedBlocks} \ {b.addr : b \in UsedBlocks'}
           \subseteq {held[c].ptr}]_vars
=============================================================================
