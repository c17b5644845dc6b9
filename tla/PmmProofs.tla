------------------------------ MODULE PmmProofs ------------------------------
(***************************************************************************)
(* Proofs about Pmm, for any clients, ranges, sizes, alignments, table     *)
(* geometry and number of regions.                                         *)
(***************************************************************************)
EXTENDS Pmm, SequenceFacts

----------------------------------------------------------------------------
(* The sum MmCheckHeap takes.  The fold is a function that CHOOSE picks    *)
(* among those that satisfy its recursion, so one must be shown to exist.  *)

Folds(q, g, m) ==
  g = [s \in SUBSET (1 .. m) |->
         IF s = {} THEN 0 ELSE g[s \ {Max(s)}] + q[Max(s)].size]

\* The last of the first m places is m, so the fold of HeapAddsUp takes blocks from the end.
LEMMA MaxOfPrefix ==
  ASSUME NEW m \in Nat, NEW s \in SUBSET (1 .. m), m \in s
  PROVE  Max(s) = m
<1>1. \A y \in s : m >= y
  OBVIOUS
<1>2. \A x \in s : (\A y \in s : x >= y) => x = m
  OBVIOUS
<1>3. QED
  BY <1>1, <1>2 DEF Max

\* Some function adds up the sizes of the first n blocks (MmCheckHeap, pmm.c:126).
LEMMA FoldExists ==
  ASSUME NEW q, NEW n \in Nat
  PROVE  \E g : Folds(q, g, n)
<1> DEFINE T == {m \in Nat : ~\E g : Folds(q, g, m)}
<1> SUFFICES ASSUME T # {} PROVE FALSE
  OBVIOUS
<1>1. PICK m \in T : \A k \in T : m <= k
  BY LeastExists
<1>2. m \in Nat /\ ~\E g : Folds(q, g, m)
  OBVIOUS
<1>3. m # 0
  <2> SUFFICES ASSUME m = 0 PROVE \E g : Folds(q, g, m)
    BY <1>2
  <2> DEFINE g == [s \in SUBSET (1 .. 0) |-> 0]
  <2>1. \A s \in SUBSET (1 .. 0) : s = {}
    OBVIOUS
  <2>2. Folds(q, g, 0)
    BY <2>1 DEF Folds
  <2>3. QED
    BY <2>2
<1>4. m - 1 \in Nat /\ m - 1 \notin T
  BY <1>1, <1>2, <1>3
<1>5. PICK g : Folds(q, g, m - 1)
  BY <1>4
<1> DEFINE h == [s \in SUBSET (1 .. m) |->
                   IF m \in s THEN g[s \ {m}] + q[m].size ELSE g[s]]
           k == [s \in SUBSET (1 .. m) |->
                   IF s = {} THEN 0 ELSE h[s \ {Max(s)}] + q[Max(s)].size]
<1>6. ASSUME NEW s \in SUBSET (1 .. m) PROVE h[s] = k[s]
  <2>1. CASE m \in s
    <3>1. Max(s) = m /\ s # {}
      BY <1>2, <2>1, MaxOfPrefix
    <3>2. s \ {m} \in SUBSET (1 .. m) /\ m \notin s \ {m}
      OBVIOUS
    <3>3. h[s \ {m}] = g[s \ {m}]
      BY <3>2
    <3>4. h[s] = g[s \ {m}] + q[m].size
      BY <2>1
    <3>5. k[s] = h[s \ {m}] + q[m].size
      BY <3>1
    <3>6. QED
      BY <3>3, <3>4, <3>5
  <2>2. CASE m \notin s
    <3>1. s \in SUBSET (1 .. m - 1) /\ s \ {Max(s)} \in SUBSET (1 .. m)
          /\ m \notin s \ {Max(s)}
      <4>1. \A x \in s : x \in 1 .. m - 1
        BY <1>2, <2>2
      <4>2. QED
        BY <2>2, <4>1
    <3>2. g[s] = IF s = {} THEN 0 ELSE g[s \ {Max(s)}] + q[Max(s)].size
      BY <1>5, <3>1 DEF Folds
    <3>3. h[s] = g[s] /\ h[s \ {Max(s)}] = g[s \ {Max(s)}]
      BY <2>2, <3>1
    <3>4. k[s] = IF s = {} THEN 0 ELSE h[s \ {Max(s)}] + q[Max(s)].size
      OBVIOUS
    <3>5. QED
      BY <3>2, <3>3, <3>4
  <2>3. QED
    BY <2>1, <2>2
<1>7. h = k
  <2>1. h = [s \in SUBSET (1 .. m) |-> h[s]] /\ k = [s \in SUBSET (1 .. m) |-> k[s]]
    OBVIOUS
  <2> HIDE DEF h, k
  <2>2. [s \in SUBSET (1 .. m) |-> h[s]] = [s \in SUBSET (1 .. m) |-> k[s]]
    BY <1>6
  <2>3. QED
    BY <2>1, <2>2, Zenon
<1>8. Folds(q, h, m)
  BY <1>7 DEF Folds
<1>9. QED
  BY <1>2, <1>8

\* A list whose blocks end at the values of e has the last of them as its sum.
LEMMA FoldAdds ==
  ASSUME NEW q \in Seq(Block), NEW e \in [0 .. Len(q) -> Int], e[0] = 0,
         \A k \in 1 .. Len(q) : e[k] = e[k - 1] + q[k].size
  PROVE  FoldLeft(LAMBDA sum, b : sum + b.size, 0, q) = e[Len(q)]
<1> DEFINE n == Len(q)
           iter == CHOOSE g : Folds(q, g, n)
<1>1. n \in Nat /\ DOMAIN q = 1 .. n
  OBVIOUS
<1>2. Folds(q, iter, n)
  BY <1>1, FoldExists
<1>3. FoldLeft(LAMBDA sum, b : sum + b.size, 0, q) = iter[1 .. n]
  BY <1>1 DEF FoldLeft, MapThenFoldSet, Folds
<1> HIDE DEF iter
<1> DEFINE T == {k \in 0 .. n : iter[1 .. k] # e[k]}
<1>4. T = {}
  <2> SUFFICES ASSUME T # {} PROVE FALSE
    OBVIOUS
  <2>1. T \in SUBSET Nat
    BY <1>1
  <2>2. PICK k \in T : \A j \in T : k <= j
    BY <2>1, LeastExists
  <2>3. k \in 0 .. n /\ iter[1 .. k] # e[k]
    OBVIOUS
  <2>4. 1 .. k \in SUBSET (1 .. n)
    BY <1>1, <2>3
  <2>5. iter[1 .. k] = IF 1 .. k = {} THEN 0
                       ELSE iter[(1 .. k) \ {Max(1 .. k)}] + q[Max(1 .. k)].size
    BY <1>2, <2>4 DEF Folds
  <2>6. k # 0
    <3>1. 1 .. 0 = {}
      OBVIOUS
    <3>2. QED
      BY <2>3, <2>5, <3>1
  <2>7. Max(1 .. k) = k /\ (1 .. k) \ {k} = 1 .. (k - 1) /\ 1 .. k # {}
    <3>1. k \in Nat /\ k >= 1
      BY <1>1, <2>3, <2>6
    <3>2. (1 .. k) \ {k} = 1 .. (k - 1) /\ k \in 1 .. k
      BY <3>1
    <3>3. Max(1 .. k) = k
      BY <3>1, <3>2, MaxOfPrefix
    <3>4. QED
      BY <3>2, <3>3
  <2>8. k - 1 \in 0 .. n /\ k - 1 \notin T
    BY <1>1, <2>2, <2>3, <2>6
  <2>9. iter[1 .. (k - 1)] = e[k - 1]
    BY <2>8
  <2>10. QED
    <3>1. iter[1 .. k] = iter[1 .. (k - 1)] + q[k].size
      BY <2>5, <2>7
    <3>2. e[k] = e[k - 1] + q[k].size
      BY <1>1, <2>3, <2>6
    <3>3. QED
      BY <2>3, <2>9, <3>1, <3>2
<1>5. n \in 0 .. n /\ n \notin T
  BY <1>1, <1>4
<1>6. QED
  BY <1>3, <1>5

----------------------------------------------------------------------------
(* The inductive invariant.  None of the properties is inductive alone:    *)
(* the sizes add up because the blocks lie end to end, an allocation       *)
(* leaves no free neighbours because the block it cuts had none, and the   *)
(* table grows into the right bytes because slot 1 stays behind it.        *)
(***************************************************************************)
TableUsed(r) == Present(r) /\ r.blocks[1].flag = "USED"

\* The blocks lie end to end from the region's base to its end.
EndToEnd(r) ==
  Present(r) =>
    /\ r.blocks[1].addr = r.base
    /\ \A j \in 1 .. Len(r.blocks) - 1 :
         r.blocks[j + 1].addr = r.blocks[j].addr + r.blocks[j].size
    /\ r.blocks[Len(r.blocks)].addr + r.blocks[Len(r.blocks)].size = r.base + r.size

NoFreePair(r) ==
  \A j \in 1 .. Len(r.blocks) - 1 :
    ~(r.blocks[j].flag = "FREE" /\ r.blocks[j + 1].flag = "FREE")

\* The table holds whole descriptors, the first two are where MmCreateBlock takes
\* them to be, and every slot belongs to one block or to none.
SlotsSound(r) ==
  /\ Slots(r) \in Nat /\ r.blocks[1].size = Slots(r) * BlockSize
  /\ Len(r.blocks) >= 2 /\ r.blocks[1].slot = 0 /\ r.blocks[2].slot = 1
  /\ \A j, k \in DOMAIN r.blocks : r.blocks[j].slot = r.blocks[k].slot => j = k
  /\ \A j \in DOMAIN r.blocks : r.blocks[j].slot < Slots(r)
  /\ \A s \in r.spare : s < Slots(r) /\ \A j \in DOMAIN r.blocks : r.blocks[j].slot # s

TableSound(r) == TableUsed(r) => SlotsSound(r)

Sound(r) == r \in Region /\ EndToEnd(r) /\ NoFreePair(r) /\ TableSound(r)

IInv ==
  /\ \A i \in RegionIds : Sound(regions[i])
  /\ TypeOK

\* Blocks end to end have the region's size as their sum.
LEMMA SumIsSize ==
  ASSUME NEW r \in Region, EndToEnd(r), Present(r)
  PROVE  SizeSum(r) = r.size
<1> DEFINE q == r.blocks
           n == Len(q)
           e == [k \in 0 .. n |-> IF k = 0 THEN 0 ELSE q[k].addr + q[k].size - r.base]
<1>1. /\ q \in Seq(Block) /\ n \in Nat /\ n >= 1 /\ r.base \in Int /\ r.size \in Int
      /\ \A k \in 1 .. n : q[k] \in Block /\ q[k].addr \in Int /\ q[k].size \in Int
  <2>1. q \in Seq(Block) /\ q # << >> /\ r.base \in Nat /\ r.size \in Nat
    BY DEF Region, Present
  <2> HIDE DEF q
  <2>2. n \in Nat /\ n >= 1
    BY <2>1
  <2>3. \A k \in 1 .. n : q[k] \in Block
    BY <2>1
  <2>4. QED
    BY <2>1, <2>2, <2>3 DEF Block
<1>2. e \in [0 .. n -> Int] /\ e[0] = 0 /\ e[n] = r.size
  <2>1. q[n].addr + q[n].size = r.base + r.size
    BY DEF EndToEnd
  <2> HIDE DEF q, n
  <2>2. \A k \in 0 .. n : (IF k = 0 THEN 0 ELSE q[k].addr + q[k].size - r.base) \in Int
    BY <1>1
  <2>3. e \in [0 .. n -> Int] /\ e[0] = 0
    BY <1>1, <2>2
  <2>4. e[n] = r.size
    <3>1. n \in 0 .. n /\ n # 0 /\ n \in 1 .. n
      BY <1>1
    <3>2. e[n] = q[n].addr + q[n].size - r.base
      BY <3>1, Zenon
    <3>3. q[n].addr \in Int /\ q[n].size \in Int /\ r.base \in Int /\ r.size \in Int
      BY <1>1, <3>1
    <3> HIDE DEF e
    <3>4. QED
      BY <2>1, <3>2, <3>3
  <2>5. QED
    BY <2>3, <2>4
<1>3. ASSUME NEW k \in 1 .. n PROVE e[k] = e[k - 1] + q[k].size
  <2>1. CASE k = 1
    <3>1. q[1].addr = r.base
      BY DEF EndToEnd
    <3> HIDE DEF q, n
    <3>2. QED
      BY <1>1, <2>1, <3>1
  <2>2. CASE k > 1
    <3>1. k - 1 \in 1 .. n - 1 /\ k = (k - 1) + 1 /\ k - 1 \in 1 .. n
      BY <1>1, <2>2
    <3>2. \A j \in 1 .. n - 1 : q[j + 1].addr = q[j].addr + q[j].size
      BY DEF EndToEnd
    <3>3. q[k].addr = q[k - 1].addr + q[k - 1].size
      <4> HIDE DEF q, n
      <4>1. QED
        BY <3>1, <3>2
    <3> HIDE DEF q, n
    <3>4. e[k] = q[k].addr + q[k].size - r.base
      BY <1>1, <2>2
    <3>5. e[k - 1] = q[k - 1].addr + q[k - 1].size - r.base
      BY <1>1, <2>2, <3>1
    <3> HIDE DEF e
    <3>6. QED
      BY <1>1, <3>1, <3>3, <3>4, <3>5
  <2>3. QED
    BY <1>1, <2>1, <2>2
<1>4. FoldLeft(LAMBDA sum, b : sum + b.size, 0, q) = e[n]
  BY <1>1, <1>2, <1>3, FoldAdds
<1>5. QED
  BY <1>2, <1>4 DEF SizeSum

\* The invariant is stronger than the properties the runs check.
LEMMA SoundGivesProperties ==
  IInv => TypeOK /\ HeapAddsUp /\ NoFreeNeighbours /\ SlotsApart /\ HeapOneFollowsTable
<1> SUFFICES ASSUME IInv
             PROVE  TypeOK /\ HeapAddsUp /\ NoFreeNeighbours /\ SlotsApart /\ HeapOneFollowsTable
  OBVIOUS
<1>1. HeapAddsUp
  BY SumIsSize DEF IInv, HeapAddsUp, MmCheckHeap, Sound
<1>2. NoFreeNeighbours
  BY DEF IInv, Sound, NoFreePair, NoFreeNeighbours
<1>3. SlotsApart
  BY DEF IInv, Sound, TableSound, SlotsSound, TableUsed, SlotsApart
<1>4. HeapOneFollowsTable
  <2> SUFFICES ASSUME NEW i \in RegionIds, TableUsed(regions[i])
               PROVE  LET r == regions[i] IN
                        /\ r.blocks[1].slot = 0 /\ r.blocks[1].addr = r.base
                        /\ Len(r.blocks) >= 2 /\ r.blocks[2].slot = 1
                        /\ r.blocks[2].addr = r.base + r.blocks[1].size
    BY DEF HeapOneFollowsTable, TableUsed
  <2>1. Sound(regions[i]) /\ Present(regions[i])
    BY DEF IInv, TableUsed
  <2>2. Len(regions[i].blocks) \in Nat
    BY <2>1 DEF Sound, Region
  <2>3. 1 \in 1 .. Len(regions[i].blocks) - 1
    BY <2>1, <2>2 DEF Sound, TableSound, SlotsSound
  <2>4. regions[i].blocks[1 + 1].addr = regions[i].blocks[1].addr + regions[i].blocks[1].size
    BY <2>1, <2>3 DEF Sound, EndToEnd
  <2>5. QED
    BY <2>1, <2>4 DEF Sound, TableSound, SlotsSound, EndToEnd
<1>5. QED
  BY <1>1, <1>2, <1>3, <1>4 DEF IInv

----------------------------------------------------------------------------
(* What the operations on a region do to it, block by block. *)

\* What the type of a region says of its parts and of each block (struct PmmRegion).
LEMMA RegionParts ==
  ASSUME NEW r \in Region
  PROVE  /\ r.blocks \in Seq(Block) /\ Len(r.blocks) \in Nat
         /\ DOMAIN r.blocks = 1 .. Len(r.blocks)
         /\ (Present(r) <=> Len(r.blocks) >= 1)
         /\ r.base \in Nat /\ r.size \in Nat /\ r.spare \in SUBSET Nat
         /\ \A i \in 1 .. Len(r.blocks) :
              /\ r.blocks[i] \in Block /\ r.blocks[i].slot \in Nat
              /\ r.blocks[i].addr \in Int /\ r.blocks[i].size \in Int
              /\ r.blocks[i].flag \in {"FREE", "USED"}
<1>1. /\ r.blocks \in Seq(Block) /\ r.base \in Nat /\ r.size \in Nat
      /\ r.spare \in SUBSET Nat
  BY DEF Region
<1>2. /\ Len(r.blocks) \in Nat /\ DOMAIN r.blocks = 1 .. Len(r.blocks)
      /\ (Present(r) <=> Len(r.blocks) >= 1)
  BY <1>1 DEF Present
<1>3. \A i \in 1 .. Len(r.blocks) : r.blocks[i] \in Block
  BY <1>1
<1>4. QED
  BY <1>1, <1>2, <1>3 DEF Block

\* A region whose blocks are replaced.
LEMMA WithBlocks ==
  ASSUME NEW r \in Region, NEW q \in Seq(Block)
  PROVE  LET c == [r EXCEPT !.blocks = q] IN
         /\ c \in Region /\ c.base = r.base /\ c.size = r.size /\ c.spare = r.spare
         /\ c.blocks = q
  BY DEF Region

\* A block that grows or shrinks (pmm.c:261, 269).
LEMMA WithSize ==
  ASSUME NEW b \in Block, NEW n \in Int
  PROVE  LET c == [b EXCEPT !.size = n] IN
         c \in Block /\ c.size = n /\ c.slot = b.slot /\ c.addr = b.addr /\ c.flag = b.flag
  BY DEF Block

\* A block that is taken or freed.
LEMMA WithFlag ==
  ASSUME NEW b \in Block, NEW flag \in {"FREE", "USED"}
  PROVE  LET c == [b EXCEPT !.flag = flag] IN
         c \in Block /\ c.flag = flag /\ c.slot = b.slot /\ c.addr = b.addr /\ c.size = b.size
  BY DEF Block

\* A block that begins elsewhere.
LEMMA WithAddr ==
  ASSUME NEW b \in Block, NEW a \in Int
  PROVE  LET c == [b EXCEPT !.addr = a] IN
         c \in Block /\ c.addr = a /\ c.slot = b.slot /\ c.flag = b.flag /\ c.size = b.size
  BY DEF Block

\* A block whose flag is set.
LEMMA FlagIs ==
  ASSUME NEW r \in Region, NEW i \in 1 .. Len(r.blocks), NEW flag \in {"FREE", "USED"}
  PROVE  LET c == [r EXCEPT !.blocks[i].flag = flag] IN
         /\ c \in Region /\ c.base = r.base /\ c.size = r.size /\ c.spare = r.spare
         /\ Len(c.blocks) = Len(r.blocks)
         /\ \A j \in 1 .. Len(r.blocks) :
              /\ c.blocks[j].slot = r.blocks[j].slot /\ c.blocks[j].addr = r.blocks[j].addr
              /\ c.blocks[j].size = r.blocks[j].size
              /\ c.blocks[j].flag = IF j = i THEN flag ELSE r.blocks[j].flag
<1> DEFINE b == [r.blocks[i] EXCEPT !.flag = flag]
           q == [r.blocks EXCEPT ![i] = b]
           c == [r EXCEPT !.blocks[i].flag = flag]
<1>1. r.blocks \in Seq(Block) /\ r.blocks[i] \in Block
  BY RegionParts
<1>2. b \in Block /\ b.flag = flag /\ b.slot = r.blocks[i].slot /\ b.addr = r.blocks[i].addr
      /\ b.size = r.blocks[i].size
  BY <1>1, WithFlag
<1>3. c = [r EXCEPT !.blocks = q]
  OBVIOUS
<1> HIDE DEF b
<1>4. /\ q \in Seq(Block) /\ Len(q) = Len(r.blocks)
      /\ \A j \in 1 .. Len(r.blocks) : q[j] = IF j = i THEN b ELSE r.blocks[j]
  BY <1>1, <1>2, ExceptSeq
<1> HIDE DEF q, c
<1>5. /\ c \in Region /\ c.base = r.base /\ c.size = r.size /\ c.spare = r.spare
      /\ c.blocks = q
  BY <1>3, <1>4, WithBlocks
<1>6. \A j \in 1 .. Len(r.blocks) :
        /\ q[j].slot = r.blocks[j].slot /\ q[j].addr = r.blocks[j].addr
        /\ q[j].size = r.blocks[j].size
        /\ q[j].flag = IF j = i THEN flag ELSE r.blocks[j].flag
  BY <1>2, <1>4
<1>7. QED
  BY <1>4, <1>5, <1>6 DEF c

\* A block whose size is set.
LEMMA SizeIs ==
  ASSUME NEW r \in Region, NEW i \in 1 .. Len(r.blocks), NEW n \in Int
  PROVE  LET c == [r EXCEPT !.blocks[i].size = n] IN
         /\ c \in Region /\ c.base = r.base /\ c.size = r.size /\ c.spare = r.spare
         /\ Len(c.blocks) = Len(r.blocks)
         /\ \A j \in 1 .. Len(r.blocks) :
              /\ c.blocks[j].slot = r.blocks[j].slot /\ c.blocks[j].addr = r.blocks[j].addr
              /\ c.blocks[j].size = IF j = i THEN n ELSE r.blocks[j].size
              /\ c.blocks[j].flag = r.blocks[j].flag
<1> DEFINE b == [r.blocks[i] EXCEPT !.size = n]
           q == [r.blocks EXCEPT ![i] = b]
           c == [r EXCEPT !.blocks[i].size = n]
<1>1. r.blocks \in Seq(Block) /\ r.blocks[i] \in Block
  BY RegionParts
<1>2. b \in Block /\ b.flag = r.blocks[i].flag /\ b.slot = r.blocks[i].slot
      /\ b.addr = r.blocks[i].addr /\ b.size = n
  BY <1>1, WithSize
<1>3. c = [r EXCEPT !.blocks = q]
  OBVIOUS
<1> HIDE DEF b
<1>4. /\ q \in Seq(Block) /\ Len(q) = Len(r.blocks)
      /\ \A j \in 1 .. Len(r.blocks) : q[j] = IF j = i THEN b ELSE r.blocks[j]
  BY <1>1, <1>2, ExceptSeq
<1> HIDE DEF q, c
<1>5. /\ c \in Region /\ c.base = r.base /\ c.size = r.size /\ c.spare = r.spare
      /\ c.blocks = q
  BY <1>3, <1>4, WithBlocks
<1>6. \A j \in 1 .. Len(r.blocks) :
        /\ q[j].slot = r.blocks[j].slot /\ q[j].addr = r.blocks[j].addr
        /\ q[j].size = IF j = i THEN n ELSE r.blocks[j].size
        /\ q[j].flag = r.blocks[j].flag
  BY <1>2, <1>4
<1>7. QED
  BY <1>4, <1>5, <1>6 DEF c

\* A block whose address is set.
LEMMA AddrIs ==
  ASSUME NEW r \in Region, NEW i \in 1 .. Len(r.blocks), NEW n \in Int
  PROVE  LET c == [r EXCEPT !.blocks[i].addr = n] IN
         /\ c \in Region /\ c.base = r.base /\ c.size = r.size /\ c.spare = r.spare
         /\ Len(c.blocks) = Len(r.blocks)
         /\ \A j \in 1 .. Len(r.blocks) :
              /\ c.blocks[j].slot = r.blocks[j].slot /\ c.blocks[j].size = r.blocks[j].size
              /\ c.blocks[j].addr = IF j = i THEN n ELSE r.blocks[j].addr
              /\ c.blocks[j].flag = r.blocks[j].flag
<1> DEFINE b == [r.blocks[i] EXCEPT !.addr = n]
           q == [r.blocks EXCEPT ![i] = b]
           c == [r EXCEPT !.blocks[i].addr = n]
<1>1. r.blocks \in Seq(Block) /\ r.blocks[i] \in Block
  BY RegionParts
<1>2. b \in Block /\ b.flag = r.blocks[i].flag /\ b.slot = r.blocks[i].slot
      /\ b.size = r.blocks[i].size /\ b.addr = n
  BY <1>1, WithAddr
<1>3. c = [r EXCEPT !.blocks = q]
  OBVIOUS
<1> HIDE DEF b
<1>4. /\ q \in Seq(Block) /\ Len(q) = Len(r.blocks)
      /\ \A j \in 1 .. Len(r.blocks) : q[j] = IF j = i THEN b ELSE r.blocks[j]
  BY <1>1, <1>2, ExceptSeq
<1> HIDE DEF q, c
<1>5. /\ c \in Region /\ c.base = r.base /\ c.size = r.size /\ c.spare = r.spare
      /\ c.blocks = q
  BY <1>3, <1>4, WithBlocks
<1>6. \A j \in 1 .. Len(r.blocks) :
        /\ q[j].slot = r.blocks[j].slot /\ q[j].size = r.blocks[j].size
        /\ q[j].addr = IF j = i THEN n ELSE r.blocks[j].addr
        /\ q[j].flag = r.blocks[j].flag
  BY <1>2, <1>4
<1>7. QED
  BY <1>4, <1>5, <1>6 DEF c

IsCut(r, i, n, flag, c) ==
  /\ c \in Region /\ c.base = r.base /\ c.size = r.size /\ c.spare = r.spare
  /\ Len(c.blocks) = Len(r.blocks)
  /\ \A j \in 1 .. Len(r.blocks) :
       /\ c.blocks[j].slot = r.blocks[j].slot /\ c.blocks[j].addr = r.blocks[j].addr
       /\ c.blocks[j].size = IF j = i THEN n ELSE r.blocks[j].size
       /\ c.blocks[j].flag = IF j = i THEN flag ELSE r.blocks[j].flag

\* A block whose size and flag are set (MmSplitBlock's first half).
LEMMA CutIs ==
  ASSUME NEW r \in Region, NEW i \in 1 .. Len(r.blocks), NEW n \in Int,
         NEW flag \in {"FREE", "USED"}
  PROVE  IsCut(r, i, n, flag, Cut(r, i, n, flag))
<1> DEFINE s == [r EXCEPT !.blocks[i].size = n]
<1>1. Cut(r, i, n, flag) = [s EXCEPT !.blocks[i].flag = flag]
  BY DEF Cut
<1>2. /\ s \in Region /\ s.base = r.base /\ s.size = r.size /\ s.spare = r.spare
      /\ Len(s.blocks) = Len(r.blocks)
      /\ \A j \in 1 .. Len(r.blocks) :
           /\ s.blocks[j].slot = r.blocks[j].slot /\ s.blocks[j].addr = r.blocks[j].addr
           /\ s.blocks[j].size = IF j = i THEN n ELSE r.blocks[j].size
           /\ s.blocks[j].flag = r.blocks[j].flag
  BY SizeIs
<1> HIDE DEF s
<1>3. i \in 1 .. Len(s.blocks)
  BY <1>2
<1> DEFINE c == [s EXCEPT !.blocks[i].flag = flag]
<1>4. /\ c \in Region /\ c.base = s.base /\ c.size = s.size /\ c.spare = s.spare
      /\ Len(c.blocks) = Len(s.blocks)
      /\ \A j \in 1 .. Len(s.blocks) :
           /\ c.blocks[j].slot = s.blocks[j].slot /\ c.blocks[j].addr = s.blocks[j].addr
           /\ c.blocks[j].size = s.blocks[j].size
           /\ c.blocks[j].flag = IF j = i THEN flag ELSE s.blocks[j].flag
  BY <1>2, <1>3, FlagIs
<1>5. Cut(r, i, n, flag) = c
  BY <1>1
<1> HIDE DEF c
<1>6. IsCut(r, i, n, flag, c)
  BY <1>2, <1>4 DEF IsCut
<1>7. QED
  BY <1>5, <1>6, Zenon

\* Division takes a multiplication back: so many descriptors, so many bytes.
LEMMA DivExact ==
  ASSUME NEW k \in Nat, NEW b \in Nat \ {0}
  PROVE  (k * b) \div b = k
  OBVIOUS

\* A region whose absent slots are replaced.
LEMMA WithSpare ==
  ASSUME NEW r \in Region, NEW x \in SUBSET Nat
  PROVE  LET c == [r EXCEPT !.spare = x] IN
         /\ c \in Region /\ c.base = r.base /\ c.size = r.size /\ c.spare = x
         /\ c.blocks = r.blocks
  BY DEF Region

\* The table grows into heap[1] when no slot is absent (MmCreateBlock).
LEMMA GrownIs ==
  ASSUME NEW r \in Region, Len(r.blocks) >= 2, r.spare = {}, Slots(r) \in Nat
  PROVE  LET g == Grown(r) IN
         /\ g \in Region /\ g.base = r.base /\ g.size = r.size
         /\ g.spare = Slots(r) .. (Slots(r) + GrowBlocks - 1)
         /\ Len(g.blocks) = Len(r.blocks)
         /\ \A j \in 1 .. Len(r.blocks) :
              /\ g.blocks[j].slot = r.blocks[j].slot /\ g.blocks[j].flag = r.blocks[j].flag
              /\ g.blocks[j].addr = r.blocks[j].addr + (IF j = 2 THEN Growth ELSE 0)
              /\ g.blocks[j].size =
                   r.blocks[j].size + (IF j = 1 THEN Growth ELSE IF j = 2 THEN -Growth ELSE 0)
<1> DEFINE a == [r EXCEPT !.blocks[1].size = r.blocks[1].size + Growth]
           b == [a EXCEPT !.blocks[2].addr = r.blocks[2].addr + Growth]
           c == [b EXCEPT !.blocks[2].size = r.blocks[2].size - Growth]
           x == Slots(r) .. (Slots(r) + GrowBlocks - 1)
           d == [c EXCEPT !.spare = x]
<1>1. Growth \in Nat /\ x \in SUBSET Nat /\ x # {}
  BY GeometryAssumption DEF Growth
<1>2. Grown(r) = d
  BY DEF Grown
<1> HIDE DEF x
<1>3. /\ 1 \in 1 .. Len(r.blocks) /\ 2 \in 1 .. Len(r.blocks)
      /\ \A j \in 1 .. Len(r.blocks) : r.blocks[j].addr \in Int /\ r.blocks[j].size \in Int
  BY RegionParts
<1>4. /\ a \in Region /\ a.base = r.base /\ a.size = r.size
      /\ Len(a.blocks) = Len(r.blocks)
      /\ \A j \in 1 .. Len(r.blocks) :
           /\ a.blocks[j].slot = r.blocks[j].slot /\ a.blocks[j].addr = r.blocks[j].addr
           /\ a.blocks[j].size = IF j = 1 THEN r.blocks[1].size + Growth ELSE r.blocks[j].size
           /\ a.blocks[j].flag = r.blocks[j].flag
  <2>1. r.blocks[1].size + Growth \in Int
    BY <1>1, <1>3
  <2> HIDE DEF a
  <2>2. QED
    BY <1>3, <2>1, SizeIs DEF a
<1> HIDE DEF a
<1>5. /\ b \in Region /\ b.base = a.base /\ b.size = a.size
      /\ Len(b.blocks) = Len(a.blocks)
      /\ \A j \in 1 .. Len(a.blocks) :
           /\ b.blocks[j].slot = a.blocks[j].slot /\ b.blocks[j].size = a.blocks[j].size
           /\ b.blocks[j].addr = IF j = 2 THEN r.blocks[2].addr + Growth ELSE a.blocks[j].addr
           /\ b.blocks[j].flag = a.blocks[j].flag
  <2>1. r.blocks[2].addr + Growth \in Int /\ 2 \in 1 .. Len(a.blocks)
    BY <1>1, <1>3, <1>4
  <2>2. QED
    BY <1>4, <2>1, AddrIs
<1> HIDE DEF b
<1>6. /\ c \in Region /\ c.base = b.base /\ c.size = b.size
      /\ Len(c.blocks) = Len(b.blocks)
      /\ \A j \in 1 .. Len(b.blocks) :
           /\ c.blocks[j].slot = b.blocks[j].slot /\ c.blocks[j].addr = b.blocks[j].addr
           /\ c.blocks[j].size = IF j = 2 THEN r.blocks[2].size - Growth ELSE b.blocks[j].size
           /\ c.blocks[j].flag = b.blocks[j].flag
  <2>1. r.blocks[2].size - Growth \in Int /\ 2 \in 1 .. Len(b.blocks)
    BY <1>1, <1>3, <1>4, <1>5
  <2>2. b \in Region
    BY <1>5
  <2>3. QED
    BY Z3, <2>1, <2>2, SizeIs
<1> HIDE DEF c
<1>7. /\ d \in Region /\ d.base = c.base /\ d.size = c.size /\ d.spare = x
      /\ d.blocks = c.blocks
  BY <1>1, <1>6, WithSpare
<1> HIDE DEF d
<1>8. \A j \in 1 .. Len(r.blocks) :
        /\ c.blocks[j].slot = r.blocks[j].slot /\ c.blocks[j].flag = r.blocks[j].flag
        /\ c.blocks[j].addr = r.blocks[j].addr + (IF j = 2 THEN Growth ELSE 0)
        /\ c.blocks[j].size =
             r.blocks[j].size + (IF j = 1 THEN Growth ELSE IF j = 2 THEN -Growth ELSE 0)
  <2> TAKE j \in 1 .. Len(r.blocks)
  <2>1. /\ j \in 1 .. Len(a.blocks) /\ j \in 1 .. Len(b.blocks) /\ Growth \in Int
        /\ r.blocks[j].addr \in Int /\ r.blocks[j].size \in Int
    BY <1>1, <1>3, <1>4, <1>5
  <2>2. CASE j = 1
    BY <1>3, <1>4, <1>5, <1>6, <2>1, <2>2
  <2>3. CASE j = 2
    BY <1>3, <1>4, <1>5, <1>6, <2>1, <2>3
  <2>4. CASE j # 1 /\ j # 2
    BY <1>3, <1>4, <1>5, <1>6, <2>1, <2>4
  <2>5. QED
    BY <2>2, <2>3, <2>4, Zenon
<1>9. QED
  BY <1>2, <1>4, <1>5, <1>6, <1>7, <1>8 DEF x

\* The table keeps every slot apart when it grows, and has an absent one then.
LEMMA GrownSound ==
  ASSUME NEW r \in Region, SlotsSound(r)
  PROVE  LET g == Grown(r) IN
         /\ g \in Region /\ g.base = r.base /\ g.size = r.size
         /\ g.spare # {} /\ SlotsSound(g)
         /\ Len(g.blocks) = Len(r.blocks)
         /\ \E d \in Nat :
              /\ d = IF r.spare # {} THEN 0 ELSE Growth
              /\ \A j \in 1 .. Len(r.blocks) :
                   /\ g.blocks[j].slot = r.blocks[j].slot /\ g.blocks[j].flag = r.blocks[j].flag
                   /\ g.blocks[j].addr = r.blocks[j].addr + (IF j = 2 THEN d ELSE 0)
                   /\ g.blocks[j].size =
                        r.blocks[j].size + (IF j = 1 THEN d ELSE IF j = 2 THEN -d ELSE 0)
<1>1. CASE r.spare # {}
  <2>1. Grown(r) = r
    BY <1>1 DEF Grown
  <2>2. \A j \in 1 .. Len(r.blocks) :
           /\ r.blocks[j].addr = r.blocks[j].addr + (IF j = 2 THEN 0 ELSE 0)
           /\ r.blocks[j].size =
                   r.blocks[j].size + (IF j = 1 THEN 0 ELSE IF j = 2 THEN -0 ELSE 0)
    BY RegionParts
  <2>3. QED
    BY <1>1, <2>1, <2>2
<1>2. CASE r.spare = {}
  <2> DEFINE g == Grown(r)
             n == Slots(r)
  <2>1. n \in Nat /\ Len(r.blocks) >= 2 /\ Len(r.blocks) \in Nat
        /\ DOMAIN r.blocks = 1 .. Len(r.blocks)
    BY RegionParts DEF SlotsSound
  <2>2. /\ g \in Region /\ g.base = r.base /\ g.size = r.size
        /\ g.spare = n .. (n + GrowBlocks - 1)
        /\ Len(g.blocks) = Len(r.blocks)
        /\ \A j \in 1 .. Len(r.blocks) :
             /\ g.blocks[j].slot = r.blocks[j].slot /\ g.blocks[j].flag = r.blocks[j].flag
             /\ g.blocks[j].addr = r.blocks[j].addr + (IF j = 2 THEN Growth ELSE 0)
             /\ g.blocks[j].size =
                  r.blocks[j].size + (IF j = 1 THEN Growth ELSE IF j = 2 THEN -Growth ELSE 0)
    BY <1>2, <2>1, GrownIs
  <2>3. DOMAIN g.blocks = 1 .. Len(r.blocks)
    <3> HIDE DEF g
    <3>1. QED
      BY <2>2, RegionParts
  <2>4. r.blocks[1].size = n * BlockSize
    BY DEF SlotsSound
  <2> HIDE DEF g
  <2>5. g.blocks[1].size = (n + GrowBlocks) * BlockSize /\ Slots(g) = n + GrowBlocks
    <3>1. g.blocks[1].size = n * BlockSize + Growth
      BY <2>1, <2>2, <2>4
    <3>2. g.blocks[1].size = (n + GrowBlocks) * BlockSize
      <4> HIDE DEF n
      <4>1. QED
        BY <2>1, <3>1, GeometryAssumption DEF Growth
    <3>3. QED
      <4> HIDE DEF n
      <4>1. n + GrowBlocks \in Nat /\ BlockSize \in Nat \ {0}
        BY <2>1, GeometryAssumption
      <4>2. Slots(g) = ((n + GrowBlocks) * BlockSize) \div BlockSize
        BY <3>2 DEF Slots
      <4>3. QED
        BY <3>2, <4>1, <4>2, DivExact
  <2>6. Growth \in Nat /\ GrowBlocks \in Nat \ {0}
    BY GeometryAssumption DEF Growth
  <2>7. SlotsSound(g)
    <3>1. /\ r.blocks[1].slot = 0 /\ r.blocks[2].slot = 1
          /\ \A j, k \in DOMAIN r.blocks : r.blocks[j].slot = r.blocks[k].slot => j = k
          /\ \A j \in DOMAIN r.blocks : r.blocks[j].slot < n /\ r.blocks[j].slot \in Nat
      BY <2>1, RegionParts DEF SlotsSound
    <3> HIDE DEF n
    <3>2. /\ Slots(g) \in Nat /\ g.blocks[1].size = Slots(g) * BlockSize
          /\ Len(g.blocks) >= 2 /\ g.blocks[1].slot = 0 /\ g.blocks[2].slot = 1
      BY <2>1, <2>2, <2>5, <2>6, <3>1
    <3>3. \A j, k \in DOMAIN g.blocks : g.blocks[j].slot = g.blocks[k].slot => j = k
      BY <2>1, <2>2, <2>3, <3>1
    <3>4. \A j \in DOMAIN g.blocks : g.blocks[j].slot < Slots(g)
      <4> TAKE j \in DOMAIN g.blocks
      <4>1. r.blocks[j].slot < n /\ r.blocks[j].slot \in Nat /\ g.blocks[j].slot = r.blocks[j].slot
        BY <2>1, <2>2, <2>3, <3>1
      <4>2. QED
        BY <2>1, <2>5, <2>6, <4>1
    <3>5. \A s \in g.spare :
             s < Slots(g) /\ \A j \in DOMAIN g.blocks : g.blocks[j].slot # s
      <4> TAKE s \in g.spare
      <4>1. s \in n .. (n + GrowBlocks - 1)
        BY <2>2
      <4>2. s < n + GrowBlocks /\ s >= n
        BY <2>1, <2>6, <4>1
      <4>3. \A j \in 1 .. Len(r.blocks) : r.blocks[j].slot # s
        BY <2>1, <3>1, <4>2
      <4>4. QED
        BY <2>2, <2>3, <2>5, <4>2, <4>3
    <3>6. QED
      BY <3>2, <3>3, <3>4, <3>5 DEF SlotsSound
  <2>8. g.spare # {}
    <3> HIDE DEF n
    <3>1. n \in g.spare
      BY <2>1, <2>2, <2>6
    <3>2. QED
      BY <3>1
  <2>9. QED
    BY <1>2, <2>2, <2>6, <2>7, <2>8 DEF g
<1>3. QED
  BY <1>1, <1>2

\* Where block j of c lies, and how long it is, when c is r with its block i cut to n
\* and the table grown by d bytes.
SplitPlace(r, i, n, d, c, j) ==
  /\ c.blocks[j].addr = IF j <= i THEN r.blocks[j].addr + (IF j = 2 THEN d ELSE 0)
                        ELSE IF j = i + 1 THEN r.blocks[i].addr + n
                        ELSE r.blocks[j - 1].addr
  /\ c.blocks[j].size = IF j < i THEN r.blocks[j].size
                                       + (IF j = 1 THEN d ELSE IF j = 2 THEN -d ELSE 0)
                        ELSE IF j = i THEN n + (IF j = 2 THEN -d ELSE 0)
                        ELSE IF j = i + 1 THEN r.blocks[i].size - n
                        ELSE r.blocks[j - 1].size

\* The flags of its blocks.
SplitFlags(r, i, flag, restFlag, c) ==
  \A j \in 1 .. Len(r.blocks) + 1 :
    c.blocks[j].flag = IF j < i THEN r.blocks[j].flag
                       ELSE IF j = i THEN flag
                       ELSE IF j = i + 1 THEN restFlag ELSE r.blocks[j - 1].flag

SplitPlaces(r, i, n, c) ==
  \E d \in Nat : /\ d = IF r.spare # {} THEN 0 ELSE Growth
                 /\ \A j \in 1 .. Len(r.blocks) + 1 : SplitPlace(r, i, n, d, c, j)

\* What the first block grows the second moves and shrinks, and no end moves.
LEMMA GrowthMoves ==
  ASSUME NEW x \in Int, NEW s \in Int, NEW d \in Int, NEW j
  PROVE  (x + s) + (IF j = 1 THEN d ELSE 0)
         = (x + (IF j = 2 THEN d ELSE 0))
           + (s + (IF j = 1 THEN d ELSE IF j = 2 THEN -d ELSE 0))
  OBVIOUS

\* The two parts of a block are as long as it.
LEMMA CutInTwo ==
  ASSUME NEW x \in Int, NEW s \in Int, NEW n \in Int
  PROVE  (x + n) + (s - n) = x + s
  OBVIOUS

\* A split (MmSplitBlock) behind the table keeps the blocks end to end and the slots
\* apart, also when the table has to grow for it, even into the block that is split.
LEMMA SplitSound ==
  ASSUME NEW r \in Region, EndToEnd(r), SlotsSound(r), TableUsed(r),
         NEW i \in 2 .. Len(r.blocks), NEW n \in Int,
         NEW flag \in {"FREE", "USED"}, NEW restFlag \in {"FREE", "USED"}
  PROVE  LET c == SplitBlock(r, i, n, flag, restFlag) IN
         /\ c \in Region /\ EndToEnd(c) /\ SlotsSound(c) /\ TableUsed(c)
         /\ c.base = r.base /\ c.size = r.size
         /\ Len(c.blocks) = Len(r.blocks) + 1
         /\ SplitFlags(r, i, flag, restFlag, c)
         /\ SplitPlaces(r, i, n, c)
<1> DEFINE m == Len(r.blocks)
           h == Cut(r, i, n, flag)
           g == Grown(h)
           slot == Min(g.spare)
           rest == [slot |-> slot, addr |-> r.blocks[i].addr + n,
                    size |-> r.blocks[i].size - n, flag |-> restFlag]
           q == InsertAt(g.blocks, i + 1, rest)
           c == SplitBlock(r, i, n, flag, restFlag)
<1>1. /\ m \in Nat /\ m >= 2 /\ i \in 2 .. m /\ i \in 1 .. m /\ DOMAIN r.blocks = 1 .. m
      /\ \A j \in 1 .. m :
           /\ r.blocks[j].slot \in Nat /\ r.blocks[j].addr \in Int
           /\ r.blocks[j].size \in Int /\ r.blocks[j].flag \in {"FREE", "USED"}
  <2>1. m \in Nat /\ m >= 2
    BY RegionParts DEF SlotsSound
  <2>2. i \in 1 .. m
    BY <2>1
  <2>3. QED
    BY <2>1, <2>2, RegionParts
<1>2. /\ r.blocks[1].size = Slots(r) * BlockSize /\ Slots(r) \in Nat
      /\ r.blocks[1].slot = 0 /\ r.blocks[2].slot = 1 /\ r.blocks[1].flag = "USED"
      /\ \A j, k \in 1 .. m : r.blocks[j].slot = r.blocks[k].slot => j = k
      /\ \A j \in 1 .. m : r.blocks[j].slot < Slots(r)
      /\ \A s \in r.spare : s < Slots(r) /\ \A j \in 1 .. m : r.blocks[j].slot # s
  BY <1>1 DEF SlotsSound, TableUsed
<1>3. /\ r.blocks[1].addr = r.base
      /\ \A j \in 1 .. m - 1 : r.blocks[j + 1].addr = r.blocks[j].addr + r.blocks[j].size
      /\ r.blocks[m].addr + r.blocks[m].size = r.base + r.size
  BY DEF EndToEnd, TableUsed
<1>4. /\ h \in Region /\ h.base = r.base /\ h.size = r.size /\ h.spare = r.spare
      /\ Len(h.blocks) = m
      /\ \A j \in 1 .. m :
           /\ h.blocks[j].slot = r.blocks[j].slot /\ h.blocks[j].addr = r.blocks[j].addr
           /\ h.blocks[j].size = IF j = i THEN n ELSE r.blocks[j].size
           /\ h.blocks[j].flag = IF j = i THEN flag ELSE r.blocks[j].flag
  <2>1. i \in 1 .. Len(r.blocks)
    BY <1>1
  <2>2. IsCut(r, i, n, flag, h)
    BY <2>1, CutIs
  <2> HIDE DEF h
  <2>3. QED
    BY <2>2 DEF IsCut
<1> HIDE DEF m, h
<1>5. SlotsSound(h)
  <2>1. h.blocks[1].size = r.blocks[1].size /\ DOMAIN h.blocks = 1 .. m
    BY <1>1, <1>4, RegionParts
  <2>2. Slots(h) = Slots(r)
    BY <2>1 DEF Slots
  <2>3. QED
    <3>1. Slots(h) \in Nat /\ h.blocks[1].size = Slots(h) * BlockSize /\ Len(h.blocks) >= 2
      BY <1>1, <1>2, <1>4, <2>1, <2>2
    <3>2. h.blocks[1].slot = 0 /\ h.blocks[2].slot = 1
      BY <1>1, <1>2, <1>4
    <3>3. \A j, k \in 1 .. m : h.blocks[j].slot = h.blocks[k].slot => j = k
      BY <1>2, <1>4
    <3>4. \A j \in 1 .. m : h.blocks[j].slot < Slots(h)
      BY <1>2, <1>4, <2>2
    <3>5. \A s \in h.spare : s < Slots(h) /\ \A j \in 1 .. m : h.blocks[j].slot # s
      BY <1>2, <1>4, <2>2, Z3
    <3>6. QED
      BY <2>1, <3>1, <3>2, <3>3, <3>4, <3>5 DEF SlotsSound
<1>6. /\ g \in Region /\ g.base = r.base /\ g.size = r.size
      /\ g.spare # {} /\ SlotsSound(g) /\ Len(g.blocks) = m
  BY <1>4, <1>5, GrownSound
<1>7. PICK d \in Nat :
         /\ d = IF r.spare # {} THEN 0 ELSE Growth
         /\ \A j \in 1 .. m :
           /\ g.blocks[j].slot = r.blocks[j].slot
           /\ g.blocks[j].flag = IF j = i THEN flag ELSE r.blocks[j].flag
           /\ g.blocks[j].addr = r.blocks[j].addr + (IF j = 2 THEN d ELSE 0)
           /\ g.blocks[j].size = (IF j = i THEN n ELSE r.blocks[j].size)
                                   + (IF j = 1 THEN d ELSE IF j = 2 THEN -d ELSE 0)
  <2>1. PICK d \in Nat :
           /\ d = IF h.spare # {} THEN 0 ELSE Growth
           /\ \A j \in 1 .. Len(h.blocks) :
              /\ g.blocks[j].slot = h.blocks[j].slot /\ g.blocks[j].flag = h.blocks[j].flag
              /\ g.blocks[j].addr = h.blocks[j].addr + (IF j = 2 THEN d ELSE 0)
              /\ g.blocks[j].size =
                   h.blocks[j].size + (IF j = 1 THEN d ELSE IF j = 2 THEN -d ELSE 0)
    BY <1>4, <1>5, GrownSound
  <2> HIDE DEF g
  <2>2. ASSUME NEW j \in 1 .. m
        PROVE  /\ g.blocks[j].slot = r.blocks[j].slot
               /\ g.blocks[j].flag = IF j = i THEN flag ELSE r.blocks[j].flag
               /\ g.blocks[j].addr = r.blocks[j].addr + (IF j = 2 THEN d ELSE 0)
               /\ g.blocks[j].size = (IF j = i THEN n ELSE r.blocks[j].size)
                                       + (IF j = 1 THEN d ELSE IF j = 2 THEN -d ELSE 0)
    <3>1. j \in 1 .. Len(h.blocks)
      BY <1>4
    <3>2. QED
      BY <1>4, <2>1, <3>1
  <2>3. d = IF r.spare # {} THEN 0 ELSE Growth
    BY <1>4, <2>1
  <2>4. QED
    BY <2>2, <2>3
<1>8. [g EXCEPT !.blocks = q, !.spare = g.spare \ {slot}] = c
  BY DEF SplitBlock, h
<1> HIDE DEF g, c
<1>9. slot \in g.spare /\ slot \in Nat
  <2>1. g.spare \in SUBSET Nat
    BY <1>6, RegionParts
  <2>2. QED
    BY <1>6, <2>1, MinIsLeast
<1> HIDE DEF slot
<1>10. /\ rest \in Block /\ rest.slot = slot /\ rest.addr = r.blocks[i].addr + n
       /\ rest.size = r.blocks[i].size - n /\ rest.flag = restFlag
  BY <1>1, <1>9 DEF Block
<1> HIDE DEF rest
<1>11. /\ q \in Seq(Block) /\ Len(q) = m + 1
       /\ \A j \in 1 .. m + 1 :
            q[j] = IF j < i + 1 THEN g.blocks[j]
                   ELSE IF j = i + 1 THEN rest ELSE g.blocks[j - 1]
  <2>1. g.blocks \in Seq(Block) /\ i + 1 \in 1 .. Len(g.blocks) + 1
    BY <1>1, <1>6, RegionParts
  <2>2. rest \in Block
    BY <1>10
  <2> DEFINE k == i + 1
             l == g.blocks
  <2>3. l \in Seq(Block) /\ k \in 1 .. Len(l) + 1 /\ q = InsertAt(l, k, rest)
    BY <2>1
  <2> HIDE DEF k, l, q
  <2>4. /\ q \in Seq(Block) /\ Len(q) = Len(l) + 1
        /\ \A j \in 1 .. Len(l) + 1 :
             q[j] = IF j < k THEN l[j] ELSE IF j = k THEN rest ELSE l[j - 1]
    <3>1. Insertion(q, Block, l, k, rest)
      BY <2>2, <2>3, InsertAtInserts
    <3>2. QED
      BY <3>1, Zenon DEF Insertion
  <2>5. QED
    BY <1>6, <2>4 DEF k, l
<1> HIDE DEF q
<1>12. /\ c \in Region /\ c.base = r.base /\ c.size = r.size
       /\ c.spare = g.spare \ {slot} /\ c.blocks = q
  <2> DEFINE a == [g EXCEPT !.blocks = q]
  <2>1. a \in Region /\ a.base = g.base /\ a.size = g.size /\ a.blocks = q
    BY <1>6, <1>11, WithBlocks
  <2>2. c = [a EXCEPT !.spare = g.spare \ {slot}]
    BY <1>8
  <2>3. g.spare \ {slot} \in SUBSET Nat
    BY <1>6, RegionParts
  <2> HIDE DEF a
  <2>4. QED
    BY <1>6, <2>1, <2>2, <2>3, WithSpare
<1>13. \A j \in 1 .. m + 1 :
         /\ q[j].slot = IF j <= i THEN r.blocks[j].slot
                        ELSE IF j = i + 1 THEN slot ELSE r.blocks[j - 1].slot
         /\ q[j].flag = IF j < i THEN r.blocks[j].flag ELSE IF j = i THEN flag
                        ELSE IF j = i + 1 THEN restFlag ELSE r.blocks[j - 1].flag
         /\ q[j].addr = IF j <= i THEN r.blocks[j].addr + (IF j = 2 THEN d ELSE 0)
                        ELSE IF j = i + 1 THEN r.blocks[i].addr + n
                        ELSE r.blocks[j - 1].addr
         /\ q[j].size = IF j < i THEN r.blocks[j].size
                                       + (IF j = 1 THEN d ELSE IF j = 2 THEN -d ELSE 0)
                        ELSE IF j = i THEN n + (IF j = 2 THEN -d ELSE 0)
                        ELSE IF j = i + 1 THEN r.blocks[i].size - n
                        ELSE r.blocks[j - 1].size
  <2> TAKE j \in 1 .. m + 1
  <2>1. CASE j <= i
    <3>1. j \in 1 .. m /\ q[j] = g.blocks[j]
      BY <1>1, <1>11, <2>1
    <3>2. /\ g.blocks[j].slot = r.blocks[j].slot
          /\ g.blocks[j].flag = IF j = i THEN flag ELSE r.blocks[j].flag
          /\ g.blocks[j].addr = r.blocks[j].addr + (IF j = 2 THEN d ELSE 0)
          /\ g.blocks[j].size = (IF j = i THEN n ELSE r.blocks[j].size)
                                  + (IF j = 1 THEN d ELSE IF j = 2 THEN -d ELSE 0)
      BY <1>7, <3>1
    <3>3. CASE j = i
      BY <1>1, <3>1, <3>2, <3>3
    <3>4. CASE j < i
      BY <1>1, <3>1, <3>2, <3>4
    <3>5. j = i \/ j < i
      BY <1>1, <2>1
    <3>6. QED
      BY <3>3, <3>4, <3>5, Zenon
  <2>2. CASE j = i + 1
    BY <1>1, <1>10, <1>11, <2>2
  <2>3. CASE j > i + 1
    <3>1. j - 1 \in 1 .. m /\ q[j] = g.blocks[j - 1] /\ j - 1 > 2 /\ j - 1 # i
      <4>1. j - 1 \in 1 .. m /\ j - 1 > 2 /\ j - 1 # i /\ ~(j < i + 1) /\ j # i + 1
        BY <1>1, <2>3
      <4>2. QED
        BY <1>11, <4>1, Zenon
    <3>2. QED
      BY <1>1, <1>7, <2>3, <3>1
  <2>4. j <= i \/ j = i + 1 \/ j > i + 1
    BY <1>1
  <2>5. QED
    BY <2>1, <2>2, <2>3, <2>4, Zenon
<1>14. EndToEnd(c)
  <2>1. q[1].addr = r.base
    <3>1. 1 \in 1 .. m + 1 /\ 1 <= i /\ 1 < i /\ ~(1 = 2)
      BY <1>1
    <3>2. q[1].addr = r.blocks[1].addr + 0
      BY <1>13, <3>1, Zenon
    <3>3. r.blocks[1].addr \in Int
      BY <1>1
    <3>4. QED
      BY <1>3, <3>2, <3>3
  <2>2. ASSUME NEW j \in 1 .. m PROVE q[j + 1].addr = q[j].addr + q[j].size
    <3>1. j \in 1 .. m + 1 /\ j + 1 \in 1 .. m + 1
      BY <1>1
    <3>2. CASE j < i
      <4>1. r.blocks[j + 1].addr = r.blocks[j].addr + r.blocks[j].size
        <5>1. j \in 1 .. m - 1
          BY <1>1, <3>2
        <5>2. QED
          BY <1>3, <5>1
      <4>2. j <= i /\ j + 1 <= i /\ j \in 1 .. m /\ j + 1 \in 1 .. m /\ (j = 1 <=> j + 1 = 2)
        BY <1>1, <3>1, <3>2
      <4>3. /\ q[j + 1].addr = r.blocks[j + 1].addr + (IF j = 1 THEN d ELSE 0)
            /\ q[j].addr = r.blocks[j].addr + (IF j = 2 THEN d ELSE 0)
            /\ q[j].size = r.blocks[j].size + (IF j = 1 THEN d ELSE IF j = 2 THEN -d ELSE 0)
        BY <1>13, <3>1, <3>2, <4>2, Zenon
      <4>4. /\ r.blocks[j].addr \in Int /\ r.blocks[j].size \in Int
            /\ r.blocks[j + 1].addr \in Int /\ d \in Int
        BY <1>1, <4>2
      <4>5. r.blocks[j + 1].addr + (IF j = 1 THEN d ELSE 0)
            = (r.blocks[j].addr + (IF j = 2 THEN d ELSE 0))
              + (r.blocks[j].size + (IF j = 1 THEN d ELSE IF j = 2 THEN -d ELSE 0))
        BY <4>1, <4>4, GrowthMoves
      <4>6. QED
        BY <4>3, <4>5, Zenon
    <3>3. CASE j = i
      <4>1. /\ i + 1 \in 1 .. m + 1 /\ i \in 1 .. m + 1 /\ ~(i + 1 <= i) /\ i <= i /\ ~(i < i)
            /\ i # 1
        BY <1>1, <3>1, <3>3
      <4>2. /\ q[i + 1].addr = r.blocks[i].addr + n
            /\ q[i].addr = r.blocks[i].addr + (IF i = 2 THEN d ELSE 0)
            /\ q[i].size = n + (IF i = 2 THEN -d ELSE 0)
        BY <1>13, <4>1, Zenon
      <4>3. r.blocks[i].addr \in Int /\ d \in Int /\ n \in Int
        BY <1>1
      <4>4. QED
        BY <3>3, <4>2, <4>3
    <3>4. CASE j = i + 1
      <4>1. r.blocks[i + 1].addr = r.blocks[i].addr + r.blocks[i].size
        <5>1. i \in 1 .. m - 1
          BY <1>1, <3>4
        <5>2. QED
          BY <1>3, <5>1
      <4>2. /\ i + 1 \in 1 .. m + 1 /\ (i + 1) + 1 \in 1 .. m + 1 /\ ((i + 1) + 1) - 1 = i + 1
            /\ ~(i + 1 <= i) /\ ~(i + 1 < i) /\ i + 1 # i
            /\ ~((i + 1) + 1 <= i) /\ (i + 1) + 1 # i + 1
        BY <1>1, <3>1, <3>4
      <4>3. /\ q[i + 1].addr = r.blocks[i].addr + n /\ q[i + 1].size = r.blocks[i].size - n
            /\ q[(i + 1) + 1].addr = r.blocks[i + 1].addr
        BY <1>13, <4>2, Zenon
      <4>4. r.blocks[i].addr \in Int /\ r.blocks[i].size \in Int /\ n \in Int
        BY <1>1
      <4>5. (r.blocks[i].addr + n) + (r.blocks[i].size - n) = r.blocks[i].addr + r.blocks[i].size
        BY <4>4, CutInTwo
      <4>6. QED
        BY <3>4, <4>1, <4>3, <4>5, Zenon
    <3>5. CASE j > i + 1
      <4>1. r.blocks[j].addr = r.blocks[j - 1].addr + r.blocks[j - 1].size
        <5>1. j - 1 \in 1 .. m - 1 /\ (j - 1) + 1 = j
          BY <1>1, <3>5
        <5>2. QED
          BY <1>3, <5>1
      <4>2. /\ q[j].addr = r.blocks[j - 1].addr /\ q[j].size = r.blocks[j - 1].size
            /\ q[j + 1].addr = r.blocks[(j + 1) - 1].addr
        <5>1. ~(j <= i) /\ j # i + 1 /\ ~(j < i) /\ j # i /\ ~(j + 1 <= i) /\ j + 1 # i + 1
          BY <1>1, <3>5
        <5>2. QED
          BY <1>13, <3>1, <5>1
      <4>3. (j + 1) - 1 = j
        OBVIOUS
      <4>4. QED
        BY <4>1, <4>2, <4>3
    <3>6. j < i \/ j = i \/ j = i + 1 \/ j > i + 1
      BY <1>1
    <3>7. QED
      BY <3>2, <3>3, <3>4, <3>5, <3>6, Zenon
  <2>3. q[m + 1].addr + q[m + 1].size = r.base + r.size
    <3>1. m + 1 \in 1 .. m + 1 /\ (m + 1) - 1 = m /\ m + 1 > i
      BY <1>1
    <3>2. CASE i = m
      <4>1. ~(m + 1 <= i) /\ ~(m + 1 < i) /\ m + 1 # i /\ m + 1 = i + 1
        BY <1>1, <3>2
      <4>2. q[m + 1].addr = r.blocks[m].addr + n /\ q[m + 1].size = r.blocks[m].size - n
        BY <1>13, <3>1, <3>2, <4>1, Zenon
      <4>3. /\ r.blocks[m].addr \in Int /\ r.blocks[m].size \in Int /\ n \in Int
            /\ r.blocks[m].addr + r.blocks[m].size = r.base + r.size
        BY <1>1, <1>3, <3>2
      <4>4. QED
        BY <4>2, <4>3
    <3>3. CASE i # m
      <4>1. ~(m + 1 <= i) /\ ~(m + 1 < i) /\ m + 1 # i /\ m + 1 # i + 1
        BY <1>1, <3>1, <3>3
      <4>2. q[m + 1].addr = r.blocks[m].addr /\ q[m + 1].size = r.blocks[m].size
        BY <1>13, <3>1, <4>1, Zenon
      <4>3. QED
        BY <1>3, <4>2, Zenon
    <3>4. QED
      BY <3>2, <3>3
  <2>4. \A j \in 1 .. Len(q) - 1 : q[j + 1].addr = q[j].addr + q[j].size
    BY <1>1, <1>11, <2>2
  <2>5. QED
    BY <1>11, <1>12, <2>1, <2>3, <2>4 DEF EndToEnd
<1>15. SlotsSound(c)
  <2>1. DOMAIN q = 1 .. m + 1 /\ DOMAIN g.blocks = 1 .. m
    BY <1>6, <1>11, RegionParts
  <2>2. q[1] = g.blocks[1]
    BY <1>1, <1>11
  <2>3. Slots(c) = Slots(g)
    BY <1>12, <2>2 DEF Slots
  <2>4. /\ Slots(g) \in Nat /\ g.blocks[1].size = Slots(g) * BlockSize
        /\ g.blocks[1].slot = 0 /\ g.blocks[2].slot = 1
        /\ \A j, k \in 1 .. m : g.blocks[j].slot = g.blocks[k].slot => j = k
        /\ \A j \in 1 .. m : g.blocks[j].slot < Slots(g)
        /\ \A s \in g.spare : s < Slots(g) /\ \A j \in 1 .. m : g.blocks[j].slot # s
    BY <1>6, <2>1 DEF SlotsSound
  <2>5. \A j \in 1 .. m + 1 :
          /\ j <= i => j \in 1 .. m /\ q[j].slot = g.blocks[j].slot
          /\ j = i + 1 => q[j].slot = slot
          /\ j > i + 1 => j - 1 \in 1 .. m /\ q[j].slot = g.blocks[j - 1].slot
    BY <1>1, <1>10, <1>11
  <2> DEFINE p(j) == IF j <= i THEN j ELSE j - 1
  <2>6. \A j \in 1 .. m + 1 :
          \/ j = i + 1 /\ q[j].slot = slot
          \/ j # i + 1 /\ p(j) \in 1 .. m /\ q[j].slot = g.blocks[p(j)].slot
    BY <1>1, <2>5
  <2>7. \A j, k \in 1 .. m + 1 : j # i + 1 /\ k # i + 1 /\ p(j) = p(k) => j = k
    BY <1>1
  <2> HIDE DEF p
  <2>8. \A j, k \in 1 .. m + 1 : q[j].slot = q[k].slot => j = k
    <3> SUFFICES ASSUME NEW j \in 1 .. m + 1, NEW k \in 1 .. m + 1, q[j].slot = q[k].slot
                 PROVE  j = k
      OBVIOUS
    <3>1. CASE j = i + 1
      BY <1>9, <2>4, <2>6, <3>1
    <3>2. CASE k = i + 1
      BY <1>9, <2>4, <2>6, <3>2
    <3>3. CASE j # i + 1 /\ k # i + 1
      BY <2>4, <2>6, <2>7, <3>3
    <3>4. QED
      BY <3>1, <3>2, <3>3, Zenon
  <2>9. \A j \in 1 .. m + 1 : q[j].slot < Slots(g)
    BY <1>9, <2>4, <2>6
  <2>10. \A s \in g.spare \ {slot} :
          s < Slots(g) /\ \A j \in 1 .. m + 1 : q[j].slot # s
    BY <1>9, <2>4, <2>6
  <2>11. /\ q[1].slot = 0 /\ q[2].slot = 1 /\ q[1].size = Slots(g) * BlockSize
        /\ Len(q) >= 2
    BY <1>1, <1>11, <2>2, <2>4, <2>5
  <2>12. QED
    BY <1>12, <2>1, <2>3, <2>4, <2>8, <2>9, <2>10, <2>11 DEF SlotsSound
<1>16. TableUsed(c)
  <2>1. Len(c.blocks) >= 1 /\ c.blocks[1].flag = "USED"
    BY <1>1, <1>2, <1>11, <1>12, <1>13
  <2>2. QED
    BY <1>12, <2>1, RegionParts DEF TableUsed
<1>17. \A j \in 1 .. m + 1 : SplitPlace(r, i, n, d, c, j)
  BY <1>12, <1>13 DEF SplitPlace
<1>18. d \in Nat /\ d = IF r.spare # {} THEN 0 ELSE Growth
  BY <1>7
<1>19. SplitPlaces(r, i, n, c)
  BY <1>17, <1>18 DEF SplitPlaces, m
<1>20. SplitFlags(r, i, flag, restFlag, c)
  BY <1>12, <1>13 DEF SplitFlags, m
<1>21. QED
  BY <1>11, <1>12, <1>14, <1>15, <1>16, <1>19, <1>20 DEF c, m

\* Changing a flag moves no block; freeing the table gives up all claims about it.
LEMMA FlagSound ==
  ASSUME NEW r \in Region, EndToEnd(r), TableSound(r),
         NEW i \in 1 .. Len(r.blocks), NEW flag \in {"FREE", "USED"},
         i = 1 => flag = "FREE"
  PROVE  LET c == [r EXCEPT !.blocks[i].flag = flag] IN
         /\ c \in Region /\ EndToEnd(c) /\ TableSound(c)
         /\ c.base = r.base /\ c.size = r.size
         /\ Len(c.blocks) = Len(r.blocks)
         /\ (TableUsed(r) /\ i # 1) => TableUsed(c)
         /\ \A j \in 1 .. Len(r.blocks) :
              /\ c.blocks[j].flag = IF j = i THEN flag ELSE r.blocks[j].flag
              /\ c.blocks[j].size = r.blocks[j].size /\ c.blocks[j].addr = r.blocks[j].addr
<1> DEFINE c == [r EXCEPT !.blocks[i].flag = flag]
           m == Len(r.blocks)
<1>1. /\ c \in Region /\ c.base = r.base /\ c.size = r.size /\ c.spare = r.spare
      /\ Len(c.blocks) = m
      /\ \A j \in 1 .. m :
           /\ c.blocks[j].slot = r.blocks[j].slot /\ c.blocks[j].addr = r.blocks[j].addr
           /\ c.blocks[j].size = r.blocks[j].size
           /\ c.blocks[j].flag = IF j = i THEN flag ELSE r.blocks[j].flag
  BY FlagIs
<1> HIDE DEF c
<1>2. m \in Nat /\ m >= 1 /\ Present(r) /\ DOMAIN r.blocks = 1 .. m /\ i \in 1 .. m
      /\ Present(c) /\ DOMAIN c.blocks = 1 .. m
  <2>1. m \in Nat /\ m >= 1 /\ Present(r) /\ DOMAIN r.blocks = 1 .. m
    BY RegionParts
  <2>2. Present(c) /\ DOMAIN c.blocks = 1 .. m
    BY <1>1, <2>1, RegionParts
  <2>3. QED
    BY <2>1, <2>2
<1> HIDE DEF m
<1>3. EndToEnd(c)
  <2>1. /\ r.blocks[1].addr = r.base
        /\ \A j \in 1 .. m - 1 :
             r.blocks[j + 1].addr = r.blocks[j].addr + r.blocks[j].size
        /\ r.blocks[m].addr + r.blocks[m].size = r.base + r.size
    BY <1>2 DEF EndToEnd, m
  <2>2. \A j \in 1 .. m - 1 : c.blocks[j + 1].addr = c.blocks[j].addr + c.blocks[j].size
    BY <1>1, <1>2, <2>1
  <2>3. c.blocks[1].addr = c.base /\ c.blocks[m].addr + c.blocks[m].size = c.base + c.size
    BY <1>1, <1>2, <2>1
  <2>4. QED
    BY <1>1, <2>2, <2>3 DEF EndToEnd
<1>4. SlotsSound(r) => SlotsSound(c)
  <2> SUFFICES ASSUME SlotsSound(r) PROVE SlotsSound(c)
    OBVIOUS
  <2>1. c.blocks[1].size = r.blocks[1].size /\ m >= 2
    BY <1>1, <1>2 DEF SlotsSound, m
  <2>2. Slots(c) = Slots(r)
    BY <2>1 DEF Slots
  <2>3. /\ DOMAIN c.blocks = DOMAIN r.blocks /\ c.spare = r.spare /\ Len(c.blocks) = Len(r.blocks)
        /\ \A j \in DOMAIN r.blocks : c.blocks[j].slot = r.blocks[j].slot
        /\ 1 \in DOMAIN r.blocks /\ 2 \in DOMAIN r.blocks
    BY <1>1, <1>2, <2>1 DEF m
  <2>4. QED
    BY <2>1, <2>2, <2>3 DEF SlotsSound
<1>5. TableUsed(c) <=> (TableUsed(r) /\ i # 1)
  BY <1>1, <1>2 DEF TableUsed
<1>6. TableSound(c)
  BY <1>4, <1>5 DEF TableSound
<1>7. QED
  BY <1>1, <1>3, <1>5, <1>6 DEF c, m

\* Two blocks end to end are as long as both.
LEMMA RunOn ==
  ASSUME NEW x \in Int, NEW a \in Int, NEW b \in Int
  PROVE  (x + a) + b = x + (a + b)
  OBVIOUS

\* Coalescing: a free block takes over the one behind it, whose slot it gives back.
LEMMA AbsorbSound ==
  ASSUME NEW r \in Region, EndToEnd(r), TableSound(r),
         NEW i \in 1 .. Len(r.blocks) - 1, r.blocks[i].flag = "FREE"
  PROVE  LET c == AbsorbNext(r, i) IN
         /\ c \in Region /\ EndToEnd(c) /\ TableSound(c)
         /\ c.base = r.base /\ c.size = r.size
         /\ Len(c.blocks) = Len(r.blocks) - 1
         /\ \A j \in 1 .. Len(r.blocks) - 1 :
              /\ c.blocks[j].flag = IF j <= i THEN r.blocks[j].flag ELSE r.blocks[j + 1].flag
              /\ c.blocks[j].addr = IF j <= i THEN r.blocks[j].addr ELSE r.blocks[j + 1].addr
              /\ c.blocks[j].size = IF j < i THEN r.blocks[j].size
                                    ELSE IF j = i THEN r.blocks[i].size + r.blocks[i + 1].size
                                    ELSE r.blocks[j + 1].size
<1> DEFINE m == Len(r.blocks)
           b == [r.blocks[i] EXCEPT !.size = r.blocks[i].size + r.blocks[i + 1].size]
           l == [r.blocks EXCEPT ![i] = b]
           q == RemoveAt(l, i + 1)
           x == r.spare \cup {r.blocks[i + 1].slot}
           c == AbsorbNext(r, i)
<1>1. /\ m \in Nat /\ i \in 1 .. m - 1 /\ i \in 1 .. m /\ i + 1 \in 1 .. m
      /\ r.blocks \in Seq(Block) /\ DOMAIN r.blocks = 1 .. m
      /\ x \in SUBSET Nat /\ Present(r)
      /\ \A j \in 1 .. m :
           /\ r.blocks[j] \in Block /\ r.blocks[j].slot \in Nat /\ r.blocks[j].addr \in Int
           /\ r.blocks[j].size \in Int /\ r.blocks[j].flag \in {"FREE", "USED"}
  <2>1. m \in Nat /\ DOMAIN r.blocks = 1 .. m /\ r.spare \in SUBSET Nat
    BY RegionParts
  <2>2. i \in 1 .. m - 1 /\ i \in 1 .. m /\ i + 1 \in 1 .. m
    BY <2>1
  <2>3. \A j \in 1 .. m :
           /\ r.blocks[j] \in Block /\ r.blocks[j].slot \in Nat /\ r.blocks[j].addr \in Int
           /\ r.blocks[j].size \in Int /\ r.blocks[j].flag \in {"FREE", "USED"}
    BY RegionParts
  <2>4. r.blocks \in Seq(Block) /\ Present(r)
    BY <2>1, <2>2, RegionParts
  <2> HIDE DEF m
  <2>5. x \in SUBSET Nat
    BY <2>1, <2>2, <2>3
  <2>6. QED
    BY <2>1, <2>2, <2>3, <2>4, <2>5
<1>2. c = [r EXCEPT !.blocks = q, !.spare = x]
  BY DEF AbsorbNext
<1> HIDE DEF m, c
<1>3. b \in Block /\ b.size = r.blocks[i].size + r.blocks[i + 1].size
      /\ b.slot = r.blocks[i].slot /\ b.addr = r.blocks[i].addr /\ b.flag = r.blocks[i].flag
  <2>1. r.blocks[i] \in Block /\ r.blocks[i].size + r.blocks[i + 1].size \in Int
    BY <1>1
  <2>2. QED
    BY <2>1, WithSize
<1> HIDE DEF b
<1>4. /\ l \in Seq(Block) /\ Len(l) = m
      /\ \A j \in 1 .. m : l[j] = IF j = i THEN b ELSE r.blocks[j]
  <2>1. i \in 1 .. Len(r.blocks)
    BY <1>1 DEF m
  <2>2. QED
    BY <1>1, <1>3, <2>1, ExceptSeq DEF m
<1> HIDE DEF l
<1>5. /\ q \in Seq(Block) /\ Len(q) = m - 1
      /\ \A j \in 1 .. m - 1 : q[j] = IF j < i + 1 THEN l[j] ELSE l[j + 1]
  <2> DEFINE k == i + 1
  <2>1. k \in 1 .. Len(l) /\ q = RemoveAt(l, k)
    BY <1>1, <1>4
  <2> HIDE DEF k, q
  <2>2. /\ q \in Seq(Block) /\ Len(q) = Len(l) - 1
        /\ \A j \in 1 .. Len(l) - 1 : q[j] = IF j < k THEN l[j] ELSE l[j + 1]
    BY <1>4, <2>1, Removed
  <2>3. QED
    BY <1>4, <2>2 DEF k
<1> HIDE DEF q, x
<1>6. /\ c \in Region /\ c.base = r.base /\ c.size = r.size
      /\ c.spare = x /\ c.blocks = q
  <2> DEFINE a == [r EXCEPT !.blocks = q]
  <2>1. a \in Region /\ a.base = r.base /\ a.size = r.size /\ a.blocks = q
    BY <1>5, WithBlocks
  <2>2. c = [a EXCEPT !.spare = x]
    BY <1>2
  <2> HIDE DEF a
  <2>3. QED
    BY <1>1, <2>1, <2>2, WithSpare
<1>7. \A j \in 1 .. m - 1 :
        /\ q[j].slot = IF j <= i THEN r.blocks[j].slot ELSE r.blocks[j + 1].slot
        /\ q[j].flag = IF j <= i THEN r.blocks[j].flag ELSE r.blocks[j + 1].flag
        /\ q[j].addr = IF j <= i THEN r.blocks[j].addr ELSE r.blocks[j + 1].addr
        /\ q[j].size = IF j < i THEN r.blocks[j].size
                       ELSE IF j = i THEN r.blocks[i].size + r.blocks[i + 1].size
                       ELSE r.blocks[j + 1].size
  <2> TAKE j \in 1 .. m - 1
  <2>1. CASE j < i
    BY <1>1, <1>4, <1>5, <2>1
  <2>2. CASE j = i
    BY <1>1, <1>3, <1>4, <1>5, <2>2
  <2>3. CASE j > i
    <3>1. j + 1 \in 1 .. m /\ j + 1 # i /\ ~(j < i + 1)
      BY <1>1, <2>3
    <3>2. q[j] = r.blocks[j + 1]
      BY <1>4, <1>5, <3>1
    <3>3. QED
      BY <1>1, <2>3, <3>2
  <2>4. j < i \/ j = i \/ j > i
    BY <1>1
  <2>5. QED
    BY <2>1, <2>2, <2>3, <2>4, Zenon
<1>8. EndToEnd(c)
  <2>1. /\ r.blocks[1].addr = r.base
        /\ \A j \in 1 .. m - 1 :
             r.blocks[j + 1].addr = r.blocks[j].addr + r.blocks[j].size
        /\ r.blocks[m].addr + r.blocks[m].size = r.base + r.size
    BY <1>1 DEF EndToEnd, m
  <2>2. ASSUME NEW j \in 1 .. m - 2 PROVE q[j + 1].addr = q[j].addr + q[j].size
    <3>1. j \in 1 .. m - 1 /\ j + 1 \in 1 .. m - 1 /\ j \in 1 .. m /\ j + 2 \in 1 .. m
          /\ (j + 1) + 1 = j + 2
      BY <1>1
    <3>2. /\ r.blocks[j + 1].addr = r.blocks[j].addr + r.blocks[j].size
          /\ r.blocks[j + 2].addr = r.blocks[j + 1].addr + r.blocks[j + 1].size
      BY <2>1, <3>1
    <3>3. CASE j < i
      <4>1. i \in Int /\ j <= i /\ j + 1 <= i
        BY <1>1, <3>1, <3>3
      <4>2. q[j].addr = r.blocks[j].addr /\ q[j].size = r.blocks[j].size
        BY <1>7, <3>1, <3>3, <4>1, Zenon
      <4>3. q[j + 1].addr = r.blocks[j + 1].addr
        BY <1>7, <3>1, <4>1, Zenon
      <4>4. QED
        BY <3>2, <4>2, <4>3, Zenon
    <3>4. CASE j = i
      <4>1. j <= i /\ ~(j < i) /\ ~(j + 1 <= i)
        BY <1>1, <3>4
      <4>2. q[j].addr = r.blocks[j].addr /\ q[j].size = r.blocks[j].size + r.blocks[j + 1].size
        BY <1>7, <3>1, <3>4, <4>1, Zenon
      <4>3. q[j + 1].addr = r.blocks[j + 2].addr
        BY <1>7, <3>1, <4>1, Zenon
      <4>4. r.blocks[j].addr \in Int /\ r.blocks[j].size \in Int /\ r.blocks[j + 1].size \in Int
        BY <1>1, <3>1
      <4>5. r.blocks[j + 2].addr = r.blocks[j].addr + (r.blocks[j].size + r.blocks[j + 1].size)
        <5>1. (r.blocks[j].addr + r.blocks[j].size) + r.blocks[j + 1].size
              = r.blocks[j].addr + (r.blocks[j].size + r.blocks[j + 1].size)
          BY <4>4, RunOn
        <5>2. QED
          BY <3>2, <5>1, Zenon
      <4>6. QED
        BY <4>2, <4>3, <4>5, Zenon
    <3>5. CASE j > i
      <4>1. ~(j <= i) /\ ~(j < i) /\ ~(j = i) /\ ~(j + 1 <= i)
        BY <1>1, <3>5
      <4>2. q[j].addr = r.blocks[j + 1].addr /\ q[j].size = r.blocks[j + 1].size
        BY <1>7, <3>1, <4>1, Zenon
      <4>3. q[j + 1].addr = r.blocks[j + 2].addr
        BY <1>7, <3>1, <4>1, Zenon
      <4>4. QED
        BY <3>2, <4>2, <4>3, Zenon
    <3>6. j < i \/ j = i \/ j > i
      BY <1>1
    <3>7. QED
      BY <3>3, <3>4, <3>5, <3>6, Zenon
  <2>3. q[m - 1].addr + q[m - 1].size = r.base + r.size
    <3>1. m - 1 \in 1 .. m - 1 /\ (m - 1) + 1 = m /\ m - 1 \in 1 .. m
      BY <1>1
    <3>2. r.blocks[m].addr = r.blocks[m - 1].addr + r.blocks[m - 1].size
      BY <2>1, <3>1
    <3>3. CASE i = m - 1
      <4>1. /\ q[m - 1].addr = r.blocks[m - 1].addr
            /\ q[m - 1].size = r.blocks[m - 1].size + r.blocks[m].size
        <5>1. m - 1 <= i /\ ~(m - 1 < i) /\ i + 1 = m
          BY <1>1, <3>3
        <5>2. QED
          BY <1>7, <3>1, <3>3, <5>1, Zenon
      <4>2. /\ r.blocks[m - 1].addr \in Int /\ r.blocks[m - 1].size \in Int
            /\ r.blocks[m].size \in Int
        BY <1>1, <3>1
      <4>3. r.blocks[m].addr + r.blocks[m].size = r.base + r.size
        BY <2>1
      <4> HIDE DEF m
      <4>4. QED
        BY <3>2, <4>1, <4>2, <4>3
    <3>4. CASE i < m - 1
      <4>1. ~(m - 1 <= i) /\ ~(m - 1 < i) /\ ~(m - 1 = i)
        BY <1>1, <3>4
      <4>2. q[m - 1].addr = r.blocks[m].addr /\ q[m - 1].size = r.blocks[m].size
        BY <1>7, <3>1, <4>1, Zenon
      <4>3. QED
        BY <2>1, <4>2, Zenon
    <3>5. QED
      BY <1>1, <3>3, <3>4
  <2>4. q[1].addr = r.base
    BY <1>1, <1>7, <2>1
  <2>5. \A j \in 1 .. Len(q) - 1 : q[j + 1].addr = q[j].addr + q[j].size
    BY <1>1, <1>5, <2>2
  <2>6. QED
    BY <1>5, <1>6, <2>3, <2>4, <2>5 DEF EndToEnd
<1>9. TableSound(c)
  <2> SUFFICES ASSUME TableUsed(c) PROVE SlotsSound(c)
    BY DEF TableSound
  <2>1. q[1].flag = "USED" /\ q[1].flag = r.blocks[1].flag /\ i # 1
    BY <1>1, <1>6, <1>7 DEF TableUsed
  <2>2. SlotsSound(r)
    BY <1>1, <2>1 DEF TableSound, TableUsed
  <2>3. /\ Slots(r) \in Nat /\ r.blocks[1].size = Slots(r) * BlockSize
        /\ r.blocks[1].slot = 0 /\ r.blocks[2].slot = 1
        /\ \A j, k \in 1 .. m : r.blocks[j].slot = r.blocks[k].slot => j = k
        /\ \A j \in 1 .. m : r.blocks[j].slot < Slots(r)
        /\ \A s \in r.spare : s < Slots(r) /\ \A j \in 1 .. m : r.blocks[j].slot # s
    BY <1>1, <2>2 DEF SlotsSound
  <2>4. 1 \in 1 .. m - 1 /\ 2 \in 1 .. m - 1 /\ 1 < i /\ 2 <= i
    BY <1>1, <2>1
  <2>5. q[1].size = r.blocks[1].size /\ q[1].slot = 0 /\ q[2].slot = 1
    BY <1>7, <2>3, <2>4
  <2>6. Slots(c) = Slots(r)
    BY <1>6, <2>5 DEF Slots
  <2> DEFINE p(j) == IF j <= i THEN j ELSE j + 1
  <2>7. /\ \A j \in 1 .. m - 1 : p(j) \in 1 .. m /\ p(j) # i + 1
        /\ \A j \in 1 .. m - 1 : q[j].slot = r.blocks[p(j)].slot
        /\ \A j, k \in 1 .. m - 1 : p(j) = p(k) => j = k
    BY <1>1, <1>7
  <2> HIDE DEF p
  <2>8. \A j, k \in 1 .. m - 1 : q[j].slot = q[k].slot => j = k
    BY <2>3, <2>7
  <2>9. \A j \in 1 .. m - 1 : q[j].slot < Slots(r)
    BY <2>3, <2>7
  <2>10. \A s \in x : s < Slots(r) /\ \A j \in 1 .. m - 1 : q[j].slot # s
    <3> TAKE s \in x
    <3>1. CASE s \in r.spare
      BY <2>3, <2>7, <3>1
    <3>2. CASE s = r.blocks[i + 1].slot
      <4> DEFINE k == i + 1
      <4>1. k \in 1 .. m /\ s = r.blocks[k].slot /\ \A j \in 1 .. m - 1 : p(j) # k
        BY <1>1, <2>7, <3>2
      <4> HIDE DEF k
      <4>2. s < Slots(r)
        BY <2>3, <4>1, Zenon
      <4>3. ASSUME NEW j \in 1 .. m - 1 PROVE q[j].slot # s
        <5>1. p(j) \in 1 .. m /\ p(j) # k /\ q[j].slot = r.blocks[p(j)].slot
          BY <2>7, <4>1, Zenon
        <5>2. QED
          BY <2>3, <4>1, <5>1, Zenon
      <4>4. QED
        BY <4>2, <4>3, Zenon
    <3>3. QED
      BY <3>1, <3>2 DEF x
  <2>11. DOMAIN q = 1 .. m - 1 /\ Len(q) >= 2
    BY <1>1, <1>5, <2>4
  <2>12. QED
    BY <1>6, <2>3, <2>5, <2>6, <2>8, <2>9, <2>10, <2>11 DEF SlotsSound
<1>10. QED
  BY <1>5, <1>6, <1>7, <1>8, <1>9 DEF c, m

\* Freeing a block coalesces it with both neighbours (MmFreePhysical), so that no
\* two free blocks are left side by side.
LEMMA ReleasedSound ==
  ASSUME NEW r \in Region, Sound(r), NEW i \in 1 .. Len(r.blocks)
  PROVE  Sound(Released(r, i))
<1> DEFINE m == Len(r.blocks)
           f == [r EXCEPT !.blocks[i].flag = "FREE"]
           a == IF i < Len(f.blocks) /\ f.blocks[i + 1].flag = "FREE"
                THEN AbsorbNext(f, i) ELSE f
           c == IF i > 1 /\ a.blocks[i - 1].flag = "FREE" THEN AbsorbNext(a, i - 1) ELSE a
           IsFree(l, j) == l.blocks[j].flag = "FREE"
<1>1. Released(r, i) = c
  BY DEF Released
<1>2. m \in Nat /\ m >= 1 /\ i \in 1 .. m
  BY RegionParts
<1>3. /\ f \in Region /\ EndToEnd(f) /\ TableSound(f) /\ Len(f.blocks) = m
      /\ \A j \in 1 .. m : f.blocks[j].flag = IF j = i THEN "FREE" ELSE r.blocks[j].flag
  BY FlagSound DEF Sound
<1>4. \A j \in 1 .. m - 1 : ~(IsFree(r, j) /\ IsFree(r, j + 1))
  BY DEF Sound, NoFreePair
<1> HIDE DEF m, f
<1>5. /\ a \in Region /\ EndToEnd(a) /\ TableSound(a)
      /\ Len(a.blocks) \in Nat /\ i \in 1 .. Len(a.blocks) /\ IsFree(a, i)
      /\ \A j \in 1 .. Len(a.blocks) - 1 : j # i - 1 => ~(IsFree(a, j) /\ IsFree(a, j + 1))
  <2>1. CASE i < m /\ f.blocks[i + 1].flag = "FREE"
    <3>1. a = AbsorbNext(f, i) /\ i \in 1 .. Len(f.blocks) - 1 /\ f.blocks[i].flag = "FREE"
      BY <1>2, <1>3, <2>1
    <3>2. /\ a \in Region /\ EndToEnd(a) /\ TableSound(a)
          /\ Len(a.blocks) = m - 1
          /\ \A j \in 1 .. m - 1 :
               a.blocks[j].flag = IF j <= i THEN f.blocks[j].flag ELSE f.blocks[j + 1].flag
      BY <1>3, <3>1, AbsorbSound
    <3> HIDE DEF a
    <3>3. IsFree(a, i) /\ i \in 1 .. m - 1
      BY <1>2, <2>1, <3>1, <3>2
    <3>4. ASSUME NEW j \in 1 .. m - 2, j # i - 1 PROVE ~(IsFree(a, j) /\ IsFree(a, j + 1))
      <4>1. j \in 1 .. m - 1 /\ j + 1 \in 1 .. m - 1 /\ j + 1 \in 1 .. m /\ j \in 1 .. m
            /\ (j + 1) + 1 \in 1 .. m /\ i + 1 \in 1 .. m
        BY <1>2, <2>1
      <4>2. CASE j < i
        <5>1. j + 1 <= i /\ j + 1 # i /\ j <= i /\ j # i
          BY <1>2, <3>4, <4>2
        <5>2. a.blocks[j].flag = r.blocks[j].flag /\ a.blocks[j + 1].flag = r.blocks[j + 1].flag
          BY <1>3, <3>2, <4>1, <5>1
        <5>3. QED
          BY <1>4, <4>1, <5>2
      <4>3. CASE j = i
        <5>1. a.blocks[j + 1].flag = r.blocks[(j + 1) + 1].flag /\ r.blocks[j + 1].flag = "FREE"
          BY <1>2, <1>3, <2>1, <3>2, <4>1, <4>3
        <5>2. QED
          BY <1>4, <4>1, <5>1
      <4>4. CASE j > i
        <5>1. /\ a.blocks[j].flag = r.blocks[j + 1].flag
              /\ a.blocks[j + 1].flag = r.blocks[(j + 1) + 1].flag
          BY <1>2, <1>3, <3>2, <4>1, <4>4
        <5>2. QED
          BY <1>4, <4>1, <5>1
      <4>5. j < i \/ j = i \/ j > i
        BY <1>2
      <4>6. QED
        BY <4>2, <4>3, <4>4, <4>5, Zenon
    <3>5. m - 1 \in Nat /\ (m - 1) - 1 = m - 2
      BY <1>2, <2>1
    <3>6. QED
      BY <3>2, <3>3, <3>4, <3>5
  <2>2. CASE ~(i < m /\ f.blocks[i + 1].flag = "FREE")
    <3>1. a = f
      BY <1>3, <2>2
    <3> HIDE DEF a
    <3>2. ASSUME NEW j \in 1 .. m - 1, j # i - 1 PROVE ~(IsFree(f, j) /\ IsFree(f, j + 1))
      <4>1. j \in 1 .. m /\ j + 1 \in 1 .. m
        BY <1>2
      <4>2. CASE j = i
        BY <1>2, <2>2, <4>1, <4>2
      <4>3. CASE j # i
        <5>1. j + 1 # i
          BY <1>2, <3>2
        <5>2. f.blocks[j].flag = r.blocks[j].flag /\ f.blocks[j + 1].flag = r.blocks[j + 1].flag
          BY <1>3, <4>1, <4>3, <5>1
        <5>3. QED
          BY <1>4, <5>2
      <4>4. QED
        BY <4>2, <4>3
    <3>3. IsFree(f, i)
      BY <1>2, <1>3
    <3>4. QED
      BY <1>2, <1>3, <3>1, <3>2, <3>3
  <2>3. QED
    BY <2>1, <2>2
<1> HIDE DEF a
<1>6. CASE i > 1 /\ IsFree(a, i - 1)
  <2> DEFINE k == i - 1
             n == Len(a.blocks)
  <2>1. c = AbsorbNext(a, k) /\ k \in 1 .. Len(a.blocks) - 1 /\ a.blocks[k].flag = "FREE"
    BY <1>2, <1>5, <1>6
  <2> HIDE DEF c, k
  <2>2. /\ c \in Region /\ EndToEnd(c) /\ TableSound(c)
        /\ Len(c.blocks) = n - 1
        /\ \A j \in 1 .. n - 1 :
             c.blocks[j].flag = IF j <= k THEN a.blocks[j].flag ELSE a.blocks[j + 1].flag
    BY <1>5, <2>1, AbsorbSound
  <2> HIDE DEF n
  <2>3. /\ n \in Nat /\ k \in 1 .. n - 1 /\ k + 1 = i
        /\ \A j \in 1 .. n - 1 : j # k => ~(IsFree(a, j) /\ IsFree(a, j + 1))
    BY <1>2, <1>5, <2>1 DEF n, k
  <2>4. ASSUME NEW j \in 1 .. n - 2 PROVE ~(IsFree(c, j) /\ IsFree(c, j + 1))
    <3>1. j \in 1 .. n - 1 /\ j + 1 \in 1 .. n - 1
      BY <2>3
    <3>2. CASE j < k
      <4>1. c.blocks[j].flag = a.blocks[j].flag /\ c.blocks[j + 1].flag = a.blocks[j + 1].flag
        BY <2>2, <2>3, <3>1, <3>2
      <4>2. QED
        BY <2>3, <3>1, <3>2, <4>1
    <3>3. CASE j >= k
      <4>1. c.blocks[j + 1].flag = a.blocks[(j + 1) + 1].flag
        BY <2>2, <2>3, <3>1, <3>3
      <4>2. j = k => IsFree(a, j + 1)
        BY <1>5, <2>3
      <4>3. j > k => c.blocks[j].flag = a.blocks[j + 1].flag
        BY <2>2, <2>3, <3>1
      <4>4. j + 1 # k /\ (j = k \/ j > k)
        BY <2>3, <3>3
      <4>5. QED
        BY <2>3, <3>1, <4>1, <4>2, <4>3, <4>4
    <3>4. j < k \/ j >= k
      BY <2>3
    <3>5. QED
      BY <3>2, <3>3, <3>4, Zenon
  <2>5. (n - 1) - 1 = n - 2
    BY <2>3
  <2>6. NoFreePair(c)
    BY <2>2, <2>4, <2>5 DEF NoFreePair
  <2>7. QED
    BY <1>1, <2>2, <2>6 DEF Sound, c
<1>7. CASE ~(i > 1 /\ IsFree(a, i - 1))
  <2>1. c = a
    BY <1>7
  <2>2. \A j \in 1 .. Len(a.blocks) - 1 : ~(IsFree(a, j) /\ IsFree(a, j + 1))
    <3> TAKE j \in 1 .. Len(a.blocks) - 1
    <3>1. j = i - 1 => i > 1
      BY <1>2, <1>5
    <3>2. QED
      BY <1>5, <1>7, <3>1
  <2>3. QED
    BY <1>1, <1>5, <2>1, <2>2 DEF Sound, NoFreePair
<1>8. QED
  BY <1>6, <1>7

----------------------------------------------------------------------------
(* The calls *)

\* Carving an object off a free block (MmAllocatePhysical), with one split, with two
\* or with none, leaves a region sound.
LEMMA CarveSound ==
  ASSUME NEW r \in Region, Sound(r), TableUsed(r),
         NEW i \in 1 .. Len(r.blocks), r.blocks[i].flag = "FREE",
         NEW size \in Nat, NEW align \in Nat
  PROVE  LET v == Carve(r, i, size, align) IN Sound(v.reg) /\ v.ptr \in Int
<1> DEFINE m == Len(r.blocks)
           left == LeftSize(r.blocks[i], size, align)
           k == IF left = 0 THEN i ELSE i + 1
           a == CarveLeft(r, i, left)
           c == CarveRight(a, k, size)
           IsFree(l, j) == l.blocks[j].flag = "FREE"
<1>1. /\ m \in Nat /\ i \in 1 .. m /\ r.blocks[i].addr \in Int /\ r.blocks[i].size \in Int
      /\ i # 1
  BY RegionParts DEF TableUsed
<1>2. left \in Int
  <2>1. \A x \in Int : Misaligned(x, align) \in Int
    BY DEF Misaligned
  <2>2. r.blocks[i].addr + r.blocks[i].size - size \in Int
    BY <1>1
  <2>3. Misaligned(r.blocks[i].addr + r.blocks[i].size - size, align) \in Int
    BY <2>1, <2>2
  <2>4. QED
    BY <1>1, <2>3 DEF LeftSize
<1>3. /\ EndToEnd(r) /\ SlotsSound(r)
      /\ \A j \in 1 .. m - 1 : ~(IsFree(r, j) /\ IsFree(r, j + 1))
  BY DEF Sound, TableSound, NoFreePair
<1>4. Carve(r, i, size, align).reg = c /\ Carve(r, i, size, align).ptr = r.blocks[i].addr + left
  BY DEF Carve
<1> HIDE DEF left
<1>5. /\ a \in Region /\ EndToEnd(a) /\ SlotsSound(a) /\ TableUsed(a)
      /\ Len(a.blocks) \in Nat /\ k \in 2 .. Len(a.blocks) /\ a.blocks[k].flag = "USED"
      /\ \A j \in 1 .. Len(a.blocks) - 1 : ~(IsFree(a, j) /\ IsFree(a, j + 1))
      /\ k + 1 \in 1 .. Len(a.blocks) => ~IsFree(a, k + 1)
  <2>1. CASE left = 0
    <3>1. a = [r EXCEPT !.blocks[i].flag = "USED"] /\ k = i
      BY <2>1 DEF CarveLeft
    <3>2. /\ a \in Region /\ EndToEnd(a) /\ TableSound(a) /\ TableUsed(a)
          /\ Len(a.blocks) = m
          /\ \A j \in 1 .. m :
               a.blocks[j].flag = IF j = i THEN "USED" ELSE r.blocks[j].flag
      <4>1. EndToEnd(r) /\ TableSound(r) /\ i \in 1 .. Len(r.blocks)
        BY DEF Sound
      <4> HIDE DEF a
      <4>2. QED
        BY <1>1, <3>1, <4>1, FlagSound
    <3> HIDE DEF a, k, m
    <3>3. \A j \in 1 .. m : IsFree(a, j) => IsFree(r, j)
      BY <3>2
    <3>4. \A j \in 1 .. m - 1 : ~(IsFree(a, j) /\ IsFree(a, j + 1))
      BY <1>1, <1>3, <3>3
    <3>5. k + 1 \in 1 .. m => ~IsFree(a, k + 1)
      <4> SUFFICES ASSUME k + 1 \in 1 .. m PROVE ~IsFree(a, k + 1)
        OBVIOUS
      <4>1. i \in 1 .. m - 1
        BY <1>1, <3>1
      <4>2. ~IsFree(r, i + 1)
        BY <1>3, <4>1
      <4>3. QED
        BY <3>1, <3>3, <4>2
    <3>6. SlotsSound(a)
      BY <3>2 DEF TableSound
    <3>7. k \in 2 .. m /\ a.blocks[k].flag = "USED"
      BY <1>1, <3>1, <3>2
    <3>8. QED
      BY <1>1, <3>2, <3>4, <3>5, <3>6, <3>7
  <2>2. CASE left # 0
    <3>1. a = SplitBlock(r, i, left, "FREE", "USED") /\ k = i + 1 /\ i \in 2 .. Len(r.blocks)
      BY <1>1, <2>2 DEF CarveLeft
    <3>2. /\ a \in Region /\ EndToEnd(a) /\ SlotsSound(a) /\ TableUsed(a)
          /\ Len(a.blocks) = m + 1
          /\ \A j \in 1 .. m + 1 :
               a.blocks[j].flag = IF j < i THEN r.blocks[j].flag
                                  ELSE IF j = i THEN "FREE"
                                  ELSE IF j = i + 1 THEN "USED" ELSE r.blocks[j - 1].flag
      <4>1. /\ a \in Region /\ EndToEnd(a) /\ SlotsSound(a) /\ TableUsed(a)
            /\ Len(a.blocks) = m + 1 /\ SplitFlags(r, i, "FREE", "USED", a)
        BY <1>2, <1>3, <3>1, SplitSound
      <4>2. QED
        BY <4>1, Zenon DEF SplitFlags
    <3> HIDE DEF a, k, m
    <3>3. k \in 2 .. m + 1 /\ k \in 1 .. m + 1 /\ a.blocks[k].flag = "USED"
      <4>1. k \in 2 .. m + 1 /\ k \in 1 .. m + 1 /\ ~(k < i) /\ k # i
        BY <1>1, <3>1
      <4>2. QED
        BY <3>1, <3>2, <4>1
    <3>4. ASSUME NEW j \in 1 .. m PROVE ~(IsFree(a, j) /\ IsFree(a, j + 1))
      <4>1. j \in 1 .. m + 1 /\ j + 1 \in 1 .. m + 1
        BY <1>1
      <4>2. CASE j < i
        <5>1. j \in 1 .. m - 1 /\ a.blocks[j].flag = r.blocks[j].flag
          BY <1>1, <3>2, <4>1, <4>2
        <5>2. IsFree(a, j + 1) => IsFree(r, j + 1)
          BY <1>1, <3>2, <4>1, <4>2
        <5>3. QED
          BY <1>3, <5>1, <5>2
      <4>3. CASE j = i
        BY <1>1, <3>2, <4>1, <4>3
      <4>4. CASE j = i + 1
        BY <1>1, <3>2, <4>1, <4>4
      <4>5. CASE j > i + 1
        <5>1. j - 1 \in 1 .. m - 1 /\ (j - 1) + 1 = j /\ (j + 1) - 1 = j
          BY <1>1, <4>5
        <5>2. ~(j < i) /\ j # i /\ j # i + 1 /\ ~(j + 1 < i) /\ j + 1 # i /\ j + 1 # i + 1
          BY <1>1, <4>5
        <5>3. a.blocks[j].flag = r.blocks[j - 1].flag
          BY <3>2, <4>1, <5>2
        <5>4. a.blocks[j + 1].flag = r.blocks[j].flag
          BY <3>2, <4>1, <5>1, <5>2
        <5>5. QED
          BY <1>3, <5>1, <5>3, <5>4
      <4>6. j < i \/ j = i \/ j = i + 1 \/ j > i + 1
        BY <1>1
      <4>7. QED
        BY <4>2, <4>3, <4>4, <4>5, <4>6, Zenon
    <3>5. k + 1 \in 1 .. m + 1 => ~IsFree(a, k + 1)
      <4> SUFFICES ASSUME k + 1 \in 1 .. m + 1 PROVE ~IsFree(a, k + 1)
        OBVIOUS
      <4>1. /\ i \in 1 .. m - 1 /\ (k + 1) - 1 = i + 1
            /\ ~(k + 1 < i) /\ k + 1 # i /\ k + 1 # i + 1
        BY <1>1, <3>1
      <4>2. a.blocks[k + 1].flag = r.blocks[(k + 1) - 1].flag
        BY <3>2, <4>1
      <4>3. QED
        BY <1>3, <4>1, <4>2
    <3>6. m + 1 \in Nat /\ (m + 1) - 1 = m
      BY <1>1
    <3>7. QED
      BY <3>2, <3>3, <3>4, <3>5, <3>6
  <2>3. QED
    BY <2>1, <2>2
<1> HIDE DEF a, k
<1>6. Sound(c)
  <2>1. CASE a.blocks[k].size = size
    <3>1. c = a
      BY <2>1 DEF CarveRight
    <3>2. QED
      BY <1>5, <3>1 DEF Sound, NoFreePair, TableSound
  <2>2. CASE a.blocks[k].size # size
    <3> DEFINE n == Len(a.blocks)
    <3>1. c = SplitBlock(a, k, size, "USED", "FREE")
      BY <2>2 DEF CarveRight
    <3>2. /\ c \in Region /\ EndToEnd(c) /\ SlotsSound(c)
          /\ Len(c.blocks) = n + 1
          /\ \A j \in 1 .. n + 1 :
               c.blocks[j].flag = IF j < k THEN a.blocks[j].flag
                                  ELSE IF j = k THEN "USED"
                                  ELSE IF j = k + 1 THEN "FREE" ELSE a.blocks[j - 1].flag
      <4>1. /\ c \in Region /\ EndToEnd(c) /\ SlotsSound(c)
            /\ Len(c.blocks) = n + 1 /\ SplitFlags(a, k, "USED", "FREE", c)
        BY <1>5, <3>1, SplitSound
      <4>2. QED
        BY <4>1, Zenon DEF SplitFlags
    <3>3. /\ n \in Nat /\ k \in 2 .. n
          /\ \A j \in 1 .. n - 1 : ~(IsFree(a, j) /\ IsFree(a, j + 1))
          /\ k + 1 \in 1 .. n => ~IsFree(a, k + 1)
      BY <1>5
    <3> HIDE DEF c, n
    <3>4. ASSUME NEW j \in 1 .. n PROVE ~(IsFree(c, j) /\ IsFree(c, j + 1))
      <4>1. j \in 1 .. n + 1 /\ j + 1 \in 1 .. n + 1
        BY <3>3
      <4>2. CASE j < k
        <5>1. j \in 1 .. n - 1 /\ c.blocks[j].flag = a.blocks[j].flag
          BY <3>2, <3>3, <4>1, <4>2
        <5>2. IsFree(c, j + 1) => IsFree(a, j + 1)
          BY <3>2, <3>3, <4>1, <4>2
        <5>3. QED
          BY <3>3, <5>1, <5>2
      <4>3. CASE j = k
        BY <3>2, <3>3, <4>1, <4>3
      <4>4. CASE j = k + 1
        <5>1. (j + 1) - 1 = j /\ j \in 1 .. n /\ j + 1 > k + 1
          BY <3>3, <4>4
        <5>2. c.blocks[j + 1].flag = a.blocks[j].flag
          BY <3>2, <3>3, <4>1, <5>1
        <5>3. QED
          BY <3>3, <4>4, <5>1, <5>2
      <4>5. CASE j > k + 1
        <5>1. j - 1 \in 1 .. n - 1 /\ (j - 1) + 1 = j /\ (j + 1) - 1 = j
          BY <3>3, <4>5
        <5>2. c.blocks[j].flag = a.blocks[j - 1].flag /\ c.blocks[j + 1].flag = a.blocks[j].flag
          BY <3>2, <3>3, <4>1, <4>5, <5>1
        <5>3. QED
          BY <3>3, <5>1, <5>2
      <4>6. j < k \/ j = k \/ j = k + 1 \/ j > k + 1
        BY <3>3
      <4>7. QED
        BY <4>2, <4>3, <4>4, <4>5, <4>6, Zenon
    <3>5. NoFreePair(c)
      BY <3>2, <3>3, <3>4 DEF NoFreePair
    <3>6. QED
      BY <3>2, <3>5 DEF Sound, TableSound
  <2>3. QED
    BY <2>1, <2>2
<1>7. r.blocks[i].addr + left \in Int
  BY <1>1, <1>2
<1>8. QED
  BY <1>4, <1>6, <1>7

\* The regions a call works on.
AllSound(regs) == regs \in [RegionIds -> Region] /\ \A i \in RegionIds : Sound(regs[i])

RegionIdsAreNaturals == RegionIds \in SUBSET Nat

\* The places for regions are numbers, so the first that fits can be found.
LEMMA RegionIdsNat == RegionIdsAreNaturals
  BY GeometryAssumption DEF RegionIdsAreNaturals, RegionIds

\* The search for a block ends at a block that passes the test.
LEMMA Selected ==
  ASSUME NEW q \in Seq(Block), NEW T \in SUBSET (1 .. Len(q)),
         NEW f, f = IF T # {} THEN Min(T) ELSE 0, f # 0
  PROVE  f \in T
<1>1. T # {} /\ f = Min(T)
  OBVIOUS
<1>2. T \in SUBSET Nat
  OBVIOUS
<1>3. QED
  BY <1>1, <1>2, MinIsLeast

\* The block an allocation finds is there and free (pmm.c:157-164).
LEMMA FirstFitFits ==
  ASSUME NEW r \in Region, NEW size, NEW align, FirstFit(r, size, align) # 0
  PROVE  /\ FirstFit(r, size, align) \in 1 .. Len(r.blocks)
         /\ r.blocks[FirstFit(r, size, align)].flag = "FREE"
         /\ Fits(r.blocks[FirstFit(r, size, align)], size, align)
<1> DEFINE T == {i \in 1 .. Len(r.blocks) : Fits(r.blocks[i], size, align)}
           f == FirstFit(r, size, align)
<1>1. f = IF T # {} THEN Min(T) ELSE 0
  BY DEF FirstFit, SelectInSeq
<1> HIDE DEF f
<1>2. r.blocks \in Seq(Block) /\ T \in SUBSET (1 .. Len(r.blocks)) /\ f # 0
  BY RegionParts DEF f
<1>3. f \in T
  BY <1>1, <1>2, Selected
<1>4. QED
  BY <1>3 DEF f, Fits

\* The block at which a free decides is one of the region's (pmm.c:254).
LEMMA DeciderDecides ==
  ASSUME NEW r \in Region, NEW p, Decider(r, p) # 0
  PROVE  Decider(r, p) \in 1 .. Len(r.blocks)
<1> DEFINE T == {i \in 1 .. Len(r.blocks) : Decides(r.blocks[i], p)}
           f == Decider(r, p)
<1>1. f = IF T # {} THEN Min(T) ELSE 0
  BY DEF Decider, SelectInSeq
<1> HIDE DEF f
<1>2. r.blocks \in Seq(Block) /\ T \in SUBSET (1 .. Len(r.blocks)) /\ f # 0
  BY RegionParts DEF f
<1>3. f \in T
  BY <1>1, <1>2, Selected
<1>4. QED
  BY <1>3 DEF f

\* An operation on one region leaves the others sound.
LEMMA OneReplaced ==
  ASSUME NEW regs, AllSound(regs), NEW i \in RegionIds, NEW c, Sound(c)
  PROVE  AllSound([regs EXCEPT ![i] = c])
  BY DEF AllSound, Sound

\* MmAllocatePhysical leaves every region sound, whatever it is asked for.
LEMMA AllocationSound ==
  ASSUME NEW regs, AllSound(regs), \A i \in RegionIds : Present(regs[i]) => TableUsed(regs[i]),
         NEW size \in Nat, NEW align \in Nat
  PROVE  LET a == Allocation(regs, size, align) IN
         /\ AllSound(a.regs) /\ a.obj \in [ptr : Int, size : Nat] /\ a.panic \in BOOLEAN
<1> DEFINE fitting == {i \in RegionIds : FirstFit(regs[i], size, align) # 0}
           i == Min(fitting)
           c == Carve(regs[i], FirstFit(regs[i], size, align), size, align)
           after == [regs EXCEPT ![i] = c.reg]
           a == Allocation(regs, size, align)
           nothing == [regs |-> regs, obj |-> NULL, panic |-> TRUE]
           nofit == [regs |-> regs, obj |-> NULL, panic |-> ~MmCheckHeap(regs)]
           found == [regs |-> after, obj |-> [ptr |-> c.ptr, size |-> size],
                     panic |-> ~c.ok \/ ~MmCheckHeap(after)]
<1>1. a = IF size = 0 THEN nothing ELSE IF fitting = {} THEN nofit ELSE found
  BY DEF Allocation
<1> HIDE DEF a
<1>2. NULL \in [ptr : Int, size : Nat]
  BY DEF NULL
<1>3. CASE size = 0
  <2>1. a = nothing
    BY <1>1, <1>3
  <2>2. QED
    BY <1>2, <2>1 DEF a
<1>4. CASE size # 0 /\ fitting = {}
  <2>1. a = nofit
    BY <1>1, <1>4
  <2>2. MmCheckHeap(regs) \in BOOLEAN
    BY DEF MmCheckHeap
  <2>3. QED
    BY <1>2, <2>1, <2>2 DEF a
<1>5. CASE size # 0 /\ fitting # {}
  <2>1. a = found
    BY <1>1, <1>5
  <2>2. fitting \in SUBSET Nat
    BY RegionIdsNat DEF RegionIdsAreNaturals
  <2>3. i \in RegionIds /\ FirstFit(regs[i], size, align) # 0
    BY <1>5, <2>2, MinIsLeast
  <2> HIDE DEF i, fitting
  <2> DEFINE f == FirstFit(regs[i], size, align)
  <2>4. regs[i] \in Region /\ Sound(regs[i])
    BY <2>3 DEF AllSound
  <2>5. f \in 1 .. Len(regs[i].blocks) /\ regs[i].blocks[f].flag = "FREE"
    BY <2>3, <2>4, FirstFitFits
  <2>6. TableUsed(regs[i])
    <3> HIDE DEF f
    <3>1. Present(regs[i])
      BY <2>4, <2>5, RegionParts
    <3>2. QED
      BY <2>3, <3>1
  <2> HIDE DEF f
  <2>7. Sound(c.reg) /\ c.ptr \in Int
    BY <2>4, <2>5, <2>6, CarveSound DEF f
  <2> HIDE DEF c
  <2>8. AllSound(after)
    BY <2>3, <2>7, OneReplaced
  <2> HIDE DEF after
  <2>9. MmCheckHeap(after) \in BOOLEAN /\ c.ok \in BOOLEAN
    BY DEF MmCheckHeap, c, Carve
  <2>10. /\ found.regs = after /\ found.obj = [ptr |-> c.ptr, size |-> size]
         /\ found.panic \in BOOLEAN
    BY <2>9
  <2>11. QED
    BY <2>1, <2>7, <2>8, <2>10 DEF a
<1>6. QED
  BY <1>3, <1>4, <1>5

\* MmFreePhysical leaves every region sound, whatever address it is given.
LEMMA FreedSound ==
  ASSUME NEW regs, AllSound(regs), NEW p
  PROVE  AllSound(Freed(regs, p))
<1> DEFINE D == Deciding(regs, p)
           i == Min(D)
           j == Decider(regs[i], p)
<1>1. CASE D # {} /\ Matches(regs[i].blocks[j], p)
  <2>1. D \in SUBSET Nat
    BY RegionIdsNat DEF RegionIdsAreNaturals, Deciding
  <2>2. i \in D
    BY <1>1, <2>1, MinIsLeast
  <2>3. i \in RegionIds /\ j # 0
    BY <2>2 DEF Deciding
  <2>4. Freed(regs, p) = [regs EXCEPT ![i] = Released(regs[i], j)]
    BY <1>1 DEF Freed, DecidingBlock
  <2> HIDE DEF D, i
  <2>5. regs[i] \in Region /\ Sound(regs[i])
    BY <2>3 DEF AllSound
  <2>6. j \in 1 .. Len(regs[i].blocks)
    BY <2>3, <2>5, DeciderDecides
  <2> HIDE DEF j
  <2> DEFINE c == Released(regs[i], j)
  <2>7. Sound(c) /\ Freed(regs, p) = [regs EXCEPT ![i] = c]
    BY <2>4, <2>5, <2>6, ReleasedSound
  <2> HIDE DEF c
  <2>8. AllSound([regs EXCEPT ![i] = c])
    BY <2>3, <2>7, OneReplaced
  <2>9. QED
    BY <2>7, <2>8
<1>2. CASE ~(D # {} /\ Matches(regs[i].blocks[j], p))
  BY <1>2 DEF Freed, DecidingBlock
<1>3. QED
  BY <1>1, <1>2

\* A region that is not there is sound, and so is a fresh one (MmCreateRegion),
\* whatever the memory under its table held.
LEMMA AbsentSound == Sound(NotPresent)
<1>1. << >> \in Seq(Block) /\ Len(<< >>) = 0
  OBVIOUS
<1>2. NotPresent \in Region /\ NotPresent.blocks = << >>
  BY <1>1 DEF NotPresent, Region
<1>3. QED
  BY <1>1, <1>2 DEF Sound, EndToEnd, NoFreePair, TableSound, TableUsed, Present

\* A region that is created consists of its table and one free block (MmCreateRegion).
LEMMA NewRegionSound ==
  ASSUME NEW g \in Ranges, NEW clear \in SUBSET UncertainSlots(g)
  PROVE  Sound(NewRegion(g, clear))
<1> DEFINE n == g.size \div TableRatio
           t == TableSize(g.size)
           b == [slot |-> 0, addr |-> g.base, size |-> t, flag |-> "USED"]
           h == [slot |-> 1, addr |-> g.base + t, size |-> g.size - t, flag |-> "FREE"]
           q == <<b, h>>
           r == NewRegion(g, clear)
<1>1. g.base \in Nat /\ g.size \in Nat /\ n >= 1 /\ n \in Nat
  BY GeometryAssumption, InputAssumption
<1>2. t = (n + 1) * BlockSize /\ t \in Nat
  BY <1>1, GeometryAssumption DEF TableSize
<1>3. clear \in SUBSET Nat /\ \A s \in clear : s >= 2 /\ s <= n
  <2>1. UncertainSlots(g) = 2 .. n
    BY DEF UncertainSlots
  <2> HIDE DEF n
  <2>2. QED
    BY <1>1, <2>1
<1>4. r = [base |-> g.base, size |-> g.size, spare |-> clear, blocks |-> q]
  BY DEF NewRegion
<1> HIDE DEF n, t, r
<1>5. b \in Block /\ h \in Block
  BY <1>1, <1>2 DEF Block
<1>6. q \in Seq(Block) /\ Len(q) = 2 /\ DOMAIN q = 1 .. 2 /\ q[1] = b /\ q[2] = h /\ q # << >>
  <2> HIDE DEF b, h
  <2>1. q \in Seq(Block) /\ Len(q) = 2 /\ q[1] = b /\ q[2] = h
    BY <1>5
  <2>2. QED
    BY <2>1
<1> HIDE DEF q
<1>7. r \in Region /\ r.blocks = q /\ r.base = g.base /\ r.size = g.size /\ r.spare = clear
  BY <1>1, <1>3, <1>4, <1>6 DEF Region
<1>8. EndToEnd(r)
  <2>1. q[1].addr = g.base /\ q[1].size = t /\ q[2].addr = g.base + t /\ q[2].size = g.size - t
    BY <1>6
  <2>2. \A j \in 1 .. Len(q) - 1 : j = 1
    BY <1>6
  <2>3. q[1 + 1].addr = q[1].addr + q[1].size
    BY <1>6, <2>1
  <2>4. q[Len(q)].addr + q[Len(q)].size = g.base + g.size
    BY <1>1, <1>2, <1>6, <2>1
  <2>5. QED
    BY <1>7, <2>1, <2>2, <2>3, <2>4 DEF EndToEnd
<1>9. NoFreePair(r)
  <2>1. \A j \in 1 .. Len(q) - 1 : j = 1
    BY <1>6
  <2>2. q[1].flag = "USED"
    BY <1>6
  <2>3. QED
    BY <1>7, <2>1, <2>2 DEF NoFreePair
<1>10. SlotsSound(r)
  <2>1. Slots(r) = n + 1 /\ q[1].size = (n + 1) * BlockSize
    <3>1. q[1].size = (n + 1) * BlockSize
      BY <1>2, <1>6
    <3>2. n + 1 \in Nat /\ BlockSize \in Nat \ {0}
      BY <1>1, GeometryAssumption
    <3>3. Slots(r) = ((n + 1) * BlockSize) \div BlockSize
      BY <1>7, <3>1 DEF Slots
    <3>4. QED
      BY <3>1, <3>2, <3>3, DivExact
  <2>2. q[1].slot = 0 /\ q[2].slot = 1
    BY <1>6
  <2>3. \A j \in DOMAIN q : q[j].slot = j - 1
    BY <1>6, <2>2
  <2>4. \A s \in clear : s < n + 1 /\ \A j \in DOMAIN q : q[j].slot # s
    BY <1>1, <1>3, <1>6, <2>3
  <2>5. \A j, k \in DOMAIN q : q[j].slot = q[k].slot => j = k
    BY <1>6, <2>3
  <2>6. \A j \in DOMAIN q : q[j].slot < n + 1
    BY <1>1, <1>6, <2>3
  <2>7. n + 1 \in Nat /\ Len(q) >= 2
    BY <1>1, <1>6
  <2>8. QED
    BY <1>7, <2>1, <2>2, <2>4, <2>5, <2>6, <2>7 DEF SlotsSound
<1>11. QED
  BY <1>7, <1>8, <1>9, <1>10 DEF Sound, TableSound, r

----------------------------------------------------------------------------
(* The steps *)

\* What a call does once it has its answer.
LEMMA SettleIInv ==
  ASSUME IInv, NEW panic \in BOOLEAN, NEW regs, AllSound(regs), NEW c \in Clients,
         NEW obj \in [ptr : Int, size : Nat], Settle(panic, regs, c, obj)
  PROVE  IInv'
<1>1. AllSound(regions')
  BY DEF Settle, AllSound, IInv, TypeOK
<1>2. held' \in [Clients -> [ptr : Int, size : Nat]]
  BY DEF Settle, IInv, TypeOK
<1>3. panicked' \in BOOLEAN
  BY DEF Settle
<1>4. QED
  BY <1>1, <1>2, <1>3 DEF IInv, TypeOK, AllSound

\* At first no region is present.
LEMMA InitIInv == Init => IInv
<1> SUFFICES ASSUME Init PROVE IInv
  OBVIOUS
<1>1. \A i \in RegionIds : regions[i] = NotPresent
  BY DEF Init
<1>2. NULL \in [ptr : Int, size : Nat] /\ NotPresent \in Region
  BY AbsentSound DEF NULL, Sound
<1>3. TypeOK
  BY <1>2 DEF Init, TypeOK
<1>4. QED
  BY <1>1, <1>3, AbsentSound DEF IInv

\* Each operation of the manager preserves the invariant.
LEMMA NextIInv == IInv /\ [Next]_vars => IInv'
<1> SUFFICES ASSUME IInv, [Next]_vars PROVE IInv'
  OBVIOUS
<1>1. /\ AllSound(regions) /\ held \in [Clients -> [ptr : Int, size : Nat]]
      /\ panicked \in BOOLEAN
  BY DEF IInv, AllSound, TypeOK
<1>2. Sizes \subseteq Nat /\ Aligns \subseteq Nat /\ 0 \in Nat
  BY InputAssumption
<1>3. Operational => \A i \in RegionIds : Present(regions[i]) => TableUsed(regions[i])
  BY DEF Operational, TableOwned, TableUsed
<1>4. \A regs : MmCheckHeap(regs) \in BOOLEAN
  BY DEF MmCheckHeap
<1>5. NULL \in [ptr : Int, size : Nat]
  BY DEF NULL
<1>6. ASSUME Operational, NEW size \in Nat, NEW align \in Nat
      PROVE  LET a == Allocation(regions, size, align) IN
             /\ AllSound(a.regs) /\ a.obj \in [ptr : Int, size : Nat] /\ a.panic \in BOOLEAN
  BY <1>1, <1>3, <1>6, AllocationSound
<1>7. ASSUME NEW g \in Ranges, NEW clear \in SUBSET UncertainSlots(g), CreateRegion(g, clear)
      PROVE  IInv'
  <2> DEFINE absent == {i \in RegionIds : ~Present(regions[i])}
  <2>1. AllSound(regions')
    <3>1. CASE absent = {}
      BY <1>1, <1>7, <3>1 DEF CreateRegion
    <3>2. CASE absent # {}
      <4>1. regions' = [regions EXCEPT ![Min(absent)] = NewRegion(g, clear)]
        BY <1>7, <3>2 DEF CreateRegion
      <4>2. absent \in SUBSET Nat
        BY RegionIdsNat DEF RegionIdsAreNaturals
      <4>3. Min(absent) \in RegionIds
        BY <3>2, <4>2, MinIsLeast
      <4> HIDE DEF absent
      <4>4. QED
        BY <1>1, <4>1, <4>3, NewRegionSound, OneReplaced
    <3>3. QED
      BY <3>1, <3>2
  <2>2. held' = held /\ panicked' \in BOOLEAN
    BY <1>7 DEF CreateRegion
  <2>3. QED
    BY <1>1, <2>1, <2>2 DEF IInv, TypeOK, AllSound
<1>8. ASSUME NEW i \in RegionIds, DeleteRegion(i) PROVE IInv'
  <2>1. AllSound(regions')
    BY <1>1, <1>8, AbsentSound, OneReplaced DEF DeleteRegion
  <2>2. held' = held /\ panicked' = panicked
    BY <1>8 DEF DeleteRegion
  <2>3. QED
    BY <1>1, <2>1, <2>2 DEF IInv, TypeOK, AllSound
<1>9. ASSUME NEW c \in Clients, NEW size \in Sizes, NEW align \in Aligns,
             Allocate(c, size, align)
      PROVE  IInv'
  <2> DEFINE a == Allocation(regions, size, align)
  <2>1. /\ AllSound(a.regs) /\ a.obj \in [ptr : Int, size : Nat] /\ a.panic \in BOOLEAN
    BY <1>2, <1>6, <1>9 DEF Allocate
  <2>2. Settle(a.panic, a.regs, c, a.obj)
    BY <1>9 DEF Allocate
  <2> HIDE DEF a
  <2>3. QED
    BY <2>1, <2>2, SettleIInv
<1>10. ASSUME NEW c \in Clients, NEW size \in Sizes, AllocateZero(c, size) PROVE IInv'
  <2> DEFINE a == Allocation(regions, size, 0)
             panic == a.panic \/ a.obj = NULL
  <2>1. /\ AllSound(a.regs) /\ a.obj \in [ptr : Int, size : Nat] /\ a.panic \in BOOLEAN
    BY <1>2, <1>6, <1>10 DEF AllocateZero
  <2>2. Settle(panic, a.regs, c, a.obj)
    BY <1>10 DEF AllocateZero
  <2>3. panic \in BOOLEAN
    BY <2>1
  <2> HIDE DEF a, panic
  <2>4. QED
    BY <2>1, <2>2, <2>3, SettleIInv
<1>11. ASSUME NEW c \in Clients, NEW size \in Sizes, Reallocate(c, size) PROVE IInv'
  <2> DEFINE a == Allocation(regions, size, 0)
             p == held[c].ptr
  <2>1. /\ AllSound(a.regs) /\ a.obj \in [ptr : Int, size : Nat] /\ a.panic \in BOOLEAN
    BY <1>2, <1>6, <1>11 DEF Reallocate
  <2>2. IF a.obj = NULL
        THEN Settle(a.panic, regions, c, held[c])
        ELSE Settle(a.panic \/ FreePanics(a.regs, p), Freed(a.regs, p), c, a.obj)
    BY <1>11 DEF Reallocate
  <2>3. held[c] \in [ptr : Int, size : Nat]
    BY <1>1
  <2> HIDE DEF a, p
  <2>4. CASE a.obj = NULL
    BY <1>1, <2>1, <2>2, <2>3, <2>4, SettleIInv
  <2>5. CASE a.obj # NULL
    <3> DEFINE panic == a.panic \/ FreePanics(a.regs, p)
    <3>1. panic \in BOOLEAN
      BY <2>1 DEF FreePanics
    <3>2. AllSound(Freed(a.regs, p))
      BY <2>1, FreedSound
    <3>3. Settle(panic, Freed(a.regs, p), c, a.obj)
      BY <2>2, <2>5
    <3> HIDE DEF panic
    <3>4. QED
      BY <2>1, <3>1, <3>2, <3>3, SettleIInv
  <2>6. QED
    BY <2>4, <2>5
<1>12. ASSUME NEW c \in Clients, Free(c) PROVE IInv'
  <2> DEFINE p == held[c].ptr
             panic == FreePanics(regions, p)
  <2>1. Settle(panic, Freed(regions, p), c, NULL)
    BY <1>12 DEF Free
  <2>2. panic \in BOOLEAN
    BY DEF FreePanics
  <2>3. AllSound(Freed(regions, p))
    BY <1>1, FreedSound
  <2> HIDE DEF p, panic
  <2>4. QED
    BY <1>5, <2>1, <2>2, <2>3, SettleIInv
<1>13. CASE Stopped \/ UNCHANGED vars
  BY <1>13 DEF Stopped, vars, IInv, TypeOK
<1>14. QED
  BY <1>7, <1>8, <1>9, <1>10, <1>11, <1>12, <1>13 DEF Next, Setup, Calls

\* The invariant holds in every reachable state.
LEMMA Invariance == Spec => []IInv
  BY InitIInv, NextIInv, PTL DEF Spec

----------------------------------------------------------------------------
(* Careful callers.  What the blocks of a region say beyond the invariant  *)
(* above: the table is in use, no size has wrapped, and the used blocks    *)
(* behind the table are objects.                                           *)

Tidy(r) ==
  Present(r) =>
    /\ r.blocks[1].flag = "USED"
    /\ \A j \in 1 .. Len(r.blocks) : r.blocks[j].size >= 0
    /\ \A j \in 2 .. Len(r.blocks) : r.blocks[j].flag = "USED" => r.blocks[j].size > 0

\* Block b is used for the object o.
IsObject(b, o) == b.flag = "USED" /\ b.addr = o.ptr /\ b.size = o.size

\* A block of the region behind the table, other than block i, is used for o.
HoldsBut(r, i, o) == \E j \in 2 .. Len(r.blocks) : j # i /\ IsObject(r.blocks[j], o)
Holds(r, o) == \E j \in 2 .. Len(r.blocks) : IsObject(r.blocks[j], o)
InUse(regs, o) == \E i \in RegionIds : Holds(regs[i], o)

RegionsApart(regs) ==
  \A i, k \in RegionIds :
    i # k => ~Overlap(regs[i].base, regs[i].size, regs[k].base, regs[k].size)

Neat(regs) == AllSound(regs) /\ RegionsApart(regs) /\ \A i \in RegionIds : Tidy(regs[i])

\* The blocks of a region follow each other: one that comes later in the list starts at or
\* after the end of one that comes earlier.
LEMMA BlocksInOrder ==
  ASSUME NEW r \in Region, EndToEnd(r), Tidy(r), NEW k \in 1 .. Len(r.blocks)
  PROVE  \A j \in 1 .. Len(r.blocks) :
           k < j => r.blocks[k].addr + r.blocks[k].size <= r.blocks[j].addr
<1> DEFINE q == r.blocks
           m == Len(q)
           e == q[k].addr + q[k].size
<1>1. /\ m \in Nat /\ m >= 1 /\ k \in 1 .. m /\ Present(r) /\ e \in Int
      /\ \A j \in 1 .. m : q[j].addr \in Int /\ q[j].size \in Int
  BY RegionParts
<1>2. /\ \A j \in 1 .. m - 1 : q[j + 1].addr = q[j].addr + q[j].size
      /\ \A j \in 1 .. m : q[j].size >= 0
  BY <1>1 DEF EndToEnd, Tidy
<1> HIDE DEF q, m, e
<1> DEFINE P == {j \in Nat : j <= m /\ (k < j => e <= q[j].addr)}
<1>3. 0 \in P
  BY <1>1
<1>4. ASSUME NEW j \in 1 .. m, j - 1 \in P PROVE j \in P
  <2>1. CASE k < j - 1
    <3>1. j - 1 \in 1 .. m - 1 /\ j - 1 \in 1 .. m /\ (j - 1) + 1 = j
      BY <1>1, <2>1
    <3>2. q[j].addr = q[j - 1].addr + q[j - 1].size
      BY <1>2, <3>1
    <3>3. e <= q[j - 1].addr /\ q[j - 1].size >= 0
      BY <1>2, <1>4, <2>1, <3>1
    <3>4. QED
      BY <1>1, <3>1, <3>2, <3>3
  <2>2. CASE k = j - 1
    <3>1. j - 1 \in 1 .. m - 1 /\ (j - 1) + 1 = j
      BY <1>1, <2>2
    <3>2. q[j].addr = e
      BY <1>2, <2>2, <3>1 DEF e
    <3>3. QED
      BY <1>1, <3>2
  <2>3. CASE ~(k < j)
    BY <1>1, <2>3
  <2>4. k < j - 1 \/ k = j - 1 \/ ~(k < j)
    BY <1>1
  <2>5. QED
    BY <2>1, <2>2, <2>3, <2>4, Zenon
<1>5. \A j \in 0 .. m : j \in P
  BY <1>1, <1>3, <1>4, UpTo
<1>6. \A j \in 1 .. m : k < j => e <= q[j].addr
  BY <1>1, <1>5
<1>7. QED
  BY <1>6 DEF q, m, e

\* Every block lies in its region, and behind the table unless it is the table.
LEMMA BlocksInside ==
  ASSUME NEW r \in Region, EndToEnd(r), Tidy(r), NEW j \in 1 .. Len(r.blocks)
  PROVE  /\ r.base <= r.blocks[j].addr
         /\ r.blocks[j].addr + r.blocks[j].size <= r.base + r.size
         /\ j # 1 => r.base + r.blocks[1].size <= r.blocks[j].addr
<1> DEFINE m == Len(r.blocks)
<1>1. /\ m \in Nat /\ m >= 1 /\ 1 \in 1 .. m /\ m \in 1 .. m /\ Present(r)
      /\ r.base \in Int /\ r.size \in Int
      /\ \A i \in 1 .. m : r.blocks[i].addr \in Int /\ r.blocks[i].size \in Int
  BY RegionParts
<1>2. /\ r.blocks[1].addr = r.base /\ r.blocks[m].addr + r.blocks[m].size = r.base + r.size
      /\ \A i \in 1 .. m : r.blocks[i].size >= 0
  BY <1>1 DEF EndToEnd, Tidy
<1>3. 1 < j => r.blocks[1].addr + r.blocks[1].size <= r.blocks[j].addr
  BY <1>1, BlocksInOrder
<1>4. j < m => r.blocks[j].addr + r.blocks[j].size <= r.blocks[m].addr
  BY <1>1, BlocksInOrder
<1> HIDE DEF m
<1>5. j \in 1 .. m
  BY DEF m
<1>6. r.base <= r.blocks[j].addr /\ (j # 1 => r.base + r.blocks[1].size <= r.blocks[j].addr)
  <2>1. CASE j = 1
    BY <1>1, <1>2, <2>1
  <2>2. CASE j # 1
    <3>1. 1 < j
      BY <1>5, <2>2
    <3>2. r.base + r.blocks[1].size <= r.blocks[j].addr
      BY <1>2, <1>3, <3>1
    <3>3. r.blocks[1].size >= 0
      BY <1>1, <1>2
    <3>4. QED
      BY <1>1, <1>5, <3>2, <3>3
  <2>3. QED
    BY <2>1, <2>2
<1>7. r.blocks[j].addr + r.blocks[j].size <= r.base + r.size
  <2>1. CASE j = m
    BY <1>1, <1>2, <2>1
  <2>2. CASE j # m
    <3>1. j < m
      BY <1>1, <1>5, <2>2
    <3>2. r.blocks[j].addr + r.blocks[j].size <= r.blocks[m].addr /\ r.blocks[m].size >= 0
      BY <1>1, <1>2, <1>4, <3>1
    <3>3. /\ r.blocks[j].addr \in Int /\ r.blocks[j].size \in Int
          /\ r.blocks[m].addr \in Int /\ r.blocks[m].size \in Int
      BY <1>1, <1>5
    <3>4. r.blocks[m].addr + r.blocks[m].size = r.base + r.size
      BY <1>2
    <3>5. QED
      BY Z3, <3>2, <3>3, <3>4
  <2>3. QED
    BY <2>1, <2>2
<1>8. QED
  BY <1>6, <1>7

\* Two used blocks behind the table that overlap, or begin at the same byte, are one.
LEMMA UsedBlocksApart ==
  ASSUME NEW r \in Region, EndToEnd(r), Tidy(r),
         NEW j \in 2 .. Len(r.blocks), NEW k \in 2 .. Len(r.blocks),
         r.blocks[j].flag = "USED", r.blocks[k].flag = "USED", j # k
  PROVE  /\ r.blocks[j].addr # r.blocks[k].addr
         /\ \/ r.blocks[j].addr + r.blocks[j].size <= r.blocks[k].addr
            \/ r.blocks[k].addr + r.blocks[k].size <= r.blocks[j].addr
<1> DEFINE m == Len(r.blocks)
<1>1. m \in Nat /\ Present(r) /\ j \in 1 .. m /\ k \in 1 .. m
  BY RegionParts
<1>2. /\ r.blocks[j].addr \in Int /\ r.blocks[j].size \in Int
      /\ r.blocks[k].addr \in Int /\ r.blocks[k].size \in Int
  BY <1>1, RegionParts
<1>3. r.blocks[j].size > 0 /\ r.blocks[k].size > 0
  BY <1>1 DEF Tidy
<1>4. j < k => r.blocks[j].addr + r.blocks[j].size <= r.blocks[k].addr
  BY <1>1, BlocksInOrder
<1>5. k < j => r.blocks[k].addr + r.blocks[k].size <= r.blocks[j].addr
  BY <1>1, BlocksInOrder
<1>6. j < k \/ k < j
  BY <1>1
<1>7. QED
  BY <1>2, <1>3, <1>4, <1>5, <1>6

\* An object is a run of bytes of its region behind the table (MmAllocatePhysical).
LEMMA ObjectInside ==
  ASSUME NEW r \in Region, EndToEnd(r), Tidy(r), NEW o, Holds(r, o)
  PROVE  /\ Present(r) /\ o.ptr \in Int /\ o.size \in Int /\ o.size > 0
         /\ r.base + r.blocks[1].size <= o.ptr /\ o.ptr + o.size <= r.base + r.size
         /\ r.blocks[1].size >= 0 /\ r.blocks[1].size \in Int
<1>1. PICK j \in 2 .. Len(r.blocks) : IsObject(r.blocks[j], o)
  BY DEF Holds
<1>2. Len(r.blocks) \in Nat /\ Present(r) /\ j \in 1 .. Len(r.blocks) /\ 1 \in 1 .. Len(r.blocks)
  BY RegionParts
<1>3. /\ r.blocks[j].addr \in Int /\ r.blocks[j].size \in Int
      /\ r.blocks[1].size \in Int
  BY <1>2, RegionParts
<1>4. r.blocks[j].flag = "USED" /\ r.blocks[j].addr = o.ptr /\ r.blocks[j].size = o.size
  BY <1>1 DEF IsObject
<1>5. r.blocks[j].size > 0 /\ r.blocks[1].size >= 0
  BY <1>2, <1>4 DEF Tidy
<1>6. /\ r.blocks[j].addr + r.blocks[j].size <= r.base + r.size
      /\ r.base + r.blocks[1].size <= r.blocks[j].addr
  BY <1>2, BlocksInside
<1>7. QED
  BY <1>2, <1>3, <1>4, <1>5, <1>6

\* Objects of two regions are apart, as the regions are, and objects of one region are
\* as well, as its blocks are.
LEMMA ObjectsApart ==
  ASSUME NEW regs, Neat(regs), NEW o, NEW q, InUse(regs, o), InUse(regs, q),
         o.ptr # q.ptr \/ o.size # q.size
  PROVE  o.ptr # q.ptr /\ (o.ptr + o.size <= q.ptr \/ q.ptr + q.size <= o.ptr)
<1>1. PICK i \in RegionIds : Holds(regs[i], o)
  BY DEF InUse
<1>2. PICK k \in RegionIds : Holds(regs[k], q)
  BY DEF InUse
<1>3. /\ regs[i] \in Region /\ EndToEnd(regs[i]) /\ Tidy(regs[i])
      /\ regs[k] \in Region /\ EndToEnd(regs[k]) /\ Tidy(regs[k])
  BY DEF Neat, AllSound, Sound
<1>4. CASE i = k
  <2>1. PICK j \in 2 .. Len(regs[i].blocks) : IsObject(regs[i].blocks[j], o)
    BY <1>1 DEF Holds
  <2>2. PICK l \in 2 .. Len(regs[i].blocks) : IsObject(regs[i].blocks[l], q)
    BY <1>2, <1>4 DEF Holds
  <2>3. j # l
    BY <2>1, <2>2 DEF IsObject
  <2>4. /\ regs[i].blocks[j].addr # regs[i].blocks[l].addr
        /\ \/ regs[i].blocks[j].addr + regs[i].blocks[j].size <= regs[i].blocks[l].addr
           \/ regs[i].blocks[l].addr + regs[i].blocks[l].size <= regs[i].blocks[j].addr
    BY <1>3, <2>1, <2>2, <2>3, UsedBlocksApart DEF IsObject
  <2>5. QED
    BY <2>1, <2>2, <2>4 DEF IsObject
<1>5. CASE i # k
  <2>1. /\ o.ptr \in Int /\ o.size \in Int /\ o.size > 0
        /\ regs[i].base + regs[i].blocks[1].size <= o.ptr
        /\ o.ptr + o.size <= regs[i].base + regs[i].size
        /\ regs[i].blocks[1].size >= 0 /\ regs[i].blocks[1].size \in Int
    BY <1>1, <1>3, ObjectInside
  <2>2. /\ q.ptr \in Int /\ q.size \in Int /\ q.size > 0
        /\ regs[k].base + regs[k].blocks[1].size <= q.ptr
        /\ q.ptr + q.size <= regs[k].base + regs[k].size
        /\ regs[k].blocks[1].size >= 0 /\ regs[k].blocks[1].size \in Int
    BY <1>2, <1>3, ObjectInside
  <2>3. /\ regs[i].base \in Int /\ regs[i].size \in Int
        /\ regs[k].base \in Int /\ regs[k].size \in Int
    BY <1>3, RegionParts
  <2>4. \/ regs[i].base >= regs[k].base + regs[k].size
        \/ regs[k].base >= regs[i].base + regs[i].size
    BY <1>5, <2>3 DEF Neat, RegionsApart, Overlap
  <2>5. QED
    BY <2>1, <2>2, <2>3, <2>4
<1>6. QED
  BY <1>4, <1>5

\* A split (MmSplitBlock) for which there is a descriptor makes no size wrap and leaves the
\* objects of the other blocks alone: the table grows into a free block, and never by more
\* than that block holds.
LEMMA SplitTidy ==
  ASSUME NEW r \in Region, EndToEnd(r), SlotsSound(r), Tidy(r), TableUsed(r),
         NEW i \in 2 .. Len(r.blocks), NEW n \in Int,
         NEW flag \in {"FREE", "USED"}, NEW restFlag \in {"FREE", "USED"},
         0 <= n, n <= r.blocks[i].size,
         flag = "USED" => 0 < n, restFlag = "USED" => n < r.blocks[i].size,
         CanCreateBlock(Cut(r, i, n, flag))
  PROVE  LET c == SplitBlock(r, i, n, flag, restFlag) IN
         /\ Tidy(c)
         /\ flag = "USED" => c.blocks[i].addr = r.blocks[i].addr /\ c.blocks[i].size = n
         /\ c.blocks[i + 1].addr = r.blocks[i].addr + n
         /\ c.blocks[i + 1].size = r.blocks[i].size - n
         /\ flag = "FREE" => \A o : HoldsBut(c, i + 1, o) <=> HoldsBut(r, i, o)
         /\ restFlag = "FREE" => \A o : HoldsBut(c, i, o) <=> HoldsBut(r, i, o)
<1> DEFINE m == Len(r.blocks)
           h == Cut(r, i, n, flag)
           c == SplitBlock(r, i, n, flag, restFlag)
<1>1. /\ m \in Nat /\ m >= 2 /\ i \in 2 .. m /\ i \in 1 .. m /\ Present(r)
      /\ \A j \in 1 .. m :
           /\ r.blocks[j].addr \in Int /\ r.blocks[j].size \in Int
           /\ r.blocks[j].flag \in {"FREE", "USED"}
  <2>1. m \in Nat /\ m >= 2
    BY RegionParts DEF SlotsSound
  <2>2. i \in 1 .. m
    BY <2>1
  <2>3. QED
    BY <2>1, <2>2, RegionParts DEF TableUsed
<1>2. /\ TableUsed(c) /\ Len(c.blocks) = m + 1
      /\ \A j \in 1 .. m + 1 :
           c.blocks[j].flag = IF j < i THEN r.blocks[j].flag
                              ELSE IF j = i THEN flag
                              ELSE IF j = i + 1 THEN restFlag ELSE r.blocks[j - 1].flag
      /\ SplitPlaces(r, i, n, c)
  <2>1. /\ TableUsed(c) /\ Len(c.blocks) = m + 1
        /\ SplitFlags(r, i, flag, restFlag, c) /\ SplitPlaces(r, i, n, c)
    BY SplitSound
  <2>2. QED
    BY <2>1, Zenon DEF SplitFlags
<1>3. PICK d \in Nat : /\ d = IF r.spare # {} THEN 0 ELSE Growth
                       /\ \A j \in 1 .. m + 1 : SplitPlace(r, i, n, d, c, j)
  BY <1>2 DEF SplitPlaces
<1>4. /\ h.spare = r.spare
      /\ h.blocks[2].size = IF 2 = i THEN n ELSE r.blocks[2].size
      /\ h.blocks[2].flag = IF 2 = i THEN flag ELSE r.blocks[2].flag
  <2>1. 2 \in 1 .. m /\ i \in 1 .. Len(r.blocks)
    BY <1>1
  <2>2. IsCut(r, i, n, flag, h)
    BY <2>1, CutIs
  <2> HIDE DEF h
  <2>3. QED
    BY <2>1, <2>2 DEF IsCut
<1>5. CanCreateBlock(h)
  OBVIOUS
<1> HIDE DEF h, c, m
<1>6. \/ d = 0
      \/ d > 0 /\ i = 2 /\ flag = "FREE" /\ d <= n
      \/ d > 0 /\ i # 2 /\ r.blocks[2].flag = "FREE" /\ d <= r.blocks[2].size
  <2>1. CASE r.spare # {}
    BY <1>3, <2>1
  <2>2. CASE r.spare = {}
    <3>1. d = Growth
      BY <1>3, <2>2
    <3>2. h.blocks[2].flag = "FREE" /\ ~Below(h.blocks[2].size, d)
      BY <1>4, <1>5, <2>2, <3>1 DEF CanCreateBlock
    <3>3. r.blocks[2].size >= 0 /\ r.blocks[2].size \in Int
      BY <1>1 DEF Tidy, m
    <3>4. h.blocks[2].size >= 0 /\ h.blocks[2].size \in Int
      BY <1>4, <3>3
    <3>5. d <= h.blocks[2].size
      BY <3>2, <3>4 DEF Below
    <3>6. QED
      BY <1>4, <3>2, <3>5
  <2>3. QED
    BY <2>1, <2>2
<1>7. ASSUME NEW j \in 2 .. m + 1, j # i, j # i + 1
      PROVE  /\ j < i =>
                  /\ j \in 2 .. m /\ c.blocks[j].flag = r.blocks[j].flag
                  /\ c.blocks[j].size >= 0
                  /\ c.blocks[j].flag = "USED" =>
                       /\ c.blocks[j].addr = r.blocks[j].addr
                       /\ c.blocks[j].size = r.blocks[j].size
             /\ j > i =>
                  /\ j - 1 \in 2 .. m /\ j - 1 # i
                  /\ c.blocks[j].flag = r.blocks[j - 1].flag
                  /\ c.blocks[j].addr = r.blocks[j - 1].addr
                  /\ c.blocks[j].size = r.blocks[j - 1].size
                  /\ c.blocks[j].size >= 0
  <2>1. j \in 1 .. m + 1 /\ SplitPlace(r, i, n, d, c, j)
    BY <1>1, <1>3
  <2>2. \A k \in 1 .. m : r.blocks[k].size >= 0
    BY <1>1 DEF Tidy, m
  <2>3. CASE j < i
    <3>1. j \in 2 .. m /\ j \in 1 .. m /\ j # 1
      BY <1>1, <2>3
    <3>2. c.blocks[j].flag = r.blocks[j].flag
      BY <1>2, <2>1, <2>3
    <3>3. /\ c.blocks[j].addr = r.blocks[j].addr + (IF j = 2 THEN d ELSE 0)
          /\ c.blocks[j].size = r.blocks[j].size + (IF j = 2 THEN -d ELSE 0)
      BY <1>1, <2>1, <2>3, <3>1 DEF SplitPlace
    <3>4. /\ r.blocks[j].size >= 0 /\ r.blocks[j].size \in Int /\ r.blocks[j].addr \in Int
      BY <1>1, <2>2, <3>1
    <3>5. CASE j = 2
      <4>1. i # 2
        BY <2>3, <3>5
      <4>2. QED
        BY <1>6, <2>3, <3>1, <3>2, <3>3, <3>4, <3>5, <4>1
    <3>6. CASE j # 2
      BY <2>3, <3>1, <3>2, <3>3, <3>4, <3>6
    <3>7. QED
      BY <3>5, <3>6
  <2>4. CASE j > i
    <3>1. /\ j - 1 \in 2 .. m /\ j - 1 \in 1 .. m /\ j - 1 # i
          /\ ~(j <= i) /\ ~(j < i) /\ j # i /\ j # i + 1
      BY <1>1, <1>7, <2>4
    <3>2. c.blocks[j].flag = r.blocks[j - 1].flag
      BY <1>2, <2>1, <3>1
    <3>3. c.blocks[j].addr = r.blocks[j - 1].addr /\ c.blocks[j].size = r.blocks[j - 1].size
      BY <2>1, <3>1 DEF SplitPlace
    <3>4. r.blocks[j - 1].size >= 0
      BY <2>2, <3>1
    <3>5. QED
      BY <3>1, <3>2, <3>3, <3>4
  <2>5. j < i \/ j > i
    BY <1>1, <1>7
  <2>6. QED
    BY <1>1, <2>3, <2>4, <2>5
<1>8. /\ c.blocks[i].flag = flag /\ c.blocks[i].size = n + (IF i = 2 THEN -d ELSE 0)
      /\ c.blocks[i].addr = r.blocks[i].addr + (IF i = 2 THEN d ELSE 0)
  <2>1. i \in 1 .. m + 1 /\ SplitPlace(r, i, n, d, c, i) /\ ~(i < i) /\ i <= i
    BY <1>1, <1>3
  <2>2. QED
    BY <1>2, <2>1 DEF SplitPlace
<1>9. /\ c.blocks[i + 1].flag = restFlag /\ c.blocks[i + 1].size = r.blocks[i].size - n
      /\ c.blocks[i + 1].addr = r.blocks[i].addr + n
  <2> DEFINE k == i + 1
  <2>1. k \in 1 .. m + 1 /\ ~(k < i) /\ ~(k <= i) /\ k # i /\ k = i + 1
    BY <1>1
  <2> HIDE DEF k
  <2>2. SplitPlace(r, i, n, d, c, k)
    BY <1>3, <2>1
  <2>3. c.blocks[k].flag = restFlag
    BY <1>2, <2>1
  <2>4. c.blocks[k].size = r.blocks[i].size - n /\ c.blocks[k].addr = r.blocks[i].addr + n
    BY <2>1, <2>2 DEF SplitPlace
  <2>5. QED
    BY <2>3, <2>4 DEF k
<1>10. r.blocks[i].size \in Int /\ r.blocks[i].addr \in Int
  BY <1>1
<1>11. flag = "USED" => c.blocks[i].addr = r.blocks[i].addr /\ c.blocks[i].size = n
  <2>1. flag = "USED" => i # 2 \/ d = 0
    BY <1>6
  <2>2. QED
    BY <1>8, <1>10, <2>1
<1>12. Tidy(c)
  <2>1. c.blocks[1].flag = "USED"
    BY <1>2 DEF TableUsed
  <2>2. c.blocks[i].size >= 0 /\ c.blocks[i + 1].size >= 0
    BY <1>6, <1>8, <1>9, <1>10
  <2>3. c.blocks[1].size >= 0
    <3>1. SplitPlace(r, i, n, d, c, 1) /\ 1 < i /\ 1 \in 1 .. m
      BY <1>1, <1>3
    <3>2. r.blocks[1].size >= 0 /\ r.blocks[1].size \in Int
      BY <1>1, <3>1 DEF Tidy, m
    <3>3. c.blocks[1].size = r.blocks[1].size + d
      BY <3>1 DEF SplitPlace
    <3>4. QED
      BY <3>2, <3>3
  <2>4. \A j \in 1 .. m + 1 : c.blocks[j].size >= 0
    <3> TAKE j \in 1 .. m + 1
    <3>1. CASE j = 1 \/ j = i \/ j = i + 1
      BY <2>2, <2>3, <3>1
    <3>2. CASE j # 1 /\ j # i /\ j # i + 1
      <4>1. j \in 2 .. m + 1 /\ (j < i \/ j > i)
        BY <1>1, <3>2
      <4>2. QED
        BY <1>7, <3>2, <4>1
    <3>3. QED
      BY <3>1, <3>2
  <2>5. ASSUME NEW j \in 2 .. m + 1, c.blocks[j].flag = "USED" PROVE c.blocks[j].size > 0
    <3>1. \A k \in 2 .. m : r.blocks[k].flag = "USED" => r.blocks[k].size > 0
      BY <1>1 DEF Tidy, m
    <3>2. CASE j = i
      BY <1>8, <1>11, <2>5, <3>2
    <3>3. CASE j = i + 1
      BY <1>9, <1>10, <2>5, <3>3
    <3>4. CASE j # i /\ j # i + 1
      <4>1. j < i \/ j > i
        BY <1>1, <3>4
      <4>2. QED
        BY <1>7, <2>5, <3>1, <3>4, <4>1
    <3>5. QED
      BY <3>2, <3>3, <3>4
  <2>6. QED
    BY <1>2, <2>1, <2>4, <2>5 DEF Tidy
<1>13. ASSUME NEW o, NEW x \in {i, i + 1}, c.blocks[IF x = i THEN i + 1 ELSE i].flag = "FREE"
       PROVE  HoldsBut(c, x, o) <=> HoldsBut(r, i, o)
  <2>1. HoldsBut(c, x, o) => HoldsBut(r, i, o)
    <3> SUFFICES ASSUME HoldsBut(c, x, o) PROVE HoldsBut(r, i, o)
      OBVIOUS
    <3>1. PICK j \in 2 .. m + 1 : j # x /\ IsObject(c.blocks[j], o)
      BY <1>2 DEF HoldsBut
    <3>2. j # i /\ j # i + 1
      BY <1>13, <3>1 DEF IsObject
    <3>3. CASE j < i
      <4>1. j \in 2 .. m /\ IsObject(r.blocks[j], o)
        BY <1>7, <3>1, <3>2, <3>3 DEF IsObject
      <4>2. QED
        BY <3>2, <4>1 DEF HoldsBut, m
    <3>4. CASE j > i
      <4>1. j - 1 \in 2 .. m /\ j - 1 # i /\ IsObject(r.blocks[j - 1], o)
        BY <1>7, <3>1, <3>2, <3>4 DEF IsObject
      <4>2. QED
        BY <4>1 DEF HoldsBut, m
    <3>5. j < i \/ j > i
      BY <1>1, <3>2
    <3>6. QED
      BY <3>3, <3>4, <3>5
  <2>2. HoldsBut(r, i, o) => HoldsBut(c, x, o)
    <3> SUFFICES ASSUME HoldsBut(r, i, o) PROVE HoldsBut(c, x, o)
      OBVIOUS
    <3>1. PICK j \in 2 .. m : j # i /\ IsObject(r.blocks[j], o)
      BY DEF HoldsBut, m
    <3>2. CASE j < i
      <4>1. j \in 2 .. m + 1 /\ j # i + 1 /\ j # x
        BY <1>1, <3>2
      <4>2. c.blocks[j].flag = r.blocks[j].flag
        BY <1>7, <3>1, <3>2, <4>1
      <4>3. c.blocks[j].addr = r.blocks[j].addr /\ c.blocks[j].size = r.blocks[j].size
        BY <1>7, <3>1, <3>2, <4>1, <4>2 DEF IsObject
      <4>4. QED
        BY <1>2, <3>1, <4>1, <4>2, <4>3 DEF HoldsBut, IsObject
    <3>3. CASE j > i
      <4> DEFINE l == j + 1
      <4>1. l \in 2 .. m + 1 /\ l # i /\ l # i + 1 /\ l # x /\ l > i /\ l - 1 = j
        BY <1>1, <3>3
      <4> HIDE DEF l
      <4>2. /\ c.blocks[l].flag = r.blocks[j].flag /\ c.blocks[l].addr = r.blocks[j].addr
            /\ c.blocks[l].size = r.blocks[j].size
        BY <1>7, <4>1
      <4>3. QED
        BY <1>2, <3>1, <4>1, <4>2 DEF HoldsBut, IsObject
    <3>4. j < i \/ j > i
      BY <1>1, <3>1
    <3>5. QED
      BY <3>2, <3>3, <3>4
  <2>3. QED
    BY <2>1, <2>2
<1>14. flag = "FREE" => \A o : HoldsBut(c, i + 1, o) <=> HoldsBut(r, i, o)
  <2> SUFFICES ASSUME flag = "FREE", NEW o
               PROVE  HoldsBut(c, i + 1, o) <=> HoldsBut(r, i, o)
    OBVIOUS
  <2>1. i + 1 # i
    BY <1>1
  <2>2. c.blocks[IF i + 1 = i THEN i + 1 ELSE i].flag = "FREE"
    BY <1>8, <2>1
  <2>3. QED
    BY <1>13, <2>2
<1>15. restFlag = "FREE" => \A o : HoldsBut(c, i, o) <=> HoldsBut(r, i, o)
  BY <1>9, <1>13
<1>16. QED
  BY <1>9, <1>11, <1>12, <1>14, <1>15 DEF c

\* Coalescing two free blocks behind the table leaves every object where it is.
LEMMA AbsorbTidy ==
  ASSUME NEW r \in Region, EndToEnd(r), TableSound(r), Tidy(r),
         NEW i \in 2 .. Len(r.blocks) - 1,
         r.blocks[i].flag = "FREE", r.blocks[i + 1].flag = "FREE"
  PROVE  LET c == AbsorbNext(r, i) IN
         Tidy(c) /\ \A o : Holds(c, o) <=> Holds(r, o)
<1> DEFINE m == Len(r.blocks)
           c == AbsorbNext(r, i)
<1>1. /\ m \in Nat /\ i \in 2 .. m - 1 /\ Present(r)
      /\ \A j \in 1 .. m : r.blocks[j].size \in Int
  <2>1. m \in Nat
    BY RegionParts
  <2>2. i \in 1 .. m
    BY <2>1
  <2>3. QED
    BY <2>1, <2>2, RegionParts
<1>2. /\ Len(c.blocks) = m - 1
      /\ \A j \in 1 .. m - 1 :
           /\ c.blocks[j].flag = IF j <= i THEN r.blocks[j].flag ELSE r.blocks[j + 1].flag
           /\ c.blocks[j].addr = IF j <= i THEN r.blocks[j].addr ELSE r.blocks[j + 1].addr
           /\ c.blocks[j].size = IF j < i THEN r.blocks[j].size
                                 ELSE IF j = i THEN r.blocks[i].size + r.blocks[i + 1].size
                                 ELSE r.blocks[j + 1].size
  <2>1. i \in 1 .. Len(r.blocks) - 1
    BY <1>1
  <2>2. QED
    BY <2>1, AbsorbSound
<1>3. /\ r.blocks[1].flag = "USED" /\ \A j \in 1 .. m : r.blocks[j].size >= 0
      /\ \A j \in 2 .. m : r.blocks[j].flag = "USED" => r.blocks[j].size > 0
  BY <1>1 DEF Tidy
<1> HIDE DEF c, m
<1>4. /\ c.blocks[i].flag = "FREE" /\ c.blocks[i].size = r.blocks[i].size + r.blocks[i + 1].size
      /\ c.blocks[1].flag = "USED" /\ c.blocks[1].size = r.blocks[1].size
  BY <1>1, <1>2, <1>3
<1>5. ASSUME NEW j \in 2 .. m - 1, j < i
      PROVE  /\ j \in 2 .. m /\ c.blocks[j].flag = r.blocks[j].flag
             /\ c.blocks[j].addr = r.blocks[j].addr /\ c.blocks[j].size = r.blocks[j].size
  <2>1. j \in 1 .. m - 1 /\ j <= i /\ j \in 2 .. m
    BY <1>1, <1>5
  <2>2. QED
    BY <1>2, <1>5, <2>1
<1>6. ASSUME NEW j \in 2 .. m - 1, j > i
      PROVE  /\ j + 1 \in 2 .. m /\ c.blocks[j].flag = r.blocks[j + 1].flag
             /\ c.blocks[j].addr = r.blocks[j + 1].addr /\ c.blocks[j].size = r.blocks[j + 1].size
  <2>1. j \in 1 .. m - 1 /\ ~(j <= i) /\ ~(j < i) /\ j # i /\ j + 1 \in 2 .. m
    BY <1>1, <1>6
  <2>2. QED
    BY <1>2, <2>1
<1>7. Tidy(c)
  <2>1. ASSUME NEW j \in 2 .. m - 1
        PROVE  c.blocks[j].size >= 0 /\ (c.blocks[j].flag = "USED" => c.blocks[j].size > 0)
    <3>1. CASE j = i
      <4>1. i \in 1 .. m /\ i + 1 \in 1 .. m
        BY <1>1
      <4>2. r.blocks[i].size + r.blocks[i + 1].size >= 0
        BY <1>1, <1>3, <4>1
      <4>3. QED
        BY <1>4, <3>1, <4>2
    <3>2. CASE j < i
      <4>1. j \in 1 .. m
        BY <1>1, <3>2
      <4>2. QED
        BY <1>3, <1>5, <3>2, <4>1
    <3>3. CASE j > i
      <4> DEFINE l == j + 1
      <4>1. l \in 1 .. m /\ l \in 2 .. m
        BY <1>1, <3>3
      <4>2. c.blocks[j].flag = r.blocks[l].flag /\ c.blocks[j].size = r.blocks[l].size
        BY <1>6, <3>3
      <4> HIDE DEF l
      <4>3. QED
        BY <1>3, <4>1, <4>2
    <3>4. j = i \/ j < i \/ j > i
      BY <1>1
    <3>5. QED
      BY <3>1, <3>2, <3>3, <3>4
  <2>2. c.blocks[1].size >= 0
    BY <1>1, <1>3, <1>4
  <2>3. \A j \in 1 .. m - 1 : c.blocks[j].size >= 0
    BY <1>1, <2>1, <2>2
  <2>4. QED
    BY <1>2, <1>4, <2>1, <2>3 DEF Tidy
<1>8. ASSUME NEW o, Holds(c, o) PROVE Holds(r, o)
  <2>1. PICK j \in 2 .. m - 1 : IsObject(c.blocks[j], o)
    BY <1>2, <1>8 DEF Holds
  <2>2. j # i
    BY <1>4, <2>1 DEF IsObject
  <2>3. CASE j < i
    BY <1>5, <2>1, <2>3 DEF Holds, IsObject, m
  <2>4. CASE j > i
    <3>1. j + 1 \in 2 .. m /\ IsObject(r.blocks[j + 1], o)
      BY <1>6, <2>1, <2>4 DEF IsObject
    <3>2. QED
      BY <3>1 DEF Holds, m
  <2>5. j < i \/ j > i
    BY <1>1, <2>2
  <2>6. QED
    BY <2>3, <2>4, <2>5
<1>9. ASSUME NEW o, Holds(r, o) PROVE Holds(c, o)
  <2>1. PICK j \in 2 .. m : IsObject(r.blocks[j], o)
    BY <1>9 DEF Holds, m
  <2>2. j # i /\ j # i + 1
    BY <2>1 DEF IsObject
  <2>3. CASE j < i
    <3>1. j \in 2 .. m - 1
      BY <1>1, <2>3
    <3>2. IsObject(c.blocks[j], o)
      BY <1>5, <2>1, <2>3, <3>1 DEF IsObject
    <3>3. QED
      BY <1>2, <3>1, <3>2 DEF Holds
  <2>4. CASE j > i
    <3> DEFINE l == j - 1
    <3>1. l \in 2 .. m - 1 /\ l > i /\ l + 1 = j
      BY <1>1, <2>2, <2>4
    <3> HIDE DEF l
    <3>2. IsObject(c.blocks[l], o)
      BY <1>6, <2>1, <3>1 DEF IsObject
    <3>3. QED
      BY <1>2, <3>1, <3>2 DEF Holds
  <2>5. j < i \/ j > i
    BY <1>1, <2>2
  <2>6. QED
    BY <2>3, <2>4, <2>5
<1>10. QED
  BY <1>7, <1>8, <1>9 DEF c

\* A used block that follows a free one is released (MmFreePhysical): its object is gone,
\* all others stay.
LEMMA ReleasedTidy ==
  ASSUME NEW r \in Region, EndToEnd(r), TableSound(r), Tidy(r),
         NEW j \in 3 .. Len(r.blocks), r.blocks[j - 1].flag = "FREE"
  PROVE  LET c == Released(r, j) IN
         /\ Tidy(c) /\ c \in Region /\ Present(c) /\ c.base = r.base /\ c.size = r.size
         /\ \A o : Holds(c, o) <=> HoldsBut(r, j, o)
<1> DEFINE m == Len(r.blocks)
           f == [r EXCEPT !.blocks[j].flag = "FREE"]
           a == IF j < Len(f.blocks) /\ f.blocks[j + 1].flag = "FREE"
                THEN AbsorbNext(f, j) ELSE f
           c == IF j > 1 /\ a.blocks[j - 1].flag = "FREE" THEN AbsorbNext(a, j - 1) ELSE a
           Good(x) == /\ x \in Region /\ EndToEnd(x) /\ TableSound(x) /\ Tidy(x)
                      /\ x.base = r.base /\ x.size = r.size
                      /\ \A o : Holds(x, o) <=> HoldsBut(r, j, o)
<1>1. Released(r, j) = c
  BY DEF Released
<1>2. m \in Nat /\ j \in 1 .. m /\ j \in 3 .. m /\ Present(r)
  <2>1. m \in Nat
    BY RegionParts
  <2>2. QED
    BY <2>1, RegionParts
<1>3. /\ f \in Region /\ EndToEnd(f) /\ TableSound(f) /\ Len(f.blocks) = m
      /\ f.base = r.base /\ f.size = r.size
      /\ \A k \in 1 .. m :
           /\ f.blocks[k].flag = IF k = j THEN "FREE" ELSE r.blocks[k].flag
           /\ f.blocks[k].size = r.blocks[k].size /\ f.blocks[k].addr = r.blocks[k].addr
  BY <1>2, FlagSound
<1> HIDE DEF m, f
<1>4. Good(f)
  <2>1. Tidy(f)
    <3>1. /\ r.blocks[1].flag = "USED" /\ \A k \in 1 .. m : r.blocks[k].size >= 0
          /\ \A k \in 2 .. m : r.blocks[k].flag = "USED" => r.blocks[k].size > 0
      BY <1>2 DEF Tidy, m
    <3>2. f.blocks[1].flag = "USED" /\ \A k \in 1 .. m : f.blocks[k].size >= 0
      <4>1. 1 \in 1 .. m /\ 1 # j
        BY <1>2
      <4>2. f.blocks[1].flag = "USED"
        BY <1>3, <3>1, <4>1, Zenon
      <4>3. \A k \in 1 .. m : f.blocks[k].size >= 0
        BY <1>3, <3>1, Zenon
      <4>4. QED
        BY <4>2, <4>3, Zenon
    <3>3. \A k \in 2 .. m : f.blocks[k].flag = "USED" => f.blocks[k].size > 0
      <4>1. ASSUME NEW k \in 2 .. m, f.blocks[k].flag = "USED" PROVE f.blocks[k].size > 0
        <5>1. k \in 1 .. m
          BY <1>2
        <5>2. k # j /\ f.blocks[k].flag = r.blocks[k].flag /\ f.blocks[k].size = r.blocks[k].size
          BY <1>3, <4>1, <5>1
        <5>3. QED
          BY <3>1, <4>1, <5>2, Zenon
      <4>2. QED
        BY <4>1, Zenon
    <3>4. QED
      BY <1>3, <3>2, <3>3 DEF Tidy
  <2>2. \A k \in 2 .. m : \A o : IsObject(f.blocks[k], o) <=> k # j /\ IsObject(r.blocks[k], o)
    BY <1>2, <1>3 DEF IsObject
  <2>3. \A o : Holds(f, o) <=> HoldsBut(r, j, o)
    BY <1>3, <2>2 DEF Holds, HoldsBut, m
  <2>4. QED
    BY <1>3, <2>1, <2>3
<1>5. f.blocks[j].flag = "FREE" /\ f.blocks[j - 1].flag = "FREE"
  BY <1>2, <1>3
<1>6. /\ Good(a) /\ Len(a.blocks) >= j /\ a.blocks[j].flag = "FREE"
      /\ a.blocks[j - 1].flag = "FREE"
  <2>1. CASE j < m /\ f.blocks[j + 1].flag = "FREE"
    <3>1. /\ a = AbsorbNext(f, j) /\ j \in 2 .. Len(f.blocks) - 1
          /\ j \in 1 .. Len(f.blocks) - 1 /\ f \in Region
          /\ EndToEnd(f) /\ TableSound(f) /\ Tidy(f)
      BY <1>2, <1>3, <1>4, <2>1
    <3> HIDE DEF a
    <3>2. Tidy(a) /\ \A o : Holds(a, o) <=> Holds(f, o)
      BY <1>5, <2>1, <3>1, AbsorbTidy
    <3>3. /\ a \in Region /\ EndToEnd(a) /\ TableSound(a)
          /\ a.base = f.base /\ a.size = f.size /\ Len(a.blocks) = m - 1
          /\ \A k \in 1 .. m - 1 :
               a.blocks[k].flag = IF k <= j THEN f.blocks[k].flag ELSE f.blocks[k + 1].flag
      BY <1>3, <1>5, <3>1, AbsorbSound, Zenon
    <3>4. Good(a)
      BY <1>4, <3>2, <3>3
    <3>5. j \in 1 .. m - 1 /\ j - 1 \in 1 .. m - 1 /\ j <= j /\ j - 1 <= j
      BY <1>2, <2>1
    <3>6. a.blocks[j].flag = "FREE" /\ a.blocks[j - 1].flag = "FREE"
      BY <1>5, <3>3, <3>5
    <3>7. QED
      BY <3>3, <3>4, <3>5, <3>6
  <2>2. CASE ~(j < m /\ f.blocks[j + 1].flag = "FREE")
    <3>1. a = f
      BY <1>3, <2>2
    <3>2. QED
      BY <1>2, <1>3, <1>4, <1>5, <3>1
  <2>3. QED
    BY <2>1, <2>2
<1> HIDE DEF a
<1> DEFINE i == j - 1
<1>7. /\ c = AbsorbNext(a, i) /\ i \in 2 .. Len(a.blocks) - 1 /\ i \in 1 .. Len(a.blocks) - 1
      /\ a.blocks[i].flag = "FREE" /\ a.blocks[i + 1].flag = "FREE"
      /\ Len(a.blocks) - 1 >= 1
  <2>1. Len(a.blocks) \in Nat
    BY <1>6, RegionParts
  <2>2. i + 1 = j /\ j > 1
    BY <1>2
  <2>3. QED
    BY <1>2, <1>6, <2>1, <2>2
<1> HIDE DEF c, i
<1>8. Tidy(c) /\ \A o : Holds(c, o) <=> Holds(a, o)
  BY <1>6, <1>7, AbsorbTidy
<1>9. c \in Region /\ c.base = a.base /\ c.size = a.size /\ Len(c.blocks) = Len(a.blocks) - 1
  BY <1>6, <1>7, AbsorbSound
<1>10. Present(c)
  BY <1>7, <1>9, RegionParts
<1>11. QED
  BY <1>1, <1>6, <1>8, <1>9, <1>10

\* What lies beyond the last multiple of the alignment is less than the alignment.
LEMMA MisalignedSmall ==
  ASSUME NEW x \in Int, NEW align \in Nat
  PROVE  /\ Misaligned(x, align) \in Int /\ Misaligned(x, align) >= 0
         /\ align = 0 => Misaligned(x, align) = 0
         /\ align # 0 => Misaligned(x, align) <= align - 1
<1>1. CASE align = 0
  BY <1>1 DEF Misaligned
<1>2. CASE align # 0
  <2>1. x % align \in 0 .. align - 1
    BY <1>2
  <2>2. QED
    BY <1>2, <2>1 DEF Misaligned
<1>3. QED
  BY <1>1, <1>2

\* Where the first fit has room to round down, the object lies at the far end of the free
\* block and nothing below it wraps (MmAllocatePhysical).
LEMMA LeftFits ==
  ASSUME NEW b \in Block, NEW size \in Nat \ {0}, NEW align \in Nat, b.size >= 0,
         Fits(b, size, align), align = 0 \/ b.size >= size + align - 1
  PROVE  /\ LeftSize(b, size, align) \in Int /\ 0 <= LeftSize(b, size, align)
         /\ LeftSize(b, size, align) + size <= b.size
<1>1. b.size \in Int /\ b.addr \in Int
  BY DEF Block
<1>2. b.addr + b.size - size \in Int
  BY <1>1
<1> DEFINE x == Misaligned(b.addr + b.size - size, align)
           y == Misaligned(b.addr, align)
<1>3. /\ x \in Int /\ x >= 0 /\ (align = 0 => x = 0) /\ (align # 0 => x <= align - 1)
      /\ y \in Int /\ (align = 0 => y = 0)
  BY <1>1, <1>2, MisalignedSmall
<1>4. LeftSize(b, size, align) = b.size - size - x
  BY DEF LeftSize
<1>5. ~Below(b.size, size + y)
  BY DEF Fits
<1> HIDE DEF x, y
<1>6. align = 0 => b.size >= size
  BY <1>1, <1>3, <1>5 DEF Below
<1>7. QED
  BY <1>1, <1>3, <1>4, <1>6

IsCarved(r, i, size, v) ==
  /\ Tidy(v.reg) /\ v.reg \in Region /\ Present(v.reg)
  /\ v.reg.base = r.base /\ v.reg.size = r.size
  /\ v.ptr \in Int /\ r.blocks[i].addr <= v.ptr
  /\ v.ptr + size <= r.blocks[i].addr + r.blocks[i].size
  /\ \A o : Holds(v.reg, o) <=> Holds(r, o) \/ (o.ptr = v.ptr /\ o.size = size)

\* An allocation that finds its descriptors adds its object to those of the region, in
\* bytes that were free, and touches no other object.
LEMMA CarveTidy ==
  ASSUME NEW r \in Region, Sound(r), TableUsed(r), Tidy(r),
         NEW i \in 1 .. Len(r.blocks), NEW size \in Nat \ {0}, NEW align \in Nat,
         Fits(r.blocks[i], size, align),
         align = 0 \/ r.blocks[i].size >= size + align - 1,
         Carve(r, i, size, align).ok
  PROVE  IsCarved(r, i, size, Carve(r, i, size, align))
<1> DEFINE m == Len(r.blocks)
           b == r.blocks[i]
           left == LeftSize(b, size, align)
           k == IF left = 0 THEN i ELSE i + 1
           a == CarveLeft(r, i, left)
           c == CarveRight(a, k, size)
           ok1 == left = 0 \/ CanCreateBlock(Cut(r, i, left, "FREE"))
           ok2 == a.blocks[k].size = size \/ CanCreateBlock(a)
           v == Carve(r, i, size, align)
<1>1. /\ m \in Nat /\ i \in 2 .. m /\ b \in Block /\ b.addr \in Int /\ b.size \in Int
      /\ b.flag = "FREE" /\ b.size >= 0 /\ EndToEnd(r) /\ SlotsSound(r) /\ TableSound(r)
      /\ r.blocks[1].flag = "USED"
      /\ \A j \in 1 .. m : r.blocks[j].size \in Int /\ r.blocks[j].size >= 0
  <2>1. m \in Nat /\ b \in Block /\ b.addr \in Int /\ b.size \in Int
        /\ \A j \in 1 .. m : r.blocks[j].size \in Int
    BY RegionParts
  <2>2. /\ r.blocks[1].flag = "USED" /\ b.flag = "FREE"
        /\ \A j \in 1 .. m : r.blocks[j].size >= 0
    BY DEF TableUsed, Fits, Tidy
  <2>3. EndToEnd(r) /\ SlotsSound(r) /\ TableSound(r)
    BY DEF Sound, TableSound
  <2>4. i # 1
    BY <2>2
  <2>5. QED
    BY <2>1, <2>2, <2>3, <2>4
<1>2. left \in Int /\ 0 <= left /\ left + size <= b.size
  BY <1>1, LeftFits
<1>3. v.ok = (ok1 /\ ok2) /\ v.reg = c /\ v.ptr = b.addr + left
  BY DEF Carve
<1>4. ok1 /\ ok2
  BY <1>3
<1> HIDE DEF v, left
<1>5. \A o : HoldsBut(r, i, o) <=> Holds(r, o)
  BY <1>1 DEF HoldsBut, Holds, IsObject
<1>6. /\ a \in Region /\ EndToEnd(a) /\ SlotsSound(a) /\ TableUsed(a) /\ Tidy(a)
      /\ a.base = r.base /\ a.size = r.size
      /\ Len(a.blocks) \in Nat /\ k \in 2 .. Len(a.blocks) /\ a.blocks[k].flag = "USED"
      /\ a.blocks[k].addr = b.addr + left /\ a.blocks[k].size = b.size - left
      /\ \A o : HoldsBut(a, k, o) <=> Holds(r, o)
  <2>1. CASE left = 0
    <3>1. a = [r EXCEPT !.blocks[i].flag = "USED"] /\ k = i
      BY <2>1 DEF CarveLeft
    <3>2. /\ a \in Region /\ EndToEnd(a) /\ TableSound(a) /\ TableUsed(a)
          /\ a.base = r.base /\ a.size = r.size
          /\ Len(a.blocks) = m
          /\ \A j \in 1 .. m :
               /\ a.blocks[j].flag = IF j = i THEN "USED" ELSE r.blocks[j].flag
               /\ a.blocks[j].size = r.blocks[j].size /\ a.blocks[j].addr = r.blocks[j].addr
      <4> HIDE DEF a, b, k
      <4>1. i # 1 /\ i \in 1 .. Len(r.blocks) /\ EndToEnd(r) /\ TableSound(r)
        BY <1>1
      <4>2. a = [r EXCEPT !.blocks[i].flag = "USED"]
        BY <3>1
      <4>3. /\ a \in Region /\ EndToEnd(a) /\ TableSound(a) /\ TableUsed(a)
            /\ a.base = r.base /\ a.size = r.size /\ Len(a.blocks) = m
        BY <4>1, <4>2, FlagSound
      <4>4. \A j \in 1 .. m : a.blocks[j].flag = IF j = i THEN "USED" ELSE r.blocks[j].flag
        BY <4>1, <4>2, FlagSound
      <4>5. \A j \in 1 .. m : a.blocks[j].size = r.blocks[j].size
        BY <4>1, <4>2, FlagSound
      <4>6. \A j \in 1 .. m : a.blocks[j].addr = r.blocks[j].addr
        BY <4>1, <4>2, FlagSound
      <4>7. QED
        BY <4>3, <4>4, <4>5, <4>6
    <3> HIDE DEF a, k, m, b
    <3>3. /\ SlotsSound(a) /\ a.blocks[1].flag = "USED"
      BY <3>2 DEF TableSound, TableUsed
    <3>4. i \in 1 .. m /\ k \in 2 .. m /\ a.blocks[k].flag = "USED"
          /\ a.blocks[k].addr = b.addr + left /\ a.blocks[k].size = b.size - left
      <4>1. i \in 1 .. m
        BY <1>1
      <4>2. a.blocks[k].addr = b.addr /\ a.blocks[k].size = b.size
        BY <3>1, <3>2, <4>1 DEF b
      <4>3. QED
        BY <1>1, <2>1, <3>1, <3>2, <4>1, <4>2
    <3>5. Tidy(a)
      <4>1. \A j \in 1 .. m : a.blocks[j].size >= 0
        BY <1>1, <3>2
      <4>2. ASSUME NEW j \in 2 .. m, a.blocks[j].flag = "USED" PROVE a.blocks[j].size > 0
        <5>1. j \in 1 .. m
          BY <1>1
        <5>2. CASE j = i
          BY <1>1, <1>2, <2>1, <3>2, <5>1, <5>2 DEF b
        <5>3. CASE j # i
          BY <3>2, <4>2, <5>1, <5>3 DEF Tidy, TableUsed, m
        <5>4. QED
          BY <5>2, <5>3
      <4>3. QED
        BY <3>2, <3>3, <4>1, <4>2 DEF Tidy
    <3>6. \A o : HoldsBut(a, k, o) <=> HoldsBut(r, i, o)
      <4>1. \A j \in 2 .. m : \A o : j # i => (IsObject(a.blocks[j], o) <=> IsObject(r.blocks[j], o))
        BY <1>1, <3>2 DEF IsObject
      <4>2. QED
        BY <3>1, <3>2, <4>1 DEF HoldsBut, m
    <3>7. QED
      BY <1>1, <1>5, <3>2, <3>3, <3>4, <3>5, <3>6
  <2>2. CASE left # 0
    <3>1. a = SplitBlock(r, i, left, "FREE", "USED") /\ k = i + 1 /\ i \in 2 .. Len(r.blocks)
      BY <1>1, <2>2 DEF CarveLeft
    <3>2. CanCreateBlock(Cut(r, i, left, "FREE")) /\ left <= b.size /\ left < b.size
      BY <1>1, <1>2, <1>4, <2>2
    <3> HIDE DEF a, k
    <3>3. /\ a \in Region /\ EndToEnd(a) /\ SlotsSound(a) /\ TableUsed(a)
          /\ a.base = r.base /\ a.size = r.size
          /\ Len(a.blocks) = m + 1 /\ SplitFlags(r, i, "FREE", "USED", a)
      BY <1>1, <1>2, <3>1, SplitSound
    <3>4. /\ Tidy(a) /\ a.blocks[i + 1].addr = b.addr + left
          /\ a.blocks[i + 1].size = b.size - left
          /\ \A o : HoldsBut(a, i + 1, o) <=> HoldsBut(r, i, o)
      <4>1. /\ EndToEnd(r) /\ SlotsSound(r) /\ i \in 2 .. Len(r.blocks) /\ left \in Int
            /\ 0 <= left /\ left <= b.size /\ left < b.size
            /\ CanCreateBlock(Cut(r, i, left, "FREE"))
            /\ "FREE" \in {"FREE", "USED"} /\ "USED" \in {"FREE", "USED"} /\ "FREE" # "USED"
        BY <1>1, <1>2, <3>1, <3>2
      <4> DEFINE s == SplitBlock(r, i, left, "FREE", "USED")
      <4>2. /\ Tidy(s) /\ s.blocks[i + 1].addr = b.addr + left
            /\ s.blocks[i + 1].size = b.size - left
            /\ \A o : HoldsBut(s, i + 1, o) <=> HoldsBut(r, i, o)
        BY <4>1, SplitTidy
      <4>3. a = s
        BY <3>1
      <4> HIDE DEF s
      <4>4. QED
        BY <4>2, <4>3, Zenon
    <3> HIDE DEF m, b
    <3>5. k \in 2 .. m + 1 /\ a.blocks[k].flag = "USED"
      <4>1. k \in 2 .. m + 1 /\ k \in 1 .. m + 1 /\ ~(k < i) /\ k # i
        BY <1>1, <3>1
      <4>2. QED
        BY <3>1, <3>3, <4>1 DEF SplitFlags, m
    <3>6. \A o : HoldsBut(a, k, o) <=> Holds(r, o)
      BY <1>5, <3>1, <3>4, Zenon
    <3>7. k \in 2 .. Len(a.blocks) /\ Len(a.blocks) \in Nat
      BY <1>1, <3>3, <3>5
    <3>8. a.blocks[k].addr = b.addr + left /\ a.blocks[k].size = b.size - left
      BY <3>1, <3>4
    <3>9. QED
      BY <3>3, <3>4, <3>5, <3>6, <3>7, <3>8, Zenon
  <2>3. QED
    BY <2>1, <2>2
<1> HIDE DEF a, k, m, b
<1>7. b.size - left >= size /\ size > 0 /\ size \in Int
  BY <1>1, <1>2
<1>8. /\ Tidy(c) /\ c \in Region /\ c.base = r.base /\ c.size = r.size /\ TableUsed(c)
      /\ k \in 2 .. Len(c.blocks) /\ c.blocks[k].flag = "USED"
      /\ c.blocks[k].addr = b.addr + left /\ c.blocks[k].size = size
      /\ \A o : HoldsBut(c, k, o) <=> Holds(r, o)
  <2>1. CASE a.blocks[k].size = size
    <3>1. c = a
      BY <2>1 DEF CarveRight
    <3>2. QED
      BY <1>6, <2>1, <3>1
  <2>2. CASE a.blocks[k].size # size
    <3> DEFINE h == Cut(a, k, size, "USED")
               n == Len(a.blocks)
    <3>1. c = SplitBlock(a, k, size, "USED", "FREE")
      BY <2>2 DEF CarveRight
    <3>2. CanCreateBlock(h)
      <4>1. CanCreateBlock(a)
        BY <1>4, <2>2
      <4>2. 2 \in 1 .. n /\ k \in 1 .. n
        BY <1>6
      <4>3. /\ h.spare = a.spare
            /\ \A j \in 1 .. n :
                 /\ h.blocks[j].size = IF j = k THEN size ELSE a.blocks[j].size
                 /\ h.blocks[j].flag = IF j = k THEN "USED" ELSE a.blocks[j].flag
        <5>1. IsCut(a, k, size, "USED", h)
          BY <1>6, <1>7, <4>2, CutIs
        <5> HIDE DEF h
        <5>2. QED
          BY <1>6, <5>1 DEF IsCut
      <4> HIDE DEF h, n
      <4>4. CASE k = 2
        BY <1>6, <4>1, <4>3, <4>4 DEF CanCreateBlock
      <4>5. CASE k # 2
        <5>1. h.blocks[2].size = a.blocks[2].size /\ h.blocks[2].flag = a.blocks[2].flag
          BY <4>2, <4>3, <4>5
        <5>2. QED
          BY <4>1, <4>3, <5>1 DEF CanCreateBlock
      <4>6. QED
        BY <4>4, <4>5
    <3> HIDE DEF c
    <3>3. /\ c \in Region /\ TableUsed(c) /\ c.base = a.base /\ c.size = a.size
          /\ Len(c.blocks) = n + 1 /\ SplitFlags(a, k, "USED", "FREE", c)
      BY <1>6, <1>7, <3>1, SplitSound
    <3>4. /\ Tidy(c) /\ c.blocks[k].addr = a.blocks[k].addr /\ c.blocks[k].size = size
          /\ \A o : HoldsBut(c, k, o) <=> HoldsBut(a, k, o)
      BY <1>6, <1>7, <3>1, <3>2, SplitTidy
    <3>5. k \in 2 .. n + 1 /\ c.blocks[k].flag = "USED"
      <4>1. k \in 1 .. n + 1 /\ ~(k < k) /\ k \in 2 .. n + 1
        BY <1>6
      <4>2. QED
        BY <3>3, <4>1 DEF SplitFlags
    <3>6. QED
      BY <1>6, <3>3, <3>4, <3>5
  <2>3. QED
    BY <2>1, <2>2
<1> HIDE DEF c
<1>9. \A o : Holds(c, o) <=> Holds(r, o) \/ (o.ptr = b.addr + left /\ o.size = size)
  <2>1. \A o : Holds(c, o) <=> HoldsBut(c, k, o) \/ IsObject(c.blocks[k], o)
    BY <1>8 DEF Holds, HoldsBut
  <2>2. \A o : IsObject(c.blocks[k], o) <=> o.ptr = b.addr + left /\ o.size = size
    BY <1>8 DEF IsObject
  <2>3. \A o : HoldsBut(c, k, o) <=> Holds(r, o)
    BY <1>8, Zenon
  <2>4. QED
    BY <2>1, <2>2, <2>3, Zenon
<1>10. /\ b.addr + left \in Int /\ b.addr <= b.addr + left
       /\ b.addr + left + size <= b.addr + b.size
  BY <1>1, <1>2
<1>11. Present(c)
  BY <1>8 DEF TableUsed
<1>12. QED
  BY <1>3, <1>8, <1>9, <1>10, <1>11 DEF v, b, IsCarved

\* What starts after an area ends does not end inside it.
LEMMA EndedBefore ==
  ASSUME NEW p \in Int, NEW n \in Int, n > 0, NEW base \in Int, NEW size \in Int,
         NEW next \in Int, next >= base + size, p >= next, p + n <= base + size
  PROVE  FALSE
  OBVIOUS

\* What ends before an end inside an area ends inside the area.
LEMMA EndsInside ==
  ASSUME NEW p \in Int, NEW n \in Int, NEW addr \in Int, NEW bytes \in Int,
         NEW base \in Int, NEW size \in Int,
         p + n <= addr + bytes, addr + bytes <= base + size
  PROVE  p + n <= base + size
  OBVIOUS

\* What lies in a free block is no object.
LEMMA FreeBytesHoldNothing ==
  ASSUME NEW regs, Neat(regs), NEW i \in RegionIds, NEW f \in 1 .. Len(regs[i].blocks),
         regs[i].blocks[f].flag = "FREE", NEW o,
         o.ptr \in Int, o.size \in Int, o.size > 0, regs[i].blocks[f].addr <= o.ptr,
         o.ptr + o.size <= regs[i].blocks[f].addr + regs[i].blocks[f].size
  PROVE  ~InUse(regs, o)
<1> SUFFICES ASSUME NEW k \in RegionIds, Holds(regs[k], o) PROVE FALSE
  BY DEF InUse
<1>1. /\ regs[i] \in Region /\ EndToEnd(regs[i]) /\ Tidy(regs[i])
      /\ regs[k] \in Region /\ EndToEnd(regs[k]) /\ Tidy(regs[k])
  BY DEF Neat, AllSound, Sound
<1> DEFINE r == regs[i]
           b == r.blocks[f]
<1>2. b.addr \in Int /\ b.size \in Int /\ r.base \in Int /\ r.size \in Int
      /\ Len(r.blocks) \in Nat
  BY <1>1, RegionParts
<1>3. CASE k = i
  <2>1. PICK j \in 2 .. Len(r.blocks) : IsObject(r.blocks[j], o)
    BY <1>3 DEF Holds
  <2>2. j \in 1 .. Len(r.blocks) /\ j # f
    BY <1>2, <2>1 DEF IsObject
  <2>3. j < f => o.ptr + o.size <= b.addr
    BY <1>1, <2>1, <2>2, BlocksInOrder DEF IsObject
  <2>4. f < j => b.addr + b.size <= o.ptr
    BY <1>1, <2>1, <2>2, BlocksInOrder DEF IsObject
  <2>5. j < f \/ f < j
    BY <1>2, <2>2
  <2> HIDE DEF b
  <2>6. o.ptr + o.size <= b.addr + b.size /\ b.addr <= o.ptr
    BY DEF b
  <2>7. QED
    BY <1>2, <2>3, <2>4, <2>5, <2>6
<1>4. CASE k # i
  <2>1. r.base <= b.addr /\ b.addr + b.size <= r.base + r.size
    BY <1>1, BlocksInside
  <2>2. /\ regs[k].base + regs[k].blocks[1].size <= o.ptr
        /\ o.ptr + o.size <= regs[k].base + regs[k].size
        /\ regs[k].blocks[1].size >= 0 /\ regs[k].blocks[1].size \in Int
    BY <1>1, ObjectInside
  <2>3. regs[k].base \in Int /\ regs[k].size \in Int
    BY <1>1, RegionParts
  <2>4. regs[k].base >= r.base + r.size \/ r.base >= regs[k].base + regs[k].size
    <3>1. ~Overlap(r.base, r.size, regs[k].base, regs[k].size)
      BY <1>4, Zenon DEF Neat, RegionsApart
    <3>2. r.base \in Int /\ r.size \in Int
      BY <1>2
    <3>3. QED
      BY <2>3, <3>1, <3>2 DEF Overlap
  <2> HIDE DEF b
  <2>5. /\ o.ptr + o.size <= b.addr + b.size /\ b.addr <= o.ptr
        /\ o.ptr \in Int /\ o.size \in Int /\ o.size > 0
    BY DEF b
  <2> HIDE DEF r
  <2>6. CASE regs[k].base >= r.base + r.size
    <3>1. o.ptr >= regs[k].base
      BY <2>2, <2>3
    <3>2. o.ptr + o.size <= r.base + r.size
      <4>1. /\ r.base \in Int /\ r.size \in Int /\ b.addr \in Int /\ b.size \in Int
            /\ b.addr + b.size <= r.base + r.size
        BY <1>2, <2>1
      <4>2. QED
        BY <2>5, <4>1, EndsInside
    <3>3. QED
      BY <1>2, <2>3, <2>5, <2>6, <3>1, <3>2, EndedBefore
  <2>7. CASE r.base >= regs[k].base + regs[k].size
    <3>1. o.ptr >= r.base
      BY <1>2, <2>1, <2>5
    <3>2. o.ptr + o.size <= regs[k].base + regs[k].size
      BY <2>2
    <3>3. QED
      BY <1>2, <2>3, <2>5, <2>7, <3>1, <3>2, EndedBefore
  <2>8. QED
    BY <2>4, <2>6, <2>7
<1>5. QED
  BY <1>3, <1>4

\* The ranges handed to the manager are the same before and after.
SameArena(regs, after) ==
  \A k \in RegionIds :
    /\ after[k].base = regs[k].base /\ after[k].size = regs[k].size
    /\ Present(after[k]) <=> Present(regs[k])

\* A call changes one region only, and not where it lies.
LEMMA OneReplacedNeat ==
  ASSUME NEW regs, Neat(regs), NEW i \in RegionIds, NEW c, Sound(c), Tidy(c),
         c.base = regs[i].base, c.size = regs[i].size, Present(c), Present(regs[i])
  PROVE  LET after == [regs EXCEPT ![i] = c] IN
         /\ Neat(after) /\ SameArena(regs, after)
         /\ \A o : InUse(after, o) <=>
                     Holds(c, o) \/ \E k \in RegionIds : k # i /\ Holds(regs[k], o)
<1> DEFINE after == [regs EXCEPT ![i] = c]
<1>1. AllSound(after) /\ \A k \in RegionIds : after[k] = IF k = i THEN c ELSE regs[k]
  BY OneReplaced DEF Neat, AllSound
<1> HIDE DEF after
<1>2. SameArena(regs, after)
  BY <1>1 DEF SameArena
<1>3. Neat(after)
  BY <1>1, <1>2 DEF Neat, SameArena, RegionsApart
<1>4. \A o : InUse(after, o) <=>
               Holds(c, o) \/ \E k \in RegionIds : k # i /\ Holds(regs[k], o)
  BY <1>1 DEF InUse
<1>5. QED
  BY <1>2, <1>3, <1>4 DEF after

\* The object o comes to those in use, in bytes that were not in use.
Adds(regs, after, o) ==
  /\ Neat(after) /\ SameArena(regs, after)
  /\ o \in [ptr : Int, size : Nat] /\ o.size > 0 /\ InUse(after, o) /\ ~InUse(regs, o)
  /\ \A q : InUse(after, q) <=> InUse(regs, q) \/ (q.ptr = o.ptr /\ q.size = o.size)

\* An allocation that has room to round down stops the kernel, finds nothing, or adds one
\* object to those in use (MmAllocatePhysical).
LEMMA AllocationAdds ==
  ASSUME NEW regs, Neat(regs), NEW size \in Nat, NEW align \in Nat, Roomy(regs, size, align)
  PROVE  LET a == Allocation(regs, size, align) IN
         \/ a.panic
         \/ a.obj = NULL /\ a.regs = regs
         \/ Adds(regs, a.regs, a.obj)
<1> DEFINE fitting == {i \in RegionIds : FirstFit(regs[i], size, align) # 0}
           i == Min(fitting)
           f == FirstFit(regs[i], size, align)
           c == Carve(regs[i], f, size, align)
           after == [regs EXCEPT ![i] = c.reg]
           a == Allocation(regs, size, align)
           nothing == [regs |-> regs, obj |-> NULL, panic |-> TRUE]
           nofit == [regs |-> regs, obj |-> NULL, panic |-> ~MmCheckHeap(regs)]
           found == [regs |-> after, obj |-> [ptr |-> c.ptr, size |-> size],
                     panic |-> ~c.ok \/ ~MmCheckHeap(after)]
<1>1. a = IF size = 0 THEN nothing ELSE IF fitting = {} THEN nofit ELSE found
  BY DEF Allocation
<1> HIDE DEF a
<1>2. CASE size = 0
  BY <1>1, <1>2 DEF a
<1>3. CASE size # 0 /\ fitting = {}
  BY <1>1, <1>3 DEF a
<1>4. CASE size # 0 /\ fitting # {} /\ ~c.ok
  <2>1. a = found
    BY <1>1, <1>4
  <2> HIDE DEF c, after
  <2>2. a.panic = (~c.ok \/ ~MmCheckHeap(after))
    BY <2>1
  <2>3. QED
    BY <1>4, <2>2 DEF a
<1>5. CASE size # 0 /\ fitting # {} /\ c.ok
  <2>1. a = found
    BY <1>1, <1>5
  <2>2. fitting \in SUBSET Nat
    BY RegionIdsNat DEF RegionIdsAreNaturals
  <2>3. i \in RegionIds /\ f # 0
    BY <1>5, <2>2, MinIsLeast
  <2> HIDE DEF i, fitting
  <2> DEFINE r == regs[i]
  <2>4. r \in Region /\ Sound(r) /\ Tidy(r) /\ EndToEnd(r)
    BY <2>3 DEF Neat, AllSound, Sound
  <2>5. f \in 1 .. Len(r.blocks) /\ r.blocks[f].flag = "FREE" /\ Fits(r.blocks[f], size, align)
    BY <2>3, <2>4, FirstFitFits
  <2>6. align = 0 \/ r.blocks[f].size >= size + align - 1
    BY <2>3 DEF Roomy
  <2> HIDE DEF f
  <2>7. Present(r) /\ TableUsed(r)
    <3>1. Present(r)
      BY <2>4, <2>5, RegionParts
    <3>2. QED
      BY <2>4, <3>1 DEF Tidy, TableUsed
  <2>8. size \in Nat \ {0} /\ c.ok
    BY <1>5
  <2>9. /\ Tidy(c.reg) /\ c.reg \in Region /\ Present(c.reg)
        /\ c.reg.base = r.base /\ c.reg.size = r.size
        /\ c.ptr \in Int /\ r.blocks[f].addr <= c.ptr
        /\ c.ptr + size <= r.blocks[f].addr + r.blocks[f].size
        /\ \A o : Holds(c.reg, o) <=> Holds(r, o) \/ (o.ptr = c.ptr /\ o.size = size)
    <3>1. Carve(r, f, size, align).ok
      BY <2>8
    <3>2. IsCarved(r, f, size, Carve(r, f, size, align))
      BY <2>4, <2>5, <2>6, <2>7, <2>8, <3>1, CarveTidy
    <3>3. IsCarved(r, f, size, c)
      BY <3>2
    <3> HIDE DEF c
    <3>4. QED
      BY <3>3, Zenon DEF IsCarved
  <2>10. Sound(c.reg)
    BY <2>4, <2>5, <2>7, <2>8, CarveSound
  <2> HIDE DEF c
  <2>11. /\ Neat(after) /\ SameArena(regs, after)
         /\ \A o : InUse(after, o) <=>
                     Holds(c.reg, o) \/ \E k \in RegionIds : k # i /\ Holds(regs[k], o)
    BY <2>3, <2>7, <2>9, <2>10, OneReplacedNeat
  <2> HIDE DEF after
  <2> DEFINE o == [ptr |-> c.ptr, size |-> size]
  <2>12. o \in [ptr : Int, size : Nat] /\ o.ptr = c.ptr /\ o.size = size /\ o.size > 0
    BY <2>8, <2>9
  <2>13. a.regs = after /\ a.obj = o
    BY <2>1
  <2> HIDE DEF o
  <2>14. ~InUse(regs, o)
    BY <2>3, <2>5, <2>9, <2>12, FreeBytesHoldNothing
  <2>15. \A q : InUse(after, q) <=> InUse(regs, q) \/ (q.ptr = o.ptr /\ q.size = o.size)
    BY <2>3, <2>9, <2>11, <2>12 DEF InUse
  <2>16. InUse(after, o)
    BY <2>15
  <2>17. Adds(regs, after, o)
    BY <2>11, <2>12, <2>14, <2>15, <2>16 DEF Adds
  <2>18. QED
    BY <2>13, <2>17 DEF a
<1>6. QED
  BY <1>2, <1>3, <1>4, <1>5

\* What lies behind a block that lies behind an area lies behind the area, and not in it.
LEMMA LiesBehind ==
  ASSUME NEW a \in Int, NEW n \in Int, NEW b \in Int, NEW p \in Int, n >= 0, a + n <= b, b < p
  PROVE  ~(p <= a + n) /\ ~(a > p)
  OBVIOUS

\* An area that is not empty starts inside the one it lies in.
LEMMA LiesInside ==
  ASSUME NEW base \in Int, NEW size \in Int, NEW p \in Int, NEW n \in Int,
         n > 0, base < p, p + n <= base + size
  PROVE  base <= p /\ p <= base + size
  OBVIOUS

\* The walk of MmFreePhysical ends at block j: the blocks before end below p, as the one
\* right before is free and not empty.
LEMMA DeciderIsTheBlock ==
  ASSUME NEW r \in Region, EndToEnd(r), Tidy(r), NEW j \in 3 .. Len(r.blocks), NEW p,
         r.blocks[j].addr = p, r.blocks[j].flag = "USED",
         r.blocks[j - 1].flag = "FREE", r.blocks[j - 1].size > 0
  PROVE  Decider(r, p) = j /\ Matches(r.blocks[j], p)
<1> DEFINE m == Len(r.blocks)
           T == {k \in 1 .. m : Decides(r.blocks[k], p)}
           i == j - 1
<1>1. /\ m \in Nat /\ j \in 1 .. m /\ i \in 1 .. m - 1 /\ i \in 1 .. m /\ i + 1 = j
      /\ i \in Nat /\ Present(r)
      /\ \A k \in 1 .. m : r.blocks[k].addr \in Int /\ r.blocks[k].size \in Int
  <2>1. m \in Nat
    BY RegionParts
  <2>2. QED
    BY <2>1, RegionParts
<1>2. r.blocks[j].size >= 0 /\ \A k \in 1 .. m : r.blocks[k].size >= 0
  BY <1>1 DEF Tidy
<1>3. Matches(r.blocks[j], p) /\ j \in T
  BY <1>1, <1>2 DEF Matches, Decides
<1>4. r.blocks[i + 1].addr = r.blocks[i].addr + r.blocks[i].size
  BY <1>1 DEF EndToEnd
<1>5. r.blocks[i].addr < p
  <2>1. /\ r.blocks[i].addr \in Int /\ r.blocks[i].size \in Int /\ r.blocks[i].size > 0
        /\ r.blocks[i].addr + r.blocks[i].size = p
    BY <1>1, <1>4
  <2> HIDE DEF i
  <2>2. QED
    BY <2>1
<1> HIDE DEF m
<1>6. ASSUME NEW k \in 1 .. m, k < j PROVE k \notin T
  <2>1. CASE k = i
    BY <2>1 DEF Decides
  <2>2. CASE k # i
    <3>1. k < i
      BY <1>1, <1>6, <2>2
    <3>2. r.blocks[k].addr + r.blocks[k].size <= r.blocks[i].addr
      <4>1. k \in 1 .. Len(r.blocks) /\ i \in 1 .. Len(r.blocks)
        BY <1>1 DEF m
      <4> HIDE DEF i
      <4>2. QED
        BY <3>1, <4>1, BlocksInOrder
    <3>3. /\ r.blocks[k].addr \in Int /\ r.blocks[k].size \in Int /\ r.blocks[k].size >= 0
          /\ r.blocks[i].addr \in Int /\ p \in Int
      BY <1>1, <1>2
    <3> HIDE DEF i
    <3>4. ~(p <= r.blocks[k].addr + r.blocks[k].size) /\ ~(r.blocks[k].addr > p)
      BY <1>5, <3>2, <3>3, LiesBehind
    <3>5. QED
      BY <3>4 DEF Decides, Matches
  <2>3. QED
    BY <2>1, <2>2
<1>7. T \in SUBSET Nat /\ T # {}
  BY <1>1, <1>3
<1>8. Min(T) \in T /\ Min(T) \in Nat /\ Min(T) <= j
  BY <1>3, <1>7, MinIsLeast
<1>9. Min(T) = j
  <2>1. Min(T) \in 1 .. m
    BY <1>8
  <2>2. ~(Min(T) < j)
    BY <1>6, <1>8, <2>1
  <2> HIDE DEF T
  <2>3. QED
    BY <1>1, <1>8, <2>2
<1>10. Decider(r, p) = IF T # {} THEN Min(T) ELSE 0
  BY DEF Decider, SelectInSeq, m
<1> HIDE DEF T
<1>11. QED
  BY <1>3, <1>7, <1>9, <1>10

\* A caller that frees an object while the bytes below it are free gives up that object and
\* no other (MmFreePhysical): the search finds its region and its block.
LEMMA FreedRemoves ==
  ASSUME NEW regs, Neat(regs), NEW o, InUse(regs, o), Isolated(regs, o.ptr)
  PROVE  /\ ~FreePanics(regs, o.ptr)
         /\ Neat(Freed(regs, o.ptr)) /\ SameArena(regs, Freed(regs, o.ptr))
         /\ \A q : InUse(Freed(regs, o.ptr), q) <=>
                     InUse(regs, q) /\ ~(q.ptr = o.ptr /\ q.size = o.size)
<1> DEFINE p == o.ptr
<1>1. PICK i \in RegionIds : \E j \in 2 .. Len(regs[i].blocks) :
         /\ regs[i].blocks[j].addr = p
         /\ regs[i].blocks[j - 1].flag = "FREE" /\ regs[i].blocks[j - 1].size > 0
  BY DEF Isolated
<1> DEFINE r == regs[i]
<1>2. PICK j \in 2 .. Len(r.blocks) :
         /\ r.blocks[j].addr = p
         /\ r.blocks[j - 1].flag = "FREE" /\ r.blocks[j - 1].size > 0
  BY <1>1
<1>3. /\ r \in Region /\ Sound(r) /\ EndToEnd(r) /\ Tidy(r) /\ NoFreePair(r) /\ TableSound(r)
  BY DEF Neat, AllSound, Sound
<1>4. /\ Len(r.blocks) \in Nat /\ j - 1 \in 1 .. Len(r.blocks) - 1 /\ j - 1 \in 1 .. Len(r.blocks)
      /\ j \in 1 .. Len(r.blocks) /\ (j - 1) + 1 = j /\ Present(r)
  <2>1. Len(r.blocks) \in Nat
    BY <1>3, RegionParts
  <2>2. QED
    BY <1>3, <2>1, RegionParts
<1>5. /\ r.blocks[j].addr \in Int /\ r.blocks[j].size \in Int /\ r.blocks[j].flag \in {"FREE", "USED"}
      /\ r.blocks[j - 1].addr \in Int /\ r.blocks[j - 1].size \in Int
      /\ r.base \in Int /\ r.size \in Int
  <2>1. r.base \in Nat /\ r.size \in Nat
    BY <1>3, RegionParts
  <2> HIDE DEF r
  <2>2. \A l \in 1 .. Len(r.blocks) :
          r.blocks[l].addr \in Int /\ r.blocks[l].size \in Int /\ r.blocks[l].flag \in {"FREE", "USED"}
    BY <1>3, RegionParts
  <2>3. QED
    BY <1>4, <2>1, <2>2
<1>6. r.blocks[j].flag = "USED" /\ r.blocks[j].size > 0 /\ j \in 3 .. Len(r.blocks)
  <2>1. r.blocks[j].flag = "USED"
    BY <1>2, <1>3, <1>4, <1>5 DEF NoFreePair
  <2>2. j - 1 # 1
    BY <1>2, <1>3, <1>4 DEF Tidy
  <2>3. j \in 3 .. Len(r.blocks)
    BY <1>4, <2>2
  <2>4. QED
    BY <1>3, <1>4, <2>1, <2>3 DEF Tidy
<1>7. p \in Int /\ r.base < p /\ p + r.blocks[j].size <= r.base + r.size
  <2>1. r.blocks[j].addr = r.blocks[j - 1].addr + r.blocks[j - 1].size
    BY <1>3, <1>4 DEF EndToEnd
  <2>2. r.base <= r.blocks[j - 1].addr
    BY <1>3, <1>4, BlocksInside
  <2>3. r.blocks[j].addr + r.blocks[j].size <= r.base + r.size
    BY <1>3, <1>4, BlocksInside
  <2> HIDE DEF p, r
  <2>4. QED
    BY <1>2, <1>5, <2>1, <2>2, <2>3
<1>8. Decider(r, p) = j /\ Matches(r.blocks[j], p)
  BY <1>2, <1>3, <1>6, DeciderIsTheBlock
<1>9. ASSUME NEW k \in RegionIds, InRegion(regs[k], p) PROVE k = i
  <2> SUFFICES ASSUME k # i PROVE FALSE
    OBVIOUS
  <2>1. regs[k] \in Region
    BY DEF Neat, AllSound
  <2>2. regs[k].base \in Int /\ regs[k].size \in Int
    BY <2>1, RegionParts
  <2>3. regs[k].base <= p /\ p <= regs[k].base + regs[k].size
    BY <1>9 DEF InRegion
  <2>4. regs[k].base >= r.base + r.size \/ r.base >= regs[k].base + regs[k].size
    BY <1>5, <2>2 DEF Neat, RegionsApart, Overlap
  <2> HIDE DEF p, r
  <2>5. CASE regs[k].base >= r.base + r.size
    <3>1. p >= r.base + r.size
      BY <1>5, <1>7, <2>2, <2>3, <2>5
    <3>2. QED
      BY <1>5, <1>6, <1>7, <3>1
  <2>6. CASE r.base >= regs[k].base + regs[k].size
    BY <1>5, <1>7, <2>2, <2>3, <2>6
  <2>7. QED
    BY <2>4, <2>5, <2>6
<1>10. InRegion(r, p)
  <2> HIDE DEF p, r
  <2>1. QED
    <3>1. r.base <= p /\ p <= r.base + r.size
      BY <1>5, <1>6, <1>7, LiesInside
    <3>2. QED
      BY <1>4, <3>1, Zenon DEF InRegion
<1> DEFINE D == Deciding(regs, p)
<1>11. D = {i}
  BY <1>4, <1>6, <1>8, <1>9, <1>10 DEF Deciding
<1>12. Min(D) = i /\ D # {}
  <2>1. D \in SUBSET Nat /\ D # {}
    BY <1>11, RegionIdsNat DEF RegionIdsAreNaturals
  <2>2. Min(D) \in D
    BY <2>1, MinIsLeast
  <2>3. QED
    BY <1>11, <2>1, <2>2
<1> DEFINE c == Released(r, j)
<1>13. Freed(regs, p) = [regs EXCEPT ![i] = c] /\ ~FreePanics(regs, p)
  BY <1>8, <1>12 DEF Freed, DecidingBlock, FreePanics
<1>14. Sound(c)
  BY <1>3, <1>4, ReleasedSound
<1>15. /\ Tidy(c) /\ c \in Region /\ Present(c) /\ c.base = r.base /\ c.size = r.size
       /\ \A q : Holds(c, q) <=> HoldsBut(r, j, q)
  BY <1>2, <1>3, <1>6, ReleasedTidy
<1> HIDE DEF c, D
<1> DEFINE after == Freed(regs, p)
<1>16. /\ Neat(after) /\ SameArena(regs, after)
       /\ \A q : InUse(after, q) <=>
                   HoldsBut(r, j, q) \/ \E k \in RegionIds : k # i /\ Holds(regs[k], q)
  <2>1. /\ Neat([regs EXCEPT ![i] = c]) /\ SameArena(regs, [regs EXCEPT ![i] = c])
        /\ \A q : InUse([regs EXCEPT ![i] = c], q) <=>
                    Holds(c, q) \/ \E k \in RegionIds : k # i /\ Holds(regs[k], q)
    BY <1>4, <1>14, <1>15, OneReplacedNeat
  <2>2. QED
    BY <1>13, <1>15, <2>1
<1>17. o.size = r.blocks[j].size
  <2> DEFINE x == [ptr |-> p, size |-> r.blocks[j].size]
  <2>1. Holds(r, x)
    BY <1>2, <1>6 DEF Holds, IsObject
  <2>2. InUse(regs, x) /\ x.ptr = o.ptr /\ x.size = r.blocks[j].size
    BY <2>1 DEF InUse
  <2> HIDE DEF x
  <2>3. QED
    BY <2>2, ObjectsApart
<1> HIDE DEF after
<1>18. ASSUME NEW q, InUse(after, q)
       PROVE  InUse(regs, q) /\ ~(q.ptr = o.ptr /\ q.size = o.size)
  <2>1. CASE HoldsBut(r, j, q)
    <3>1. PICK l \in 2 .. Len(r.blocks) : l # j /\ IsObject(r.blocks[l], q)
      BY <2>1 DEF HoldsBut
    <3>2. InUse(regs, q)
      BY <3>1 DEF InUse, Holds
    <3>3. r.blocks[l].addr # r.blocks[j].addr
      BY <1>3, <1>6, <3>1, UsedBlocksApart DEF IsObject
    <3>4. QED
      BY <1>2, <3>1, <3>2, <3>3 DEF IsObject
  <2>2. ASSUME NEW k \in RegionIds, k # i, Holds(regs[k], q)
        PROVE  InUse(regs, q) /\ ~(q.ptr = o.ptr /\ q.size = o.size)
    <3>1. InUse(regs, q)
      BY <2>2 DEF InUse
    <3>2. regs[k] \in Region /\ EndToEnd(regs[k]) /\ Tidy(regs[k])
      BY DEF Neat, AllSound, Sound
    <3>3. /\ Present(regs[k]) /\ q.ptr \in Int /\ q.size \in Int /\ q.size > 0
          /\ regs[k].base + regs[k].blocks[1].size <= q.ptr
          /\ q.ptr + q.size <= regs[k].base + regs[k].size
          /\ regs[k].blocks[1].size >= 0 /\ regs[k].blocks[1].size \in Int
      BY <2>2, <3>2, ObjectInside
    <3>4. regs[k].base \in Int /\ regs[k].size \in Int
      BY <3>2, RegionParts
    <3>5. regs[k].base <= q.ptr /\ q.ptr <= regs[k].base + regs[k].size
      BY <3>3, <3>4
    <3>6. InRegion(regs[k], q.ptr)
      BY <3>3, <3>5 DEF InRegion
    <3>7. QED
      BY <1>9, <2>2, <3>1, <3>6
  <2>3. QED
    BY <1>16, <1>18, <2>1, <2>2
<1>19. ASSUME NEW q, InUse(regs, q), ~(q.ptr = o.ptr /\ q.size = o.size)
       PROVE  InUse(after, q)
  <2>1. PICK k \in RegionIds : Holds(regs[k], q)
    BY <1>19 DEF InUse
  <2>2. CASE k # i
    BY <1>16, <2>1, <2>2
  <2>3. CASE k = i
    <3>1. PICK l \in 2 .. Len(r.blocks) : IsObject(r.blocks[l], q)
      BY <2>1, <2>3 DEF Holds
    <3>2. l # j
      BY <1>2, <1>17, <1>19, <3>1 DEF IsObject
    <3>3. HoldsBut(r, j, q)
      BY <3>1, <3>2 DEF HoldsBut
    <3>4. QED
      BY <1>16, <3>3
  <2>4. QED
    BY <2>2, <2>3
<1>20. QED
  BY <1>13, <1>16, <1>18, <1>19 DEF after

Objs == [ptr : Int, size : Nat]

\* The objects in use are those the clients hold, each held by one client.
Accounts(regs, h) ==
  /\ h \in [Clients -> Objs]
  /\ \A c \in Clients : h[c] # NULL => InUse(regs, h[c])
  /\ \A q \in Objs : InUse(regs, q) => \E c \in Clients : h[c] = q
  /\ \A c, d \in Clients : c # d /\ h[c] # NULL => h[c] # h[d]

CInv == Neat(regions) /\ Accounts(regions, held)

\* A client without an object is not in the way, as no object is empty.
LEMMA NullNotInUse ==
  ASSUME NEW regs, Neat(regs)
  PROVE  ~InUse(regs, NULL)
<1> SUFFICES ASSUME NEW i \in RegionIds, Holds(regs[i], NULL) PROVE FALSE
  BY DEF InUse
<1>1. regs[i] \in Region /\ EndToEnd(regs[i]) /\ Tidy(regs[i])
  BY DEF Neat, AllSound, Sound
<1>2. NULL.size > 0
  BY <1>1, ObjectInside
<1>3. QED
  BY <1>2 DEF NULL

\* The accounts stay right when one client's object is exchanged for a new one, for none,
\* or none for a new one.
LEMMA Exchange ==
  ASSUME NEW regs, NEW after, NEW h, Accounts(regs, h), NEW c \in Clients, NEW o \in Objs,
         o = NULL \/ ~InUse(regs, o),
         \A q \in Objs : InUse(after, q) <=>
                           (InUse(regs, q) /\ q # h[c]) \/ (q = o /\ o # NULL)
  PROVE  Accounts(after, [h EXCEPT ![c] = o])
<1> DEFINE g == [h EXCEPT ![c] = o]
<1>1. /\ h \in [Clients -> Objs]
      /\ \A d \in Clients : h[d] # NULL => InUse(regs, h[d])
      /\ \A q \in Objs : InUse(regs, q) => \E d \in Clients : h[d] = q
      /\ \A d, e \in Clients : d # e /\ h[d] # NULL => h[d] # h[e]
  BY DEF Accounts
<1>2. g \in [Clients -> Objs] /\ \A d \in Clients : g[d] = IF d = c THEN o ELSE h[d]
  BY <1>1
<1> HIDE DEF g
<1>3. ASSUME NEW d \in Clients, g[d] # NULL PROVE InUse(after, g[d])
  <2>1. CASE d = c
    BY <1>2, <1>3, <2>1
  <2>2. CASE d # c
    <3>1. g[d] = h[d] /\ InUse(regs, h[d]) /\ h[d] # h[c] /\ h[d] \in Objs
      BY <1>1, <1>2, <1>3, <2>2
    <3>2. QED
      BY <3>1
  <2>3. QED
    BY <2>1, <2>2
<1>4. ASSUME NEW q \in Objs, InUse(after, q) PROVE \E d \in Clients : g[d] = q
  <2>1. CASE q = o
    BY <1>2, <2>1
  <2>2. CASE InUse(regs, q) /\ q # h[c]
    <3>1. PICK d \in Clients : h[d] = q
      BY <1>1, <2>2
    <3>2. QED
      BY <1>2, <2>2, <3>1
  <2>3. QED
    BY <1>4, <2>1, <2>2
<1>5. ASSUME NEW d \in Clients, NEW e \in Clients, d # e, g[d] # NULL PROVE g[d] # g[e]
  <2>1. CASE d = c
    <3>1. g[d] = o /\ g[e] = h[e] /\ ~InUse(regs, o)
      BY <1>2, <1>5, <2>1
    <3>2. QED
      BY <1>1, <1>5, <3>1
  <2>2. CASE e = c
    <3>1. g[d] = h[d] /\ g[e] = o /\ InUse(regs, h[d])
      BY <1>1, <1>2, <1>5, <2>2
    <3>2. QED
      BY <1>5, <3>1
  <2>3. CASE d # c /\ e # c
    BY <1>1, <1>2, <1>5, <2>3
  <2>4. QED
    BY <2>1, <2>2, <2>3
<1>6. QED
  BY <1>2, <1>3, <1>4, <1>5 DEF Accounts, g

\* An object just made lies in the arena and apart from whatever the clients hold, the
\* object it is to replace included (MmReallocate makes it before it frees the old one).
LEMMA NewIsAvailable ==
  ASSUME CInv, NEW after, NEW o, Adds(regions, after, o)
  PROVE  Abstract!Available(o)
<1>1. Neat(after) /\ SameArena(regions, after) /\ o \in Objs /\ o.size > 0
      /\ InUse(after, o) /\ ~InUse(regions, o)
      /\ \A q : InUse(regions, q) => InUse(after, q)
  BY DEF Adds, Objs
<1>2. PICK i \in RegionIds : Holds(after[i], o)
  BY <1>1 DEF InUse
<1>3. after[i] \in Region /\ EndToEnd(after[i]) /\ Tidy(after[i])
  BY <1>1 DEF Neat, AllSound, Sound
<1>4. /\ Present(after[i]) /\ o.ptr \in Int /\ o.size \in Int
      /\ after[i].base + after[i].blocks[1].size <= o.ptr
      /\ o.ptr + o.size <= after[i].base + after[i].size
      /\ after[i].blocks[1].size >= 0 /\ after[i].blocks[1].size \in Int
  BY <1>2, <1>3, ObjectInside
<1>5. after[i].base \in Nat /\ after[i].size \in Nat
  BY <1>3, RegionParts
<1>6. after[i].base <= o.ptr /\ o.ptr >= 0
  BY <1>4, <1>5
<1> DEFINE g == [base |-> regions[i].base, size |-> regions[i].size]
<1>7. /\ g \in {[base |-> regions[k].base, size |-> regions[k].size] :
                  k \in {l \in RegionIds : Present(regions[l])}}
      /\ g.base <= o.ptr /\ o.ptr + o.size <= g.base + g.size
  BY <1>1, <1>4, <1>6 DEF SameArena
<1>8. ASSUME NEW d \in Clients
      PROVE  o.ptr + o.size <= held[d].ptr \/ held[d].ptr + held[d].size <= o.ptr
  <2>1. CASE held[d] = NULL
    BY <1>4, <1>6, <2>1 DEF NULL
  <2>2. CASE held[d] # NULL
    <3>1. InUse(regions, held[d]) /\ held[d] \in Objs
      BY <2>2 DEF CInv, Accounts
    <3>2. held[d] # o /\ InUse(after, held[d])
      BY <1>1, <3>1
    <3>3. held[d].ptr # o.ptr \/ held[d].size # o.size
      BY <1>1, <3>1, <3>2 DEF Objs
    <3>4. QED
      BY <1>1, <3>2, <3>3, ObjectsApart
  <2>3. QED
    BY <2>1, <2>2
<1>9. QED
  BY <1>1, <1>7, <1>8 DEF Abstract!Available, Abstract!Disjoint

\* What a call of a client does once it has its answer: the accounts stay right, and the
\* abstract manager gives an object, takes one back or does nothing.
LEMMA SettleCareful ==
  ASSUME CInv, NEW c \in Clients, NEW panic, NEW regs, NEW o \in Objs,
         Settle(panic, regs, c, o),
         panic \/ /\ Neat(regs) /\ SameArena(regions, regs)
                  /\ Accounts(regs, [held EXCEPT ![c] = o])
                  /\ o = NULL \/ o = held[c] \/ Abstract!Available(o)
  PROVE  CInv' /\ [Abstract!PMNext]_(Abstract!pmVars)
<1>1. CASE panic
  <2>1. UNCHANGED <<regions, held>>
    BY <1>1 DEF Settle
  <2>2. CInv'
    BY <2>1 DEF CInv
  <2>3. UNCHANGED Abstract!pmVars
    BY <2>1 DEF Abstract!pmVars
  <2>4. QED
    BY <2>2, <2>3
<1>2. CASE ~panic
  <2>1. regions' = regs /\ held' = [held EXCEPT ![c] = o]
    BY <1>2 DEF Settle
  <2>2. CInv'
    BY <1>2, <2>1 DEF CInv
  <2>3. held \in [Clients -> Objs]
    BY DEF CInv, Accounts
  <2>4. held'[c] = o /\ held' = [held EXCEPT ![c] = held'[c]]
    BY <2>1, <2>3
  <2> DEFINE arena == {[base |-> regions[i].base, size |-> regions[i].size] :
                         i \in {k \in RegionIds : Present(regions[k])}}
  <2>5. arena' = arena
    BY <1>2, <2>1 DEF SameArena
  <2>6. CASE o = NULL
    <3>1. Abstract!Take(c)
      BY <2>1, <2>5, <2>6 DEF Abstract!Take, Abstract!Nothing, NULL
    <3>2. QED
      BY <2>2, <3>1 DEF Abstract!PMNext
  <2>7. CASE o = held[c]
    <3>1. held' = held
      BY <2>1, <2>3, <2>7
    <3>2. UNCHANGED Abstract!pmVars
      BY <2>5, <3>1 DEF Abstract!pmVars
    <3>3. QED
      BY <2>2, <3>2
  <2>8. CASE Abstract!Available(o)
    <3>1. Abstract!Give(c)
      BY <2>4, <2>5, <2>8 DEF Abstract!Give
    <3>2. QED
      BY <2>2, <3>1 DEF Abstract!PMNext
  <2>9. QED
    BY <1>2, <2>6, <2>7, <2>8
<1>3. QED
  BY <1>1, <1>2

\* A region that is created lies apart from the others, holds nothing, and is the only
\* change (MmCreateRegion).
LEMMA CreateCareful ==
  ASSUME CInv, NEW g \in Ranges, NEW clear \in SUBSET UncertainSlots(g), CreateRegion(g, clear)
  PROVE  CInv' /\ [Abstract!PMNext]_(Abstract!pmVars)
<1> DEFINE absent == {i \in RegionIds : ~Present(regions[i])}
           n == NewRegion(g, clear)
           m == Min(absent)
<1>1. CASE absent = {}
  <2>1. UNCHANGED <<regions, held>>
    BY <1>1 DEF CreateRegion
  <2>2. CInv'
    BY <2>1 DEF CInv
  <2>3. UNCHANGED Abstract!pmVars
    BY <2>1 DEF Abstract!pmVars
  <2>4. QED
    BY <2>2, <2>3
<1>2. CASE absent # {}
  <2>1. regions' = [regions EXCEPT ![m] = n] /\ held' = held
    BY <1>2 DEF CreateRegion
  <2>2. absent \in SUBSET Nat
    BY RegionIdsNat DEF RegionIdsAreNaturals
  <2>3. m \in RegionIds /\ ~Present(regions[m])
    BY <1>2, <2>2, MinIsLeast
  <2> HIDE DEF absent, m
  <2>4. /\ g.base \in Nat /\ g.size \in Nat /\ g = [base |-> g.base, size |-> g.size]
        /\ TableSize(g.size) \in Nat /\ TableSize(g.size) < g.size
    <3>1. /\ g \in [base : Nat, size : Nat] /\ g.size \div TableRatio >= 1
          /\ (g.size \div TableRatio + 1) * BlockSize < g.size
      BY InputAssumption
    <3>2. BlockSize \in Nat /\ g.size \div TableRatio \in Nat
      BY <3>1, GeometryAssumption
    <3> DEFINE k == g.size \div TableRatio
    <3>3. k \in Nat
      BY <3>2
    <3> HIDE DEF k
    <3>4. (k + 1) * BlockSize \in Nat
      BY <3>2, <3>3
    <3>5. TableSize(g.size) \in Nat /\ TableSize(g.size) < g.size
      BY <3>1, <3>4 DEF TableSize, k
    <3>6. QED
      BY <3>1, <3>5
  <2>5. /\ n.base = g.base /\ n.size = g.size /\ Len(n.blocks) = 2 /\ Present(n)
        /\ n.blocks[1].flag = "USED" /\ n.blocks[2].flag = "FREE"
        /\ n.blocks[1].size = TableSize(g.size)
        /\ n.blocks[2].size = g.size - TableSize(g.size)
    BY DEF NewRegion, Present
  <2>6. Sound(n)
    BY NewRegionSound
  <2> HIDE DEF n
  <2>7. Tidy(n)
    BY <2>4, <2>5 DEF Tidy
  <2>8. AllSound(regions) /\ RegionsApart(regions) /\ \A i \in RegionIds : Tidy(regions[i])
    BY DEF CInv, Neat
  <2>9. AllSound(regions') /\ \A i \in RegionIds : regions'[i] = IF i = m THEN n ELSE regions[i]
    <3>1. AllSound([regions EXCEPT ![m] = n])
      BY <2>3, <2>6, <2>8, OneReplaced
    <3>2. QED
      BY <2>1, <2>3, <2>8, <3>1 DEF AllSound
  <2>10. RegionsApart(regions')
    <3>1. \A i \in RegionIds : ~Overlap(g.base, g.size, regions[i].base, regions[i].size)
      BY DEF CreateRegion
    <3>2. \A i \in RegionIds : ~Overlap(regions[i].base, regions[i].size, g.base, g.size)
      BY <3>1 DEF Overlap
    <3>3. \A i, k \in RegionIds : i # k =>
            ~Overlap(regions'[i].base, regions'[i].size, regions'[k].base, regions'[k].size)
      BY <2>5, <2>8, <2>9, <3>1, <3>2 DEF RegionsApart
    <3>4. QED
      BY <3>3 DEF RegionsApart
  <2>11. Neat(regions')
    BY <2>7, <2>8, <2>9, <2>10 DEF Neat
  <2>12. \A q : ~Holds(n, q) /\ ~Holds(regions[m], q)
    <3>1. \A q : ~Holds(n, q)
      <4>1. \A j \in 2 .. Len(n.blocks) : j = 2
        BY <2>5
      <4>2. QED
        BY <2>5, <4>1 DEF Holds, IsObject
    <3>2. regions[m] \in Region
      BY <2>3, <2>8 DEF AllSound
    <3>3. Len(regions[m].blocks) \in Nat /\ ~(Len(regions[m].blocks) >= 1)
      BY <2>3, <3>2, RegionParts
    <3>4. 2 .. Len(regions[m].blocks) = {}
      BY <3>3
    <3>5. QED
      BY <3>1, <3>4 DEF Holds
  <2>13. \A q : InUse(regions', q) <=> InUse(regions, q)
    BY <2>3, <2>9, <2>12 DEF InUse
  <2>14. CInv'
    BY <2>1, <2>11, <2>13 DEF CInv, Accounts
  <2> DEFINE arena == {[base |-> regions[i].base, size |-> regions[i].size] :
                         i \in {k \in RegionIds : Present(regions[k])}}
  <2>15. arena' = arena \cup {g}
    <3>1. \A i \in RegionIds :
            /\ Present(regions'[i]) <=> i = m \/ Present(regions[i])
            /\ i = m => [base |-> regions'[i].base, size |-> regions'[i].size] = g
            /\ i # m => regions'[i] = regions[i]
      BY <2>4, <2>5, <2>9
    <3>2. \A x : x \in arena' <=> \E i \in RegionIds : Present(regions'[i]) /\
                   x = [base |-> regions'[i].base, size |-> regions'[i].size]
      OBVIOUS
    <3>3. \A x : x \in arena <=> \E i \in RegionIds : Present(regions[i]) /\
                   x = [base |-> regions[i].base, size |-> regions[i].size]
      OBVIOUS
    <3> HIDE DEF arena
    <3>4. \A x : x \in arena' <=> x \in arena \/ x = g
      BY <2>3, <3>1, <3>2, <3>3
    <3>5. QED
      BY <3>4
  <2>16. Abstract!Extend(g)
    BY <2>1, <2>15 DEF Abstract!Extend
  <2>17. QED
    BY <2>14, <2>16 DEF Abstract!PMNext
<1>3. QED
  BY <1>1, <1>2

\* An allocation for a client that holds nothing (MmAllocatePhysical and what is built on it).
LEMMA AllocateCareful ==
  ASSUME CInv, NEW c \in Clients, held[c] = NULL, NEW size \in Nat, NEW align \in Nat,
         Roomy(regions, size, align), NEW panic,
         Allocation(regions, size, align).panic => panic,
         Settle(panic, Allocation(regions, size, align).regs, c,
                Allocation(regions, size, align).obj)
  PROVE  CInv' /\ [Abstract!PMNext]_(Abstract!pmVars)
<1> DEFINE a == Allocation(regions, size, align)
<1>1. Neat(regions) /\ Accounts(regions, held) /\ held \in [Clients -> Objs]
  BY DEF CInv, Accounts
<1>2. \/ a.panic
      \/ a.obj = NULL /\ a.regs = regions
      \/ Adds(regions, a.regs, a.obj)
  BY <1>1, AllocationAdds
<1>3. a.obj \in Objs
  <2>1. AllSound(regions) /\ \A i \in RegionIds : Present(regions[i]) => TableUsed(regions[i])
    BY <1>1 DEF Neat, Tidy, TableUsed
  <2>2. QED
    BY <2>1, AllocationSound DEF Objs
<1>4. Settle(panic, a.regs, c, a.obj) /\ (a.panic => panic)
  OBVIOUS
<1> HIDE DEF a
<1>5. CASE a.panic
  BY <1>3, <1>4, <1>5, SettleCareful
<1>6. CASE a.obj = NULL /\ a.regs = regions
  <2>1. [held EXCEPT ![c] = a.obj] = held
    BY <1>1, <1>6
  <2>2. SameArena(regions, a.regs)
    BY <1>6 DEF SameArena
  <2>3. QED
    BY <1>1, <1>3, <1>4, <1>6, <2>1, <2>2, SettleCareful
<1>7. CASE Adds(regions, a.regs, a.obj)
  <2>1. /\ Neat(a.regs) /\ SameArena(regions, a.regs) /\ ~InUse(regions, a.obj)
        /\ a.obj.size > 0
        /\ \A q : InUse(a.regs, q) <=>
                    InUse(regions, q) \/ (q.ptr = a.obj.ptr /\ q.size = a.obj.size)
    BY <1>7 DEF Adds
  <2>2. a.obj # NULL /\ ~InUse(regions, held[c])
    BY <1>1, <2>1, NullNotInUse DEF NULL
  <2>3. \A q \in Objs : q.ptr = a.obj.ptr /\ q.size = a.obj.size <=> q = a.obj
    BY <1>3 DEF Objs
  <2>4. \A q \in Objs : InUse(a.regs, q) <=>
          (InUse(regions, q) /\ q # held[c]) \/ (q = a.obj /\ a.obj # NULL)
    BY <2>1, <2>2, <2>3
  <2>5. Accounts(a.regs, [held EXCEPT ![c] = a.obj])
    BY <1>1, <1>3, <2>1, <2>4, Exchange
  <2>6. Abstract!Available(a.obj)
    BY <1>7, NewIsAvailable
  <2>7. QED
    BY <1>3, <1>4, <2>1, <2>5, <2>6, SettleCareful
<1>8. QED
  BY <1>2, <1>5, <1>6, <1>7

\* A careful free gives back the client's object (MmFree).
LEMMA FreeCareful ==
  ASSUME CInv, NEW c \in Clients, Isolated(regions, held[c].ptr), Free(c)
  PROVE  CInv' /\ [Abstract!PMNext]_(Abstract!pmVars)
<1> DEFINE p == held[c].ptr
           after == Freed(regions, p)
<1>1. /\ Neat(regions) /\ Accounts(regions, held) /\ held[c] \in Objs
      /\ held[c] # NULL /\ InUse(regions, held[c]) /\ NULL \in Objs
  BY DEF CInv, Accounts, Free, NULL, Objs
<1>2. Settle(FreePanics(regions, p), after, c, NULL)
  BY DEF Free
<1>3. /\ Neat(after) /\ SameArena(regions, after)
      /\ \A q : InUse(after, q) <=>
                  InUse(regions, q) /\ ~(q.ptr = held[c].ptr /\ q.size = held[c].size)
  BY <1>1, FreedRemoves
<1> HIDE DEF after
<1>4. \A q \in Objs : q.ptr = held[c].ptr /\ q.size = held[c].size <=> q = held[c]
  BY <1>1 DEF Objs
<1>5. \A q \in Objs : InUse(after, q) <=>
        (InUse(regions, q) /\ q # held[c]) \/ (q = NULL /\ NULL # NULL)
  BY <1>3, <1>4
<1>6. Accounts(after, [held EXCEPT ![c] = NULL])
  BY <1>1, <1>5, Exchange
<1>7. QED
  BY <1>1, <1>2, <1>3, <1>6, SettleCareful

\* A careful exchange makes the new object before the old one is given back, and the old
\* one stays when there is no room for both (MmReallocate).
LEMMA ReallocateCareful ==
  ASSUME CInv, NEW c \in Clients, NEW size \in Nat, Reallocate(c, size),
         \/ Allocation(regions, size, 0).obj = NULL
         \/ Isolated(Allocation(regions, size, 0).regs, held[c].ptr)
  PROVE  CInv' /\ [Abstract!PMNext]_(Abstract!pmVars)
<1> DEFINE a == Allocation(regions, size, 0)
           old == held[c]
           after == Freed(a.regs, old.ptr)
<1>1. /\ Neat(regions) /\ Accounts(regions, held) /\ held \in [Clients -> Objs]
      /\ old \in Objs /\ old # NULL /\ InUse(regions, old)
  BY DEF CInv, Accounts, Reallocate
<1>2. Roomy(regions, size, 0) /\ 0 \in Nat
  BY DEF Roomy
<1>3. \/ a.panic
      \/ a.obj = NULL /\ a.regs = regions
      \/ Adds(regions, a.regs, a.obj)
  BY <1>1, <1>2, AllocationAdds
<1>4. a.obj \in Objs
  <2>1. AllSound(regions) /\ \A i \in RegionIds : Present(regions[i]) => TableUsed(regions[i])
    BY <1>1 DEF Neat, Tidy, TableUsed
  <2>2. QED
    BY <1>2, <2>1, AllocationSound DEF Objs
<1>5. IF a.obj = NULL THEN Settle(a.panic, regions, c, old)
      ELSE Settle(a.panic \/ FreePanics(a.regs, old.ptr), after, c, a.obj)
  BY DEF Reallocate
<1>6. a.obj = NULL \/ Isolated(a.regs, old.ptr)
  OBVIOUS
<1> HIDE DEF a, after
<1>7. CASE a.obj = NULL
  <2>1. [held EXCEPT ![c] = old] = held
    BY <1>1
  <2>2. SameArena(regions, regions)
    BY DEF SameArena
  <2>3. Settle(a.panic, regions, c, old)
    BY <1>5, <1>7
  <2>4. QED
    BY <1>1, <2>1, <2>2, <2>3, SettleCareful
<1>8. CASE a.obj # NULL /\ a.panic
  <2> DEFINE panic == a.panic \/ FreePanics(a.regs, old.ptr)
  <2>1. Settle(panic, after, c, a.obj) /\ panic
    BY <1>5, <1>8
  <2> HIDE DEF panic
  <2>2. QED
    BY <1>4, <2>1, SettleCareful
<1>9. CASE a.obj # NULL /\ ~a.panic
  <2>1. /\ Neat(a.regs) /\ SameArena(regions, a.regs) /\ ~InUse(regions, a.obj)
        /\ Adds(regions, a.regs, a.obj)
        /\ \A q : InUse(a.regs, q) <=>
                    InUse(regions, q) \/ (q.ptr = a.obj.ptr /\ q.size = a.obj.size)
    BY <1>3, <1>9 DEF Adds
  <2>2. InUse(a.regs, old) /\ Isolated(a.regs, old.ptr)
    BY <1>1, <1>6, <1>9, <2>1
  <2>3. /\ ~FreePanics(a.regs, old.ptr) /\ Neat(after) /\ SameArena(a.regs, after)
        /\ \A q : InUse(after, q) <=>
                    InUse(a.regs, q) /\ ~(q.ptr = old.ptr /\ q.size = old.size)
    BY <2>1, <2>2, FreedRemoves DEF after
  <2>4. /\ \A q \in Objs : q.ptr = a.obj.ptr /\ q.size = a.obj.size <=> q = a.obj
        /\ \A q \in Objs : q.ptr = old.ptr /\ q.size = old.size <=> q = old
    BY <1>1, <1>4 DEF Objs
  <2>5. a.obj # old
    BY <1>1, <2>1
  <2>6. \A q \in Objs : InUse(after, q) <=>
          (InUse(regions, q) /\ q # held[c]) \/ (q = a.obj /\ a.obj # NULL)
    BY <1>9, <2>1, <2>3, <2>4, <2>5
  <2>7. Accounts(after, [held EXCEPT ![c] = a.obj])
    BY <1>1, <1>4, <2>1, <2>6, Exchange
  <2>8. SameArena(regions, after)
    BY <2>1, <2>3 DEF SameArena
  <2>9. Abstract!Available(a.obj)
    BY <2>1, NewIsAvailable
  <2> DEFINE panic == a.panic \/ FreePanics(a.regs, old.ptr)
  <2>10. Settle(panic, after, c, a.obj)
    BY <1>5, <1>9
  <2> HIDE DEF panic
  <2>11. QED
    BY <1>4, <2>3, <2>7, <2>8, <2>9, <2>10, SettleCareful
<1>10. QED
  BY <1>7, <1>8, <1>9

\* Each step of careful callers keeps the accounts right, and is one of the abstract manager.
LEMMA CarefulStep ==
  ASSUME CInv, [CarefulNext]_vars
  PROVE  CInv' /\ [Abstract!PMNext]_(Abstract!pmVars)
<1>1. Sizes \subseteq Nat /\ Aligns \subseteq Nat /\ 0 \in Nat
  BY InputAssumption
<1>2. ASSUME NEW g \in Ranges, NEW clear \in SUBSET UncertainSlots(g), CreateRegion(g, clear)
      PROVE  CInv' /\ [Abstract!PMNext]_(Abstract!pmVars)
  BY <1>2, CreateCareful
<1>3. ASSUME NEW c \in Clients, NEW size \in Sizes, NEW align \in Aligns,
             Roomy(regions, size, align), Allocate(c, size, align)
      PROVE  CInv' /\ [Abstract!PMNext]_(Abstract!pmVars)
  <2> DEFINE a == Allocation(regions, size, align)
  <2>1. held[c] = NULL /\ Settle(a.panic, a.regs, c, a.obj)
    BY <1>3 DEF Allocate
  <2>2. size \in Nat /\ align \in Nat
    BY <1>1
  <2>3. QED
    BY <1>3, <2>1, <2>2, AllocateCareful
<1>4. ASSUME NEW c \in Clients, NEW size \in Sizes, AllocateZero(c, size)
      PROVE  CInv' /\ [Abstract!PMNext]_(Abstract!pmVars)
  <2> DEFINE a == Allocation(regions, size, 0)
             panic == a.panic \/ a.obj = NULL
  <2>1. held[c] = NULL /\ Settle(panic, a.regs, c, a.obj) /\ (a.panic => panic)
    BY <1>4 DEF AllocateZero
  <2>2. Roomy(regions, size, 0) /\ size \in Nat
    BY <1>1 DEF Roomy
  <2> HIDE DEF panic
  <2>3. QED
    BY <1>1, <2>1, <2>2, AllocateCareful
<1>5. ASSUME NEW c \in Clients, NEW size \in Sizes, Reallocate(c, size),
             \/ Allocation(regions, size, 0).obj = NULL
             \/ Isolated(Allocation(regions, size, 0).regs, held[c].ptr)
      PROVE  CInv' /\ [Abstract!PMNext]_(Abstract!pmVars)
  BY <1>1, <1>5, ReallocateCareful
<1>6. ASSUME NEW c \in Clients, Isolated(regions, held[c].ptr), Free(c)
      PROVE  CInv' /\ [Abstract!PMNext]_(Abstract!pmVars)
  BY <1>6, FreeCareful
<1>7. CASE Stopped \/ UNCHANGED vars
  <2>1. UNCHANGED <<regions, held>>
    BY <1>7 DEF Stopped, vars
  <2>2. CInv'
    BY <2>1 DEF CInv
  <2>3. UNCHANGED Abstract!pmVars
    BY <2>1 DEF Abstract!pmVars
  <2>4. QED
    BY <2>2, <2>3
<1>8. QED
  BY <1>2, <1>3, <1>4, <1>5, <1>6, <1>7 DEF CarefulNext, CarefulSetup, CarefulCalls

\* At first nothing is held and no range was handed over.
LEMMA CarefulInit == Init => CInv /\ Abstract!PMInit
<1> SUFFICES ASSUME Init PROVE CInv /\ Abstract!PMInit
  OBVIOUS
<1>1. /\ regions = [i \in RegionIds |-> NotPresent] /\ held = [c \in Clients |-> NULL]
      /\ \A i \in RegionIds : regions[i] = NotPresent
  BY DEF Init
<1>2. NotPresent \in Region /\ ~Present(NotPresent) /\ Sound(NotPresent)
      /\ NotPresent.base = 0 /\ NotPresent.size = 0 /\ NotPresent.blocks = << >>
  BY AbsentSound DEF NotPresent, Present, Sound
<1>3. Neat(regions)
  <2>1. AllSound(regions)
    BY <1>1, <1>2 DEF AllSound
  <2>2. RegionsApart(regions)
    BY <1>1, <1>2 DEF RegionsApart, Overlap
  <2>3. \A i \in RegionIds : Tidy(regions[i])
    BY <1>1, <1>2 DEF Tidy
  <2>4. QED
    BY <2>1, <2>2, <2>3 DEF Neat
<1>4. \A q : ~InUse(regions, q)
  <2>1. 2 .. Len(<< >>) = {}
    OBVIOUS
  <2>2. \A q : ~Holds(NotPresent, q)
    BY <1>2, <2>1 DEF Holds
  <2>3. QED
    BY <1>1, <2>2 DEF InUse
<1>5. NULL \in Objs /\ held \in [Clients -> Objs] /\ \A c \in Clients : held[c] = NULL
  BY <1>1 DEF NULL, Objs
<1>6. CInv
  BY <1>3, <1>4, <1>5 DEF CInv, Accounts
<1>7. {[base |-> regions[i].base, size |-> regions[i].size] :
         i \in {k \in RegionIds : Present(regions[k])}} = {}
  BY <1>1, <1>2
<1>8. Abstract!PMInit
  BY <1>1, <1>7 DEF Abstract!PMInit, Abstract!Nothing, NULL
<1>9. QED
  BY <1>6, <1>8

\* What starts after an area ends does not overlap its beginning.
LEMMA BeyondIsApart ==
  ASSUME NEW base \in Int, NEW n \in Int, NEW m \in Int, NEW next \in Int,
         NEW p \in Int, NEW l \in Int,
         base + n <= base + m, next >= base + m, next <= p
  PROVE  ~Overlap(p, l, base, n)
  BY DEF Overlap

\* With the accounts right, the used blocks are the objects held, and these are apart from
\* each other and from every table.
LEMMA AccountsGiveUsed == CInv => UsedBlocksAreHeld
<1> SUFFICES ASSUME CInv PROVE UsedBlocksAreHeld
  OBVIOUS
<1>1. /\ Neat(regions) /\ held \in [Clients -> Objs]
      /\ \A c \in Clients : held[c] # NULL => InUse(regions, held[c])
      /\ \A q \in Objs : InUse(regions, q) => \E c \in Clients : held[c] = q
      /\ \A c, d \in Clients : c # d /\ held[c] # NULL => held[c] # held[d]
  BY DEF CInv, Accounts
<1>2. \A i \in RegionIds : /\ regions[i] \in Region /\ EndToEnd(regions[i]) /\ Tidy(regions[i])
                           /\ TableSound(regions[i])
  BY <1>1 DEF Neat, AllSound, Sound
<1>3. \A q : InUse(regions, q) <=> \E b \in UsedBlocks : b.addr = q.ptr /\ b.size = q.size
  BY DEF InUse, Holds, IsObject, UsedBlocks
<1>4. ASSUME NEW b \in UsedBlocks
      PROVE  [ptr |-> b.addr, size |-> b.size] \in Objs \ {NULL}
  <2>1. PICK i \in RegionIds : \E j \in 2 .. Len(regions[i].blocks) :
           b = regions[i].blocks[j] /\ regions[i].blocks[j].flag = "USED"
    BY DEF UsedBlocks
  <2> PICK j \in 2 .. Len(regions[i].blocks) :
           b = regions[i].blocks[j] /\ regions[i].blocks[j].flag = "USED"
    BY <2>1
  <2>2. Len(regions[i].blocks) \in Nat /\ j \in 1 .. Len(regions[i].blocks) /\ Present(regions[i])
    BY <1>2, RegionParts
  <2>3. b.addr \in Int /\ b.size \in Int
    BY <1>2, <2>1, <2>2, RegionParts
  <2>4. b.size > 0
    BY <1>2, <2>1, <2>2 DEF Tidy
  <2>5. QED
    BY <2>3, <2>4 DEF Objs, NULL
<1>5. {[ptr |-> b.addr, size |-> b.size] : b \in UsedBlocks} = Objects
  <2>1. ASSUME NEW b \in UsedBlocks PROVE [ptr |-> b.addr, size |-> b.size] \in Objects
    <3> DEFINE q == [ptr |-> b.addr, size |-> b.size]
    <3>1. q \in Objs /\ q # NULL /\ q.ptr = b.addr /\ q.size = b.size
      BY <1>4
    <3> HIDE DEF q
    <3>2. InUse(regions, q)
      BY <1>3, <3>1
    <3>3. PICK c \in Clients : held[c] = q
      BY <1>1, <3>1, <3>2
    <3>4. q \in Objects
      BY <3>1, <3>3 DEF Objects
    <3>5. QED
      BY <3>4 DEF q
  <2>2. ASSUME NEW q \in Objects
        PROVE  \E b \in UsedBlocks : q = [ptr |-> b.addr, size |-> b.size]
    <3>1. PICK c \in Clients : held[c] # NULL /\ q = held[c]
      BY DEF Objects
    <3>2. q \in Objs /\ InUse(regions, q)
      BY <1>1, <3>1
    <3>3. PICK b \in UsedBlocks : b.addr = q.ptr /\ b.size = q.size
      BY <1>3, <3>2
    <3>4. q = [ptr |-> b.addr, size |-> b.size]
      BY <3>2, <3>3 DEF Objs
    <3>5. QED
      BY <3>4
  <2>3. QED
    BY <2>1, <2>2
<1>6. ASSUME NEW c \in Clients, NEW i \in RegionIds, InUse(regions, held[c]), Present(regions[i])
      PROVE  ~Overlap(held[c].ptr, held[c].size, regions[i].base, regions[i].blocks[1].size)
  <2>1. PICK k \in RegionIds : Holds(regions[k], held[c])
    BY <1>6 DEF InUse
  <2>2. /\ held[c].ptr \in Int /\ held[c].size \in Int /\ held[c].size > 0
        /\ regions[k].base + regions[k].blocks[1].size <= held[c].ptr
        /\ held[c].ptr + held[c].size <= regions[k].base + regions[k].size
        /\ regions[k].blocks[1].size >= 0 /\ regions[k].blocks[1].size \in Int
    BY <1>2, <2>1, ObjectInside
  <2>3. /\ regions[i].base \in Int /\ regions[i].size \in Int
        /\ regions[k].base \in Int /\ regions[k].size \in Int
        /\ 1 \in 1 .. Len(regions[i].blocks)
    BY <1>2, <1>6, RegionParts
  <2>4. CASE k = i
    BY <2>2, <2>3, <2>4 DEF Overlap
  <2>5. CASE k # i
    <3>1. /\ regions[i].blocks[1].addr + regions[i].blocks[1].size
               <= regions[i].base + regions[i].size
          /\ regions[i].blocks[1].addr = regions[i].base
          /\ regions[i].blocks[1].size \in Int
      BY <1>2, <1>6, <2>3, BlocksInside, RegionParts DEF EndToEnd
    <3>2. \/ regions[i].base >= regions[k].base + regions[k].size
          \/ regions[k].base >= regions[i].base + regions[i].size
      BY <1>1, <2>3, <2>5 DEF Neat, RegionsApart, Overlap
    <3>3. CASE regions[i].base >= regions[k].base + regions[k].size
      BY <2>2, <2>3, <3>3 DEF Overlap
    <3>4. CASE regions[k].base >= regions[i].base + regions[i].size
      <4>1. regions[i].base + regions[i].blocks[1].size <= regions[i].base + regions[i].size
        BY <3>1
      <4>2. regions[k].base <= held[c].ptr
        BY <2>2, <2>3
      <4>3. /\ regions[i].base \in Int /\ regions[i].size \in Int /\ regions[k].base \in Int
            /\ regions[i].blocks[1].size \in Int /\ held[c].ptr \in Int /\ held[c].size \in Int
        BY <2>2, <2>3, <3>1
      <4>4. QED
        BY <3>4, <4>1, <4>2, <4>3, BeyondIsApart
    <3>5. QED
      BY <3>2, <3>3, <3>4
  <2>6. QED
    BY <2>4, <2>5
<1>7. ASSUME NEW i \in RegionIds, Present(regions[i]) PROVE TableOwned(regions[i])
  <2>1. regions[i].blocks[1].flag = "USED"
    BY <1>2, <1>7 DEF Tidy
  <2>2. ASSUME NEW c \in Clients
        PROVE  ~Overlap(held[c].ptr, held[c].size, regions[i].base, regions[i].blocks[1].size)
    <3>1. CASE held[c] = NULL
      <4>1. regions[i].base \in Nat
        BY <1>2, RegionParts
      <4>2. QED
        BY <3>1, <4>1 DEF NULL, Overlap
    <3>2. CASE held[c] # NULL
      BY <1>1, <1>6, <1>7, <3>2
    <3>3. QED
      BY <3>1, <3>2
  <2>3. QED
    BY <2>1, <2>2 DEF TableOwned
<1>8. ASSUME NEW c \in Clients, NEW d \in Clients, c # d
      PROVE  ~Overlap(held[c].ptr, held[c].size, held[d].ptr, held[d].size)
  <2>1. held[c] \in Objs /\ held[d] \in Objs
    BY <1>1
  <2>2. ASSUME NEW e \in Clients, held[e] # NULL PROVE held[e].ptr >= 0
    <3>1. PICK k \in RegionIds : Holds(regions[k], held[e])
      BY <1>1, <2>2 DEF InUse
    <3>2. /\ held[e].ptr \in Int
          /\ regions[k].base + regions[k].blocks[1].size <= held[e].ptr
          /\ regions[k].blocks[1].size >= 0 /\ regions[k].blocks[1].size \in Int
      BY <1>2, <3>1, ObjectInside
    <3>3. regions[k].base \in Nat
      BY <1>2, RegionParts
    <3>4. QED
      BY <3>2, <3>3
  <2>3. CASE held[c] = NULL \/ held[d] = NULL
    BY <2>1, <2>2, <2>3 DEF Overlap, NULL, Objs
  <2>4. CASE held[c] # NULL /\ held[d] # NULL
    <3>1. held[c].ptr # held[d].ptr \/ held[c].size # held[d].size
      BY <1>1, <1>8, <2>1, <2>4 DEF Objs
    <3>2. \/ held[c].ptr + held[c].size <= held[d].ptr
          \/ held[d].ptr + held[d].size <= held[c].ptr
      BY <1>1, <2>4, <3>1, ObjectsApart
    <3>3. QED
      BY <2>1, <3>2 DEF Overlap, Objs
  <2>5. QED
    BY <2>3, <2>4
<1>9. QED
  BY <1>5, <1>7, <1>8 DEF UsedBlocksAreHeld

\* The accounts stay right as long as callers are careful.
LEMMA CarefulInvariance == CarefulSpec => []CInv
<1>1. Init => CInv
  BY CarefulInit
<1>2. CInv /\ [CarefulNext]_vars => CInv'
  BY CarefulStep
<1>3. QED
  BY <1>1, <1>2, PTL DEF CarefulSpec

\* A careful call of MmFreePhysical can only give back the block it was asked for: the used
\* blocks are the objects held before and after, and one client let go of one object.
LEMMA CarefulFree ==
  ASSUME CInv, CInv', NEW c \in Clients, Free(c), ~panicked'
  PROVE  {b.addr : b \in UsedBlocks} \ {b.addr : b \in UsedBlocks'} \subseteq {held[c].ptr}
<1>1. UsedBlocksAreHeld /\ ~panicked
  BY AccountsGiveUsed DEF Free, Operational
<1>2. UsedBlocksAreHeld'
  BY AccountsGiveUsed, PTL
<1>3. {[ptr |-> b.addr, size |-> b.size] : b \in UsedBlocks} = Objects
  BY <1>1 DEF UsedBlocksAreHeld
<1>4. {[ptr |-> b.addr, size |-> b.size] : b \in UsedBlocks'} = Objects'
  BY <1>2 DEF UsedBlocksAreHeld
<1>5. held \in [Clients -> Objs] /\ held' = [held EXCEPT ![c] = NULL]
  BY DEF CInv, Accounts, Free, Settle
<1>6. ASSUME NEW b \in UsedBlocks, \A u \in UsedBlocks' : u.addr # b.addr
      PROVE  b.addr = held[c].ptr
  <2>1. [ptr |-> b.addr, size |-> b.size] \in Objects
    BY <1>3
  <2>2. PICK d \in Clients : held[d] # NULL /\ held[d] = [ptr |-> b.addr, size |-> b.size]
    BY <2>1 DEF Objects
  <2>3. CASE d = c
    BY <2>2, <2>3
  <2>4. CASE d # c
    <3>1. held'[d] = held[d]
      BY <1>5, <2>4
    <3>2. held[d] \in Objects'
      BY <2>2, <3>1 DEF Objects
    <3>3. PICK u \in UsedBlocks' : held[d] = [ptr |-> u.addr, size |-> u.size]
      BY <1>4, <3>2
    <3>4. u.addr = b.addr
      BY <2>2, <3>3
    <3>5. QED
      BY <1>6, <3>4
  <2>5. QED
    BY <2>3, <2>4
<1>7. QED
  BY <1>6

----------------------------------------------------------------------------
(* The theorems *)

\* Every region stays absent or a list of well-formed blocks (struct PmmRegion),
\* whatever is allocated and freed, rightly or wrongly.
THEOREM TypeCorrect == Spec => []TypeOK
  BY Invariance, SoundGivesProperties, PTL

\* The check of MmCheckHeap (pmm.c:126) never fails: no sequence of allocations,
\* aligned or not, of wrong frees and of growths of the table makes it panic.
THEOREM HeapAlwaysAddsUp == Spec => []HeapAddsUp
  BY Invariance, SoundGivesProperties, PTL

\* Coalescing with one neighbour on each side (pmm.c:258-273) is enough.
THEOREM FreeBlocksCoalesce == Spec => []NoFreeNeighbours
  BY Invariance, SoundGivesProperties, PTL

\* No two blocks share a descriptor, and MmCreateBlock never hands out one in use.
THEOREM DescriptorsApart == Spec => []SlotsApart
  BY Invariance, SoundGivesProperties, PTL

\* The bytes the table grows into (pmm.c:80-86) are always those of heap[1].
THEOREM TableGrowsInPlace == Spec => []HeapOneFollowsTable
  BY Invariance, SoundGivesProperties, PTL

\* Careful callers: the used blocks are exactly the objects held, nothing leaks, nothing is
\* handed out twice and the growing table never reaches an object (pmm.c:80).
THEOREM NothingLeaksOrIsSharedTwice == CarefulSpec => []UsedBlocksAreHeld
  BY CarefulInvariance, AccountsGiveUsed, PTL

\* Careful callers see the abstract memory manager: every call gives one object that is
\* free, exchanges one, takes one back or changes nothing (mm.c, pmm.c).
THEOREM PmmImplementsPhysicalMemory == CarefulSpec => KeepsThePromise
<1>1. Init => Abstract!PMInit
  BY CarefulInit
<1>2. CInv /\ [CarefulNext]_vars => [Abstract!PMNext]_(Abstract!pmVars)
  BY CarefulStep
<1>3. QED
  BY <1>1, <1>2, CarefulInvariance, PTL DEF CarefulSpec, KeepsThePromise, Abstract!PMSpec
\* Careful callers free what they ask to free ("Free the requested block", pmm.c:254),
\* although a careless one loses a neighbour's block.
THEOREM CarefulCallersFreeTheirOwn == CarefulSpec => FreesTheRequestedBlock
<1>1. CInv /\ CInv' /\ [CarefulNext]_vars =>
        [\A c \in Clients :
           Free(c) /\ ~panicked' =>
             {b.addr : b \in UsedBlocks} \ {b.addr : b \in UsedBlocks'}
               \subseteq {held[c].ptr}]_vars
  BY CarefulFree
<1>2. QED
  BY <1>1, CarefulInvariance, PTL DEF CarefulSpec, FreesTheRequestedBlock
=============================================================================
