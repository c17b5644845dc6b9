------------------------------ MODULE IrqLines ------------------------------
(***************************************************************************)
(* IRQ lines (irq.c:1-130): ranges of lines, each range with a driver that *)
(* is told of handlers set and freed, each line with an array of handlers. *)
(*                                                                         *)
(* The table of ranges, the lines of each range and the handlers of each   *)
(* line are blocks of the heap.  Whoever set a handler holds an IRQ number *)
(* and frees it once.  What a driver does when it is told is not the       *)
(* kernel's: it changes nothing here.                                      *)
(***************************************************************************)
EXTENDS Storage

CONSTANTS
  Shapes,       \* ranges drivers create: the first number, which lines are private
  MaxRanges,    \* bound
  MaxHolders    \* bound: holders of one line

ASSUME IrqLinesAssumption ==
  /\ Shapes \subseteq [start : Nat, private : Seq(BOOLEAN)]
  /\ MaxRanges \in Nat /\ MaxHolders \in Nat

VARIABLES
  table,    \* g_irq_table.ranges
  ranges    \* what it holds
irqVars == <<table, ranges>>

Shifted == "shifted"    \* the table has lost its first byte
Stale == "stale"        \* a range was destroyed through a pointer to freed memory

Table == <<"irq table">>
LinesOf(i) == <<"lines", i>>
HandlersOf(i, j) == <<"handlers", i, j>>

NewLine(private) == [private |-> private, handlers |-> NULL, n |-> 0, holders |-> 0]
Irq(i, j) == ranges[i].start + j - 1

\* The numbers KeFreeIrq takes for the range's own, one too many.
Claimed(r) == r.start..r.start + Len(r.lines)
Apart(s) == \A i, j \in DOMAIN s : i # j => Claimed(s[i]) \cap Claimed(s[j]) = {}

First(S) == CHOOSE i \in S : \A j \in S : i <= j

----------------------------------------------------------------------------
\* The range is made in an object of its own first, which nobody frees.
KeCreateIrqRange(shape) ==
  /\ Len(ranges) < MaxRanges
  /\ IF table # NULL /\ heap.owner[table] # Table
     THEN halted' = Wild /\ UNCHANGED <<heap, irqVars>>
     ELSE \E copy \in Spots(heap) :
          LET made == [heap EXCEPT !.order = Placed(@, copy, Scrap)] IN \E lines \in Sites(made) :
          LET full == MmAllocate(made, lines, LinesOf(Len(ranges) + 1)) IN \E at \in Sites(full) :
            /\ heap' = MmReallocate(full, table, at, Table)
            /\ table' = at.block
            /\ ranges' = Append(ranges,
                 [start |-> shape.start, block |-> lines.block,
                  lines |-> [j \in DOMAIN shape.private |-> NewLine(shape.private[j])]])
            /\ halted' = IF MovesUp(full, table, at) THEN Shifted ELSE halted

Common(i) == {j \in DOMAIN ranges[i].lines : ~ranges[i].lines[j].private}
Serving == {i \in DOMAIN ranges : Common(i) # {}}

\* The ranges, and their lines, that a walk up to range i has read are still there.
Intact(i) ==
  heap.owner[table] = Table /\ \A k \in 1..i : heap.owner[ranges[k].block] = LinesOf(k)

\* What line j of range i keeps its handlers in is not its own any more, or never was.
Astray(i, j) ==
  LET line == ranges[i].lines[j]
  IN line.handlers # NULL /\ heap.owner[line.handlers] # HandlersOf(i, j)

WithHandler(i, j, b) ==
  [ranges EXCEPT ![i].lines[j] =
     [ranges[i].lines[j] EXCEPT !.handlers = b, !.n = @ + 1, !.holders = @ + 1]]

\* Every handler is added to the first line that is not private, of the first range
\* that has one.  With no such line the call fails and changes nothing.
KeAllocateIrq(at) ==
  LET i == First(Serving)
      j == First(Common(i))
      line == ranges[i].lines[j]
  IN /\ Serving # {}
     /\ IF ~Intact(i) \/ Astray(i, j)
        THEN halted' = Wild /\ UNCHANGED <<heap, irqVars>>
        ELSE /\ line.holders < MaxHolders
             /\ heap' = MmReallocate(heap, line.handlers, at, HandlersOf(i, j))
             /\ ranges' = WithHandler(i, j, at.block)
             /\ UNCHANGED <<table, halted>>

\* Mutant: the count of handlers is not reset.
CountKept(k, l) == [ranges EXCEPT ![k].lines[l] = [@ EXCEPT !.private = FALSE]]
WithoutHandlers(k, l) == [ranges EXCEPT ![k].lines[l] = [@ EXCEPT !.n = 0, !.private = FALSE]]

\* A holder of line j of range i frees its number: the first range k that claims it
\* drops the handlers of all holders and keeps the pointer to them.
KeFreeIrq(i, j) ==
  LET irq  == Irq(i, j)
      k    == First({r \in DOMAIN ranges : irq \in Claimed(ranges[r])})
      l    == irq - ranges[k].start + 1
  IN /\ ranges[i].lines[j].holders > 0
     /\ IF \/ heap.owner[table] # Table \/ heap.owner[ranges[k].block] # LinesOf(k)
           \/ l \notin DOMAIN ranges[k].lines \/ Astray(k, l)
        THEN halted' = Wild /\ UNCHANGED <<heap, irqVars>>
        ELSE /\ heap' = MmFree(heap, ranges[k].lines[l].handlers)
             /\ ranges' = [WithoutHandlers(k, l) EXCEPT ![i].lines[j].holders = @ - 1]
             /\ UNCHANGED <<table, halted>>

\* Through the pointer its creation returned, which the next creation has left in a
\* table freed since.  To free a range is to free the table it is in: only for the
\* first range is the pointer that of the table.
KeDestroyIrqRange(i) ==
  LET h == MmFree(heap, ranges[i].block) IN
  /\ IF i < Len(ranges) \/ ~Intact(i)
     THEN halted' = Stale /\ UNCHANGED heap
     ELSE /\ heap' = IF i = 1 THEN MmFree(h, table) ELSE FreeObject(h, table)
          /\ UNCHANGED halted
  /\ UNCHANGED irqVars

IrqPanic == KePanic /\ UNCHANGED <<heap, irqVars>>

IrqInit == table = NULL /\ ranges = << >>

IrqNext ==
  \/ \E shape \in Shapes : KeCreateIrqRange(shape)
  \/ \E at \in Sites(heap) : KeAllocateIrq(at)
  \/ \E i \in DOMAIN ranges : \E j \in DOMAIN ranges[i].lines : KeFreeIrq(i, j)
  \/ \E i \in DOMAIN ranges : KeDestroyIrqRange(i)
  \/ IrqPanic

----------------------------------------------------------------------------
(* Properties *)

Dropped == {i \in DOMAIN ranges : \E j \in DOMAIN ranges[i].lines :
              ranges[i].lines[j].n = 0 /\ ranges[i].lines[j].handlers # NULL}

\* The calls for IRQ lines use or write memory that is not theirs for three reasons
\* only: ranges that touch or overlap, the number behind the end counted (irq.c:111), a
\* line whose handlers were freed (irq.c:112), a range that was destroyed (irq.c:125-130).
WildForAReason ==
  halted = Wild =>
    ~Apart(ranges) \/ Dropped # {} \/ heap.owner[table] # Table
=============================================================================
