------------------------------ MODULE Services ------------------------------
(***************************************************************************)
(* Drivers with IRQ lines, callers of supervisor calls and a program, all  *)
(* served from one heap.                                                   *)
(***************************************************************************)
EXTENDS IrqLines, SupervisorCalls

ServicesInit == StorageInit /\ IrqInit /\ SvcInit

\* Once a free has taken a block of somebody else nothing is promised any more.
Going == halted = "" /\ ~heap.robbed

ServicesNext ==
  /\ Going
  /\ \/ IrqNext /\ UNCHANGED svcVars
     \/ SvcNext /\ UNCHANGED irqVars

servicesVars == <<heap, halted, irqVars, svcVars>>
ServicesSpec == ServicesInit /\ [][ServicesNext]_servicesVars

----------------------------------------------------------------------------
(* Properties *)

Handled(line) == IF line.n > 0 THEN {line.handlers} ELSE {}

\* As long as no free has taken a block from another owner (pmm.c:255), a caller's
\* pointer is NULL or its own object, of which it has no other but those lost to failing
\* resizes and frees of nothing, and a line has one array of handlers or none
\* (irq.c:53-123, irq.c:155-206), whatever the others do.
StorageIsItsOwners ==
  Going =>
    /\ \A c \in Callers :
         /\ pointer[c] # NULL => heap.owner[pointer[c]] = Object(c)
         /\ Cardinality(BlocksOf(Object(c))) = lost[c] + (IF pointer[c] = NULL THEN 0 ELSE 1)
    /\ \A i \in DOMAIN ranges : \A j \in DOMAIN ranges[i].lines :
         BlocksOf(HandlersOf(i, j)) = Handled(ranges[i].lines[j])

\* What the kernel makes for a program that uses the run-time library never reaches the
\* program, so it is not freed but by a free that takes it from below another object
\* (krnlas.asm:21, alloc.c:4-21, dataset.c:44-49, pmm.c:255).
ProgramsLeakTheirStorage ==
  Going => answer \notin Blocks /\ Cardinality(BlocksOf(Program)) = asked

\* An object of a caller, or the handlers of a line, give way to a larger one only where
\* free storage lies directly below them and the new one, made first, fits elsewhere, or
\* where a block lies below that nobody misses: objects are put at the upper end of free
\* storage, so with free storage in one place the new one would be freed (pmm.c:174,
\* pmm.c:255, mm.c:40-45).
ResizesNeedTwoGaps ==
  [][\A p \in InUse(heap) \ InUse(heap') :
       InUse(heap') \ InUse(heap) # {} /\ table' = table /\ Going' =>
         LET below == heap.order[Position(heap, p) - 1]
         IN below = Scrap \/ (below = Gap /\ Cardinality(Gaps(heap)) > 1)]_servicesVars
=============================================================================
