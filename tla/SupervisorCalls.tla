-------------------------- MODULE SupervisorCalls --------------------------
(***************************************************************************)
(* The supervisor calls for storage and files (irq.c:132-228), with the    *)
(* three ways to make them: the kernel's stub (entry.asm), programs made   *)
(* for MVS (SVC 10 and 120), and the run-time library (rtl/).              *)
(*                                                                         *)
(* A caller holds one object at a time.  One that works for the kernel or  *)
(* for MVS knows what it holds from what the call returned.  A program     *)
(* only ever gets the word at address 4, which krnlas.asm loads in place   *)
(* of register 4: the address of the restart PSW, see kmain.c:90.         *)
(***************************************************************************)
EXTENDS Storage

CONSTANTS
  KernelCallers, MvsCallers,
  MaxLost,      \* bound: objects a caller loses
  MaxAsked      \* bound: objects made for the program

Trampoline == "_smptrmp"

ASSUME SupervisorCallsAssumption ==
  /\ Trampoline \notin Blocks /\ MaxLost \in Nat /\ MaxAsked \in Nat

VARIABLES
  pointer,      \* what a caller takes for its object
  lost,         \* of each caller, objects that it can never free, to its knowledge
  restartWord,  \* the word at address 4
  answer,       \* what the program was last told
  asked         \* the objects the kernel has made for it
svcVars == <<pointer, lost, restartWord, answer, asked>>

Callers == KernelCallers \cup MvsCallers
Object(c) == <<"object", c>>
Program == <<"program">>
Ruined == "ruined"    \* a word the machine or the kernel works with is NULL

Hold(c, p) == pointer' = [pointer EXCEPT ![c] = p]
OnlyTheCaller == UNCHANGED <<restartWord, answer, asked>>
OnlyTheProgram == UNCHANGED <<pointer, lost>>

----------------------------------------------------------------------------
(* The kernel's stub returns register 4 (codes 190 to 192), SVC 10 and 120 return     *)
(* registers 1 and 15.                                                       *)

GetStorage(c, at) ==
  /\ pointer[c] = NULL
  /\ heap' = MmAllocate(heap, at, Object(c)) /\ Hold(c, at.block)
  /\ OnlyTheCaller /\ UNCHANGED <<lost, halted>>

DropStorage(c) ==
  /\ heap' = MmFree(heap, pointer[c]) /\ Hold(c, NULL)
  /\ OnlyTheCaller /\ UNCHANGED <<lost, halted>>

\* Mutant: the new address is not stored.
ResizeUntold(c, at) ==
  /\ heap' = MmReallocate(heap, pointer[c], at, Object(c))
  /\ OnlyTheCaller /\ UNCHANGED <<pointer, lost, halted>>
ResizeStorage(c, at) ==
  /\ heap' = MmReallocate(heap, pointer[c], at, Object(c)) /\ Hold(c, at.block)
  /\ OnlyTheCaller /\ UNCHANGED <<lost, halted>>

\* Without memory NULL is stored where the pointer was.
ResizeFails(c) ==
  /\ pointer[c] # NULL /\ lost[c] < MaxLost
  /\ Hold(c, NULL) /\ lost' = [lost EXCEPT ![c] = @ + 1]
  /\ OnlyTheCaller /\ UNCHANGED <<heap, halted>>

\* SVC 120 tells getmain from freemain by the address: to free the 0 of a failed
\* getmain is to get storage.
FreeNothing(c, at) ==
  /\ pointer[c] = NULL /\ lost[c] < MaxLost
  /\ heap' = MmAllocate(heap, at, Object(c)) /\ lost' = [lost EXCEPT ![c] = @ + 1]
  /\ OnlyTheCaller /\ UNCHANGED <<pointer, halted>>

----------------------------------------------------------------------------
(* The run-time library *)

\* What the stub returns of a call that left r4 in register 4.
\* Mutant: register 4, as the kernel's does.
DoSvcReturnsRegister(r4) == r4
RtlDoSvc(r4) == restartWord

RtlAllocateMemory(at) ==
  /\ asked < MaxAsked
  /\ heap' = MmAllocate(heap, at, Program) /\ asked' = asked + 1
  /\ answer' = RtlDoSvc(at.block)
  /\ OnlyTheProgram /\ UNCHANGED <<restartWord, halted>>

\* There is no room, which the program is not told.
RtlAllocateFails ==
  /\ answer' = RtlDoSvc(NULL)
  /\ OnlyTheProgram /\ UNCHANGED <<heap, asked, restartWord, halted>>

RtlFreeMemory ==
  /\ heap' = MmFree(heap, answer)
  /\ OnlyTheProgram /\ UNCHANGED <<answer, asked, restartWord, halted>>

\* Size and pointer are swapped: the kernel takes the word at the address `size', asks
\* for as much storage as the address of p says, which is more than there is, and
\* stores NULL there.  `word' is what the machine uses that word for.
RtlReallocateMemory(word) ==
  /\ CASE word = "restart" -> restartWord' = NULL /\ UNCHANGED halted
       [] word = "other"   -> UNCHANGED <<restartWord, halted>>
       [] word = "system"  -> halted' = Ruined /\ UNCHANGED restartWord
  /\ OnlyTheProgram /\ UNCHANGED <<heap, answer, asked>>

\* The Dataset and the handle are made for nothing, if there is room and such a node:
\* the program gets the trampoline, with its own address stored over its first word.
Tried(h) == {<< >>} \cup {<<at>> : at \in Sites(h)}
MadeIfAny(h, tried) == IF tried = << >> THEN h ELSE MmAllocate(h, tried[1], Program)
RtlOpenDataset(dataset) ==
  LET made == MadeIfAny(heap, dataset) IN
  /\ \E handle \in Tried(made) :
       /\ restartWord = NULL => handle = << >>
       /\ asked' = asked + Len(dataset) + Len(handle) /\ asked' <= MaxAsked
       /\ heap' = MadeIfAny(made, handle)
  /\ answer' = RtlDoSvc(NULL)
  /\ OnlyTheProgram /\ UNCHANGED <<restartWord, halted>>

SvcInit ==
  /\ pointer = [c \in Callers |-> NULL] /\ lost = [c \in Callers |-> 0]
  /\ restartWord = Trampoline /\ answer = NULL /\ asked = 0

SvcNext ==
  \/ \E c \in Callers, at \in Sites(heap) : GetStorage(c, at)
  \/ \E c \in Callers : DropStorage(c)
  \/ \E c \in KernelCallers, at \in Sites(heap) : ResizeStorage(c, at)
  \/ \E c \in KernelCallers : ResizeFails(c)
  \/ \E c \in MvsCallers, at \in Sites(heap) : FreeNothing(c, at)
  \/ \E at \in Sites(heap) : RtlAllocateMemory(at)
  \/ RtlAllocateFails \/ RtlFreeMemory
  \/ \E word \in {"restart", "other", "system"} : RtlReallocateMemory(word)
  \/ \E dataset \in Tried(heap) : RtlOpenDataset(dataset)
=============================================================================
