----------------------------- MODULE Interrupts -----------------------------
(***************************************************************************)
(* The interruption handlers (handlers.asm, irq.c) around the scheduler.   *)
(*                                                                         *)
(* Each class of interruption has an old PSW of its own, but all handlers  *)
(* save the interrupted registers to the one area at FLCGRSAV and run on   *)
(* the one stack @FLSTACK.  The PSWs KeInit installs for them leave every  *)
(* interruption enabled, that of the handler's own class included.  What   *)
(* Scheduler takes for one step, SVC 50, is here the sequence of the       *)
(* handler's instructions.                                                 *)
(*                                                                         *)
(* A register set is known by whose it is, as in Scheduler; a PSW by the   *)
(* class whose handler it runs ("thread" outside of all), how far that is, *)
(* and, for a thread, its identity.                                        *)
(***************************************************************************)
EXTENDS Integers, Sequences, FiniteSets

CONSTANTS
  MaxJobs, MaxTasks, MaxThreads,  \* bounds on what KeInit creates
  Asynchronous                    \* the classes "ext", "mc", "io" that occur

ASSUME InterruptsAssumption == Asynchronous \subseteq {"ext", "mc", "io"}

VARIABLES
  jobs, current_job, scratchPsw, mode,   \* see Scheduler
  regs,         \* whose registers the processor has
  psw,          \* what it executes
  grsave,       \* FLCGRSAV
  oldPsw,       \* the old PSW of each class
  flstack,      \* the handler to which the frame on @FLSTACK returns
  stopped,      \* KePanic has stopped the processor
  harmed        \* what was shared that an interruption has overwritten
handlerVars == <<regs, psw, grsave, oldPsw, flstack, stopped, harmed>>
vars == <<jobs, current_job, scratchPsw, mode, handlerVars>>

Classes == {"svc", "pc"} \cup Asynchronous

KernelInit == <<0, 0, 0>>
BootContext == [who |-> KernelInit, at |-> "entry"]
HandlerRegs == [who |-> KernelInit, at |-> "handler"]
Running(context) == [class |-> "thread", at |-> "run", ctx |-> context]
Handling(class, step) == [class |-> class, at |-> step, ctx |-> BootContext]

Alive == ~stopped /\ mode # "panic"
InThread == Alive /\ psw.class = "thread"
At(step) == Alive /\ psw.class # "thread" /\ psw.at = step

\* What runs, what that interrupted, what that interrupted, ...
Under == LET under[n \in 0..Cardinality(Classes)] ==
               IF n = 0 THEN psw
               ELSE IF under[n-1].class = "thread" THEN under[n-1]
               ELSE oldPsw[under[n-1].class]
         IN under
Bottom == Under[Cardinality(Classes)]
Active == {Under[n].class : n \in DOMAIN Under}

----------------------------------------------------------------------------
(* KeInit, which runs as the first thread, creates the others. *)

Caller == INSTANCE Scheduler WITH
  cpu <- [regs |-> grsave, psw |-> oldPsw["svc"].ctx]

Create ==
  /\ InThread /\ UNCHANGED handlerVars
  /\ \/ Caller!KeCreateJob
     \/ \E j \in DOMAIN jobs : Caller!KeCreateTask(j)
     \/ \E j \in DOMAIN jobs : \E t \in DOMAIN jobs[j].tasks :
          Caller!KeCreateThread(j, t)

----------------------------------------------------------------------------
(* The handlers.  The hardware swaps the PSWs; the registers stay.  A second *)
(* interruption overwrites FLCGRSAV, which matters once the handler has      *)
(* loaded its own registers, the frame at @FLSTACK that a C function returns *)
(* by, and, in a handler of its own class, the PSW that handler resumes.     *)

OwnRegisters == {"call", "body", "reload"}

Harm(class) ==
  {what \in {"registers", "frame", "psw"} :
     CASE what = "registers" -> psw.at \in OwnRegisters
       [] what = "frame"     -> psw.at = "body"
       [] what = "psw"       -> class \in Active}

\* Mutant: the classes share one old PSW.
InterruptionSharesPsw(class) ==
  /\ oldPsw' = [c \in Classes |-> psw]
  /\ psw' = Handling(class, "store")
  /\ harmed' = harmed \cup Harm(class)
  /\ UNCHANGED <<jobs, current_job, scratchPsw, mode, regs, grsave, flstack, stopped>>

Interruption(class) ==
  /\ oldPsw' = [oldPsw EXCEPT ![class] = psw]
  /\ psw' = Handling(class, "store")
  /\ harmed' = harmed \cup Harm(class)
  /\ UNCHANGED <<jobs, current_job, scratchPsw, mode, regs, grsave, flstack, stopped>>

\* SVC and a program check come from the running thread.
Call == InThread /\ Interruption("svc")
ProgramCheck == InThread /\ Interruption("pc")

\* The other classes come at any time, in every handler (kmain.c:37-41).
Asynchronously(class) == Alive /\ Interruption(class)

Advance(step) == psw' = Handling(psw.class, step)

\* STM R0,R15,FLCGRSAV
Store ==
  /\ At("store") /\ Advance("load")
  /\ grsave' = regs
  /\ UNCHANGED <<jobs, current_job, scratchPsw, mode, regs, oldPsw, flstack, stopped, harmed>>

\* LM R0,R15,FLCCRSAV and the stack pointer
Load ==
  /\ At("load") /\ Advance("call")
  /\ regs' = HandlerRegs
  /\ UNCHANGED <<jobs, current_job, scratchPsw, mode, grsave, oldPsw, flstack, stopped, harmed>>

\* BALR R14,R15; the C function saves R14 in the frame at @FLSTACK.
Enter ==
  /\ At("call") /\ Advance("body")
  /\ flstack' = psw.class
  /\ UNCHANGED <<jobs, current_job, scratchPsw, mode, regs, grsave, oldPsw, stopped, harmed>>

\* The C function returns where the frame at @FLSTACK says.
Leave == psw' = Handling(flstack, "reload")

\* KeSupervisorCallHandler switches threads for SVC 50; what other calls do to
\* the registers they return is left out.
Schedule ==
  /\ At("body") /\ psw.class = "svc" /\ Caller!Populated
  /\ LET switched == Caller!Switched IN
     /\ jobs' = switched.jobs
     /\ grsave' = switched.regs
     /\ oldPsw' = [oldPsw EXCEPT !["svc"] = Running(switched.psw)]
     /\ scratchPsw' = switched.scratch
  /\ current_job' = Caller!JobIndex + 1
  /\ mode' = "threads"
  /\ Leave
  /\ UNCHANGED <<regs, flstack, stopped, harmed>>

\* The others print; KeProgramCheckHandler then panics.
Serve ==
  /\ At("body") /\ psw.class # "pc"
  /\ Leave
  /\ UNCHANGED <<jobs, current_job, scratchPsw, mode, regs, grsave, oldPsw,
                 flstack, stopped, harmed>>
Panic ==
  /\ At("body") /\ psw.class = "pc"
  /\ stopped' = TRUE
  /\ UNCHANGED <<jobs, current_job, scratchPsw, mode, regs, psw, grsave, oldPsw,
                 flstack, harmed>>

\* LM R0,R15,FLCGRSAV
Reload ==
  /\ At("reload") /\ Advance("return")
  /\ regs' = grsave
  /\ UNCHANGED <<jobs, current_job, scratchPsw, mode, grsave, oldPsw, flstack, stopped, harmed>>

\* Mutants: every handler ends with LPSW FLCEOPSW; with LPSW of the class's new PSW.
ResumeExternal ==
  /\ At("return")
  /\ psw' = oldPsw["ext"]
  /\ UNCHANGED <<jobs, current_job, scratchPsw, mode, regs, grsave, oldPsw,
                 flstack, stopped, harmed>>
ResumeNewPsw ==
  /\ At("return") /\ Advance("store")
  /\ UNCHANGED <<jobs, current_job, scratchPsw, mode, regs, grsave, oldPsw,
                 flstack, stopped, harmed>>

\* LPSW of the class's old PSW
Resume ==
  /\ At("return")
  /\ psw' = oldPsw[psw.class]
  /\ UNCHANGED <<jobs, current_job, scratchPsw, mode, regs, grsave, oldPsw,
                 flstack, stopped, harmed>>

Halted == ~Alive /\ UNCHANGED vars

Init ==
  /\ jobs = << >> /\ current_job = 0
  /\ scratchPsw = BootContext /\ mode = "boot"
  /\ regs = BootContext /\ psw = Running(BootContext)
  /\ grsave = BootContext
  /\ oldPsw = [c \in Classes |-> Running(BootContext)]
  /\ flstack = "svc" /\ stopped = FALSE /\ harmed = {}

Progress == Store \/ Load \/ Enter \/ Schedule \/ Serve \/ Panic \/ Reload \/ Resume

Next ==
  \/ Create \/ Call \/ ProgramCheck
  \/ \E class \in Asynchronous : Asynchronously(class)
  \/ Progress
  \/ Halted

Spec == Init /\ [][Next]_vars

\* The processor goes on with the handler it is in.
FairSpec == Spec /\ WF_vars(Progress)

----------------------------------------------------------------------------
(* Properties *)

\* The thread's registers are in the processor until the handler loads its own, then
\* in FLCGRSAV.
Seen == [regs |-> IF psw.at \in OwnRegisters THEN grsave ELSE regs,
         psw  |-> Bottom.ctx]
S == INSTANCE Scheduler WITH cpu <- Seen

\* The scheduler's own specification is implemented by the handlers' steps: what other
\* interruptions do between the instructions of an SVC 50 does not show in the context
\* a thread is saved with or goes on with, for as long as none has overwritten the
\* registers, the frame or the PSW of a handler (handlers.asm, kmain.c:37-41).
ImplementsScheduler == S!Init /\ [][harmed' # {} \/ S!Next \/ UNCHANGED S!vars]_vars

\* Each handler in progress will resume what it interrupted, down to a thread, although
\* all have one save area, and a C function returns to the handler that called it,
\* although all have one stack (handlers.asm:40, 60, 80, 100, 120), unless a second
\* interruption came while that function ran or in a handler of its own class.
UnwindsToTheThread ==
  harmed \subseteq {"registers"} =>
    /\ Bottom.class = "thread"
    /\ psw.at = "body" => flstack = psw.class

\* The handlers resume each other in a circle, or a C function has lost the frame it
\* returns by.
Stuck ==
  \/ Bottom.class # "thread"
  \/ \E n \in DOMAIN Under : Under[n].at = "body" /\ Under[n].class # flstack

\* Such a loss is final: whatever interruptions come after it, none makes up for it, so
\* no thread ever runs again (handlers.asm, kmain.c:37-41).
NeverBack == [][Stuck => Stuck' /\ psw'.class # "thread"]_vars

\* Once interruptions cease, the thread goes on, unless that is lost.
ThreadsResume ==
  <>[][\A class \in Asynchronous : ~Asynchronously(class)]_vars
    => []<>(InThread \/ ~Alive \/ Stuck)

\* "The scratch frame is an abstract memory area representing where the registers
\* at the time of an interruption are stored at, this is so the scheduler can
\* retrieve them" (cpu.h:42-44): when the scheduler runs, the registers in the
\* frame are a thread's.
ScratchFrameHoldsTheThread ==
  At("body") /\ psw.class = "svc" => grsave # HandlerRegs
=============================================================================
