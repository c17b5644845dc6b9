----------------------------- MODULE Scheduler -----------------------------
(***************************************************************************)
(* The scheduler (scheduler.c) and the context switch it ends in (cpu.c),  *)
(* driven by SVC 50 from KeInit and from the kernel's threads (kmain.c).   *)
(*                                                                         *)
(* A job is a list of tasks, a task a list of threads, and each level      *)
(* keeps a cursor to the element the next call takes.  Cursors count from  *)
(* 0 as in the code, sequences from 1.                                     *)
(*                                                                         *)
(* Of a register set or a PSW the model keeps whose it is and whether it   *)
(* is the one the thread was created with or one of a later SVC.           *)
(***************************************************************************)
EXTENDS Integers, Sequences

CONSTANTS
  MaxJobs, MaxTasks, MaxThreads   \* bounds on what KeInit creates

ASSUME BoundsAssumption ==
  MaxJobs \in Nat /\ MaxTasks \in Nat /\ MaxThreads \in Nat

VARIABLES
  jobs,         \* g_scheduler.jobs
  current_job,  \* g_scheduler.current_job
  cpu,          \* the registers and the PSW the processor runs with
  scratchPsw,   \* the PSW behind the registers of the scratch frame (0x1C0)
  mode          \* "boot", "threads" or "panic"
vars == <<jobs, current_job, cpu, scratchPsw, mode>>

KeInit == <<0, 0, 0>>
Entry(id) == [who |-> id, at |-> "entry"]
AfterSvc(of) == [who |-> of.who, at |-> "svc"]

----------------------------------------------------------------------------
(***************************************************************************)
(* Creation, from KeInit only; an allocation that fails panics.  KeInit    *)
(* leaves most of memory free, so its arrays move down when they grow and  *)
(* keep their contents (see Library's KeMoveMemory).                       *)
(***************************************************************************)

OutOfMemory == mode' = "panic" /\ UNCHANGED <<jobs, current_job, cpu, scratchPsw>>

KeCreateJob ==
  /\ mode = "boot" /\ Len(jobs) < MaxJobs
  /\ \/ /\ jobs' = Append(jobs, [tasks |-> << >>, current_task |-> 0])
        /\ UNCHANGED <<current_job, cpu, scratchPsw, mode>>
     \/ OutOfMemory

KeCreateTask(j) ==
  /\ mode = "boot" /\ Len(jobs[j].tasks) < MaxTasks
  /\ \/ /\ jobs' = [jobs EXCEPT ![j].tasks =
                      Append(@, [threads |-> << >>, current_thread |-> 0])]
        /\ UNCHANGED <<current_job, cpu, scratchPsw, mode>>
     \/ OutOfMemory

(***************************************************************************)
(* KeCreateThread, and the entry point KeInit gives the thread.  The       *)
(* context of the first thread is also copied into the scratch frame.      *)
(***************************************************************************)
KeCreateThread(j, t) ==
  LET id == <<j, t, Len(jobs[j].tasks[t].threads) + 1>> IN
  /\ mode = "boot" /\ Len(jobs[j].tasks[t].threads) < MaxThreads
  /\ \/ /\ jobs' = [jobs EXCEPT ![j].tasks[t].threads =
                      Append(@, [regs |-> Entry(id), psw |-> Entry(id)])]
        /\ scratchPsw' = IF scratchPsw.who = KeInit THEN Entry(id) ELSE scratchPsw
        /\ UNCHANGED <<current_job, cpu, mode>>
     \/ OutOfMemory

----------------------------------------------------------------------------
(* KeSchedule *)

\* A cursor at the end of its list starts over.
Wrap(cursor, n) == IF cursor >= n THEN 0 ELSE cursor

JobIndex == Wrap(current_job, Len(jobs))
Job == jobs[JobIndex + 1]
\* Mutants: the first task always; the first thread always; one step only.
TaskIndexIgnoresCursor == 0
TaskIndex == Wrap(Job.current_task, Len(Job.tasks))
Task == Job.tasks[TaskIndex + 1]
OldIndexIgnoresCursor == 0
OldIndex == Wrap(Task.current_thread, Len(Task.threads))
NewIndexStaysOnOld == OldIndex
NewIndex == Wrap(OldIndex + 1, Len(Task.threads))

\* Every job that can be scheduled has a task, and every task a thread.
Populated ==
  /\ jobs # << >>
  /\ \A j \in DOMAIN jobs :
       /\ jobs[j].tasks # << >>
       /\ \A t \in DOMAIN jobs[j].tasks : jobs[j].tasks[t].threads # << >>

(***************************************************************************)
(* HwSwitchThreadContext, with the processor in the SVC handler: the SVC   *)
(* old PSW and the interrupted registers are those of the caller.  The PSW *)
(* saved first is overwritten by the scratch frame's, which is not the     *)
(* caller's but that of the thread loaded last.                            *)
(***************************************************************************)
WithOldPsw(threads, old) == [threads EXCEPT ![old].psw = AfterSvc(cpu.psw)]
\* Mutant: the interrupted registers go to the next slot.
WithScratchNext(threads, old) ==
  [threads EXCEPT ![Wrap(old, Len(threads)) + 1] =
     [regs |-> AfterSvc(cpu.regs), psw |-> scratchPsw]]
WithScratch(threads, old) ==
  [threads EXCEPT ![old] = [regs |-> AfterSvc(cpu.regs), psw |-> scratchPsw]]

HwSwitchThreadContext(old, new) ==
  LET saved == WithScratch(Task.threads, old)
      task  == [threads |-> saved, current_thread |-> new]
  IN [jobs |-> [jobs EXCEPT ![JobIndex + 1] =
                  [tasks |-> [Job.tasks EXCEPT ![TaskIndex + 1] = task],
                   current_task |-> TaskIndex + 1]],
      regs |-> saved[new].regs,
      psw  |-> WithOldPsw(Task.threads, old)[new].psw,
      scratch |-> saved[new].psw]

Switched == HwSwitchThreadContext(OldIndex + 1, NewIndex + 1)

\* Mutants: the job cursor steps back; it steps twice.
KeScheduleStepsBack ==
  /\ mode # "panic" /\ Populated
  /\ mode' = "threads"
  /\ current_job' = JobIndex - 1
  /\ jobs' = Switched.jobs
  /\ cpu' = [regs |-> Switched.regs, psw |-> Switched.psw]
  /\ scratchPsw' = Switched.scratch
KeScheduleStepsTwice ==
  /\ mode # "panic" /\ Populated
  /\ mode' = "threads"
  /\ current_job' = JobIndex + 2
  /\ jobs' = Switched.jobs
  /\ cpu' = [regs |-> Switched.regs, psw |-> Switched.psw]
  /\ scratchPsw' = Switched.scratch

KeSchedule ==
  /\ mode # "panic" /\ Populated
  /\ mode' = "threads"
  /\ current_job' = JobIndex + 1
  /\ jobs' = Switched.jobs
  /\ cpu' = [regs |-> Switched.regs, psw |-> Switched.psw]
  /\ scratchPsw' = Switched.scratch

Stopped == mode = "panic" /\ UNCHANGED vars

Init ==
  /\ jobs = << >>
  /\ current_job = 0
  /\ cpu = [regs |-> Entry(KeInit), psw |-> Entry(KeInit)]
  /\ scratchPsw = Entry(KeInit)
  /\ mode = "boot"

Next ==
  \/ KeCreateJob
  \/ \E j \in DOMAIN jobs : KeCreateTask(j)
  \/ \E j \in DOMAIN jobs : \E t \in DOMAIN jobs[j].tasks : KeCreateThread(j, t)
  \/ KeSchedule
  \/ Stopped

Spec == Init /\ [][Next]_vars

\* KeInit and both threads do nothing between two SVC 50 but print.
FairSpec == Spec /\ WF_vars(KeSchedule)

----------------------------------------------------------------------------
(* Properties *)

Ids == Nat \X Nat \X Nat
Origin == [who : Ids, at : {"entry", "svc"}]
Context == [regs : Origin, psw : Origin]
TaskType == [threads : Seq(Context), current_thread : Nat]
JobType == [tasks : Seq(TaskType), current_task : Nat]

\* The lists and cursors have the shape of scheduler.h.
TypeOK ==
  /\ jobs \in Seq(JobType)
  /\ current_job \in Nat
  /\ cpu \in Context
  /\ scratchPsw \in Origin
  /\ mode \in {"boot", "threads", "panic"}

\* No cursor ever passes the end of its list, the assertions of KeSchedule
\* (scheduler.c:112, 118, 124, 130) and of KeGetCurrentJobId.
CursorsInRange ==
  /\ current_job <= Len(jobs)
  /\ \A j \in DOMAIN jobs :
       /\ jobs[j].current_task <= Len(jobs[j].tasks)
       /\ \A t \in DOMAIN jobs[j].tasks :
            jobs[j].tasks[t].current_thread <= Len(jobs[j].tasks[t].threads)

Even(n) == n % 2 = 0
TaskIds == {<<j, t>> : j \in 1..MaxJobs, t \in 1..MaxTasks}
TaskExists(id) == id[1] \in DOMAIN jobs /\ id[2] \in DOMAIN jobs[id[1]].tasks
ThreadsOf(id) == jobs[id[1]].tasks[id[2]].threads

\* KeSchedule moves the thread cursor twice (scheduler.c:128, 134), so in a task
\* with an even number of threads the thread loaded, the one the cursor has just
\* passed, is never the first, the third, ...: kern_B, which KeInit creates
\* first, never runs.
OddThreadsOfEvenTasksNeverRun ==
  \A j \in DOMAIN jobs : \A t \in DOMAIN jobs[j].tasks :
    mode = "threads" /\ Even(Len(jobs[j].tasks[t].threads)) =>
      Even(jobs[j].tasks[t].current_thread)

\* When every task has an even number of threads, as the one of KeInit, no
\* thread ever gets past its SVC 50: what a switch loads is a context as it was
\* created, so each turn starts the thread over.
AllTasksEven ==
  \A j \in DOMAIN jobs : \A t \in DOMAIN jobs[j].tasks :
    Even(Len(jobs[j].tasks[t].threads))

TurnsStartOver ==
  mode = "threads" /\ AllTasksEven =>
    cpu.regs.at = "entry" /\ cpu.psw = cpu.regs /\ Even(cpu.psw.who[3])

\* What makes TurnsStartOver inductive: no cursor moves before the first SVC 50,
\* and until then, or in the even slots of an even task, a slot holds the context
\* its thread was created with.
CursorsWait ==
  mode = "boot" => \A j \in DOMAIN jobs :
    /\ jobs[j].current_task = 0
    /\ \A t \in DOMAIN jobs[j].tasks : jobs[j].tasks[t].current_thread = 0

UntouchedSlots ==
  \A j \in DOMAIN jobs : \A t \in DOMAIN jobs[j].tasks :
    LET threads == jobs[j].tasks[t].threads IN
    \A k \in DOMAIN threads :
      mode = "boot" \/ (Even(Len(threads)) /\ Even(k)) =>
        threads[k] = [regs |-> Entry(<<j, t, k>>), psw |-> Entry(<<j, t, k>>)]

\* Creation leaves the cursors alone, and what a slot was created with stays there until
\* the first SVC 50 and, in the even slots of an even task, for ever: saves go to the
\* slot behind the one that was loaded (cpu.c:17-25).
NothingIsSavedToEvenSlots == CursorsWait /\ UntouchedSlots

\* Once threads run, every task of every job is given turns for ever.
TaskHasTurn(id) ==
  current_job = id[1] /\ TaskExists(id) /\ jobs[id[1]].current_task = id[2]
EveryTaskGetsTurns ==
  \A id \in TaskIds : mode = "threads" /\ TaskExists(id) ~> TaskHasTurn(id)

\* In a task with an odd number of threads every slot is loaded for ever, the
\* double step of the cursor notwithstanding.
SlotLoaded(id, k) ==
  TaskHasTurn(id) /\ jobs[id[1]].tasks[id[2]].current_thread = k
SlotsOfOddTasksGetTurns ==
  \A id \in TaskIds : \A k \in 1..MaxThreads :
    mode = "threads" /\ TaskExists(id) /\ ~Even(Len(ThreadsOf(id)))
      /\ k <= Len(ThreadsOf(id)) ~> SlotLoaded(id, k)

\* "Save context to current thread (obtained from the scratch frame)"
\* (cpu.c:17): the registers a thread is interrupted with go to the slot that
\* thread was loaded from.
SlotRunning ==
  LET t == jobs[current_job].current_task IN
  <<current_job, t, jobs[current_job].tasks[t].current_thread>>
SavesToTheRunningThread ==
  [][KeSchedule /\ mode = "threads" =>
       LET r == SlotRunning IN
       jobs'[r[1]].tasks[r[2]].threads[r[3]].regs = AfterSvc(cpu.regs)]_vars
=============================================================================
