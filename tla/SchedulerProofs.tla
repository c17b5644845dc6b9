-------------------------- MODULE SchedulerProofs --------------------------
(***************************************************************************)
(* Proofs about Scheduler, for any number of jobs, tasks and threads.      *)
(***************************************************************************)
EXTENDS Scheduler, TLAPS

\* The types: the lists keep their shape through creation and the switch.
LEMMA Element ==
  ASSUME NEW S, NEW s \in Seq(S), NEW i \in DOMAIN s
  PROVE  s[i] \in S /\ i \in Nat /\ Len(s) \in Nat
  OBVIOUS

\* An element of a list is replaced.
LEMMA Replace ==
  ASSUME NEW S, NEW s \in Seq(S), NEW i \in DOMAIN s, NEW e \in S
  PROVE  /\ [s EXCEPT ![i] = e] \in Seq(S)
         /\ DOMAIN [s EXCEPT ![i] = e] = DOMAIN s
         /\ Len([s EXCEPT ![i] = e]) = Len(s)
  OBVIOUS

\* A list that grows keeps its elements and has one more (MmReallocateArray).
LEMMA Extend ==
  ASSUME NEW S, NEW s \in Seq(S), NEW e
  PROVE  /\ Len(Append(s, e)) = Len(s) + 1
         /\ \A k \in DOMAIN Append(s, e) :
              \/ k \in DOMAIN s /\ Append(s, e)[k] = s[k]
              \/ k = Len(s) + 1 /\ Append(s, e)[k] = e
  OBVIOUS

\* At first there are no jobs.
LEMMA TypeInit == Init => TypeOK
  BY DEF Init, TypeOK, Entry, KeInit, Ids, Origin, Context

\* The cursors of well-typed lists that are not empty pick a job, a task and a thread of them.
LEMMA PickedTypes ==
  ASSUME TypeOK, Populated
  PROVE  /\ JobIndex \in Nat /\ JobIndex + 1 \in DOMAIN jobs
         /\ Job \in JobType
         /\ TaskIndex \in Nat /\ TaskIndex + 1 \in DOMAIN Job.tasks
         /\ Task \in TaskType
         /\ OldIndex \in Nat /\ OldIndex + 1 \in DOMAIN Task.threads
         /\ NewIndex \in Nat /\ NewIndex + 1 \in DOMAIN Task.threads
<1>1. JobIndex \in Nat /\ JobIndex + 1 \in DOMAIN jobs
  BY DEF TypeOK, Populated, JobIndex, Wrap
<1>2. Job \in JobType
  BY <1>1 DEF TypeOK, Job
<1>3. TaskIndex \in Nat /\ TaskIndex + 1 \in DOMAIN Job.tasks
  BY <1>1, <1>2 DEF Populated, TaskIndex, Wrap, Job, JobType
<1>4. Task \in TaskType
  BY <1>2, <1>3 DEF JobType, Task
<1>5. Task.threads # << >>
  BY <1>1, <1>3 DEF Populated, Task, Job
<1>6. OldIndex \in Nat /\ OldIndex + 1 \in DOMAIN Task.threads
  BY <1>4, <1>5 DEF OldIndex, Wrap, TaskType
<1>7. NewIndex \in Nat /\ NewIndex + 1 \in DOMAIN Task.threads
  BY <1>4, <1>6 DEF NewIndex, Wrap, TaskType
<1>8. QED
  BY <1>1, <1>2, <1>3, <1>4, <1>6, <1>7

\* Every step keeps the types.
LEMMA TypeStep == TypeOK /\ [Next]_vars => TypeOK'
<1> SUFFICES ASSUME TypeOK, [Next]_vars PROVE TypeOK'
  OBVIOUS
<1>1. CASE KeCreateJob
  <2>1. [tasks |-> << >>, current_task |-> 0] \in JobType
    BY DEF JobType
  <2>2. CASE OutOfMemory
    BY <2>2 DEF OutOfMemory, TypeOK
  <2>3. CASE /\ jobs' = Append(jobs, [tasks |-> << >>, current_task |-> 0])
             /\ UNCHANGED <<current_job, cpu, scratchPsw, mode>>
    <3>1. jobs' \in Seq(JobType)
      BY <2>1, <2>3 DEF TypeOK
    <3>2. QED
      BY <2>3, <3>1 DEF TypeOK
  <2>4. QED
    BY <1>1, <2>2, <2>3 DEF KeCreateJob
<1>2. ASSUME NEW j \in DOMAIN jobs, KeCreateTask(j) PROVE TypeOK'
  <2> DEFINE new == [threads |-> << >>, current_thread |-> 0]
  <2>1. new \in TaskType
    BY DEF TaskType
  <2>2. jobs[j] \in JobType
    BY DEF TypeOK
  <2>3. Append(jobs[j].tasks, new) \in Seq(TaskType)
    BY <2>1, <2>2 DEF JobType
  <2>4. [jobs[j] EXCEPT !.tasks = Append(@, new)] \in JobType
    BY <2>2, <2>3 DEF JobType
  <2>5. [jobs EXCEPT ![j].tasks = Append(@, new)] \in Seq(JobType)
    BY <2>4 DEF TypeOK
  <2>6. QED
    BY <1>2, <2>5 DEF KeCreateTask, OutOfMemory, TypeOK
<1>3. ASSUME NEW j \in DOMAIN jobs, NEW t \in DOMAIN jobs[j].tasks,
             KeCreateThread(j, t)
      PROVE TypeOK'
  <2> DEFINE threads == jobs[j].tasks[t].threads
             id == <<j, t, Len(threads) + 1>>
             new == [regs |-> Entry(id), psw |-> Entry(id)]
             task == [jobs[j].tasks[t] EXCEPT !.threads = Append(@, new)]
             job == [jobs[j] EXCEPT !.tasks[t] = task]
  <2>1. jobs[j] \in JobType /\ j \in Nat
    BY DEF TypeOK
  <2>2. jobs[j].tasks \in Seq(TaskType)
    BY <2>1 DEF JobType
  <2>3. jobs[j].tasks[t] \in TaskType /\ t \in Nat
    BY <2>2, Element
  <2>4. threads \in Seq(Context) /\ Len(threads) \in Nat
    BY <2>3 DEF TaskType
  <2>5. id \in Ids
    BY <2>1, <2>3, <2>4 DEF Ids
  <2>6. Entry(id) \in Origin
    BY <2>5 DEF Entry, Origin
  <2>7. Append(threads, new) \in Seq(Context)
    BY <2>4, <2>6 DEF Context
  <2>8. task \in TaskType
    BY <2>3, <2>7 DEF TaskType
  <2>9. job \in JobType
    BY <2>1, <2>2, <2>8, Replace DEF JobType
  <2>10. [jobs EXCEPT ![j] = job] \in Seq(JobType)
    BY <2>9, Replace DEF TypeOK
  <2>11. [jobs EXCEPT ![j].tasks[t].threads = Append(@, new)]
           = [jobs EXCEPT ![j] = job]
    OBVIOUS
  <2>12. QED
    BY <1>3, <2>6, <2>10, <2>11 DEF KeCreateThread, OutOfMemory, TypeOK
<1>4. CASE KeSchedule
  <2> DEFINE saved == WithScratch(Task.threads, OldIndex + 1)
             reload == WithOldPsw(Task.threads, OldIndex + 1)[NewIndex + 1].psw
             task == [threads |-> saved, current_thread |-> NewIndex + 1]
             job == [tasks |-> [Job.tasks EXCEPT ![TaskIndex + 1] = task],
                     current_task |-> TaskIndex + 1]
  <2>1. /\ JobIndex + 1 \in DOMAIN jobs /\ JobIndex \in Nat /\ Job \in JobType
        /\ TaskIndex \in Nat /\ TaskIndex + 1 \in DOMAIN Job.tasks
        /\ Task \in TaskType /\ OldIndex + 1 \in DOMAIN Task.threads
        /\ NewIndex \in Nat /\ NewIndex + 1 \in DOMAIN Task.threads
    BY <1>4, PickedTypes DEF KeSchedule
  <2>2. AfterSvc(cpu.psw) \in Origin /\ AfterSvc(cpu.regs) \in Origin
    BY DEF TypeOK, AfterSvc, Origin, Context
  <2>3. Task.threads \in Seq(Context)
    BY <2>1 DEF TaskType
  <2>4. saved \in Seq(Context) /\ DOMAIN saved = DOMAIN Task.threads
    <3>1. [regs |-> AfterSvc(cpu.regs), psw |-> scratchPsw] \in Context
      BY <2>2 DEF TypeOK, Context
    <3>2. QED
      BY <2>1, <2>3, <3>1, Replace DEF WithScratch
  <2>5. saved[NewIndex + 1] \in Context
    BY <2>1, <2>4, Element
  <2>6. reload \in Origin
    <3> DEFINE old == Task.threads[OldIndex + 1]
    <3>1. old \in Context /\ Task.threads[NewIndex + 1] \in Context
      BY <2>1, <2>3, Element
    <3>2. reload \in {AfterSvc(cpu.psw), Task.threads[NewIndex + 1].psw}
      BY <2>1, <2>3, <3>1 DEF WithOldPsw, Context
    <3>3. QED
      BY <2>2, <3>1, <3>2 DEF Context
  <2>7. task \in TaskType
    BY <2>1, <2>4 DEF TaskType
  <2>8. job \in JobType
    <3>1. [Job.tasks EXCEPT ![TaskIndex + 1] = task] \in Seq(TaskType)
      BY <2>1, <2>7, Replace DEF JobType
    <3>2. QED
      BY <2>1, <3>1 DEF JobType
  <2>9. [jobs EXCEPT ![JobIndex + 1] = job] \in Seq(JobType)
    BY <2>1, <2>8, Replace DEF TypeOK
  <2>10. jobs' = [jobs EXCEPT ![JobIndex + 1] = job]
    BY <1>4 DEF KeSchedule, Switched, HwSwitchThreadContext
  <2>11. cpu' \in Context /\ scratchPsw' \in Origin
    BY <1>4, <2>5, <2>6 DEF KeSchedule, Switched, HwSwitchThreadContext, Context
  <2>12. QED
    BY <1>4, <2>1, <2>9, <2>10, <2>11 DEF KeSchedule, TypeOK
<1>5. CASE UNCHANGED vars
  BY <1>5 DEF vars, TypeOK
<1>6. QED
  BY <1>1, <1>2, <1>3, <1>4, <1>5 DEF Next, Stopped

\* The scheduler's state keeps its types, whatever KeInit creates.
THEOREM TypeCorrect == Spec => []TypeOK
  BY TypeInit, TypeStep, PTL DEF Spec

----------------------------------------------------------------------------
(***************************************************************************)
(* The safety properties.  None is inductive alone: what a turn loads is   *)
(* fresh because the slot was never saved to, the slot was never saved to  *)
(* because the cursor of an even task is even, and the cursor is even      *)
(* because it started at 0 and moves by two without passing the end.       *)
(* Sound says all this of one task, whose list only a turn of that task    *)
(* and the creation of its threads change.                                 *)
(***************************************************************************)
Fresh(id) == [regs |-> Entry(id), psw |-> Entry(id)]

Sound(j, t, task, m) ==
  /\ task.current_thread <= Len(task.threads)
  /\ m = "boot" => task.current_thread = 0
  /\ m = "threads" /\ Even(Len(task.threads)) => Even(task.current_thread)
  /\ \A k \in DOMAIN task.threads :
       m = "boot" \/ (Even(Len(task.threads)) /\ Even(k)) =>
         task.threads[k] = Fresh(<<j, t, k>>)

SoundJob(j, job, m) ==
  /\ job.current_task <= Len(job.tasks)
  /\ m = "boot" => job.current_task = 0
  /\ \A t \in DOMAIN job.tasks : Sound(j, t, job.tasks[t], m)

AllSound ==
  /\ current_job <= Len(jobs)
  /\ \A j \in DOMAIN jobs : SoundJob(j, jobs[j], mode)

IInv == TypeOK /\ AllSound /\ TurnsStartOver

\* AllSound is the conjunction of what the runs check.
LEMMA SoundIsTheProperties ==
  AllSound <=> /\ CursorsInRange
               /\ CursorsWait
               /\ OddThreadsOfEvenTasksNeverRun
               /\ UntouchedSlots
  BY DEF AllSound, SoundJob, Sound, CursorsInRange, CursorsWait,
         OddThreadsOfEvenTasksNeverRun, UntouchedSlots, Fresh

\* The double step of the thread cursor: from an even cursor of an even list it
\* lands on an even cursor without wrapping in between.
LEMMA DoubleStep ==
  ASSUME NEW n \in Nat, NEW c \in Nat, n # 0, c <= n, Even(n), Even(c)
  PROVE  /\ Wrap(c, n) \in Nat /\ Even(Wrap(c, n)) /\ Wrap(c, n) + 1 < n
         /\ Wrap(Wrap(c, n) + 1, n) = Wrap(c, n) + 1
         /\ Even(Wrap(c, n) + 2) /\ ~Even(Wrap(c, n) + 1)
  BY DEF Even, Wrap

\* An OutOfMemory step leaves the lists alone.
LEMMA SoundAfterPanic ==
  ASSUME IInv, mode = "boot", OutOfMemory PROVE IInv'
<1>1. TypeOK'
  BY DEF IInv, TypeOK, OutOfMemory
<1>2. \A j \in DOMAIN jobs : SoundJob(j, jobs[j], "panic")
  BY DEF IInv, AllSound, SoundJob, Sound
<1>3. AllSound' /\ TurnsStartOver'
  BY <1>2 DEF IInv, AllSound, TurnsStartOver, OutOfMemory
<1>4. QED
  BY <1>1, <1>3 DEF IInv

\* At first there is nothing to be unsound.
LEMMA SoundInit == Init => IInv
  BY TypeInit DEF Init, IInv, AllSound, TurnsStartOver

\* A new job has no tasks and its cursor at the start (KeCreateJob).
LEMMA SoundAfterCreateJob == IInv /\ TypeOK' /\ KeCreateJob => IInv'
<1> SUFFICES ASSUME IInv, TypeOK', KeCreateJob PROVE IInv'
  OBVIOUS
<1>1. CASE OutOfMemory
  BY <1>1, SoundAfterPanic DEF KeCreateJob
<1>2. CASE ~OutOfMemory
  <2> DEFINE new == [tasks |-> << >>, current_task |-> 0]
  <2>1. jobs' = Append(jobs, new) /\ current_job' = current_job /\ mode' = "boot"
    BY <1>2 DEF KeCreateJob
  <2>2. jobs \in Seq(JobType) /\ current_job \in Nat
    BY DEF IInv, TypeOK
  <2>3. SoundJob(Len(jobs) + 1, new, "boot")
    BY DEF SoundJob
  <2>4. \A j \in DOMAIN jobs : SoundJob(j, jobs[j], "boot")
    BY DEF IInv, AllSound, KeCreateJob
  <2>5. \A j \in DOMAIN jobs' : SoundJob(j, jobs'[j], "boot")
    BY <2>1, <2>2, <2>3, <2>4
  <2>6. current_job' <= Len(jobs')
    BY <2>1, <2>2 DEF IInv, AllSound
  <2>7. QED
    BY <2>1, <2>5, <2>6 DEF IInv, AllSound, TurnsStartOver
<1>3. QED
  BY <1>1, <1>2

\* A new task has no threads, and leaves the other tasks alone (KeCreateTask).
LEMMA SoundAfterCreateTask ==
  ASSUME IInv, TypeOK', NEW j \in DOMAIN jobs, KeCreateTask(j) PROVE IInv'
<1>1. CASE OutOfMemory
  BY <1>1, SoundAfterPanic DEF KeCreateTask
<1>2. CASE ~OutOfMemory
  <2> DEFINE new == [threads |-> << >>, current_thread |-> 0]
             job == [jobs[j] EXCEPT !.tasks = Append(@, new)]
  <2>1. /\ jobs' = [jobs EXCEPT ![j] = job]
        /\ current_job' = current_job /\ mode' = "boot"
    BY <1>2 DEF KeCreateTask
  <2>2. /\ jobs \in Seq(JobType) /\ current_job \in Nat /\ jobs[j] \in JobType
        /\ jobs[j].tasks \in Seq(TaskType)
    <3>1. jobs \in Seq(JobType) /\ current_job \in Nat /\ jobs[j] \in JobType
      BY DEF IInv, TypeOK
    <3>2. QED
      BY <3>1 DEF JobType
  <2>3. SoundJob(j, jobs[j], "boot")
    BY DEF IInv, AllSound, KeCreateTask
  <2>4. SoundJob(j, job, "boot")
    <3>1. Sound(j, Len(jobs[j].tasks) + 1, new, "boot")
      BY DEF Sound
    <3>2. job.tasks = Append(jobs[j].tasks, new)
          /\ job.current_task = jobs[j].current_task
      BY <2>2 DEF JobType
    <3>3. \A t \in DOMAIN job.tasks : Sound(j, t, job.tasks[t], "boot")
      BY <2>2, <2>3, <3>1, <3>2 DEF SoundJob
    <3>4. job.current_task <= Len(job.tasks)
      BY <2>2, <2>3, <3>2 DEF SoundJob
    <3>5. QED
      BY <2>3, <3>2, <3>3, <3>4 DEF SoundJob
  <2>5. \A i \in DOMAIN jobs' : SoundJob(i, jobs'[i], "boot")
    BY <2>1, <2>2, <2>4 DEF IInv, AllSound, KeCreateTask
  <2>6. current_job' <= Len(jobs')
    BY <2>1, <2>2, Replace DEF IInv, AllSound
  <2>7. QED
    BY <2>1, <2>5, <2>6 DEF IInv, AllSound, TurnsStartOver
<1>3. QED
  BY <1>1, <1>2

\* A new thread comes last, as created, before any cursor moves (KeCreateThread).
LEMMA SoundAfterCreateThread ==
  ASSUME IInv, TypeOK', NEW j \in DOMAIN jobs, NEW t \in DOMAIN jobs[j].tasks,
         KeCreateThread(j, t)
  PROVE  IInv'
<1>1. CASE OutOfMemory
  BY <1>1, SoundAfterPanic DEF KeCreateThread
<1>2. CASE ~OutOfMemory
  <2> DEFINE old == jobs[j].tasks[t]
             new == Fresh(<<j, t, Len(old.threads) + 1>>)
             task == [old EXCEPT !.threads = Append(@, new)]
             job == [jobs[j] EXCEPT !.tasks[t] = task]
  <2>1. /\ jobs' = [jobs EXCEPT ![j] = job]
        /\ current_job' = current_job /\ mode' = "boot"
    BY <1>2 DEF KeCreateThread, Fresh
  <2>2. /\ jobs \in Seq(JobType) /\ current_job \in Nat /\ jobs[j] \in JobType
        /\ jobs[j].tasks \in Seq(TaskType) /\ old \in TaskType
        /\ old.threads \in Seq(Context)
    <3>1. jobs \in Seq(JobType) /\ current_job \in Nat /\ jobs[j] \in JobType
      BY DEF IInv, TypeOK
    <3>2. jobs[j].tasks \in Seq(TaskType)
      BY <3>1 DEF JobType
    <3>3. old \in TaskType
      BY <3>2, Element
    <3>4. QED
      BY <3>1, <3>2, <3>3 DEF TaskType
  <2>3. SoundJob(j, jobs[j], "boot") /\ Sound(j, t, old, "boot")
    BY DEF IInv, AllSound, KeCreateThread, SoundJob
  <2>4. Sound(j, t, task, "boot")
    <3>1. task.threads = Append(old.threads, new)
          /\ task.current_thread = old.current_thread
      BY <2>2 DEF TaskType
    <3>2. \A k \in DOMAIN task.threads : task.threads[k] = Fresh(<<j, t, k>>)
      <4>1. \A k \in DOMAIN old.threads : old.threads[k] = Fresh(<<j, t, k>>)
        BY <2>3 DEF Sound
      <4>2. \A k \in DOMAIN Append(old.threads, new) :
              \/ k \in DOMAIN old.threads
                 /\ Append(old.threads, new)[k] = old.threads[k]
              \/ k = Len(old.threads) + 1 /\ Append(old.threads, new)[k] = new
        <5> HIDE DEF new
        <5>1. QED
          BY <2>2, Extend
      <4>3. QED
        BY <3>1, <4>1, <4>2
    <3>3. task.current_thread <= Len(task.threads) /\ task.current_thread = 0
      BY <2>2, <2>3, <3>1 DEF Sound
    <3>4. QED
      BY <3>2, <3>3 DEF Sound
  <2>5. SoundJob(j, job, "boot")
    <3>1. /\ job.tasks = [jobs[j].tasks EXCEPT ![t] = task]
          /\ job.current_task = jobs[j].current_task
      BY <2>2 DEF JobType
    <3>2. /\ DOMAIN job.tasks = DOMAIN jobs[j].tasks
          /\ Len(job.tasks) = Len(jobs[j].tasks)
      BY <2>2, <3>1
    <3>3. QED
      BY <2>3, <2>4, <3>1, <3>2 DEF SoundJob
  <2>6. \A i \in DOMAIN jobs' : SoundJob(i, jobs'[i], "boot")
    BY <2>1, <2>2, <2>5 DEF IInv, AllSound, KeCreateThread
  <2>7. current_job' <= Len(jobs')
    BY <2>1, <2>2 DEF IInv, AllSound
  <2>8. QED
    BY <2>1, <2>6, <2>7 DEF IInv, AllSound, TurnsStartOver
<1>3. QED
  BY <1>1, <1>2

\* What holds of a task before the first turn holds of it in the first turn.
LEMMA SoundAtFirstTurn ==
  ASSUME NEW j, NEW t, NEW task, NEW m \in {"boot", "threads"},
         Sound(j, t, task, m)
  PROVE  Sound(j, t, task, "threads")
<1>1. Even(0)
  BY DEF Even
<1>2. CASE m = "boot"
  BY <1>1, <1>2 DEF Sound
<1>3. QED
  BY <1>2

\* A turn: only the task that gets it changes, and of that task, when its list
\* is even, only an odd slot.
LEMMA SoundAfterSchedule == IInv /\ TypeOK' /\ KeSchedule => IInv'
<1> SUFFICES ASSUME IInv, TypeOK', KeSchedule PROVE IInv'
  OBVIOUS
<1> DEFINE jn == JobIndex + 1
           tn == TaskIndex + 1
           old == OldIndex + 1
           new == NewIndex + 1
           saved == WithScratch(Task.threads, old)
           task == [threads |-> saved, current_thread |-> new]
           job == [tasks |-> [Job.tasks EXCEPT ![tn] = task], current_task |-> tn]
<1>1. /\ jn \in DOMAIN jobs /\ JobIndex \in Nat /\ Job \in JobType
      /\ TaskIndex \in Nat /\ tn \in DOMAIN Job.tasks
      /\ Task \in TaskType /\ old \in DOMAIN Task.threads /\ OldIndex \in Nat
      /\ NewIndex \in Nat /\ new \in DOMAIN Task.threads
  BY PickedTypes DEF KeSchedule, IInv
<1>2. /\ jobs \in Seq(JobType) /\ Job.tasks \in Seq(TaskType)
      /\ Task.threads \in Seq(Context)
  BY <1>1 DEF IInv, TypeOK, JobType, TaskType
<1>3. /\ jobs' = [jobs EXCEPT ![jn] = job] /\ current_job' = jn
      /\ mode' = "threads" /\ mode \in {"boot", "threads"}
      /\ cpu' = [regs |-> saved[new].regs,
                 psw |-> WithOldPsw(Task.threads, old)[new].psw]
  BY DEF KeSchedule, Switched, HwSwitchThreadContext, IInv, TypeOK
<1>4. SoundJob(jn, Job, mode) /\ Sound(jn, tn, Task, mode)
  BY <1>1 DEF IInv, AllSound, SoundJob, Job, Task
<1>5. /\ DOMAIN saved = DOMAIN Task.threads /\ Len(saved) = Len(Task.threads)
      /\ \A k \in DOMAIN saved : k # old => saved[k] = Task.threads[k]
  <2>1. saved = [Task.threads EXCEPT ![old] =
                   [regs |-> AfterSvc(cpu.regs), psw |-> scratchPsw]]
    BY DEF WithScratch
  <2>2. QED
    BY <1>1, <1>2, <2>1
<1>6. ASSUME Even(Len(saved))
      PROVE  Even(new) /\ ~Even(old)
  <2>1. /\ Len(Task.threads) \in Nat /\ Len(Task.threads) # 0
        /\ Task.current_thread \in Nat
        /\ Task.current_thread <= Len(Task.threads)
    BY <1>1, <1>2, <1>4 DEF Sound, TaskType
  <2>2. Even(Task.current_thread)
    <3>1. Sound(jn, tn, Task, "threads")
      BY <1>3, <1>4, SoundAtFirstTurn
    <3>2. Even(Len(Task.threads))
      BY <1>5, <1>6
    <3>3. QED
      BY <3>1, <3>2, Zenon DEF Sound
  <2>3. NewIndex = OldIndex + 1 /\ Even(OldIndex + 2) /\ ~Even(OldIndex + 1)
    BY <1>5, <1>6, <2>1, <2>2, DoubleStep DEF NewIndex, OldIndex
  <2>4. new = OldIndex + 2
    BY <1>1, <2>3
  <2>5. QED
    BY <2>3, <2>4
<1>7. Sound(jn, tn, task, "threads")
  <2>1. task.current_thread <= Len(task.threads)
    BY <1>1, <1>2, <1>5
  <2>2. Even(Len(task.threads)) => Even(task.current_thread)
    BY <1>6
  <2>3. \A k \in DOMAIN saved :
          Even(Len(saved)) /\ Even(k) => saved[k] = Fresh(<<jn, tn, k>>)
    BY <1>4, <1>5, <1>6 DEF Sound
  <2>4. QED
    BY <2>1, <2>2, <2>3 DEF Sound
<1>8. SoundJob(jn, job, "threads")
  <2>1. /\ DOMAIN job.tasks = DOMAIN Job.tasks /\ Len(job.tasks) = Len(Job.tasks)
        /\ job.tasks[tn] = task /\ job.current_task = tn
        /\ \A t \in DOMAIN Job.tasks : t # tn => job.tasks[t] = Job.tasks[t]
    BY <1>1, <1>2
  <2>2. \A t \in DOMAIN Job.tasks : Sound(jn, t, Job.tasks[t], "threads")
    BY <1>3, <1>4, SoundAtFirstTurn DEF SoundJob
  <2>3. \A t \in DOMAIN job.tasks : Sound(jn, t, job.tasks[t], "threads")
    BY <1>7, <2>1, <2>2
  <2>4. job.current_task <= Len(job.tasks)
    BY <1>1, <1>2, <2>1
  <2>5. QED
    BY <2>3, <2>4 DEF SoundJob
<1>9. AllSound'
  <2>1. \A j \in DOMAIN jobs : SoundJob(j, jobs[j], "threads")
    BY <1>3, SoundAtFirstTurn DEF IInv, AllSound, SoundJob
  <2>2. \A j \in DOMAIN jobs' : SoundJob(j, jobs'[j], "threads")
    BY <1>1, <1>2, <1>3, <1>8, <2>1
  <2>3. current_job' <= Len(jobs')
    BY <1>1, <1>2, <1>3
  <2>4. QED
    BY <1>3, <2>2, <2>3 DEF AllSound
<1>10. TurnsStartOver'
  <2> SUFFICES ASSUME AllTasksEven' PROVE TurnsStartOver'
    BY DEF TurnsStartOver
  <2>1. Even(Len(saved))
    BY <1>1, <1>2, <1>3 DEF AllTasksEven
  <2>2. Even(new) /\ new # old
    BY <1>6, <2>1
  <2>3. Task.threads[new] = Fresh(<<jn, tn, new>>)
    BY <1>1, <1>3, <1>4, <1>5, <2>1, <2>2 DEF Sound
  <2>4. saved[new] = Fresh(<<jn, tn, new>>)
    BY <1>1, <1>5, <2>2, <2>3
  <2>5. WithOldPsw(Task.threads, old)[new] = Task.threads[new]
    BY <1>1, <1>2, <2>2 DEF WithOldPsw
  <2>6. cpu' = [regs |-> Entry(<<jn, tn, new>>), psw |-> Entry(<<jn, tn, new>>)]
    BY <1>3, <2>3, <2>4, <2>5 DEF Fresh
  <2>7. QED
    BY <2>2, <2>6 DEF TurnsStartOver, Entry
<1>11. QED
  BY <1>9, <1>10 DEF IInv

\* Each step keeps the invariant.
LEMMA Inductive == IInv /\ [Next]_vars => IInv'
<1> SUFFICES ASSUME IInv, [Next]_vars PROVE IInv'
  OBVIOUS
<1>1. TypeOK'
  BY TypeStep DEF IInv
<1>2. CASE KeCreateJob
  BY <1>1, <1>2, SoundAfterCreateJob
<1>3. ASSUME NEW j \in DOMAIN jobs, KeCreateTask(j) PROVE IInv'
  BY <1>1, <1>3, SoundAfterCreateTask
<1>4. ASSUME NEW j \in DOMAIN jobs, NEW t \in DOMAIN jobs[j].tasks,
             KeCreateThread(j, t)
      PROVE IInv'
  BY <1>1, <1>4, SoundAfterCreateThread
<1>5. CASE KeSchedule
  BY <1>1, <1>5, SoundAfterSchedule
<1>6. CASE UNCHANGED vars
  BY <1>1, <1>6 DEF vars, IInv, AllSound, TurnsStartOver, AllTasksEven
<1>7. QED
  BY <1>2, <1>3, <1>4, <1>5, <1>6 DEF Next, Stopped

\* The invariant holds in every reachable state.
LEMMA Invariant == Spec => []IInv
  BY SoundInit, Inductive, PTL DEF Spec

\* No cursor passes the end of its list: the assertions of KeSchedule hold for
\* every number of jobs, tasks and threads.
THEOREM CursorsCorrect == Spec => []CursorsInRange
<1>1. IInv => CursorsInRange
  BY SoundIsTheProperties DEF IInv
<1>2. QED
  BY <1>1, Invariant, PTL

\* In a task with an even number of threads every other thread never runs,
\* however many jobs, tasks and threads there are.
THEOREM HalfTheThreadsStarve == Spec => []OddThreadsOfEvenTasksNeverRun
<1>1. IInv => OddThreadsOfEvenTasksNeverRun
  BY SoundIsTheProperties DEF IInv
<1>2. QED
  BY <1>1, Invariant, PTL

\* Where every task has an even number of threads, each turn runs a thread from
\* its entry point again, however many turns it has had.
THEOREM NoThreadGoesOn == Spec => []TurnsStartOver
<1>1. IInv => TurnsStartOver
  BY DEF IInv
<1>2. QED
  BY <1>1, Invariant, PTL

\* Whatever is created, and however many turns there are, the contexts in the even
\* slots of even tasks are never overwritten.
THEOREM EvenSlotsStay == Spec => []NothingIsSavedToEvenSlots
<1>1. IInv => NothingIsSavedToEvenSlots
  BY SoundIsTheProperties DEF IInv, NothingIsSavedToEvenSlots
<1>2. QED
  BY <1>1, Invariant, PTL
=============================================================================
