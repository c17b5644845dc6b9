SPECIFICATION FairSpec
CONSTANTS
  MaxJobs = 2
  MaxTasks = 2
  MaxThreads = 3
INVARIANTS TypeOK CursorsInRange OddThreadsOfEvenTasksNeverRun TurnsStartOver
PROPERTIES EveryTaskGetsTurns SlotsOfOddTasksGetTurns
