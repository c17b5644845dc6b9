SPECIFICATION FairSpec
CONSTANTS
  MaxJobs = 1
  MaxTasks = 1
  MaxThreads = 2
  Asynchronous = {"ext", "io"}
INVARIANTS UnwindsToTheThread
PROPERTIES ImplementsScheduler  ThreadsResume
