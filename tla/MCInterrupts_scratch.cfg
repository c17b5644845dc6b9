SPECIFICATION Spec
CONSTANTS
  MaxJobs = 1
  MaxTasks = 1
  MaxThreads = 2
  Asynchronous = {"io"}
INVARIANTS ScratchFrameHoldsTheThread
