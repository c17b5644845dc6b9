SPECIFICATION FairSpec
CONSTANTS
  console = console
  disk = disk
  None = None
  Devices = {console, disk}
  Console = console
  Calls <- AllCalls
  Programs = {1, 2, 3}
  MaxQueue = 3
INVARIANTS TypeOK PerformsItsOwn LeftoversAreDead
PROPERTIES StartsLivePrograms QueueTellsTheResult StoresInsideTheArray CallsEnd
