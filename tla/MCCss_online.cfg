SPECIFICATION Spec
CONSTANTS
  console = console
  disk = disk
  None = None
  Devices = {console, disk}
  Console = console
  Calls <- DiskCalls
  Programs = {1, 2, 3}
  MaxQueue = 2
PROPERTIES TestsThatTheDeviceIsOnline
