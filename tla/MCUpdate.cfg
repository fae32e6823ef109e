\* The software store, with a directory sync that may fail inside an update.
CONSTANTS
  Endpoints = {"store"}
  Sids = {1, 2}
  Recreate = TRUE
  MaxHandshakes = 3
  MaxCommands = 3
  MaxHsmFaults = 2
  Free = Free
  Other = Other
  Processes = {p1}
  Pins = {a, b}
  MaxGeneration = 3
  MaxRecords = 2
  MaxKeys = 4
  MaxStoreFaults = 2
  UpdateSyncFails = TRUE
  NoPin = NoPin
  MaxRequests = 2
  MaxChannels = 4
  MaxInits = 3
  MaxReports = 2
  Broadcast = Broadcast
  s1 = s1
  s2 = s2
  Serials = {s1, s2}
  UsbIds = {u1, u2}
  I2cSerials = {s2}
  Configurations <- MCConfigurations
  NoSerial = NoSerial
  CommandIds = {c1, c2}
  MaxPlugs = 2
  MaxGenerations = 2
SPECIFICATION MCSpec
CHECK_DEADLOCK FALSE
INVARIANT
  ObjectsSurvive
