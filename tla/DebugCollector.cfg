\* The parts of the collector and of its server, each on a small instance.
CONSTANTS
  Batches <- MCBatches
  MaxLogSize = 10
  MaxWrites = 3
  Kinds <- MCKinds
  BufferSize <- MCBufferSize
  Events <- MCEvents
  ProgramKinds = {"console"}
  Reports = {r1, r2}
  BeaconLimit = 2
  BeaconKeeps <- MCBeaconKeeps
  MaxEntries = 2
  MaxFaults = 2
  SensitiveKeys = {"token", "key"}
  LongTexts = {"long"}
  JsonTexts <- MCJsonTexts
  LongBodies = {"long json"}
  MaxNesting = 2
  MaxItems = 1
  Samples <- MCSamples
  Steps <- MCSteps
  MaxPath = 4
  Elements <- MCElements
  Arguments <- MCArguments
  ScrollThrottle = 2
  MaxClock = 4
  MaxCaptured = 2
  Fetches = {f1}
  Xhrs = {x1}
  AtOnce = {"binary"}
  Texts = {"text", "unreadable"}
  MaxTurns = 2
  MaxSends = 3
SPECIFICATION CollectorSpec
INVARIANTS
  NewestPart
  
  NothingVanishes
  OrderKept
  EntriesCaptured
  RequestsRecorded
PROPERTY EveryEntrySettles
CHECK_DEADLOCK FALSE
