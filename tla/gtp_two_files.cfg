\* Two files in one session: the ackReader of the first file keeps reading.
CONSTANTS
  NFiles = 2
  Unit <- MCUnit
  Junk <- MCJunk
  ChunkSize = 2
  Window = 2
  NetCap = 2
  Faults <- AllFaults
  MaxFaults = 2
  Versions <- TwoFiles
  Name <- TwoNames
  NameOf <- OwnName
  NoFile = NoFile
  MaxSessions = 2
SPECIFICATION Spec
INVARIANTS DeliveryInv ExactInv ContentInv ReportedIsSafe
PROPERTIES DeliversFiles
CHECK_DEADLOCK FALSE
