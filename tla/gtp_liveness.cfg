\* Progress of one file whose chunks all fit in the window.
CONSTANTS
  NFiles = 1
  Unit <- MCUnit
  Junk <- MCJunk
  ChunkSize = 2
  Window = 4
  NetCap = 3
  Faults <- AllFaults
  MaxFaults = 2
  Versions <- OneFile
  Name <- OneNames
  NameOf <- OneName
  NoFile = NoFile
  MaxSessions = 1
SPECIFICATION FairSpec
PROPERTIES PipelineDrains BrokenConnEndsSession ReceiverFollowsSender AckReadersReturn
CHECK_DEADLOCK FALSE
