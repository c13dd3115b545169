\* One file, every fault, two sessions.
CONSTANTS
  NFiles = 1
  Unit <- MCUnit
  Junk <- MCJunk
  ChunkSize = 2
  Window = 2
  NetCap = 3
  Faults <- AllFaults
  MaxFaults = 3
  Versions <- OneFile
  Name <- OneNames
  NameOf <- OneName
  NoFile = NoFile
  MaxSessions = 2
SPECIFICATION Spec
INVARIANTS TypeOK DestIntegrity ReportedIsSafe ChunksInSequence CompleteAfterChunks NoJunkOnDisk AcksConserved WindowRespected DoneMeansStored ServedOrHung
PROPERTIES DeliversFiles
CHECK_DEADLOCK FALSE
