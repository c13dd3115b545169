\* One file, nothing goes wrong.
CONSTANTS
  NFiles = 1
  Unit <- MCUnit
  Junk <- MCJunk
  ChunkSize = 2
  Window = 4
  NetCap = 3
  Faults <- NoFaults
  MaxFaults = 0
  Versions <- OneFile
  Name <- OneNames
  NameOf <- OneName
  NoFile = NoFile
  MaxSessions = 1
SPECIFICATION FairSpec
PROPERTIES SessionEnds
CHECK_DEADLOCK FALSE
