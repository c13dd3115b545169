\* One file larger than the window, the link may break.
CONSTANTS
  NFiles = 1
  Unit <- MCUnit
  Junk <- MCJunk
  ChunkSize = 2
  Window = 2
  NetCap = 3
  Faults <- LinkBreaks
  MaxFaults = 1
  Versions <- OneFile
  Name <- OneNames
  NameOf <- OneName
  NoFile = NoFile
  MaxSessions = 1
SPECIFICATION FairSpec
PROPERTIES BrokenConnEndsSession
CHECK_DEADLOCK FALSE
