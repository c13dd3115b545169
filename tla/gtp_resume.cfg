\* One file, the link breaks once, a second session resumes.
CONSTANTS
  NFiles = 1
  Unit <- MCUnit
  Junk <- MCJunk
  ChunkSize = 2
  Window = 4
  NetCap = 3
  Faults <- LinkBreaks
  MaxFaults = 1
  Versions <- OneFile
  Name <- OneNames
  NameOf <- OneName
  NoFile = NoFile
  MaxSessions = 2
SPECIFICATION Spec
INVARIANTS ResumedFileVerifies
CHECK_DEADLOCK FALSE
