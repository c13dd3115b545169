\* One sender that scans, one receiver, nothing goes wrong.
CONSTANTS
  scanner = scanner
  direct = direct
  Caller <- OnlyScanner
  Scanning <- OnlyScanner
  Hellos <- FitsOnly
  Version <- MCVersion
  Role <- MCRole
  DefaultWindow = 4
  MaxWindow = 8
  MaxTries = 2
  MaxListens = 1
  Faults <- None
  MaxFaults = 0
  Timers <- None
SPECIFICATION FairSpec
PROPERTIES FoundIsReached
CHECK_DEADLOCK FALSE
