\* Two callers, one after a scan; that one may not fit.
CONSTANTS
  scanner = scanner
  direct = direct
  Caller <- Both
  Scanning <- OnlyScanner
  Hellos <- MCHellos
  Version <- MCVersion
  Role <- MCRole
  DefaultWindow = 4
  MaxWindow = 8
  MaxTries = 2
  MaxListens = 2
  Faults <- AllFaults
  MaxFaults = 1
  Timers <- AllTimers
SPECIFICATION FairSpec
INVARIANTS TypeOK HandshakeInv Agreement RefusedForCause HalfOpenIsClosed
PROPERTIES ListenAllReturns ConnectReturns
CHECK_DEADLOCK FALSE
