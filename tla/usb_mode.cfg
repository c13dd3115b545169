\* Two interfaces, a channel of one, the three builds of the detector.
CONSTANTS
  Iface = {usb0, usb1}
  Platforms = {"windows", "other", "linux"}
  ChanCap = 1
  MaxChanges = 2
  MaxFailures = 1
  Peer = {lan}
  NoPeer = NoPeer
SPECIFICATION FairSpec
INVARIANTS TypeOK AlwaysWakes
PROPERTIES EventsAlternate ViewSettles InterruptEnds CancelCloses
CHECK_DEADLOCK FALSE
