\* A cable on Linux, nothing failing.
CONSTANTS
  Iface = {usb0}
  Platforms = {"linux"}
  ChanCap = 16
  MaxChanges = 2
  MaxFailures = 0
  Peer = {lan}
  NoPeer = NoPeer
SPECIFICATION FairSpec
PROPERTIES HotPlugIsSeen
CHECK_DEADLOCK FALSE
