\* Three requests, cables or pages beside the first choice of a role; two transfers; one page.
CONSTANTS
  Upload = {"upload"}
  Native = {"native"}
  Incoming <- MCIncoming
  Rel <- MCRel
  Base <- MCBase
  Peer = {p1}
  NoPeer = NoPeer
  OtherEnd = other
  PeerFlag = {NoPeer, p2}
  MaxTask = 2
  MaxEvents = 3
  Page = {page}
SPECIFICATION FairSpec
INVARIANTS TypeOK DoneIsSession TransferIsRunning DoneMeansAll PeerShownIsDialled QueuedIsStored
PROPERTIES PagesSettle
CHECK_DEADLOCK FALSE
