------------------------------ MODULE UsbMode ------------------------------
(***************************************************************************)
(* cmd/filetrans/main.go: runUSBMode, the loop that waits for interface    *)
(* events, the fallback timer and the interrupt, and does everything else  *)
(* - address, prompts, whole transfer sessions - between two selects; with *)
(* backend/netconfig and the detector it reads.                            *)
(***************************************************************************)
EXTENDS InterfaceDetector

CONSTANTS
  Peer,      \* addresses a LAN scan or the user may give
  NoPeer     \* PeerIP = ""

ASSUME PeerAssumption == NoPeer \notin Peer

VARIABLES
  upc,       \* where runUSBMode is
  iface,     \* the interface in hand (a set of at most one)
  addr,      \* the IPv4 address of an interface: "target" is cfg.LocalIP()
  timer,     \* usbTimer is running
  tick,      \* a value is waiting in usbTimer.C
  peerIP,    \* cfg.PeerIP
  saved,     \* what offerNetworkFallback will restore
  ctx,       \* ctx is done: the process was interrupted
  view,      \* history: the interfaces up according to the events handled
  last       \* history: the last event sent for each interface

loopVars == <<upc, iface, timer, tick, peerIP, saved>>
usbVars == <<upc, iface, addr, timer, tick, peerIP, saved, ctx, view, last>>
vars == <<detVars, usbVars>>

(* "alike": an address that begins with the digits of cfg.LocalIP(), such  *)
(* as 192.168.7.10 for 192.168.7.1.                                        *)
Address == {"none", "other", "alike", "target"}

TypeOK ==
  /\ DetectorTypeOK
  /\ upc \in {"select", "handle", "session", "confirm", "scan", "network", "returned"}
  /\ iface \subseteq Iface /\ Cardinality(iface) <= 1
  /\ addr \in [Iface -> Address] /\ \A i \in Iface : i \notin up => addr[i] = "none"
  /\ {timer, tick, ctx} \subseteq BOOLEAN
  /\ {peerIP, saved} \subseteq Peer \cup {NoPeer}
  /\ view \subseteq Iface
  /\ last \in [Iface -> {"unknown", "added", "removed"}]

Init == /\ DetectorInit
        /\ upc = "select" /\ iface = {}
        /\ addr = [i \in Iface |-> IF i \in up THEN "other" ELSE "none"]
        /\ timer = TRUE /\ tick = FALSE
        /\ peerIP = NoPeer /\ saved = NoPeer
        /\ ctx = FALSE
        /\ view = {} /\ last = [i \in Iface |-> "unknown"]

(* netconfig *)
HasTargetIP(i) == addr[i] \in {"alike", "target"}

(* Neither Linux nor Windows: unsupported.  On Linux the addresses are     *)
(* flushed first, and a failure after that leaves none.                    *)
AssignIP(i, ok) ==
  IF ok THEN /\ i \in up /\ platform # "other"
             /\ addr' = [addr EXCEPT ![i] = "target"]
        ELSE \/ UNCHANGED addr
             \/ platform = "linux" /\ addr' = [addr EXCEPT ![i] = "none"]

(* Its errors are ignored.  On Windows the interface goes back to an       *)
(* address of its own; on Linux AssignIP has flushed it.                   *)
RemoveIP(i) ==
  \/ UNCHANGED addr
  \/ /\ addr[i] = "target"
     /\ addr' = [addr EXCEPT ![i] = IF platform = "linux" THEN "none" ELSE "other"]
-----------------------------------------------------------------------------
TimerFires == /\ upc # "returned"
              /\ timer /\ timer' = FALSE
              /\ tick' = TRUE
              /\ UNCHANGED <<detVars, upc, iface, addr, peerIP, saved, ctx, view, last>>

Interrupt == /\ upc # "returned"
             /\ ~ctx /\ ctx' = TRUE
             /\ UNCHANGED <<detVars, loopVars, addr, view, last>>

(* One select of the loop: a case each.  The deferred cancelDet follows    *)
(* every return.                                                           *)
Return == /\ upc' = "returned" /\ stop' = TRUE
          /\ UNCHANGED <<platform, up, changes, failures, dpc, known, todo, spc, listed,
                         netlink, events, open, panicked,
                         iface, addr, timer, tick, peerIP, saved, ctx, view, last>>

\* Mutant of SelectDone: the interrupt is heard only before the first cable.
SelectDoneEarly == upc = "select" /\ ctx /\ view = {} /\ Return

SelectDone == upc = "select" /\ ctx /\ Return

SelectClosed == upc = "select" /\ ~open /\ events = <<>> /\ Return

TakeEvent == /\ upc = "select" /\ events # <<>>
             /\ events' = Tail(events)
             /\ UNCHANGED <<platform, up, changes, failures, dpc, known, todo, spc, listed,
                            netlink, open, stop, panicked, ctx, last>>

(* Stop does not take a value out of the timer's channel (go.mod: go 1.22). *)
SelectAdded == /\ TakeEvent /\ Head(events).added
               /\ timer' = FALSE
               /\ iface' = {Head(events).name} /\ upc' = "handle"
               /\ view' = view \cup {Head(events).name}
               /\ UNCHANGED <<addr, tick, peerIP, saved>>

SelectRemoved == /\ TakeEvent /\ ~Head(events).added
                 /\ RemoveIP(Head(events).name)
                 /\ view' = view \ {Head(events).name}
                 /\ UNCHANGED loopVars

SelectTick == /\ upc = "select" /\ tick
              /\ tick' = FALSE /\ upc' = "confirm"
              /\ UNCHANGED <<detVars, iface, addr, timer, peerIP, saved, ctx, view, last>>

\* Mutant of ResetTimer: the timer is not started again.
ResetForgotten == upc' = "select" /\ iface' = {} /\ UNCHANGED timer

ResetTimer == timer' = TRUE /\ upc' = "select" /\ iface' = {}

(* handleInterface *)
HandleInterface ==
  /\ upc = "handle"
  /\ \E i \in iface :
       \/ HasTargetIP(i) /\ upc' = "session" /\ UNCHANGED <<addr, iface, timer>>
       \/ ~HasTargetIP(i) /\ AssignIP(i, TRUE) /\ upc' = "session" /\ UNCHANGED <<iface, timer>>
       \/ ~HasTargetIP(i) /\ AssignIP(i, FALSE) /\ ResetTimer
  /\ UNCHANGED <<detVars, tick, peerIP, saved, ctx, view, last>>

(* runSession: returns some time; nothing in it looks at ctx, the events   *)
(* or the timer.                                                           *)
SessionEnds == /\ upc = "session" /\ ResetTimer
               /\ UNCHANGED <<detVars, addr, tick, peerIP, saved, ctx, view, last>>

(* offerNetworkFallback.  resolveOrScanPeer asks until it has an address.  *)
Confirm == /\ upc = "confirm"
           /\ \/ ResetTimer /\ UNCHANGED <<peerIP, saved>>
              \/ \E p \in IF peerIP = NoPeer THEN Peer ELSE {peerIP} :
                   /\ saved' = peerIP /\ peerIP' = p
                   /\ upc' = "network" /\ UNCHANGED <<iface, timer>>
           /\ UNCHANGED <<detVars, addr, tick, ctx, view, last>>

NetworkEnds == /\ upc = "network" /\ ResetTimer
               /\ peerIP' = saved
               /\ UNCHANGED <<detVars, addr, tick, saved, ctx, view, last>>
-----------------------------------------------------------------------------
(* An address comes with the cable, and goes with it. *)
CableIn == \E i \in Iface, a \in {"other", "alike"} :
             Plug(i) /\ addr' = [addr EXCEPT ![i] = a]
CableOut == \E i \in Iface : Unplug(i) /\ addr' = [addr EXCEPT ![i] = "none"]

Cable == (CableIn \/ CableOut) /\ UNCHANGED <<loopVars, ctx, view, last>>

(* What is appended to the channel is remembered. *)
Remember == last' = IF Len(events') > Len(events)
                    THEN LET e == events'[Len(events')]
                         IN [last EXCEPT ![e.name] = IF e.added THEN "added" ELSE "removed"]
                    ELSE last

Around == Remember /\ UNCHANGED <<loopVars, addr, ctx, view>>

Detect == DetectorStep /\ Around

Loop == \/ SelectDone \/ SelectClosed \/ SelectAdded \/ SelectRemoved \/ SelectTick
        \/ HandleInterface \/ SessionEnds \/ Confirm \/ NetworkEnds

(* A panic in one goroutine ends them all. *)
Running(A) == ~panicked /\ A

Next == Running(Cable \/ Detect \/ Loop \/ TimerFires \/ Interrupt)

Spec == Init /\ [][Next]_vars

(* Each goroutine runs; the ticker ticks; sessions and prompts come to an  *)
(* end.  Of several ready cases of a select Go picks one at random, so a   *)
(* case that is ready again and again is taken.                            *)
Fairness ==
  /\ WF_vars(Running(/\ \/ PollStart \/ Poll \/ Emit \/ Emitted
                        \/ NetlinkStop \/ NetlinkCall \/ NetlinkReceive
                     /\ Around))
  /\ SF_vars(Running(PollStop /\ Around))
  /\ WF_vars(Running((ListAtStartup \/ SendAtStartup) /\ Around))
  /\ SF_vars(Running(SelectDone)) /\ SF_vars(Running(SelectAdded \/ SelectRemoved))
  /\ WF_vars(Running(SelectClosed \/ HandleInterface \/ SessionEnds \/ Confirm \/ NetworkEnds))
  /\ WF_vars(Running(TimerFires))

FairSpec == Spec /\ Fairness
-----------------------------------------------------------------------------
(* The loop never waits without its timer: whatever was handled before, the *)
(* offer to look for a peer on the network comes again.                     *)
AlwaysWakes == upc = "select" => timer \/ tick

(* For one interface, additions and removals are reported in turn, across  *)
(* snapshots that fail and a channel that is full.                         *)
EventsAlternate ==
  [][\A i \in Iface : Len(events') > Len(events) /\ events'[Len(events')].name = i
                        => last'[i] # last[i]]_vars

(* When cables are left alone, what the loop has handled agrees with what  *)
(* was reported and, for the polling detectors, with the cables: all of    *)
(* them on Windows; elsewhere those in place at the start are not reported,*)
(* but a removal never goes unnoticed.                                     *)
Reported == {i \in Iface : last[i] = "added"}

ViewSettles ==
  <>[](\/ upc = "returned" \/ panicked
       \/ /\ view = Reported
          /\ platform = "windows" => view = up
          /\ platform = "other" => view \subseteq up)

(* A cable connected while the program waits is noticed (README.md:151,    *)
(* "Connect USB-C cable -> GUI shows USB link up").  The Linux detector    *)
(* drops every link message: see ParseMessage.                             *)
HotPlugIsSeen == <>[](upc = "returned" \/ panicked \/ up \subseteq view)

(* An interrupt ends the program, once the session or prompt it came in is *)
(* over, if a panic has not.                                               *)
InterruptEnds == ctx ~> upc = "returned" \/ panicked

(* After cancel a polling detector closes the channel, unless it is stuck  *)
(* with an event the full channel has no room for.                         *)
CancelCloses == stop /\ Polling ~> ~open \/ (todo # {} /\ ~Room)
=============================================================================
