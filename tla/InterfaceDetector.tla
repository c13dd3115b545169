------------------------- MODULE InterfaceDetector -------------------------
(***************************************************************************)
(* backend/detector: the goroutines that watch for USB network interfaces  *)
(* and report them over a buffered channel.                                *)
(*                                                                         *)
(* "windows" and "other" compare snapshots taken by a ticker; "windows"    *)
(* also reports what is up when it starts.  "linux" lists what is up in    *)
(* one goroutine and reads netlink messages in another, both sending on    *)
(* the same channel.                                                       *)
(*                                                                         *)
(* An interface is up when a snapshot lists it: plugged in, up, with an    *)
(* IPv4 address.  Only names that the platform's name test accepts are     *)
(* modelled.                                                               *)
(***************************************************************************)
EXTENDS Naturals, Sequences, FiniteSets

CONSTANTS
  Iface,         \* interfaces with a name the detector looks for
  Platforms,     \* builds considered, a subset of AllPlatforms
  ChanCap,       \* capacity of the events channel (16 in the code)
  MaxChanges,    \* bound: interfaces plugged in or out
  MaxFailures    \* bound: snapshots and receive calls that fail

AllPlatforms == {"windows", "other", "linux"}

ASSUME DetectorAssumption == /\ Platforms \subseteq AllPlatforms
                             /\ ChanCap \in Nat \ {0}
                             /\ MaxChanges \in Nat /\ MaxFailures \in Nat

VARIABLES
  platform,
  up,        \* interfaces that are up
  changes, failures,
  dpc,       \* where the detector's goroutine is
  known,     \* the last snapshot
  todo,      \* events found, not sent yet
  spc,       \* where the startup goroutine is (linux)
  listed,    \* what it has still to send
  netlink,   \* link messages waiting in the socket
  events,    \* the channel
  open,      \* it is not closed
  stop,      \* close(stop) was called
  panicked   \* a goroutine has sent on the closed channel: the process has ended

detVars == <<platform, up, changes, failures, dpc, known, todo, spc, listed,
             netlink, events, open, stop, panicked>>

InterfaceEvent == [name : Iface, added : BOOLEAN]
Added(S) == {[name |-> i, added |-> TRUE] : i \in S}
Removed(S) == {[name |-> i, added |-> FALSE] : i \in S}

Polling == platform \in {"windows", "other"}

DetectorTypeOK ==
  /\ platform \in Platforms
  /\ up \subseteq Iface /\ known \subseteq Iface /\ listed \subseteq Iface
  /\ changes \in 0..MaxChanges /\ failures \in 0..MaxFailures
  /\ dpc \in {"start", "emit", "wait", "top", "recv", "closed"}
  /\ todo \subseteq InterfaceEvent
  /\ spc \in {"list", "send", "done"}
  /\ netlink \in Seq(InterfaceEvent)
  /\ events \in Seq(InterfaceEvent) /\ Len(events) <= ChanCap
  /\ {open, stop, panicked} \subseteq BOOLEAN

DetectorInit ==
  /\ platform \in Platforms
  /\ up \in SUBSET Iface
  /\ changes = 0 /\ failures = 0
  /\ dpc = IF platform = "linux" THEN "top" ELSE "start"
  /\ spc = IF platform = "linux" THEN "list" ELSE "done"
  /\ known = {} /\ todo = {} /\ listed = {}
  /\ netlink = <<>> /\ events = <<>>
  /\ open = TRUE /\ stop = FALSE /\ panicked = FALSE

\* Mutant of Room: one event more than the channel holds.
RoomForOneMore == Len(events) <= ChanCap

Room == Len(events) < ChanCap
-----------------------------------------------------------------------------
(* Cables and addresses come and go. *)

Change(i) ==
  /\ changes < MaxChanges
  /\ changes' = changes + 1
  /\ netlink' = IF platform = "linux" /\ dpc # "closed"
                THEN Append(netlink, [name |-> i, added |-> i \in up']) ELSE netlink
  /\ UNCHANGED <<platform, failures, dpc, known, todo, spc, listed, events, open, stop, panicked>>

Plug(i) == i \notin up /\ up' = up \cup {i} /\ Change(i)
Unplug(i) == i \in up /\ up' = up \ {i} /\ Change(i)
-----------------------------------------------------------------------------
(* The polling detectors. *)

(* net.Interfaces may fail, or an interface's Addrs: an empty map, or one  *)
(* without the interface, is then taken for the truth.                     *)
Snapshot(S) == \/ S = up /\ UNCHANGED failures
               \/ S # up /\ failures < MaxFailures /\ failures' = failures + 1

(* The first snapshot, and on Windows an event for each interface in it. *)
PollStart == /\ dpc = "start"
             /\ \E S \in SUBSET up : /\ Snapshot(S)
                                     /\ known' = S
                                     /\ todo' = IF platform = "windows" THEN Added(S) ELSE {}
             /\ dpc' = "emit"
             /\ UNCHANGED <<platform, up, changes, spc, listed, netlink, events, open, stop, panicked>>

\* Mutant of Poll: the snapshot to compare with is not replaced.
PollKeepsKnown ==
  /\ Polling /\ dpc = "wait"
  /\ \E S \in SUBSET up : /\ Snapshot(S)
                          /\ todo' = Added(S \ known) \cup Removed(known \ S)
                          /\ dpc' = IF S = known THEN "wait" ELSE "emit"
  /\ UNCHANGED <<platform, up, changes, known, spc, listed, netlink, events, open, stop, panicked>>

(* A tick: what is in one snapshot and not in the other. *)
Poll == /\ Polling /\ dpc = "wait"
        /\ \E S \in SUBSET up : /\ Snapshot(S)
                                /\ todo' = Added(S \ known) \cup Removed(known \ S)
                                /\ known' = S
                                /\ dpc' = IF S = known THEN "wait" ELSE "emit"
        /\ UNCHANGED <<platform, up, changes, spc, listed, netlink, events, open, stop, panicked>>

\* Mutant of Emit: an event is dropped when the channel is full.
EmitOrDrop ==
  /\ dpc = "emit" /\ todo # {}
  /\ \E e \in todo : /\ (\E a \in todo : a.added) => e.added
                     /\ events' = IF Room THEN Append(events, e) ELSE events
                     /\ todo' = todo \ {e}
  /\ UNCHANGED <<platform, up, changes, failures, dpc, known, spc, listed, netlink,
                 open, stop, panicked>>

(* Additions are sent before removals, in no order among themselves, and   *)
(* the goroutine waits for room without looking at stop.                   *)
Emit == /\ dpc = "emit" /\ todo # {} /\ Room
        /\ \E e \in todo : /\ (\E a \in todo : a.added) => e.added
                           /\ events' = Append(events, e)
                           /\ todo' = todo \ {e}
        /\ UNCHANGED <<platform, up, changes, failures, dpc, known, spc, listed, netlink,
                       open, stop, panicked>>

Emitted == /\ dpc = "emit" /\ todo = {}
           /\ dpc' = IF platform = "linux" THEN "top" ELSE "wait"
           /\ UNCHANGED <<platform, up, changes, failures, known, todo, spc, listed, netlink,
                          events, open, stop, panicked>>

\* Mutant of PollStop: the goroutine returns and leaves the channel open.
PollStopLeavesOpen ==
  /\ dpc = "wait" /\ stop
  /\ dpc' = "closed"
  /\ UNCHANGED <<platform, up, changes, failures, known, todo, spc, listed, netlink,
                 events, open, stop, panicked>>

PollStop == /\ dpc = "wait" /\ stop
            /\ dpc' = "closed" /\ open' = FALSE
            /\ UNCHANGED <<platform, up, changes, failures, known, todo, spc, listed, netlink,
                           events, stop, panicked>>
-----------------------------------------------------------------------------
(* The Linux detector. *)

(* The startup goroutine lists the interfaces, then sends one event each,  *)
(* waiting for room without looking at stop.                               *)
ListAtStartup == /\ spc = "list"
                 /\ \E S \in {up, {}} : Snapshot(S) /\ listed' = S
                 /\ spc' = "send"
                 /\ UNCHANGED <<platform, up, changes, dpc, known, todo, netlink,
                                events, open, stop, panicked>>

SendAtStartup ==
  /\ spc = "send"
  /\ \/ /\ listed = {} /\ spc' = "done"
        /\ UNCHANGED <<listed, events, panicked>>
     \/ /\ listed # {} /\ open /\ Room
        /\ \E i \in listed : /\ events' = Append(events, [name |-> i, added |-> TRUE])
                             /\ listed' = listed \ {i}
        /\ UNCHANGED <<spc, panicked>>
     \/ /\ listed # {} /\ ~open
        /\ panicked' = TRUE /\ spc' = "done"
        /\ UNCHANGED <<listed, events>>
  /\ UNCHANGED <<platform, up, changes, failures, dpc, known, todo, netlink, open, stop>>

(* parseLinkMsg hands syscall.ParseNetlinkRouteAttr a message of which only *)
(* Data is set.  That function knows the layout by the header's type and    *)
(* refuses a type it does not know, zero included; the caller then drops    *)
(* the message.                                                             *)
HeaderPassed(msg) == "zero"
ParseMessage(msg) == IF HeaderPassed(msg) \in {"RTM_NEWLINK", "RTM_DELLINK"} THEN {msg} ELSE {}

(* Stopped: at the top of the loop, because Recvfrom is called on the      *)
(* descriptor cancel has closed, or instead of sending.                    *)
NetlinkStop == /\ dpc = "top" \/ (platform = "linux" /\ dpc = "emit" /\ todo # {})
               /\ stop
               /\ dpc' = "closed" /\ open' = FALSE
               /\ UNCHANGED <<platform, up, changes, failures, known, todo, spc, listed,
                              netlink, events, stop, panicked>>

(* Recvfrom waits; a close of the descriptor does not wake it. *)
NetlinkCall == /\ dpc = "top" /\ ~stop
               /\ dpc' = "recv"
               /\ UNCHANGED <<platform, up, changes, failures, known, todo, spc, listed,
                              netlink, events, open, stop, panicked>>

NetlinkReceive == /\ dpc = "recv" /\ netlink # <<>>
                  /\ netlink' = Tail(netlink)
                  /\ todo' = ParseMessage(Head(netlink))
                  /\ dpc' = "emit"
                  /\ UNCHANGED <<platform, up, changes, failures, known, spc, listed,
                                 events, open, stop, panicked>>

(* Any other error, ENOBUFS after a burst of messages for one, ends the    *)
(* goroutine, which closes the channel.                                    *)
NetlinkError == /\ dpc = "recv" /\ failures < MaxFailures
                /\ failures' = failures + 1
                /\ dpc' = "closed" /\ open' = FALSE
                /\ UNCHANGED <<platform, up, changes, known, todo, spc, listed, netlink,
                               events, stop, panicked>>
-----------------------------------------------------------------------------
DetectorStep == \/ PollStart \/ Poll \/ Emit \/ Emitted \/ PollStop
                \/ ListAtStartup \/ SendAtStartup
                \/ NetlinkStop \/ NetlinkCall \/ NetlinkReceive \/ NetlinkError
=============================================================================
