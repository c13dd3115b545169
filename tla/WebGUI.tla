------------------------------ MODULE WebGUI -------------------------------
(***************************************************************************)
(* The web GUI's goroutines around WebState: the transfers handleStart     *)
(* spawns, the USB watcher, and the hub that shows the state to the pages. *)
(*                                                                         *)
(* A snapshot is "fresh" while it equals the state and "stale" from the    *)
(* first change on: all that can be asked of what a page shows.            *)
(***************************************************************************)
EXTENDS WebState

CONSTANT Page      \* pages that may be open

VARIABLES
  conn,      \* a page's connection, and how far handleEvents is with it
  away,      \* pages that are gone, which handleEvents learns when it reads
  first,     \* the snapshot handleEvents writes
  wire,      \* written, not read by the page yet
  shown,     \* what the page shows
  push,      \* pushLoop: where it is, its snapshot, the pages left, the one being written to
  crashed    \* the process has panicked

hubVars == <<conn, away, first, wire, shown, push, crashed>>
vars == <<stateVars, hubVars>>

Snap == {"none", "fresh", "stale"}
Idle == [at |-> "tick", snap |-> "none", left |-> {}, now |-> {}]

TypeOK ==
  /\ StateTypeOK
  /\ conn \in [Page -> {"closed", "added", "first", "writing", "open", "orphan"}]
  /\ away \subseteq Page
  /\ first \in [Page -> Snap] /\ wire \in [Page -> Snap] /\ shown \in [Page -> Snap]
  /\ push \in [at : {"tick", "snap", "write"}, snap : Snap,
              left : SUBSET Page, now : SUBSET Page]
  /\ push.now \subseteq push.left
  /\ push.at # "write" => push.left = {}
  /\ crashed \in BOOLEAN

Init == /\ StateInit
        /\ conn = [p \in Page |-> "closed"] /\ away = {}
        /\ first = [p \in Page |-> "none"]
        /\ wire = [p \in Page |-> "none"] /\ shown = [p \in Page |-> "none"]
        /\ push = Idle /\ crashed = FALSE

Aged(x) == IF x = "fresh" THEN "stale" ELSE x

(* A change of the state makes every snapshot stale. *)
HubAges == IF UNCHANGED appState THEN UNCHANGED hubVars
           ELSE /\ first' = [p \in Page |-> Aged(first[p])]
                /\ wire' = [p \in Page |-> Aged(wire[p])]
                /\ shown' = [p \in Page |-> Aged(shown[p])]
                /\ push' = [push EXCEPT !.snap = Aged(@)]
                /\ UNCHANGED <<conn, away, crashed>>
-----------------------------------------------------------------------------
(* The goroutine handleStart spawns.  Its own variables: *)

Rest == UNCHANGED <<cfgPeer, disk, req, usb, count, collided>>
At(t, a) == task' = [task EXCEPT ![t].at = a]
Forget(t) == task' = [task EXCEPT ![t] = [NoTask EXCEPT !.at = "over"]]

(* Every way out but SESSION_DONE reports an error and the phase connected. *)
Fails(t) == setPhase("connected") /\ Forget(t)

Begins(t) ==
  /\ task[t].at = "begin" /\ Rest
  /\ \/ task[t].role = "sender" /\ task[t].left = <<>> /\ Fails(t)
     \/ task[t].role = "sender" /\ task[t].left # <<>> /\ At(t, "connect")
        /\ UNCHANGED appState
     \/ task[t].role = "receiver" /\ Fails(t)              \* MkdirAll fails
     \/ task[t].role = "receiver" /\ setPhase("transfer") /\ At(t, "listen")

(* Connect and ListenAll; the port is free once a connection was accepted. *)
PortTaken(t) == \E o \in Task \ {t} : task[o].at = "listen"

Connects(t) ==
  /\ Rest
  /\ \/ /\ task[t].at = "connect" /\ setPhase("transfer") /\ At(t, "session")
     \/ /\ task[t].at = "listen" /\ ~PortTaken(t)
        /\ setPhase("transfer")
        /\ task' = [task EXCEPT ![t].at = "session", ![t].left = Incoming]

ConnectFails(t) == task[t].at \in {"connect", "listen"} /\ Fails(t) /\ Rest

(* gtp.Send and gtp.Receive, as far as the callbacks tell.  A sender's     *)
(* entries go by the name it offers a file under, its errors by the last   *)
(* part of the path; a receiver does not report an error.                  *)
Current(t) == Head(task[t].left)
Shown(t) == IF task[t].role = "sender" THEN Rel[Current(t)] ELSE Current(t)
Missing(t) == task[t].role = "sender" /\ Current(t) \in Upload \ disk

FileStarts(t) == /\ task[t].at = "session" /\ task[t].left # <<>> /\ ~Missing(t)
                 /\ OnFileStart(Shown(t)) /\ At(t, "file") /\ Rest

FileMoves(t) == /\ task[t].at = "file"
                /\ OnProgress(Shown(t)) /\ At(t, "moving") /\ Rest

FileCompletes(t) == /\ task[t].at \in {"file", "moving"}
                    /\ OnFileComplete(Shown(t))
                    /\ task' = [task EXCEPT ![t].at = "session", ![t].left = Tail(@)]
                    /\ Rest

(* A sender reports the file, then returns; a receiver just returns. *)
FileFails(t) == /\ task[t].role = "sender" /\ task[t].left # <<>>
                /\ task[t].at \in {"session", "file", "moving"}
                /\ OnFileError(Base[Current(t)]) /\ At(t, "failing") /\ Rest

SessionFails(t) == /\ \/ task[t].at = "failing"
                      \/ task[t].at = "session" /\ task[t].left = <<>>
                      \/ task[t].at \in {"session", "file", "moving"} /\ task[t].role = "receiver"
                   /\ Fails(t) /\ Rest

\* Mutant of SessionIsDone: the session is done before its last file.
SessionIsDoneEarly(t) == /\ task[t].at = "moving" /\ Len(task[t].left) = 1
                         /\ OnSessionDone /\ Forget(t) /\ Rest

\* Mutant of SessionIsDone: the phase is left to somebody else.
SessionIsDoneSilently(t) == /\ task[t].at = "session" /\ task[t].left = <<>>
                            /\ UNCHANGED appState /\ Forget(t) /\ Rest

SessionIsDone(t) == /\ task[t].at = "session" /\ task[t].left = <<>>
                    /\ OnSessionDone /\ Forget(t) /\ Rest

Transfer(t) == \/ Begins(t) \/ Connects(t) \/ ConnectFails(t)
               \/ FileStarts(t) \/ FileMoves(t) \/ FileCompletes(t) \/ FileFails(t)
               \/ SessionFails(t) \/ SessionIsDone(t)
-----------------------------------------------------------------------------
(* The USB watcher, one event each. *)

(* What Connect dials: the peer the user has set, or else the other end of *)
(* the cable.                                                              *)
RemoteIP == IF cfgPeer # NoPeer THEN cfgPeer ELSE OtherEnd

\* Mutant of CableIn: the page shows the cable's other end, whatever the user has set.
CableInOtherEnd == /\ usb /\ Event
                   /\ phase' = "connected" /\ peerShown' = OtherEnd
                   /\ UNCHANGED <<role, queue, entries, sessionDone,
                                  cfgPeer, disk, req, task, usb, collided>>

CableIn == /\ usb /\ Event
           /\ phase' = "connected" /\ peerShown' = RemoteIP
           /\ UNCHANGED <<role, queue, entries, sessionDone,
                          cfgPeer, disk, req, task, usb, collided>>

CableOut == /\ usb /\ Event
            /\ setPhase("waiting_usb")
            /\ UNCHANGED <<cfgPeer, disk, req, task, usb, collided>>
-----------------------------------------------------------------------------
(* The hub.  Its lock is held while a broadcast writes to the pages.       *)

Locked == push.at = "write"
InHub == {p \in Page : conn[p] \in {"added", "first", "writing", "open"}}

(* handleEvents: join the hub, take a snapshot, write it, read until the   *)
(* page is gone, leave.                                                    *)
PageOpens(p) == /\ conn[p] = "closed" /\ ~Locked
                /\ Event
                /\ conn' = [conn EXCEPT ![p] = "added"]
                /\ UNCHANGED <<away, first, wire, shown, push, crashed>>

FirstSnapshot(p) == /\ conn[p] = "added"
                    /\ conn' = [conn EXCEPT ![p] = "first"]
                    /\ first' = [first EXCEPT ![p] = "fresh"]
                    /\ UNCHANGED <<away, wire, shown, push, crashed>>

(* Two writers on one connection: the library panics in one of the two.    *)
(* In the push loop that ends the process; in the handler it is caught,    *)
(* and the page is left with an open connection nobody writes to.          *)
Collide(p) == \/ crashed' = TRUE /\ UNCHANGED <<conn, push>>
              \/ /\ conn' = [conn EXCEPT ![p] = "orphan"]
                 /\ push' = [push EXCEPT !.left = @ \ {p}, !.now = {}]
                 /\ UNCHANGED crashed

FirstWriteBegins(p) ==
  /\ conn[p] = "first"
  /\ IF p \in push.now THEN Collide(p)
     ELSE conn' = [conn EXCEPT ![p] = "writing"] /\ UNCHANGED <<push, crashed>>
  /\ UNCHANGED <<away, first, wire, shown>>

(* A write ends once the pipe has room; to a page that is gone it fails at *)
(* once, and nobody looks at the error.                                    *)
HasRoom(p) == p \in away \/ wire[p] = "none"
Sent(p, snap) == wire' = IF p \in away THEN wire ELSE [wire EXCEPT ![p] = snap]

FirstWriteEnds(p) == /\ conn[p] = "writing" /\ HasRoom(p)
                     /\ conn' = [conn EXCEPT ![p] = "open"]
                     /\ Sent(p, first[p])
                     /\ first' = [first EXCEPT ![p] = "none"]
                     /\ UNCHANGED <<away, shown, push, crashed>>

PageReads(p) == /\ wire[p] # "none" /\ conn[p] \in {"first", "writing", "open"}
                /\ shown' = [shown EXCEPT ![p] = wire[p]]
                /\ wire' = [wire EXCEPT ![p] = "none"]
                /\ UNCHANGED <<conn, away, first, push, crashed>>

PageCloses(p) == /\ p \in InHub \ away /\ Event
                 /\ away' = away \cup {p}
                 /\ wire' = [wire EXCEPT ![p] = "none"]
                 /\ shown' = [shown EXCEPT ![p] = "none"]
                 /\ UNCHANGED <<conn, first, push, crashed>>

PageLeaves(p) == /\ conn[p] = "open" /\ p \in away /\ ~Locked
                 /\ conn' = [conn EXCEPT ![p] = "closed"] /\ away' = away \ {p}
                 /\ UNCHANGED <<first, wire, shown, push, crashed>>

(* pushLoop: a tick, then broadcast. *)
PushSnapshot == /\ push.at = "tick"
                /\ push' = [push EXCEPT !.at = "snap", !.snap = "fresh"]
                /\ UNCHANGED <<conn, away, first, wire, shown, crashed>>

PushLocks == /\ push.at = "snap"
             /\ push' = [push EXCEPT !.at = "write", !.left = InHub]
             /\ UNCHANGED <<conn, away, first, wire, shown, crashed>>

PushWriteBegins(p) ==
  /\ p \in push.left /\ push.now = {}
  /\ IF conn[p] = "writing" THEN Collide(p)
     ELSE push' = [push EXCEPT !.now = {p}] /\ UNCHANGED <<conn, crashed>>
  /\ UNCHANGED <<away, first, wire, shown>>

PushWriteEnds(p) ==
  /\ p \in push.now /\ HasRoom(p) /\ Sent(p, push.snap)
  /\ push' = [push EXCEPT !.left = @ \ {p}, !.now = {}]
  /\ UNCHANGED <<conn, away, first, shown, crashed>>

\* Mutant of PushUnlocks: the lock is kept.
PushKeepsLock == /\ push.at = "write" /\ push.left = {}
                 /\ push' = [push EXCEPT !.snap = "none"]
                 /\ UNCHANGED <<conn, away, first, wire, shown, crashed>>

PushUnlocks == /\ push.at = "write" /\ push.left = {}
               /\ push' = Idle
               /\ UNCHANGED <<conn, away, first, wire, shown, crashed>>

HubRest == UNCHANGED <<appState, cfgPeer, disk, req, task, usb, collided>>
Push == \/ PushSnapshot \/ PushLocks \/ PushUnlocks
        \/ \E p \in Page : PushWriteBegins(p) \/ PushWriteEnds(p)
Handler(p) == FirstSnapshot(p) \/ FirstWriteBegins(p) \/ FirstWriteEnds(p) \/ PageLeaves(p)

HubStep == /\ HubRest
           /\ \/ \E p \in Page : PageOpens(p) \/ PageCloses(p)
              \/ UNCHANGED count /\ (Push \/ \E p \in Page : Handler(p) \/ PageReads(p))
-----------------------------------------------------------------------------
Chosen == {<<f>> : f \in Native}     \* bound: one file per dialog

Request == \/ \E r \in {"sender", "receiver"} : handleSetRole(r)
           \/ handleSelectFiles(<<>>)
           \/ \E fs \in Chosen : handleSelectFiles(fs) \/ handleSelectFolder(fs)
           \/ \E f \in Native : handleSetNativeFiles(f)
           \/ handleReset
           \/ \E s \in Slot :
                \/ \E p \in Peer : PeerIsSet(s, p)
                \/ \E f \in Upload : UploadIsStored(s, f)
                \/ PeerIsShown(s) \/ UploadIsQueued(s)
                \/ QueueIsCleared(s) \/ UploadsAreRemoved(s)
                \/ StartReads(s) \/ \E t \in Task : StartSpawns(s, t)

StateStep == (Request \/ CableIn \/ CableOut \/ \E t \in Task : Transfer(t)) /\ HubAges

Next == ~crashed /\ (StateStep \/ HubStep)

Spec == Init /\ [][Next]_vars

(* The push loop ticks, handlers run, pages read what they are sent. *)
Fairness == /\ WF_vars(~crashed /\ HubRest /\ UNCHANGED count /\ Push)
            /\ \A p \in Page : WF_vars(~crashed /\ HubRest /\ UNCHANGED count /\ Handler(p))
            /\ \A p \in Page : WF_vars(~crashed /\ HubRest /\ UNCHANGED count /\ PageReads(p))

FairSpec == Spec /\ Fairness
-----------------------------------------------------------------------------
(* A page that says "done" says it of a session that was done: Reset and   *)
(* Start take both back together, whatever callbacks are in between.       *)
DoneIsSession == phase = "done" => sessionDone

(* The spinner stops: the phase says "transfer" only while a transfer runs,*)
(* however many were started and however they ended.                       *)
TransferIsRunning == phase = "transfer" => \E t \in Task : Running(t)

(* When a session is done every file the page lists has arrived whole and  *)
(* without error, also after a Reset or a cable in between, unless two     *)
(* transfers have run at once.                                             *)
DoneMeansAll ==
  sessionDone /\ "start" \notin collided =>
    \A n \in FileName : entries[n].there => /\ entries[n].done /\ ~entries[n].error
                                            /\ entries[n].moved = "all"

(* A page that shows a peer shows the one Connect would dial, or a request *)
(* that has set another is about to show that one, whatever cables come in *)
(* between, as long as two such requests have not overlapped.  A page that *)
(* shows none, as at the start, promises nothing: --peer or the other end  *)
(* of the cable would be dialled.                                          *)
PeerShownIsDialled ==
  "peer" \notin collided /\ peerShown \notin {NoPeer, RemoteIP} =>
    \E s \in Slot : Op(s) = "set-peer" /\ req[s].peer = RemoteIP

(* An uploaded file that is queued is on disk, if no upload has overlapped *)
(* with the clearing of the queue.                                         *)
QueuedIsStored == "upload" \notin collided => Range(queue) \cap Upload \subseteq disk

(* Once the state stays as it is every open page shows it, the page that   *)
(* got an old first snapshot after a newer broadcast included.             *)
PagesSettle ==
  <>[](crashed \/ \A p \in InHub \ away : conn[p] = "open" /\ shown[p] = "fresh")
=============================================================================
