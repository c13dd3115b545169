----------------------------- MODULE WebState ------------------------------
(***************************************************************************)
(* The web GUI's server (backend/webui: state.go, api.go, the USB watcher  *)
(* of server.go): one AppState under a lock, changed by HTTP requests that *)
(* run side by side, by the goroutines of the transfers they start, through*)
(* the callbacks, and by the watcher.  A step is one section under the     *)
(* lock, or one access to what the lock does not cover: cfg, which requests*)
(* write as they like, and the directory of uploaded files.                *)
(*                                                                         *)
(* What a transfer does on the network is in GTPTransfer and GTPHandshake; *)
(* here it succeeds or fails as it likes.                                  *)
(***************************************************************************)
EXTENDS Naturals, Sequences, FiniteSets, SequencesExt

CONSTANTS
  Upload,      \* files dropped in the browser, stored under their base name
  Native,      \* files chosen by path
  Incoming,    \* names of the files a peer sends, in order
  Rel, Base,   \* the name a file is offered under; the last part of its path
  Peer, NoPeer,   \* addresses a user may give as the peer's; none
  OtherEnd,       \* the fixed address of the cable's other end
  PeerFlag,       \* what --peer may say, or FILETRANS_PEER; NoPeer if neither is given
  MaxTask,     \* bound: transfers started
  MaxEvents    \* bound: requests, pages opened and closed, cables

File == Upload \cup Native
FileName == {Rel[f] : f \in File} \cup {Base[f] : f \in File} \cup Range(Incoming)
Task == 1..MaxTask
Slot == 1..2     \* bound: requests of several steps running at once

ASSUME WebAssumption == /\ Upload \cap Native = {}
                        /\ Incoming \in Seq(FileName)
                        /\ Rel \in [File -> FileName] /\ Base \in [File -> FileName]
                        /\ NoPeer \notin Peer \cup {OtherEnd}
                        /\ MaxTask \in Nat /\ MaxEvents \in Nat

VARIABLES
  phase, role, queue, entries, sessionDone, peerShown,   \* AppState
  cfgPeer,     \* cfg.PeerIP
  disk,        \* uploaded files in the temporary directory
  req,         \* requests between two steps
  task,        \* transfers
  usb,         \* the watcher runs
  count,       \* events so far
  collided     \* history: what has overlapped: "start", "peer", "upload"

appState == <<phase, role, queue, entries, sessionDone, peerShown>>
stateVars == <<appState, cfgPeer, disk, req, task, usb, count, collided>>

Role == {"", "sender", "receiver"}
NoEntry == [moved |-> "none", done |-> FALSE, error |-> FALSE, there |-> FALSE]
NewEntry == [NoEntry EXCEPT !.there = TRUE]
NoReq == [op |-> "none", role |-> "", files |-> <<>>, peer |-> NoPeer]
NoTask == [at |-> "off", role |-> "", left |-> <<>>]

Running(t) == task[t].at \notin {"off", "over"}
Op(s) == req[s].op

StateTypeOK ==
  /\ phase \in {"idle", "waiting_usb", "connected", "transfer", "done"}
  /\ role \in Role
  /\ queue \in Seq(File)
  /\ entries \in [FileName -> [moved : {"none", "some", "all"}, done : BOOLEAN,
                               error : BOOLEAN, there : BOOLEAN]]
  /\ \A n \in FileName : ~entries[n].there => entries[n] = NoEntry
  /\ {sessionDone, usb} \subseteq BOOLEAN
  /\ cfgPeer \in Peer \cup PeerFlag
  /\ peerShown \in Peer \cup PeerFlag \cup {NoPeer, OtherEnd}
  /\ disk \subseteq Upload
  /\ req \in [Slot -> [op : {"none", "set-peer", "upload", "start", "reset-files"},
                       role : Role, files : Seq(File), peer : Peer \cup {NoPeer}]]
  /\ task \in [Task -> [at : {"off", "begin", "connect", "listen", "session",
                              "file", "moving", "failing", "over"},
                        role : Role, left : Seq(File \cup FileName)]]
  /\ count \in 0..MaxEvents
  /\ collided \subseteq {"start", "peer", "upload"}

(* Start sets waiting_usb unless the detector could not be started.        *)
(* --peer goes into cfg; AppState does not learn of it.                    *)
StateInit ==
  /\ usb \in BOOLEAN
  /\ phase = IF usb THEN "waiting_usb" ELSE "idle"
  /\ role = "" /\ queue = <<>> /\ sessionDone = FALSE
  /\ entries = [n \in FileName |-> NoEntry]
  /\ peerShown = NoPeer /\ cfgPeer \in PeerFlag
  /\ disk = {}
  /\ req = [s \in Slot |-> NoReq]
  /\ task = [t \in Task |-> NoTask]
  /\ count = 0 /\ collided = {}

Event == count < MaxEvents /\ count' = count + 1

setPhase(p) == phase' = p /\ UNCHANGED <<role, queue, entries, sessionDone, peerShown>>
setQueue(q) == queue' = q /\ UNCHANGED <<phase, role, entries, sessionDone, peerShown>>
-----------------------------------------------------------------------------
(* The callbacks (state.go, transfer/callbacks.go).  An entry that is not  *)
(* there is not made by any of them but the first.                         *)

\* Mutant of Entry: whether the entry is there is not asked.
EntryAnyway(n, e) == entries' = [entries EXCEPT ![n] = e]

Entry(n, e) == entries' = [entries EXCEPT ![n] = IF entries[n].there THEN e ELSE NoEntry]

OnFileStart(n) == /\ entries' = [entries EXCEPT ![n] = NewEntry]
                  /\ UNCHANGED <<phase, role, queue, sessionDone, peerShown>>
OnProgress(n) == /\ Entry(n, [entries[n] EXCEPT !.moved = "some"])
                 /\ UNCHANGED <<phase, role, queue, sessionDone, peerShown>>
OnFileComplete(n) == /\ Entry(n, [entries[n] EXCEPT !.done = TRUE, !.moved = "all"])
                     /\ UNCHANGED <<phase, role, queue, sessionDone, peerShown>>
OnFileError(n) == /\ Entry(n, [entries[n] EXCEPT !.error = TRUE])
                  /\ UNCHANGED <<phase, role, queue, sessionDone, peerShown>>
OnSessionDone == /\ sessionDone' = TRUE /\ phase' = "done"
                 /\ UNCHANGED <<role, queue, entries, peerShown>>
-----------------------------------------------------------------------------
(* Requests of one step. *)

handleSetRole(r) == /\ IF role = "" THEN UNCHANGED count ELSE Event    \* bound
                    /\ role' = r
                    /\ UNCHANGED <<phase, queue, entries, sessionDone, peerShown,
                                   cfgPeer, disk, req, task, usb, collided>>

(* The user's answer replaces the queue, none included; the files of a     *)
(* folder are appended.                                                    *)
handleSelectFiles(fs) == /\ Event /\ setQueue(fs)
                         /\ UNCHANGED <<cfgPeer, disk, req, task, usb, collided>>
handleSelectFolder(fs) == /\ Event /\ setQueue(queue \o fs)
                          /\ UNCHANGED <<cfgPeer, disk, req, task, usb, collided>>

(* A path that is queued already is left out (bound: one path a request;   *)
(* a path twice in one request would be queued twice).                     *)
handleSetNativeFiles(f) ==
  /\ Event
  /\ setQueue(IF f \in Range(queue) THEN queue ELSE Append(queue, f))
  /\ UNCHANGED <<cfgPeer, disk, req, task, usb, collided>>

Uploading == \E s \in Slot : Op(s) = "upload"

\* Mutant of ResetState: the queue is kept.
ResetKeepsQueue == queue' = queue /\ phase' = IF phase \in {"done", "transfer"}
                                              THEN "connected" ELSE phase

\* Mutant of ResetState: "done" is left to the next start.
ResetKeepsDone == queue' = <<>> /\ phase' = IF phase = "transfer" THEN "connected" ELSE phase

ResetState == queue' = <<>> /\ phase' = IF phase \in {"done", "transfer"}
                                        THEN "connected" ELSE phase

(* The directory is emptied under the lock, which an upload does not take  *)
(* to write its file.                                                      *)
handleReset == /\ Event
               /\ entries' = [n \in FileName |-> NoEntry]
               /\ sessionDone' = FALSE
               /\ ResetState
               /\ disk' = {}
               /\ collided' = collided \cup (IF Uploading THEN {"upload"} ELSE {})
               /\ UNCHANGED <<role, peerShown, cfgPeer, req, task, usb>>
-----------------------------------------------------------------------------
(* Requests of two steps. *)

Begin(s, r) == Op(s) = "none" /\ req' = [req EXCEPT ![s] = r]
End(s) == req' = [req EXCEPT ![s] = NoReq]

(* cfg.PeerIP, and then what the pages show. *)
PeerIsSet(s, p) ==
  /\ Event /\ Begin(s, [NoReq EXCEPT !.op = "set-peer", !.peer = p])
  /\ cfgPeer' = p
  /\ collided' = collided \cup (IF \E o \in Slot : Op(o) = "set-peer" THEN {"peer"} ELSE {})
  /\ UNCHANGED <<appState, disk, task, usb>>

PeerIsShown(s) ==
  /\ Op(s) = "set-peer" /\ End(s)
  /\ peerShown' = req[s].peer /\ phase' = "connected"
  /\ UNCHANGED <<role, queue, entries, sessionDone, cfgPeer, disk, task, usb, count, collided>>

UploadIsStored(s, f) ==
  /\ Event /\ Begin(s, [NoReq EXCEPT !.op = "upload", !.files = <<f>>])
  /\ disk' = disk \cup {f}
  /\ collided' = collided \cup (IF \E o \in Slot : Op(o) = "reset-files"
                                THEN {"upload"} ELSE {})
  /\ UNCHANGED <<appState, cfgPeer, task, usb>>

UploadIsQueued(s) ==
  /\ Op(s) = "upload" /\ End(s)
  /\ setQueue(queue \o req[s].files)
  /\ UNCHANGED <<cfgPeer, disk, task, usb, count, collided>>

QueueIsCleared(s) ==
  /\ Event /\ Begin(s, [NoReq EXCEPT !.op = "reset-files"])
  /\ setQueue(<<>>)
  /\ collided' = collided \cup (IF Uploading THEN {"upload"} ELSE {})
  /\ UNCHANGED <<cfgPeer, disk, task, usb>>

UploadsAreRemoved(s) ==
  /\ Op(s) = "reset-files" /\ End(s)
  /\ disk' = {}
  /\ UNCHANGED <<appState, cfgPeer, task, usb, count, collided>>

(* handleStart copies role and queue, and under a second lock resets the   *)
(* progress; nothing asks whether a transfer is running.                   *)
StartReads(s) ==
  /\ role # ""
  /\ Event /\ Begin(s, [NoReq EXCEPT !.op = "start", !.role = role, !.files = queue])
  /\ UNCHANGED <<appState, cfgPeer, disk, task, usb, collided>>

StartProgress == /\ entries' = [n \in FileName |-> NoEntry]
                 /\ sessionDone' = FALSE /\ phase' = "transfer"

StartSpawns(s, t) ==
  /\ Op(s) = "start" /\ End(s)
  /\ task[t].at = "off" /\ \A o \in Task : o < t => task[o].at # "off"
  /\ StartProgress
  /\ task' = [task EXCEPT ![t] = [at |-> "begin", role |-> req[s].role,
                                  left |-> IF req[s].role = "sender" THEN req[s].files ELSE <<>>]]
  /\ collided' = collided \cup (IF \E o \in Task : Running(o) THEN {"start"} ELSE {})
  /\ UNCHANGED <<role, queue, peerShown, cfgPeer, disk, usb, count>>
=============================================================================
