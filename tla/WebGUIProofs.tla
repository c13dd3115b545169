---------------------------- MODULE WebGUIProofs ----------------------------
(***************************************************************************)
(* Proofs about WebGUI for any files, names, peers and pages, and any      *)
(* number of transfers, requests and cables.                               *)
(***************************************************************************)
EXTENDS WebGUI, SequenceTheorems, TLAPS

-----------------------------------------------------------------------------
(* Types.  A transfer inside a file has a file left: the one it is in.     *)

InFile == \A t \in Task : task[t].at \in {"file", "moving"} => task[t].left # <<>>

TypeInv == TypeOK /\ InFile

Phases == {"idle", "waiting_usb", "connected", "transfer", "done"}
EntryType == [moved : {"none", "some", "all"}, done : BOOLEAN, error : BOOLEAN, there : BOOLEAN]
ReqType == [op : {"none", "set-peer", "upload", "start", "reset-files"},
            role : Role, files : Seq(File), peer : Peer \cup {NoPeer}]
TaskType == [at : {"off", "begin", "connect", "listen", "session",
                   "file", "moving", "failing", "over"},
             role : Role, left : Seq(File \cup FileName)]

EntriesOK == /\ entries \in [FileName -> EntryType]
             /\ \A n \in FileName : ~entries[n].there => entries[n] = NoEntry

AppTypeOK == /\ phase \in Phases /\ role \in Role /\ queue \in Seq(File)
             /\ EntriesOK
             /\ sessionDone \in BOOLEAN
             /\ peerShown \in Peer \cup PeerFlag \cup {NoPeer, OtherEnd}

RestTypeOK == /\ cfgPeer \in Peer \cup PeerFlag /\ disk \subseteq Upload
              /\ req \in [Slot -> ReqType]
              /\ usb \in BOOLEAN /\ count \in 0..MaxEvents
              /\ collided \subseteq {"start", "peer", "upload"}

TasksOK == task \in [Task -> TaskType] /\ InFile

HubTypeOK == /\ conn \in [Page -> {"closed", "added", "first", "writing", "open", "orphan"}]
             /\ away \subseteq Page
             /\ first \in [Page -> Snap] /\ wire \in [Page -> Snap] /\ shown \in [Page -> Snap]
             /\ push \in [at : {"tick", "snap", "write"}, snap : Snap,
                          left : SUBSET Page, now : SUBSET Page]
             /\ push.now \subseteq push.left
             /\ push.at # "write" => push.left = {}
             /\ crashed \in BOOLEAN

(* The type invariant, part by part. *)
LEMMA TypeParts == TypeInv <=> AppTypeOK /\ RestTypeOK /\ TasksOK /\ HubTypeOK
BY DEF TypeInv, TypeOK, StateTypeOK, AppTypeOK, RestTypeOK, TasksOK, HubTypeOK,
       EntriesOK, EntryType, ReqType, TaskType, Phases

LEMMA TypePartsNext == TypeInv' <=> AppTypeOK' /\ RestTypeOK' /\ TasksOK' /\ HubTypeOK'
BY DEF TypeInv, TypeOK, StateTypeOK, AppTypeOK, RestTypeOK, TasksOK, HubTypeOK,
       EntriesOK, EntryType, ReqType, TaskType, Phases

LEMMA NoEntryType == NoEntry \in EntryType /\ NewEntry \in EntryType /\ NewEntry.there
                     /\ ~NewEntry.error /\ ~NoEntry.there
BY DEF NoEntry, NewEntry, EntryType

LEMMA NoReqType == NoReq \in ReqType /\ NoReq.op = "none"
BY EmptySeq DEF NoReq, ReqType, Role

LEMMA NoTaskType == NoTask \in TaskType /\ NoTask.at = "off"
                    /\ [NoTask EXCEPT !.at = "over"] \in TaskType
                    /\ [NoTask EXCEPT !.at = "over"].at = "over"
BY EmptySeq DEF NoTask, TaskType, Role

(* What setPhase and setQueue assign. *)
LEMMA SetPhaseTyped ==
  ASSUME AppTypeOK, NEW p \in Phases, setPhase(p)
  PROVE  AppTypeOK'
BY DEF AppTypeOK, EntriesOK, setPhase

LEMMA SetQueueTyped ==
  ASSUME AppTypeOK, NEW q \in Seq(File), setQueue(q)
  PROVE  AppTypeOK'
BY DEF AppTypeOK, EntriesOK, setQueue

(* The callbacks keep an entry that is not there as it is. *)
LEMMA EntryTyped ==
  ASSUME EntriesOK, NEW n, NEW e, Entry(n, e),
         n \in FileName /\ entries[n].there => e \in EntryType /\ e.there
  PROVE  EntriesOK'
<1>1. entries' \in [FileName -> EntryType]
  BY NoEntryType DEF EntriesOK, Entry
<1>2. ASSUME NEW m \in FileName, ~entries'[m].there PROVE entries'[m] = NoEntry
  BY <1>2, NoEntryType DEF EntriesOK, Entry
<1>3. QED
  BY <1>1, <1>2 DEF EntriesOK

LEMMA CallbackTyped ==
  ASSUME AppTypeOK, NEW n,
         \/ OnFileStart(n) \/ OnProgress(n) \/ OnFileComplete(n) \/ OnFileError(n) \/ OnSessionDone
  PROVE  AppTypeOK'
<1>1. CASE OnFileStart(n)
  <2>1. EntriesOK'
    BY <1>1, NoEntryType DEF OnFileStart, AppTypeOK, EntriesOK
  <2>2. QED
    BY <1>1, <2>1 DEF OnFileStart, AppTypeOK
<1>2. CASE OnProgress(n)
  <2>1. EntriesOK'
    BY <1>2, EntryTyped DEF OnProgress, AppTypeOK, EntriesOK, EntryType
  <2>2. QED
    BY <1>2, <2>1 DEF OnProgress, AppTypeOK
<1>3. CASE OnFileComplete(n)
  <2>1. EntriesOK'
    BY <1>3, EntryTyped DEF OnFileComplete, AppTypeOK, EntriesOK, EntryType
  <2>2. QED
    BY <1>3, <2>1 DEF OnFileComplete, AppTypeOK
<1>4. CASE OnFileError(n)
  <2>1. EntriesOK'
    BY <1>4, EntryTyped DEF OnFileError, AppTypeOK, EntriesOK, EntryType
  <2>2. QED
    BY <1>4, <2>1 DEF OnFileError, AppTypeOK
<1>5. CASE OnSessionDone
  BY <1>5 DEF OnSessionDone, AppTypeOK, EntriesOK, Phases
<1>6. QED
  BY <1>1, <1>2, <1>3, <1>4, <1>5

-----------------------------------------------------------------------------
(* The requests keep the types. *)

LEMMA EventTyped ==
  ASSUME RestTypeOK, Event \/ UNCHANGED count
  PROVE  count' \in 0..MaxEvents
BY WebAssumption DEF RestTypeOK, Event

LEMMA TasksKept ==
  ASSUME TasksOK, UNCHANGED task
  PROVE  TasksOK'
BY DEF TasksOK, InFile

LEMMA AppKept ==
  ASSUME AppTypeOK, UNCHANGED appState
  PROVE  AppTypeOK'
BY DEF AppTypeOK, EntriesOK, appState

(* A request between its two steps. *)
LEMMA BeginTyped ==
  ASSUME RestTypeOK, NEW s \in Slot, NEW r \in ReqType, Begin(s, r)
  PROVE  req' \in [Slot -> ReqType]
BY DEF RestTypeOK, Begin

LEMMA EndTyped ==
  ASSUME RestTypeOK, NEW s \in Slot, End(s)
  PROVE  req' \in [Slot -> ReqType]
BY NoReqType DEF RestTypeOK, End

(* The requests that replace or extend the queue. *)
LEMMA QueueRequestsTyped ==
  ASSUME AppTypeOK, RestTypeOK, TasksOK,
         \/ handleSelectFiles(<<>>)
         \/ \E fs \in Chosen : handleSelectFiles(fs) \/ handleSelectFolder(fs)
         \/ \E f \in Native : handleSetNativeFiles(f)
  PROVE  AppTypeOK' /\ RestTypeOK' /\ TasksOK'
<1>1. \E q \in Seq(File) : setQueue(q)
  <2>1. <<>> \in Seq(File)
    BY EmptySeq
  <2>2. ASSUME NEW fs \in Chosen PROVE fs \in Seq(File)
    <3>1. PICK f \in Native : fs = <<f>>
      BY DEF Chosen
    <3>2. <<f>> \in Seq(File)
      BY DEF File
    <3>3. QED
      BY <3>1, <3>2
  <2>3. \A fs \in Chosen : queue \o fs \in Seq(File)
    BY <2>2, ConcatProperties DEF AppTypeOK
  <2>4. \A f \in Native : Append(queue, f) \in Seq(File)
    BY AppendProperties DEF AppTypeOK, File
  <2>5. QED
    BY <2>1, <2>2, <2>3, <2>4
    DEF handleSelectFiles, handleSelectFolder, handleSetNativeFiles, AppTypeOK
<1>2. Event /\ UNCHANGED <<cfgPeer, disk, req, task, usb, collided>>
  BY DEF handleSelectFiles, handleSelectFolder, handleSetNativeFiles
<1>3. QED
  BY <1>1, <1>2, SetQueueTyped, EventTyped, TasksKept DEF RestTypeOK

LEMMA RoleTyped ==
  ASSUME AppTypeOK, RestTypeOK, TasksOK, NEW r \in {"sender", "receiver"}, handleSetRole(r)
  PROVE  AppTypeOK' /\ RestTypeOK' /\ TasksOK'
<1>1. Event \/ UNCHANGED count
  BY DEF handleSetRole
<1>2. QED
  BY <1>1, EventTyped, TasksKept DEF handleSetRole, AppTypeOK, EntriesOK, RestTypeOK, Role

LEMMA ResetTyped ==
  ASSUME AppTypeOK, RestTypeOK, TasksOK, handleReset
  PROVE  AppTypeOK' /\ RestTypeOK' /\ TasksOK'
<1>1. EntriesOK'
  BY NoEntryType DEF handleReset, EntriesOK
<1>2. queue' \in Seq(File) /\ phase' \in Phases
  BY EmptySeq DEF handleReset, ResetState, AppTypeOK, Phases
<1>3. collided' \subseteq {"start", "peer", "upload"} /\ disk' \subseteq Upload
  BY DEF handleReset, RestTypeOK
<1>4. QED
  BY <1>1, <1>2, <1>3, EventTyped, TasksKept DEF handleReset, AppTypeOK, RestTypeOK

LEMMA PeerTyped ==
  ASSUME AppTypeOK, RestTypeOK, TasksOK, NEW s \in Slot,
         PeerIsShown(s) \/ \E p \in Peer : PeerIsSet(s, p)
  PROVE  AppTypeOK' /\ RestTypeOK' /\ TasksOK'
<1>1. CASE PeerIsShown(s)
  <2>1. req[s].peer \in Peer \cup {NoPeer}
    BY DEF RestTypeOK, ReqType
  <2>2. AppTypeOK'
    BY <1>1, <2>1 DEF PeerIsShown, AppTypeOK, EntriesOK, Phases
  <2>3. QED
    BY <1>1, <2>2, EndTyped, TasksKept DEF PeerIsShown, RestTypeOK
<1>2. ASSUME NEW p \in Peer, PeerIsSet(s, p) PROVE AppTypeOK' /\ RestTypeOK' /\ TasksOK'
  <2>1. [NoReq EXCEPT !.op = "set-peer", !.peer = p] \in ReqType
    BY NoReqType DEF ReqType
  <2>2. req' \in [Slot -> ReqType]
    BY <1>2, <2>1, BeginTyped DEF PeerIsSet
  <2>3. cfgPeer' \in Peer \cup PeerFlag /\ collided' \subseteq {"start", "peer", "upload"}
    BY <1>2 DEF PeerIsSet, RestTypeOK
  <2>4. QED
    BY <1>2, <2>2, <2>3, EventTyped, TasksKept, AppKept DEF PeerIsSet, RestTypeOK
<1>3. QED
  BY <1>1, <1>2

LEMMA UploadTyped ==
  ASSUME AppTypeOK, RestTypeOK, TasksOK, NEW s \in Slot,
         UploadIsQueued(s) \/ \E f \in Upload : UploadIsStored(s, f)
  PROVE  AppTypeOK' /\ RestTypeOK' /\ TasksOK'
<1>1. CASE UploadIsQueued(s)
  <2>1. queue \o req[s].files \in Seq(File)
    BY ConcatProperties DEF AppTypeOK, RestTypeOK, ReqType
  <2>2. AppTypeOK'
    BY <1>1, <2>1, SetQueueTyped DEF UploadIsQueued
  <2>3. QED
    BY <1>1, <2>2, EndTyped, TasksKept DEF UploadIsQueued, RestTypeOK
<1>2. ASSUME NEW f \in Upload, UploadIsStored(s, f) PROVE AppTypeOK' /\ RestTypeOK' /\ TasksOK'
  <2>1. [NoReq EXCEPT !.op = "upload", !.files = <<f>>] \in ReqType
    <3>1. <<f>> \in Seq(File)
      BY DEF File
    <3>2. QED
      BY <3>1, NoReqType DEF ReqType
  <2>2. req' \in [Slot -> ReqType]
    BY <1>2, <2>1, BeginTyped DEF UploadIsStored
  <2>3. disk' \subseteq Upload /\ collided' \subseteq {"start", "peer", "upload"}
    BY <1>2 DEF UploadIsStored, RestTypeOK
  <2>4. QED
    BY <1>2, <2>2, <2>3, EventTyped, TasksKept, AppKept DEF UploadIsStored, RestTypeOK
<1>3. QED
  BY <1>1, <1>2

LEMMA ClearTyped ==
  ASSUME AppTypeOK, RestTypeOK, TasksOK, NEW s \in Slot,
         QueueIsCleared(s) \/ UploadsAreRemoved(s)
  PROVE  AppTypeOK' /\ RestTypeOK' /\ TasksOK'
<1>1. CASE QueueIsCleared(s)
  <2>1. [NoReq EXCEPT !.op = "reset-files"] \in ReqType
    BY NoReqType DEF ReqType
  <2>2. req' \in [Slot -> ReqType]
    BY <1>1, <2>1, BeginTyped DEF QueueIsCleared
  <2>3. AppTypeOK'
    BY <1>1, EmptySeq, SetQueueTyped DEF QueueIsCleared
  <2>4. collided' \subseteq {"start", "peer", "upload"}
    BY <1>1 DEF QueueIsCleared, RestTypeOK
  <2>5. QED
    BY <1>1, <2>2, <2>3, <2>4, EventTyped, TasksKept DEF QueueIsCleared, RestTypeOK
<1>2. CASE UploadsAreRemoved(s)
  BY <1>2, EndTyped, TasksKept, AppKept DEF UploadsAreRemoved, RestTypeOK
<1>3. QED
  BY <1>1, <1>2

LEMMA StartTyped ==
  ASSUME AppTypeOK, RestTypeOK, TasksOK, NEW s \in Slot,
         StartReads(s) \/ \E t \in Task : StartSpawns(s, t)
  PROVE  AppTypeOK' /\ RestTypeOK' /\ TasksOK'
<1>1. CASE StartReads(s)
  <2>1. [NoReq EXCEPT !.op = "start", !.role = role, !.files = queue] \in ReqType
    BY NoReqType DEF ReqType, AppTypeOK
  <2>2. req' \in [Slot -> ReqType]
    BY <1>1, <2>1, BeginTyped DEF StartReads
  <2>3. QED
    BY <1>1, <2>2, EventTyped, TasksKept, AppKept DEF StartReads, RestTypeOK
<1>2. ASSUME NEW t \in Task, StartSpawns(s, t) PROVE AppTypeOK' /\ RestTypeOK' /\ TasksOK'
  <2>1. EntriesOK' /\ phase' \in Phases /\ sessionDone' \in BOOLEAN
    BY <1>2, NoEntryType DEF StartSpawns, StartProgress, EntriesOK, Phases
  <2>2. AppTypeOK'
    BY <1>2, <2>1 DEF StartSpawns, AppTypeOK
  <2>3. req' \in [Slot -> ReqType] /\ collided' \subseteq {"start", "peer", "upload"}
    BY <1>2, EndTyped DEF StartSpawns, RestTypeOK
  <2>4. RestTypeOK'
    BY <1>2, <2>3 DEF StartSpawns, RestTypeOK
  <2> DEFINE new == [at |-> "begin", role |-> req[s].role,
                     left |-> IF req[s].role = "sender" THEN req[s].files ELSE <<>>]
  <2>5. new \in TaskType /\ new.at = "begin"
    <3>1. req[s].role \in Role /\ req[s].files \in Seq(File)
      BY DEF RestTypeOK, ReqType
    <3>2. req[s].files \in Seq(File \cup FileName) /\ <<>> \in Seq(File \cup FileName)
      BY <3>1, SeqMonotonic, EmptySeq
    <3>3. QED
      BY <3>1, <3>2 DEF TaskType
  <2> HIDE DEF new
  <2>6. task' = [task EXCEPT ![t] = new]
    BY <1>2 DEF StartSpawns, new
  <2>7. TasksOK'
    BY <2>5, <2>6 DEF TasksOK, InFile
  <2>8. QED
    BY <2>2, <2>4, <2>7
<1>3. QED
  BY <1>1, <1>2

LEMMA RequestTyped ==
  ASSUME AppTypeOK, RestTypeOK, TasksOK, Request
  PROVE  AppTypeOK' /\ RestTypeOK' /\ TasksOK'
BY QueueRequestsTyped, RoleTyped, ResetTyped, PeerTyped, UploadTyped, ClearTyped, StartTyped
   DEF Request

LEMMA WatcherTyped ==
  ASSUME AppTypeOK, RestTypeOK, TasksOK, CableIn \/ CableOut
  PROVE  AppTypeOK' /\ RestTypeOK' /\ TasksOK'
<1>1. CASE CableIn
  BY <1>1, EventTyped, TasksKept
  DEF CableIn, RemoteIP, AppTypeOK, EntriesOK, RestTypeOK, Phases
<1>2. CASE CableOut
  BY <1>2, EventTyped, TasksKept, SetPhaseTyped DEF CableOut, RestTypeOK, Phases
<1>3. QED
  BY <1>1, <1>2

-----------------------------------------------------------------------------
(* The transfers keep the types. *)

LEMMA AtTyped ==
  ASSUME TasksOK, NEW t \in Task, NEW a, At(t, a),
         a \in {"connect", "listen", "session", "file", "moving", "failing"},
         a \in {"file", "moving"} => task[t].left # <<>>
  PROVE  TasksOK'
<1>1. task' \in [Task -> TaskType]
  BY DEF TasksOK, At, TaskType
<1>2. /\ task'[t].at = a /\ task'[t].left = task[t].left
      /\ \A o \in Task \ {t} : task'[o] = task[o]
  BY DEF TasksOK, At, TaskType
<1>3. QED
  BY <1>1, <1>2 DEF TasksOK, InFile

LEMMA ForgetTyped ==
  ASSUME TasksOK, NEW t \in Task, Forget(t)
  PROVE  TasksOK'
<1>1. task' \in [Task -> TaskType] /\ task'[t].at = "over"
      /\ \A o \in Task \ {t} : task'[o] = task[o]
  BY NoTaskType DEF TasksOK, Forget
<1>2. QED
  BY <1>1 DEF TasksOK, InFile

LEMMA FailsTyped ==
  ASSUME AppTypeOK, TasksOK, NEW t \in Task, Fails(t)
  PROVE  AppTypeOK' /\ TasksOK'
BY ForgetTyped, SetPhaseTyped DEF Fails, Phases

(* A new place and the files left, in one assignment. *)
LEMMA LeftTyped ==
  ASSUME TasksOK, NEW t \in Task, NEW l \in Seq(File \cup FileName),
         task' = [task EXCEPT ![t].at = "session", ![t].left = l]
  PROVE  /\ TasksOK' /\ task'[t].at = "session" /\ task'[t].left = l
         /\ task'[t].role = task[t].role
         /\ \A o \in Task \ {t} : task'[o] = task[o]
<1>1. task' \in [Task -> TaskType]
  BY DEF TasksOK, TaskType
<1>2. /\ task'[t].at = "session" /\ task'[t].left = l /\ task'[t].role = task[t].role
      /\ \A o \in Task \ {t} : task'[o] = task[o]
  BY DEF TasksOK, TaskType
<1>3. QED
  BY <1>1, <1>2 DEF TasksOK, InFile

LEMMA ConnectionTyped ==
  ASSUME AppTypeOK, TasksOK, NEW t \in Task, Begins(t) \/ Connects(t) \/ ConnectFails(t)
  PROVE  AppTypeOK' /\ TasksOK'
<1>1. CASE Fails(t)
  BY <1>1, FailsTyped
<1>2. CASE \/ UNCHANGED appState /\ At(t, "connect")
           \/ setPhase("transfer") /\ (At(t, "listen") \/ At(t, "session"))
  BY <1>2, AtTyped, AppKept, SetPhaseTyped DEF Phases
<1>3. CASE setPhase("transfer") /\ task' = [task EXCEPT ![t].at = "session", ![t].left = Incoming]
  <2>1. Incoming \in Seq(File \cup FileName)
    BY WebAssumption, SeqMonotonic
  <2>2. QED
    BY <1>3, <2>1, LeftTyped, SetPhaseTyped DEF Phases
<1>4. QED
  BY <1>1, <1>2, <1>3 DEF Begins, Connects, ConnectFails

LEMMA SessionTyped ==
  ASSUME AppTypeOK, TasksOK, NEW t \in Task,
         \/ FileStarts(t) \/ FileMoves(t) \/ FileCompletes(t) \/ FileFails(t)
         \/ SessionFails(t) \/ SessionIsDone(t)
  PROVE  AppTypeOK' /\ TasksOK'
<1>1. CASE FileStarts(t)
  BY <1>1, CallbackTyped, AtTyped DEF FileStarts
<1>2. CASE FileMoves(t)
  BY <1>2, CallbackTyped, AtTyped DEF FileMoves, TasksOK, InFile
<1>3. CASE FileCompletes(t)
  <2>1. task[t].left \in Seq(File \cup FileName) /\ task[t].left # <<>>
    BY <1>3 DEF FileCompletes, TasksOK, InFile, TaskType
  <2>2. Tail(task[t].left) \in Seq(File \cup FileName)
    BY <2>1, HeadTailProperties
  <2>3. task' = [task EXCEPT ![t].at = "session", ![t].left = Tail(task[t].left)]
    BY <1>3 DEF FileCompletes, TasksOK, TaskType
  <2>4. QED
    BY <1>3, <2>2, <2>3, LeftTyped, CallbackTyped DEF FileCompletes
<1>4. CASE FileFails(t)
  BY <1>4, CallbackTyped, AtTyped DEF FileFails
<1>5. CASE SessionFails(t)
  BY <1>5, FailsTyped DEF SessionFails
<1>6. CASE SessionIsDone(t)
  BY <1>6, CallbackTyped, ForgetTyped DEF SessionIsDone
<1>7. QED
  BY <1>1, <1>2, <1>3, <1>4, <1>5, <1>6

LEMMA TransferTyped ==
  ASSUME AppTypeOK, RestTypeOK, TasksOK, NEW t \in Task, Transfer(t)
  PROVE  AppTypeOK' /\ RestTypeOK' /\ TasksOK'
<1>1. Rest
  BY DEF Transfer, Begins, Connects, ConnectFails, FileStarts, FileMoves, FileCompletes,
         FileFails, SessionFails, SessionIsDone
<1>2. RestTypeOK'
  BY <1>1 DEF Rest, RestTypeOK
<1>3. QED
  BY <1>2, ConnectionTyped, SessionTyped DEF Transfer

-----------------------------------------------------------------------------
(* The hub keeps the types. *)

LEMMA AgesTyped ==
  ASSUME HubTypeOK, HubAges
  PROVE  HubTypeOK'
<1>1. \A x \in Snap : Aged(x) \in Snap
  BY DEF Aged, Snap
<1>2. CASE UNCHANGED hubVars
  BY <1>2 DEF HubTypeOK, hubVars
<1>3. CASE ~UNCHANGED hubVars
  <2>1. first' \in [Page -> Snap] /\ wire' \in [Page -> Snap] /\ shown' \in [Page -> Snap]
    BY <1>1, <1>3 DEF HubAges, HubTypeOK
  <2>2. push' = [push EXCEPT !.snap = Aged(push.snap)] /\ UNCHANGED <<conn, away, crashed>>
    BY <1>3 DEF HubAges
  <2>3. /\ push' \in [at : {"tick", "snap", "write"}, snap : Snap,
                       left : SUBSET Page, now : SUBSET Page]
        /\ push'.at = push.at /\ push'.left = push.left /\ push'.now = push.now
    BY <1>1, <2>2 DEF HubTypeOK
  <2>4. QED
    BY <2>1, <2>2, <2>3 DEF HubTypeOK
<1>4. QED
  BY <1>2, <1>3

LEMMA CollideTyped ==
  ASSUME HubTypeOK, NEW p \in Page, p \in push.left, Collide(p), UNCHANGED <<away, first, wire, shown>>
  PROVE  HubTypeOK'
<1>1. CASE crashed' = TRUE /\ UNCHANGED <<conn, push>>
  BY <1>1 DEF HubTypeOK
<1>2. CASE /\ conn' = [conn EXCEPT ![p] = "orphan"]
           /\ push' = [push EXCEPT !.left = push.left \ {p}, !.now = {}]
           /\ UNCHANGED crashed
  <2>1. /\ push' \in [at : {"tick", "snap", "write"}, snap : Snap,
                       left : SUBSET Page, now : SUBSET Page]
        /\ push'.at = push.at /\ push'.left \subseteq push.left /\ push'.now = {}
    BY <1>2 DEF HubTypeOK
  <2>2. conn' \in [Page -> {"closed", "added", "first", "writing", "open", "orphan"}]
    BY <1>2 DEF HubTypeOK
  <2>3. QED
    BY <1>2, <2>1, <2>2 DEF HubTypeOK
<1>3. QED
  BY <1>1, <1>2 DEF Collide

LEMMA PageTyped ==
  ASSUME HubTypeOK, NEW p \in Page,
         \/ PageOpens(p) \/ PageCloses(p) \/ PageReads(p) \/ Handler(p)
  PROVE  HubTypeOK'
<1>1. CASE PageOpens(p) \/ PageLeaves(p)
  BY <1>1 DEF PageOpens, PageLeaves, HubTypeOK
<1>2. CASE PageCloses(p) \/ PageReads(p) \/ FirstSnapshot(p) \/ FirstWriteEnds(p)
  BY <1>2 DEF PageCloses, PageReads, FirstSnapshot, FirstWriteEnds, InHub, Sent,
              HubTypeOK, Snap
<1>3. CASE FirstWriteBegins(p)
  <2>1. CASE p \in push.now
    BY <1>3, <2>1, CollideTyped DEF FirstWriteBegins, HubTypeOK
  <2>2. CASE p \notin push.now
    BY <1>3, <2>2 DEF FirstWriteBegins, HubTypeOK
  <2>3. QED
    BY <2>1, <2>2
<1>4. QED
  BY <1>1, <1>2, <1>3 DEF Handler

LEMMA PushTyped ==
  ASSUME HubTypeOK, Push
  PROVE  HubTypeOK'
<1> DEFINE PushType == [at : {"tick", "snap", "write"}, snap : Snap,
                        left : SUBSET Page, now : SUBSET Page]
<1>1. CASE PushSnapshot
  <2>1. push' \in PushType /\ push'.at = "snap" /\ push'.left = push.left /\ push'.now = push.now
        /\ push.left = {}
    BY <1>1 DEF PushSnapshot, HubTypeOK, Snap
  <2>2. QED
    BY <1>1, <2>1 DEF PushSnapshot, HubTypeOK
<1>2. CASE PushLocks
  <2>1. push' \in PushType /\ push'.at = "write" /\ push'.now = push.now /\ push.now = {}
    BY <1>2 DEF PushLocks, HubTypeOK, InHub
  <2>2. QED
    BY <1>2, <2>1 DEF PushLocks, HubTypeOK
<1>3. CASE PushUnlocks
  <2>1. push' \in PushType /\ push'.left = {} /\ push'.now = {}
    BY <1>3 DEF PushUnlocks, Idle, Snap
  <2>2. QED
    BY <1>3, <2>1 DEF PushUnlocks, HubTypeOK
<1>4. ASSUME NEW p \in Page, PushWriteBegins(p) PROVE HubTypeOK'
  <2>1. CASE conn[p] = "writing"
    BY <1>4, <2>1, CollideTyped DEF PushWriteBegins
  <2>2. CASE conn[p] # "writing"
    <3>1. push' \in PushType /\ push'.now = {p} /\ push'.left = push.left /\ push'.at = push.at
      BY <1>4, <2>2 DEF PushWriteBegins, HubTypeOK
    <3>2. QED
      BY <1>4, <2>2, <3>1 DEF PushWriteBegins, HubTypeOK
  <2>3. QED
    BY <2>1, <2>2
<1>5. ASSUME NEW p \in Page, PushWriteEnds(p) PROVE HubTypeOK'
  <2>1. push' = [push EXCEPT !.left = push.left \ {p}, !.now = {}]
    BY <1>5 DEF PushWriteEnds
  <2>2. push' \in PushType /\ push'.now = {} /\ push'.left \subseteq push.left /\ push'.at = push.at
    BY <2>1 DEF HubTypeOK
  <2>3. wire' \in [Page -> Snap]
    BY <1>5 DEF PushWriteEnds, Sent, HubTypeOK
  <2>4. QED
    BY <1>5, <2>2, <2>3 DEF PushWriteEnds, HubTypeOK
<1>6. QED
  BY <1>1, <1>2, <1>3, <1>4, <1>5 DEF Push

LEMMA TypeStarts == Init => TypeInv
<1> SUFFICES ASSUME Init PROVE TypeInv
  OBVIOUS
<1>1. AppTypeOK
  BY NoEntryType, EmptySeq DEF Init, StateInit, AppTypeOK, EntriesOK, Phases, Role
<1>2. RestTypeOK
  <2>1. 0 \in 0..MaxEvents
    BY WebAssumption
  <2>2. req \in [Slot -> ReqType]
    BY NoReqType DEF Init, StateInit
  <2>3. QED
    BY <2>1, <2>2 DEF Init, StateInit, RestTypeOK
<1>3. TasksOK
  BY NoTaskType DEF Init, StateInit, TasksOK, InFile
<1>4. HubTypeOK
  BY DEF Init, HubTypeOK, Idle, Snap
<1>5. QED
  BY <1>1, <1>2, <1>3, <1>4, TypeParts

LEMMA TypeStep ==
  ASSUME TypeInv, [Next]_vars
  PROVE  TypeInv'
<1>1. AppTypeOK /\ RestTypeOK /\ TasksOK /\ HubTypeOK
  BY TypeParts
<1>2. CASE StateStep
  BY <1>1, <1>2, RequestTyped, WatcherTyped, TransferTyped, AgesTyped, TypePartsNext DEF StateStep
<1>3. CASE HubStep
  <2>1. AppTypeOK' /\ TasksOK'
    BY <1>1, <1>3, AppKept, TasksKept DEF HubStep, HubRest
  <2>2. Event \/ UNCHANGED count
    BY <1>3 DEF HubStep, PageOpens, PageCloses
  <2>3. RestTypeOK'
    BY <1>1, <1>3, <2>2, EventTyped DEF HubStep, HubRest, RestTypeOK
  <2>4. HubTypeOK'
    BY <1>1, <1>3, PageTyped, PushTyped DEF HubStep
  <2>5. QED
    BY <2>1, <2>3, <2>4, TypePartsNext
<1>4. CASE UNCHANGED vars
  <2>1. AppTypeOK' /\ TasksOK'
    BY <1>1, <1>4, AppKept, TasksKept DEF vars, stateVars
  <2>2. RestTypeOK' /\ HubTypeOK'
    BY <1>1, <1>4 DEF vars, stateVars, hubVars, RestTypeOK, HubTypeOK
  <2>3. QED
    BY <2>1, <2>2, TypePartsNext
<1>5. QED
  BY <1>2, <1>3, <1>4 DEF Next

(* Every variable keeps to its type, a callback makes no entry out of one  *)
(* that a Reset has taken away, and the pages the push loop has still to   *)
(* write to are known only while it holds the hub's lock.                  *)
THEOREM TypesHold == Spec => []TypeOK
<1>1. TypeInv => TypeOK
  BY DEF TypeInv
<1>2. TypeInv /\ [Next]_vars => TypeInv'
  BY TypeStep
<1>3. QED
  BY <1>1, <1>2, TypeStarts, PTL DEF Spec

THEOREM TypeInvHolds == Spec => []TypeInv
<1>1. TypeInv /\ [Next]_vars => TypeInv'
  BY TypeStep
<1>2. QED
  BY <1>1, TypeStarts, PTL DEF Spec

-----------------------------------------------------------------------------
(* Steps that leave the phase, the progress and the transfers alone: all   *)
(* of the hub's, and every request but Reset, the second half of set-peer, *)
(* and the second half of start.                                           *)

progress == <<phase, entries, sessionDone, task>>

LEMMA QuietStep ==
  ASSUME [Next]_vars,
         ~handleReset, ~CableIn, ~CableOut,
         \A s \in Slot : ~PeerIsShown(s),
         \A s \in Slot, t \in Task : ~StartSpawns(s, t),
         \A t \in Task : ~Transfer(t)
  PROVE  /\ UNCHANGED progress
         /\ "start" \in collided' <=> "start" \in collided
<1>1. CASE StateStep
  <2>1. CASE \/ handleSelectFiles(<<>>)
             \/ \E fs \in Chosen : handleSelectFiles(fs) \/ handleSelectFolder(fs)
             \/ \E f \in Native : handleSetNativeFiles(f)
             \/ \E r \in {"sender", "receiver"} : handleSetRole(r)
    BY <2>1 DEF handleSelectFiles, handleSelectFolder, handleSetNativeFiles, handleSetRole,
                setQueue, progress
  <2>2. ASSUME NEW s \in Slot,
               \/ \E p \in Peer : PeerIsSet(s, p)
               \/ \E f \in Upload : UploadIsStored(s, f)
               \/ UploadIsQueued(s)
               \/ QueueIsCleared(s) \/ UploadsAreRemoved(s) \/ StartReads(s)
        PROVE  UNCHANGED progress /\ ("start" \in collided' <=> "start" \in collided)
    BY <2>2 DEF PeerIsSet, UploadIsStored, UploadIsQueued, QueueIsCleared, UploadsAreRemoved,
                StartReads, setQueue, appState, progress
  <2>3. QED
    BY <1>1, <2>1, <2>2 DEF StateStep, Request
<1>2. CASE HubStep \/ UNCHANGED vars
  BY <1>2 DEF HubStep, HubRest, vars, stateVars, appState, progress
<1>3. QED
  BY <1>1, <1>2 DEF Next

-----------------------------------------------------------------------------
(* "done" is said of a session. *)

LEMMA DoneStep ==
  ASSUME DoneIsSession, [Next]_vars
  PROVE  DoneIsSession'
<1>1. CASE handleReset
  BY <1>1 DEF handleReset, ResetState, DoneIsSession
<1>2. CASE CableIn \/ CableOut
  BY <1>2 DEF CableIn, CableOut, setPhase, DoneIsSession
<1>3. ASSUME NEW s \in Slot, PeerIsShown(s) PROVE DoneIsSession'
  BY <1>3 DEF PeerIsShown, DoneIsSession
<1>4. ASSUME NEW s \in Slot, NEW t \in Task, StartSpawns(s, t) PROVE DoneIsSession'
  BY <1>4 DEF StartSpawns, StartProgress, DoneIsSession
<1>5. ASSUME NEW t \in Task, Transfer(t) PROVE DoneIsSession'
  <2>1. CASE Begins(t) \/ Connects(t) \/ ConnectFails(t) \/ SessionFails(t)
    BY <2>1 DEF Begins, Connects, ConnectFails, SessionFails, Fails, setPhase, appState,
                DoneIsSession
  <2>2. CASE FileStarts(t) \/ FileMoves(t) \/ FileCompletes(t) \/ FileFails(t)
    BY <2>2 DEF FileStarts, FileMoves, FileCompletes, FileFails, OnFileStart, OnProgress,
                OnFileComplete, OnFileError, DoneIsSession
  <2>3. CASE SessionIsDone(t)
    BY <2>3 DEF SessionIsDone, OnSessionDone, DoneIsSession
  <2>4. QED
    BY <1>5, <2>1, <2>2, <2>3 DEF Transfer
<1>6. QED
  BY <1>1, <1>2, <1>3, <1>4, <1>5, QuietStep DEF progress, DoneIsSession

(* The phase "done" and the flag that a session was done are taken back    *)
(* together, for any number of transfers that overlap.                     *)
THEOREM DoneIsSaidOfSessions == Spec => []DoneIsSession
<1>1. Init => DoneIsSession
  BY DEF Init, StateInit, DoneIsSession
<1>2. DoneIsSession /\ [Next]_vars => DoneIsSession'
  BY DoneStep
<1>3. QED
  BY <1>1, <1>2, PTL DEF Spec

-----------------------------------------------------------------------------
(* "transfer" is said of a transfer that runs. *)

(* A transfer that goes on is still running, and so are the others. *)
LEMMA MovesOn ==
  ASSUME TasksOK, NEW t \in Task, Running(t), NEW a \in {"connect", "listen", "session",
                                                      "file", "moving", "failing"},
         \/ At(t, a)
         \/ \E l : a = "session" /\ task' = [task EXCEPT ![t].at = a, ![t].left = l]
  PROVE  Running(t)'
BY DEF TasksOK, TaskType, At, Running

LEMMA RunningStep ==
  ASSUME TypeInv, TransferIsRunning, [Next]_vars
  PROVE  TransferIsRunning'
<1> USE DEF TransferIsRunning
<1>0. TasksOK
  BY TypeParts
<1>1. CASE handleReset
  BY <1>1 DEF handleReset, ResetState, Running
<1>2. CASE CableIn \/ CableOut
  BY <1>2 DEF CableIn, CableOut, setPhase
<1>3. ASSUME NEW s \in Slot, PeerIsShown(s) PROVE TransferIsRunning'
  BY <1>3 DEF PeerIsShown
<1>4. ASSUME NEW s \in Slot, NEW t \in Task, StartSpawns(s, t) PROVE TransferIsRunning'
  <2>1. task'[t].at = "begin"
    BY <1>0, <1>4 DEF StartSpawns, TasksOK
  <2>2. QED
    BY <2>1 DEF Running
<1>5. ASSUME NEW t \in Task, Transfer(t) PROVE TransferIsRunning'
  <2>1. CASE Fails(t) \/ OnSessionDone
    BY <2>1 DEF Fails, setPhase, OnSessionDone
  <2>2. CASE ~Fails(t) /\ ~OnSessionDone
    <3>1. Running(t)
      BY <1>5 DEF Transfer, Begins, Connects, ConnectFails, FileStarts, FileMoves,
                  FileCompletes, FileFails, SessionFails, SessionIsDone, Running
    <3>2. \E a \in {"connect", "listen", "session", "file", "moving", "failing"} :
            \/ At(t, a)
            \/ \E l : a = "session" /\ task' = [task EXCEPT ![t].at = a, ![t].left = l]
      <4>1. CASE Begins(t) \/ Connects(t) \/ ConnectFails(t)
        BY <2>2, <4>1 DEF Begins, Connects, ConnectFails
      <4>2. CASE FileStarts(t) \/ FileMoves(t) \/ FileFails(t)
        BY <4>2 DEF FileStarts, FileMoves, FileFails
      <4>3. CASE FileCompletes(t)
        <5>1. task' = [task EXCEPT ![t].at = "session", ![t].left = Tail(task[t].left)]
          BY <1>0, <4>3 DEF FileCompletes, TasksOK, TaskType
        <5>2. QED
          BY <5>1
      <4>4. CASE SessionFails(t) \/ SessionIsDone(t)
        BY <2>2, <4>4 DEF SessionFails, SessionIsDone
      <4>5. QED
        BY <1>5, <4>1, <4>2, <4>3, <4>4 DEF Transfer
    <3>3. QED
      BY <1>0, <3>1, <3>2, MovesOn
  <2>3. QED
    BY <2>1, <2>2
<1>6. QED
  BY <1>1, <1>2, <1>3, <1>4, <1>5, QuietStep DEF progress, Running

(* The phase says "transfer" only while a transfer runs: for any number of *)
(* transfers, however they overlap and end.                                *)
THEOREM TransferIsSaidOfRunning == Spec => []TransferIsRunning
<1>1. Init => TransferIsRunning
  BY DEF Init, StateInit, TransferIsRunning
<1>2. TypeInv /\ TransferIsRunning /\ [Next]_vars => TransferIsRunning'
  BY RunningStep
<1>3. QED
  BY <1>1, <1>2, TypeInvHolds, PTL DEF Spec

-----------------------------------------------------------------------------
(* When a session is done everything has arrived.  While transfers do not  *)
(* overlap one runs at most; then no session is done, and every file the   *)
(* page lists is whole but the one the transfer is in.                     *)

Whole(n) == entries[n].there => /\ entries[n].done /\ ~entries[n].error
                                /\ entries[n].moved = "all"

Sound(t) ==
  /\ Running(t) => ~sessionDone
  /\ task[t].at \in {"begin", "connect", "listen", "session"} => \A n \in FileName : Whole(n)
  /\ task[t].at \in {"file", "moving"} =>
       \A n \in FileName : IF n = Shown(t) THEN entries[n].there => ~entries[n].error
                           ELSE Whole(n)

DoneInv ==
  "start" \notin collided =>
    /\ \A t, o \in Task : Running(t) /\ Running(o) => t = o
    /\ sessionDone => \A n \in FileName : Whole(n)
    /\ \A t \in Task : Sound(t)

(* One transfer moved, the only one that runs. *)
LEMMA OnlyOneMoved ==
  ASSUME TasksOK, DoneInv, "start" \notin collided, NEW t \in Task, Running(t),
         \A o \in Task \ {t} : task'[o] = task[o],
         (sessionDone => \A n \in FileName : Whole(n))', Sound(t)'
  PROVE  DoneInv'
<1>1. \A o \in Task \ {t} : task[o].at \in {"off", "over"}
  BY DEF DoneInv, Running
<1>2. \A o \in Task \ {t} : task'[o].at \in {"off", "over"}
  BY <1>1
<1>3. \A o \in Task \ {t} : Sound(o)'
  BY <1>2 DEF Sound, Running
<1>4. QED
  BY <1>2, <1>3 DEF DoneInv, Running

(* Where At puts a transfer. *)
LEMMA AtIs ==
  ASSUME TasksOK, NEW t \in Task, NEW a \in {"connect", "listen", "session",
                                           "file", "moving", "failing"}, At(t, a)
  PROVE  /\ task'[t].at = a /\ Shown(t)' = Shown(t)
         /\ \A o \in Task \ {t} : task'[o] = task[o]
<1>1. /\ task'[t].at = a /\ task'[t].role = task[t].role /\ task'[t].left = task[t].left
      /\ \A o \in Task \ {t} : task'[o] = task[o]
  BY DEF TasksOK, TaskType, At
<1>2. QED
  BY <1>1 DEF Shown, Current

LEMMA ForgetIs ==
  ASSUME TasksOK, NEW t \in Task, Forget(t)
  PROVE  task'[t].at = "over" /\ \A o \in Task \ {t} : task'[o] = task[o]
BY NoTaskType DEF TasksOK, Forget

LEMMA TransferKeepsDone ==
  ASSUME TypeInv, DoneInv, NEW t \in Task, Transfer(t)
  PROVE  DoneInv'
<1> USE DEF DoneInv
<1>0. TasksOK /\ EntriesOK
  BY TypeParts DEF AppTypeOK
<1>1. Running(t) /\ Rest
  BY DEF Transfer, Begins, Connects, ConnectFails, FileStarts, FileMoves,
         FileCompletes, FileFails, SessionFails, SessionIsDone, Running
<1> SUFFICES ASSUME "start" \notin collided PROVE DoneInv'
  BY <1>1 DEF Rest
<1>2. ~sessionDone /\ Sound(t)
  BY <1>1 DEF Sound
<1>3. CASE Fails(t)
  <2>1. sessionDone' = sessionDone /\ task'[t].at = "over"
        /\ \A o \in Task \ {t} : task'[o] = task[o]
    BY <1>0, <1>3, ForgetIs DEF Fails, setPhase
  <2>2. Sound(t)'
    BY <2>1 DEF Sound, Running
  <2>3. QED
    BY <1>0, <1>1, <1>2, <2>1, <2>2, OnlyOneMoved
<1>4. ASSUME NEW a \in {"connect", "listen", "session"}, At(t, a),
             task[t].at \in {"begin", "connect", "listen"}, UNCHANGED <<entries, sessionDone>>
      PROVE  DoneInv'
  <2>1. task'[t].at = a /\ \A o \in Task \ {t} : task'[o] = task[o]
    BY <1>0, <1>4, AtIs
  <2>2. Sound(t)'
    BY <1>2, <1>4, <2>1 DEF Sound, Whole
  <2>3. QED
    BY <1>0, <1>1, <1>2, <1>4, <2>1, <2>2, OnlyOneMoved
<1>5. CASE Connects(t) /\ task[t].at = "listen"
  <2>1. Incoming \in Seq(File \cup FileName)
    BY WebAssumption, SeqMonotonic
  <2>2. /\ task' = [task EXCEPT ![t].at = "session", ![t].left = Incoming]
        /\ UNCHANGED <<entries, sessionDone>>
    BY <1>5 DEF Connects, setPhase
  <2>3. task'[t].at = "session" /\ \A o \in Task \ {t} : task'[o] = task[o]
    BY <1>0, <2>1, <2>2, LeftTyped
  <2>4. Sound(t)'
    BY <1>2, <1>5, <2>2, <2>3 DEF Sound, Whole
  <2>5. QED
    BY <1>0, <1>1, <1>2, <2>2, <2>3, <2>4, OnlyOneMoved
<1>6. CASE FileStarts(t)
  <2>1. /\ task'[t].at = "file" /\ Shown(t)' = Shown(t)
        /\ \A o \in Task \ {t} : task'[o] = task[o]
    BY <1>0, <1>6, AtIs DEF FileStarts
  <2>2. entries' = [entries EXCEPT ![Shown(t)] = NewEntry] /\ sessionDone' = sessionDone
    BY <1>6 DEF FileStarts, OnFileStart
  <2>3. \A n \in FileName : Whole(n)
    BY <1>2, <1>6 DEF FileStarts, Sound
  <2>4. \A n \in FileName : IF n = Shown(t) THEN entries'[n].there => ~entries'[n].error
                            ELSE Whole(n)'
    BY <1>0, <2>2, <2>3, NoEntryType DEF EntriesOK, Whole
  <2>5. Sound(t)'
    BY <1>2, <2>1, <2>2, <2>4 DEF Sound
  <2>6. QED
    BY <1>0, <1>1, <1>2, <2>1, <2>2, <2>5, OnlyOneMoved
<1>7. CASE FileMoves(t)
  <2>1. /\ task'[t].at = "moving" /\ Shown(t)' = Shown(t)
        /\ \A o \in Task \ {t} : task'[o] = task[o]
    BY <1>0, <1>7, AtIs DEF FileMoves
  <2>2. /\ entries' = [entries EXCEPT ![Shown(t)] =
                         IF entries[Shown(t)].there
                         THEN [entries[Shown(t)] EXCEPT !.moved = "some"] ELSE NoEntry]
        /\ sessionDone' = sessionDone
    BY <1>7 DEF FileMoves, OnProgress, Entry
  <2>3. \A n \in FileName : IF n = Shown(t) THEN entries[n].there => ~entries[n].error
                            ELSE Whole(n)
    BY <1>2, <1>7 DEF FileMoves, Sound
  <2>4. \A n \in FileName : IF n = Shown(t) THEN entries'[n].there => ~entries'[n].error
                            ELSE Whole(n)'
    BY <1>0, <2>2, <2>3, NoEntryType DEF EntriesOK, EntryType, Whole
  <2>5. Sound(t)'
    BY <1>2, <2>1, <2>2, <2>4 DEF Sound
  <2>6. QED
    BY <1>0, <1>1, <1>2, <2>1, <2>2, <2>5, OnlyOneMoved
<1>8. CASE FileCompletes(t)
  <2>1. Tail(task[t].left) \in Seq(File \cup FileName)
    <3>1. task[t].left \in Seq(File \cup FileName) /\ task[t].left # <<>>
      BY <1>0, <1>8 DEF FileCompletes, TasksOK, InFile, TaskType
    <3>2. QED
      BY <3>1, HeadTailProperties
  <2>2. task' = [task EXCEPT ![t].at = "session", ![t].left = Tail(task[t].left)]
    BY <1>0, <1>8 DEF FileCompletes, TasksOK, TaskType
  <2>3. task'[t].at = "session" /\ \A o \in Task \ {t} : task'[o] = task[o]
    BY <1>0, <2>1, <2>2, LeftTyped
  <2>4. /\ entries' = [entries EXCEPT ![Shown(t)] =
                         IF entries[Shown(t)].there
                         THEN [entries[Shown(t)] EXCEPT !.done = TRUE, !.moved = "all"]
                         ELSE NoEntry]
        /\ sessionDone' = sessionDone
    BY <1>8 DEF FileCompletes, OnFileComplete, Entry
  <2>5. \A n \in FileName : IF n = Shown(t) THEN entries[n].there => ~entries[n].error
                            ELSE Whole(n)
    BY <1>2, <1>8 DEF FileCompletes, Sound
  <2>6. \A n \in FileName : Whole(n)'
    BY <1>0, <2>4, <2>5, NoEntryType DEF EntriesOK, EntryType, Whole
  <2>7. Sound(t)'
    BY <1>2, <2>3, <2>4, <2>6 DEF Sound
  <2>8. QED
    BY <1>0, <1>1, <1>2, <2>3, <2>4, <2>7, OnlyOneMoved
<1>9. CASE FileFails(t)
  <2>1. task'[t].at = "failing" /\ \A o \in Task \ {t} : task'[o] = task[o]
    BY <1>0, <1>9, AtIs DEF FileFails
  <2>2. sessionDone' = sessionDone
    BY <1>9 DEF FileFails, OnFileError
  <2>3. Sound(t)'
    BY <1>2, <2>1, <2>2 DEF Sound
  <2>4. QED
    BY <1>0, <1>1, <1>2, <2>1, <2>2, <2>3, OnlyOneMoved
<1>10. CASE SessionIsDone(t)
  <2>1. task'[t].at = "over" /\ \A o \in Task \ {t} : task'[o] = task[o]
    BY <1>0, <1>10, ForgetIs DEF SessionIsDone
  <2>2. \A n \in FileName : Whole(n)
    BY <1>2, <1>10 DEF SessionIsDone, Sound
  <2>3. \A n \in FileName : Whole(n)'
    BY <1>10, <2>2 DEF SessionIsDone, OnSessionDone, Whole
  <2>4. Sound(t)'
    BY <2>1 DEF Sound, Running
  <2>5. QED
    BY <1>0, <1>1, <2>1, <2>3, <2>4, OnlyOneMoved
<1>11. CASE Begins(t) \/ Connects(t) \/ ConnectFails(t) \/ SessionFails(t)
  <2>1. CASE ~Fails(t) /\ ~(Connects(t) /\ task[t].at = "listen")
    <3>1. /\ task[t].at \in {"begin", "connect", "listen"} /\ UNCHANGED <<entries, sessionDone>>
          /\ \E a \in {"connect", "listen", "session"} : At(t, a)
      BY <1>11, <2>1 DEF Begins, Connects, ConnectFails, SessionFails, setPhase, appState
    <3>2. QED
      BY <1>4, <3>1
  <2>2. QED
    BY <1>3, <1>5, <2>1
<1>12. QED
  BY <1>6, <1>7, <1>8, <1>9, <1>10, <1>11 DEF Transfer

LEMMA DoneInvStep ==
  ASSUME TypeInv, DoneInv, [Next]_vars
  PROVE  DoneInv'
<1>0. TasksOK
  BY TypeParts
<1>1. CASE handleReset
  <2>1. /\ \A n \in FileName : Whole(n)' /\ ~entries'[n].there
        /\ ~sessionDone' /\ task' = task
    BY <1>1, NoEntryType DEF handleReset, Whole
  <2>2. \A t \in Task : Sound(t)'
    BY <2>1 DEF Sound
  <2>3. "start" \in collided' <=> "start" \in collided
    BY <1>1 DEF handleReset
  <2>4. QED
    BY <2>1, <2>2, <2>3 DEF DoneInv, Running
<1>2. CASE CableIn \/ CableOut \/ \E s \in Slot : PeerIsShown(s)
  <2>1. UNCHANGED <<entries, sessionDone, task, collided>>
    BY <1>2 DEF CableIn, CableOut, PeerIsShown, setPhase
  <2>2. QED
    BY <2>1 DEF DoneInv, Sound, Whole, Running, Shown, Current
<1>3. ASSUME NEW s \in Slot, NEW t \in Task, StartSpawns(s, t), "start" \notin collided'
      PROVE  DoneInv'
  <2>1. \A o \in Task : ~Running(o)
    BY <1>3 DEF StartSpawns
  <2>2. /\ task'[t].at = "begin" /\ \A o \in Task \ {t} : task'[o] = task[o]
        /\ ~sessionDone' /\ \A n \in FileName : ~entries'[n].there
    BY <1>0, <1>3, NoEntryType DEF StartSpawns, StartProgress, TasksOK
  <2>3. \A o \in Task : Sound(o)'
    BY <2>1, <2>2 DEF Sound, Running, Whole
  <2>4. \A o \in Task : Running(o)' => o = t
    BY <2>1, <2>2 DEF Running
  <2>5. QED
    BY <2>2, <2>3, <2>4 DEF DoneInv, Whole
<1>4. CASE UNCHANGED progress /\ ("start" \in collided' <=> "start" \in collided)
  BY <1>4 DEF progress, DoneInv, Sound, Whole, Running, Shown, Current
<1>5. QED
  BY <1>1, <1>2, <1>3, <1>4, TransferKeepsDone, QuietStep DEF DoneInv

(* When a session is done every file the page lists has arrived whole and  *)
(* without error, as long as transfers do not overlap: across Resets and   *)
(* cables at any moment, and for any number of files and transfers, one    *)
(* after the other.                                                        *)
THEOREM DoneMeansEverything == Spec => []DoneMeansAll
<1>1. Init => DoneInv
  <2> SUFFICES ASSUME Init PROVE DoneInv
    OBVIOUS
  <2>1. ~sessionDone /\ \A t \in Task : task[t].at = "off"
    BY NoTaskType DEF Init, StateInit
  <2>2. QED
    BY <2>1 DEF DoneInv, Sound, Running
<1>2. TypeInv /\ DoneInv /\ [Next]_vars => DoneInv'
  BY DoneInvStep
<1>3. DoneInv => DoneMeansAll
  BY DEF DoneInv, DoneMeansAll, Whole
<1>4. QED
  BY <1>1, <1>2, <1>3, TypeInvHolds, PTL DEF Spec

-----------------------------------------------------------------------------
(* The peer that is shown.  While no two requests overlap there is one at  *)
(* most between its steps, and it has set the peer it will show; when there*)
(* is none a page shows the peer that would be dialled, or still no peer.  *)

PeerInv ==
  "peer" \notin collided =>
    /\ \A s, o \in Slot : Op(s) = "set-peer" /\ Op(o) = "set-peer" => s = o
    /\ \A s \in Slot : Op(s) = "set-peer" => req[s].peer = cfgPeer /\ cfgPeer # NoPeer
    /\ (\A s \in Slot : Op(s) # "set-peer") => peerShown \in {NoPeer, RemoteIP}

PeerAlone(s) == req'[s] = req[s] \/ (req[s].op # "set-peer" /\ req'[s].op # "set-peer")

PeerKept == /\ UNCHANGED <<cfgPeer, peerShown>>
            /\ "peer" \in collided' <=> "peer" \in collided
            /\ \A s \in Slot : PeerAlone(s)

(* Every other step leaves the peer, and the requests about it, alone. *)
LEMMA PeerQuiet ==
  ASSUME TypeInv, [Next]_vars, ~CableIn,
         \A s \in Slot : ~PeerIsShown(s) /\ \A p \in Peer : ~PeerIsSet(s, p)
  PROVE  PeerKept
<1>0. req \in [Slot -> ReqType]
  BY TypeParts DEF RestTypeOK
<1>1. CASE \/ handleSelectFiles(<<>>)
           \/ \E fs \in Chosen : handleSelectFiles(fs) \/ handleSelectFolder(fs)
           \/ \E f \in Native : handleSetNativeFiles(f)
           \/ \E r \in {"sender", "receiver"} : handleSetRole(r)
           \/ handleReset \/ CableOut
  <2>1. UNCHANGED <<cfgPeer, peerShown, req>> /\ ("peer" \in collided' <=> "peer" \in collided)
    BY <1>1 DEF handleSelectFiles, handleSelectFolder, handleSetNativeFiles, handleSetRole,
                handleReset, CableOut, setQueue, setPhase
  <2>2. QED
    BY <2>1 DEF PeerKept, PeerAlone
<1>2. ASSUME NEW s \in Slot,
             \/ \E f \in Upload : UploadIsStored(s, f)
             \/ QueueIsCleared(s) \/ StartReads(s)
      PROVE  PeerKept
  <2>1. UNCHANGED <<cfgPeer, peerShown>> /\ ("peer" \in collided' <=> "peer" \in collided)
    BY <1>2 DEF UploadIsStored, QueueIsCleared, StartReads, setQueue, appState
  <2>2. \E r : r.op # "set-peer" /\ Begin(s, r)
    BY <1>2, NoReqType DEF UploadIsStored, QueueIsCleared, StartReads, ReqType
  <2>3. \A o \in Slot : PeerAlone(o)
    BY <1>0, <2>2 DEF Begin, Op, PeerAlone
  <2>4. QED
    BY <2>1, <2>3 DEF PeerKept
<1>3. ASSUME NEW s \in Slot,
             \/ UploadIsQueued(s) \/ UploadsAreRemoved(s)
             \/ \E t \in Task : StartSpawns(s, t)
      PROVE  PeerKept
  <2>1. /\ UNCHANGED <<cfgPeer, peerShown>> /\ ("peer" \in collided' <=> "peer" \in collided)
        /\ Op(s) # "set-peer" /\ End(s)
    BY <1>3 DEF UploadIsQueued, UploadsAreRemoved, StartSpawns, setQueue, appState
  <2>2. \A o \in Slot : PeerAlone(o)
    BY <1>0, <2>1, NoReqType DEF End, Op, PeerAlone
  <2>3. QED
    BY <2>1, <2>2 DEF PeerKept
<1>4. ASSUME NEW t \in Task, Transfer(t)
      PROVE  PeerKept
  BY <1>4 DEF PeerKept, PeerAlone, Transfer, Begins, Connects, ConnectFails, FileStarts, FileMoves, FileCompletes,
              FileFails, SessionFails, SessionIsDone, Fails, Rest, setPhase, appState,
              OnFileStart, OnProgress, OnFileComplete, OnFileError, OnSessionDone
<1>5. CASE HubStep \/ UNCHANGED vars
  BY <1>5 DEF PeerKept, PeerAlone, HubStep, HubRest, vars, stateVars, appState
<1>6. CASE Request
  BY <1>1, <1>2, <1>3, <1>6 DEF Request
<1>7. QED
  BY <1>1, <1>4, <1>5, <1>6 DEF Next, StateStep

LEMMA PeerStep ==
  ASSUME TypeInv, PeerInv, [Next]_vars
  PROVE  PeerInv'
<1>0. req \in [Slot -> ReqType]
  BY TypeParts DEF RestTypeOK
<1>1. CASE CableIn
  <2>1. UNCHANGED <<req, cfgPeer, collided>> /\ peerShown' = RemoteIP
    BY <1>1 DEF CableIn
  <2>2. QED
    BY <2>1 DEF PeerInv, Op, RemoteIP
<1>2. ASSUME NEW s \in Slot, PeerIsShown(s) PROVE PeerInv'
  <2>1. /\ Op(s) = "set-peer" /\ peerShown' = req[s].peer /\ UNCHANGED <<cfgPeer, collided>>
        /\ req'[s].op = "none" /\ \A o \in Slot \ {s} : req'[o] = req[o]
    BY <1>0, <1>2, NoReqType DEF PeerIsShown, End
  <2>2. QED
    BY <2>1 DEF PeerInv, Op, RemoteIP
<1>3. ASSUME NEW s \in Slot, NEW p \in Peer, PeerIsSet(s, p), "peer" \notin collided'
      PROVE  PeerInv'
  <2>1. /\ \A o \in Slot : Op(o) # "set-peer" /\ cfgPeer' = p
        /\ req' = [req EXCEPT ![s] = [NoReq EXCEPT !.op = "set-peer", !.peer = p]]
    BY <1>3 DEF PeerIsSet, Begin
  <2>2. /\ [NoReq EXCEPT !.op = "set-peer", !.peer = p].op = "set-peer"
        /\ [NoReq EXCEPT !.op = "set-peer", !.peer = p].peer = p
    BY NoReqType DEF ReqType
  <2>3. /\ req'[s].op = "set-peer" /\ req'[s].peer = p
        /\ \A o \in Slot \ {s} : req'[o] = req[o]
    BY <1>0, <2>1, <2>2
  <2>4. QED
    BY <2>1, <2>3, WebAssumption DEF PeerInv, Op
<1>4. CASE /\ ~CableIn
           /\ \A s \in Slot : ~PeerIsShown(s) /\ \A p \in Peer : ~PeerIsSet(s, p)
  BY <1>4, PeerQuiet DEF PeerInv, PeerKept, PeerAlone, Op, RemoteIP
<1>5. QED
  BY <1>1, <1>2, <1>3, <1>4 DEF PeerInv

(* A page that shows a peer shows the one that would be dialled, or will,  *)
(* as soon as the request that has set another has its second step: for    *)
(* any number of peers, requests one after the other, and cables, and      *)
(* whatever --peer says.                                                   *)
THEOREM PeerIsTheOneDialled == Spec => []PeerShownIsDialled
<1>1. Init => PeerInv
  <2> SUFFICES ASSUME Init PROVE PeerInv
    OBVIOUS
  <2>1. peerShown = NoPeer /\ \A s \in Slot : req[s].op = "none"
    BY NoReqType DEF Init, StateInit
  <2>2. QED
    BY <2>1 DEF PeerInv, Op
<1>2. TypeInv /\ PeerInv /\ [Next]_vars => PeerInv'
  BY PeerStep
<1>3. PeerInv => PeerShownIsDialled
  BY DEF PeerInv, PeerShownIsDialled, RemoteIP
<1>4. QED
  BY <1>1, <1>2, <1>3, TypeInvHolds, PTL DEF Spec

-----------------------------------------------------------------------------
(* Uploaded files.  While uploads and clearings do not overlap, what is    *)
(* queued, or about to be, is on disk; and while a clearing is between its *)
(* steps there is nothing of either.                                       *)

UploadsIn(q) == Range(q) \cap Upload

StoreInv ==
  "upload" \notin collided =>
    /\ UploadsIn(queue) \subseteq disk
    /\ \A s \in Slot : Op(s) = "upload" => UploadsIn(req[s].files) \subseteq disk
    /\ \A s, o \in Slot : Op(s) = "reset-files" => UploadsIn(queue) = {} /\ Op(o) # "upload"

(* What a queue gains. *)
LEMMA UploadsOf ==
  /\ UploadsIn(<<>>) = {}
  /\ \A f \in Native : UploadsIn(<<f>>) = {} /\ <<f>> \in Seq(File)
  /\ \A f \in Upload : UploadsIn(<<f>>) = {f}
  /\ \A q, r \in Seq(File) : UploadsIn(q \o r) = UploadsIn(q) \cup UploadsIn(r)
  /\ \A q \in Seq(File), f \in File : Append(q, f) = q \o <<f>>
<1>1. Range(<<>>) = {}
  <2>1. <<>> \in Seq(File) /\ Len(<<>>) = 0
    BY EmptySeq
  <2>2. Range(<<>>) = {<<>>[i] : i \in 1..Len(<<>>)}
    BY <2>1, RangeEquality
  <2>3. 1..Len(<<>>) = {}
    BY <2>1
  <2>4. QED
    BY <2>2, <2>3
<1>2. ASSUME NEW f \in File PROVE Range(<<f>>) = {f} /\ <<f>> \in Seq(File)
  <2>1. <<f>> \in Seq(File) /\ Len(<<f>>) = 1 /\ <<f>>[1] = f
    OBVIOUS
  <2>2. Range(<<f>>) = {<<f>>[i] : i \in 1..Len(<<f>>)}
    BY <2>1, RangeEquality
  <2>3. 1..Len(<<f>>) = {1}
    BY <2>1
  <2>4. QED
    BY <2>1, <2>2, <2>3
<1>3. \A q, r \in Seq(File) : Range(q \o r) = Range(q) \cup Range(r)
  BY RangeConcatenation
<1>4. \A q \in Seq(File), f \in File : Append(q, f) = q \o <<f>>
  BY AppendIsConcat
<1>5. \A f \in Native : UploadsIn(<<f>>) = {} /\ <<f>> \in Seq(File)
  BY <1>2, WebAssumption DEF UploadsIn, File
<1>6. \A f \in Upload : UploadsIn(<<f>>) = {f}
  BY <1>2 DEF UploadsIn, File
<1>7. \A q, r \in Seq(File) : UploadsIn(q \o r) = UploadsIn(q) \cup UploadsIn(r)
  BY <1>3 DEF UploadsIn
<1>8. UploadsIn(<<>>) = {}
  BY <1>1 DEF UploadsIn
<1>9. QED
  BY <1>4, <1>5, <1>6, <1>7, <1>8

(* Only these touch the queue, the directory or the requests about them. *)
StoreAlone(s) == req'[s] = req[s] \/ (/\ req[s].op \notin {"upload", "reset-files"}
                                      /\ req'[s].op \notin {"upload", "reset-files"})

StoreKept == /\ UNCHANGED disk
             /\ "upload" \in collided' <=> "upload" \in collided
             /\ UploadsIn(queue)' = UploadsIn(queue)
             /\ \A s \in Slot : StoreAlone(s)

LEMMA StoreQuiet ==
  ASSUME TypeInv, StateStep, ~handleReset, ~handleSelectFiles(<<>>),
         \A fs \in Chosen : ~handleSelectFiles(fs),
         \A s \in Slot : /\ ~UploadIsQueued(s) /\ ~QueueIsCleared(s) /\ ~UploadsAreRemoved(s)
                         /\ \A f \in Upload : ~UploadIsStored(s, f)
  PROVE  StoreKept
<1>0. req \in [Slot -> ReqType] /\ queue \in Seq(File)
  BY TypeParts DEF RestTypeOK, AppTypeOK
<1>1. CASE \/ \E fs \in Chosen : handleSelectFolder(fs)
           \/ \E f \in Native : handleSetNativeFiles(f)
  <2>1. \E f \in Native : queue' = queue \/ queue' = queue \o <<f>>
    <3>1. ASSUME NEW fs \in Chosen, handleSelectFolder(fs)
          PROVE  \E f \in Native : queue' = queue \/ queue' = queue \o <<f>>
      BY <3>1 DEF handleSelectFolder, setQueue, Chosen
    <3>2. ASSUME NEW f \in Native, handleSetNativeFiles(f)
          PROVE  queue' = queue \/ queue' = queue \o <<f>>
      BY <1>0, <3>2, UploadsOf DEF handleSetNativeFiles, setQueue, File
    <3>3. QED
      BY <1>1, <3>1, <3>2
  <2>2. UploadsIn(queue') = UploadsIn(queue)
    <3>1. PICK f \in Native : queue' = queue \/ queue' = queue \o <<f>>
      BY <2>1
    <3>2. <<f>> \in Seq(File) /\ UploadsIn(<<f>>) = {}
      BY UploadsOf
    <3>3. UploadsIn(queue \o <<f>>) = UploadsIn(queue) \cup UploadsIn(<<f>>)
      BY <1>0, <3>2, UploadsOf
    <3>4. QED
      BY <3>1, <3>2, <3>3
  <2>3. UNCHANGED <<disk, collided, req>>
    BY <1>1 DEF handleSelectFolder, handleSetNativeFiles
  <2>4. QED
    BY <2>2, <2>3 DEF StoreKept, StoreAlone, UploadsIn
<1>2. CASE \/ \E r \in {"sender", "receiver"} : handleSetRole(r)
           \/ CableIn \/ CableOut
           \/ \E t \in Task : Transfer(t)
  <2>1. UNCHANGED <<disk, collided, req, queue>>
    <3>1. CASE \E t \in Task : Transfer(t)
      BY <3>1 DEF Transfer, Begins, Connects, ConnectFails, FileStarts, FileMoves,
                  FileCompletes, FileFails, SessionFails, SessionIsDone, Fails, Rest, setPhase,
                  appState, OnFileStart, OnProgress, OnFileComplete, OnFileError, OnSessionDone
    <3>2. CASE ~\E t \in Task : Transfer(t)
      BY <1>2, <3>2 DEF handleSetRole, CableIn, CableOut, setPhase
    <3>3. QED
      BY <3>1, <3>2
  <2>2. QED
    BY <2>1 DEF StoreKept, StoreAlone, UploadsIn
<1>3. ASSUME NEW s \in Slot, StartReads(s) \/ \E p \in Peer : PeerIsSet(s, p) PROVE StoreKept
  <2>1. /\ UNCHANGED <<disk, queue>> /\ ("upload" \in collided' <=> "upload" \in collided)
        /\ Op(s) = "none"
    BY <1>3 DEF StartReads, PeerIsSet, appState, Begin
  <2>2. \E r : r.op \notin {"upload", "reset-files"} /\ Begin(s, r)
    BY <1>3, NoReqType DEF StartReads, PeerIsSet, ReqType
  <2>3. \A o \in Slot : StoreAlone(o)
    BY <1>0, <2>1, <2>2 DEF Begin, Op, StoreAlone
  <2>4. QED
    BY <2>1, <2>3 DEF StoreKept, UploadsIn
<1>4. ASSUME NEW s \in Slot, PeerIsShown(s) \/ \E t \in Task : StartSpawns(s, t) PROVE StoreKept
  <2>1. /\ UNCHANGED <<disk, queue>> /\ ("upload" \in collided' <=> "upload" \in collided)
        /\ Op(s) \in {"set-peer", "start"} /\ End(s)
    BY <1>4 DEF PeerIsShown, StartSpawns
  <2>2. \A o \in Slot : StoreAlone(o)
    BY <1>0, <2>1, NoReqType DEF End, Op, StoreAlone
  <2>3. QED
    BY <2>1, <2>2 DEF StoreKept, UploadsIn
<1>5. CASE Request
  BY <1>1, <1>2, <1>3, <1>4, <1>5 DEF Request
<1>6. QED
  BY <1>2, <1>5 DEF StateStep

LEMMA StoreStep ==
  ASSUME TypeInv, StoreInv, [Next]_vars
  PROVE  StoreInv'
<1>0. req \in [Slot -> ReqType] /\ queue \in Seq(File)
  BY TypeParts DEF RestTypeOK, AppTypeOK
<1>1. CASE handleReset
  <2>1. /\ queue' = <<>> /\ UNCHANGED req
        /\ "upload" \notin collided' => "upload" \notin collided /\ ~Uploading
    BY <1>1 DEF handleReset, ResetState
  <2>2. QED
    BY <2>1, UploadsOf DEF StoreInv, Uploading, Op, UploadsIn
<1>2. ASSUME NEW fs, fs = <<>> \/ fs \in Chosen, handleSelectFiles(fs) PROVE StoreInv'
  <2>1. UploadsIn(fs) = {}
    BY <1>2, UploadsOf DEF Chosen
  <2>2. queue' = fs /\ UNCHANGED <<disk, req, collided>>
    BY <1>2 DEF handleSelectFiles, setQueue
  <2>3. QED
    BY <2>1, <2>2 DEF StoreInv, Op, UploadsIn
<1>3. ASSUME NEW s \in Slot, UploadIsQueued(s) PROVE StoreInv'
  <2>1. /\ Op(s) = "upload" /\ queue' = queue \o req[s].files /\ UNCHANGED <<disk, collided>>
        /\ req'[s].op = "none" /\ \A o \in Slot \ {s} : req'[o] = req[o]
    BY <1>0, <1>3, NoReqType DEF UploadIsQueued, setQueue, End
  <2>2. UploadsIn(queue') = UploadsIn(queue) \cup UploadsIn(req[s].files)
    BY <1>0, <2>1, UploadsOf DEF ReqType
  <2>3. SUFFICES ASSUME "upload" \notin collided PROVE StoreInv'
    BY <2>1 DEF StoreInv
  <2>4. (UploadsIn(queue) \subseteq disk)'
    BY <2>1, <2>2, <2>3 DEF StoreInv, UploadsIn
  <2>5. \A o \in Slot : Op(o) # "reset-files"
    BY <2>1, <2>3 DEF StoreInv
  <2>6. (\A o \in Slot : Op(o) # "reset-files")'
    BY <2>1, <2>5 DEF Op
  <2>7. (\A o \in Slot : Op(o) = "upload" => UploadsIn(req[o].files) \subseteq disk)'
    BY <2>1, <2>3 DEF StoreInv, Op, UploadsIn
  <2>8. (\A o, p \in Slot : Op(o) = "reset-files" => UploadsIn(queue) = {} /\ Op(p) # "upload")'
    BY <2>6
  <2>9. QED
    BY <2>4, <2>7, <2>8 DEF StoreInv
<1>4. ASSUME NEW s \in Slot, QueueIsCleared(s) PROVE StoreInv'
  <2>1. /\ queue' = <<>> /\ UNCHANGED disk
        /\ "upload" \notin collided' => "upload" \notin collided /\ ~Uploading
        /\ req' = [req EXCEPT ![s] = [NoReq EXCEPT !.op = "reset-files"]]
    BY <1>4 DEF QueueIsCleared, setQueue, Begin
  <2>2. [NoReq EXCEPT !.op = "reset-files"].op = "reset-files"
    BY NoReqType DEF ReqType
  <2>3. req'[s].op = "reset-files" /\ \A o \in Slot \ {s} : req'[o] = req[o]
    BY <1>0, <2>1, <2>2
  <2>4. QED
    BY <2>1, <2>3, UploadsOf DEF StoreInv, Uploading, Op, UploadsIn
<1>5. ASSUME NEW s \in Slot, UploadsAreRemoved(s) PROVE StoreInv'
  <2>1. /\ Op(s) = "reset-files" /\ UNCHANGED <<queue, collided>>
        /\ req'[s].op = "none" /\ \A o \in Slot \ {s} : req'[o] = req[o]
    BY <1>0, <1>5, NoReqType DEF UploadsAreRemoved, End, appState
  <2>2. QED
    BY <2>1 DEF StoreInv, Op, UploadsIn
<1>6. ASSUME NEW s \in Slot, NEW f \in Upload, UploadIsStored(s, f) PROVE StoreInv'
  <2>1. /\ UNCHANGED queue /\ disk' = disk \cup {f}
        /\ "upload" \notin collided' => /\ "upload" \notin collided
                                       /\ \A o \in Slot : Op(o) # "reset-files"
        /\ req' = [req EXCEPT ![s] = [NoReq EXCEPT !.op = "upload", !.files = <<f>>]]
    BY <1>6 DEF UploadIsStored, Begin, appState
  <2>2. /\ [NoReq EXCEPT !.op = "upload", !.files = <<f>>].op = "upload"
        /\ [NoReq EXCEPT !.op = "upload", !.files = <<f>>].files = <<f>>
    BY NoReqType DEF ReqType
  <2>3. /\ req'[s].op = "upload" /\ req'[s].files = <<f>>
        /\ \A o \in Slot \ {s} : req'[o] = req[o]
    BY <1>0, <2>1, <2>2
  <2>4. UploadsIn(<<f>>) = {f}
    BY UploadsOf
  <2>5. QED
    BY <2>1, <2>3, <2>4 DEF StoreInv, Op, UploadsIn
<1>7. CASE StoreKept
  BY <1>7 DEF StoreKept, StoreAlone, StoreInv, Op, UploadsIn
<1>8. CASE HubStep \/ UNCHANGED vars
  <2>1. UNCHANGED <<queue, disk, req, collided>>
    BY <1>8 DEF HubStep, HubRest, vars, stateVars, appState
  <2>2. QED
    BY <2>1 DEF StoreInv, Op, UploadsIn
<1>9. QED
  BY <1>1, <1>2, <1>3, <1>4, <1>5, <1>6, <1>7, <1>8, StoreQuiet DEF Next

(* An uploaded file that is queued is on disk, while uploads and the       *)
(* clearing of the queue do not overlap, for any number of either.         *)
THEOREM QueuedIsThere == Spec => []QueuedIsStored
<1>1. Init => StoreInv
  <2> SUFFICES ASSUME Init PROVE StoreInv
    OBVIOUS
  <2>1. queue = <<>> /\ \A s \in Slot : req[s].op = "none"
    BY NoReqType DEF Init, StateInit
  <2>2. QED
    BY <2>1, UploadsOf DEF StoreInv, Op
<1>2. TypeInv /\ StoreInv /\ [Next]_vars => StoreInv'
  BY StoreStep
<1>3. StoreInv => QueuedIsStored
  BY DEF StoreInv, QueuedIsStored, UploadsIn
<1>4. QED
  BY <1>1, <1>2, <1>3, TypeInvHolds, PTL DEF Spec
=============================================================================
