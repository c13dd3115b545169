---------------------------- MODULE GTPTransfer ----------------------------
(***************************************************************************)
(* A sender and a receiver on one connection, session after session: what  *)
(* runSender and runReceiver (cmd/filetrans/main.go) or handleStart        *)
(* (backend/webui/api.go) run once Connect and ListenAll have returned.    *)
(***************************************************************************)
EXTENDS GTPSender, GTPReceiver

CONSTANT MaxSessions     \* bound: sessions run one after the other

ASSUME SessionAssumption == MaxSessions \in Nat \ {0}

VARIABLE session

vars == <<wireVars, senderVars, receiverVars, session>>

Init == WireInit /\ SenderInit /\ ReceiverInit /\ session = 1

(* Both ends have returned and are started again, for the same files: new  *)
(* processes or goroutines, a new connection, the old disk.                *)
NewSession == /\ SenderOver /\ ReceiverOver
              /\ session < MaxSessions
              /\ session' = session + 1
              /\ SenderRestarts /\ ReceiverRestarts
              /\ toR' = <<>> /\ toS' = <<>> /\ up' = TRUE
              /\ UNCHANGED faults

SenderStep == /\ SenderMain \/ \E f \in File : AckReader(f)
              /\ UNCHANGED <<receiverVars, session>>

ReceiverStep == ReceiverMain /\ UNCHANGED <<senderVars, session>>

SenderFault == /\ SenderKilled \/ SourceUnreadable \/ \E f \in File : EditFile(f)
               /\ UNCHANGED <<receiverVars, session>>

ReceiverFault == ReceiverFaults /\ UNCHANGED <<senderVars, session>>

NetworkFault == /\ BreakConn \/ CorruptChunk
                /\ UNCHANGED <<senderVars, receiverVars, session>>

Next == \/ SenderStep \/ ReceiverStep
        \/ SenderFault \/ ReceiverFault \/ NetworkFault
        \/ NewSession

Spec == Init /\ [][Next]_vars

(* Every goroutine that can take a step eventually does; faults and new    *)
(* sessions need not happen.                                               *)
Fairness == /\ WF_vars(SenderMain /\ UNCHANGED <<receiverVars, session>>)
            /\ \A f \in File : WF_vars(AckReader(f) /\ UNCHANGED <<receiverVars, session>>)
            /\ WF_vars(ReceiverStep)

FairSpec == Spec /\ Fairness
-----------------------------------------------------------------------------
TypeOK == WireTypeOK /\ SenderTypeOK /\ ReceiverTypeOK /\ session \in 1..MaxSessions

VersionsOf(n) == UNION {Versions[f] : f \in {g \in File : NameOf[g] = n}}

(* A file under its final name is a complete version of a file offered by   *)
(* that name, whatever was edited, cut short, corrupted or killed on the    *)
(* way (receiver.go 169-208: sync, compare hashes, only then promote).      *)
DestIntegrity == \A n \in Name : dest[n] # NoFile => dest[n].data \in VersionsOf(n)

(* A file the sender has reported sent is safe at the receiver: a complete  *)
(* version of it is under its final name or, when the receiver stopped      *)
(* between COMPLETE_ACK and the rename, still in the partial file, and no   *)
(* crash takes it away.  (Files with names of their own.)                   *)
Holds(x, f) == x # NoFile /\ x.synced /\ x.data \in Versions[f]

ReportedIsSafe ==
  \A f \in File : f < cur => Holds(dest[NameOf[f]], f) \/ Holds(part[NameOf[f]], f)

(* The branch "out-of-order chunk" of receiveFile is never taken: the       *)
(* chunks on the wire carry on where the receiver is, resumed or not.       *)
ChunksInSequence ==
  rpc = "recv" => \A i \in 1..Len(toR) : toR[i].t = "DATA" => toR[i].num = expected + i - 1

(* A COMPLETE that waits to be read has no chunk before it, nor a second    *)
(* COMPLETE: the receiver has read every chunk when it is sent.             *)
CompleteAfterChunks == \A i \in 1..Len(toR) : toR[i].t = "COMPLETE" => i = 1

(* A chunk whose CRC does not match never reaches the disk. *)
NoJunkOnDisk == \A n \in Name : part[n] # NoFile => Junk \notin ToSet(part[n].data)

Pumping == spc \in {"pump", "full", "drain"}     \* sendChunks is running
Held(r) == rd[r].at \in {"payload", "fill", "got"}
One(b) == IF b THEN 1 ELSE 0

(* No chunk is acknowledged twice: what is on its way, is being read by the *)
(* ackReader or waits in its channel is at most what inFlight counts.  For  *)
(* the first file nothing is missing either.  (With a second file it may:   *)
(* the ackReader of the first takes acknowledgements away.)                 *)
Chunks == Cardinality({i \in 1..Len(toR) : toR[i].t = "DATA"})
Acks == Cardinality({i \in 1..Len(toS) : toS[i].part = "header" /\ IsAck(toS[i].frame)})
        + One(Held(cur) /\ IsAck(rd[cur].frame))
        + Cardinality({i \in 1..Len(ackCh[cur]) : ackCh[cur][i] = "ack"})

AcksConserved ==
  up /\ Pumping => /\ Chunks + Acks <= inFlight
                   /\ cur = 1 => Chunks + Acks = inFlight

(* sendChunks waits for a channel nobody will write to in one case only: it  *)
(* has taken an error in the loop of the full window (sender.go:195), and   *)
(* drains a window of acknowledgements from a goroutine that has returned.  *)
Deserted == rd[cur].at = "off" /\ ackCh[cur] = <<>>
Hung == spc = "drain" /\ ackErr /\ inFlight >= Window

ServedOrHung == Pumping => (Deserted <=> Hung)

(* There it stays until it is killed: Send does not return. *)
HungForGood == [][Hung => Hung' \/ spc' = "ended"]_vars

(* No more than a window of chunks is ever unread by the receiver. *)
WindowRespected == Chunks <= Window /\ inFlight <= Window

(* Only a session in which every file was stored ends with SESSION_DONE. *)
DoneMeansStored ==
  rpc = "done" => verified = NFiles /\ \A f \in File : dest[NameOf[f]] # NoFile

(* A partial file that is resumed, its source unchanged, verifies. *)
ResumedFileVerifies == rpc = "verify" /\ Next1("COMPLETE") => HashAgrees(Head(toR))

(* Promotion replaces a file, it never takes it away. *)
PromoteIsAtomic == [][\A n \in Name : dest[n] # NoFile => dest'[n] # NoFile]_vars

(* The abstract specification: what the sender reports and the receiver     *)
(* shows, seen from outside.                                                *)
Delivery == INSTANCE FileDelivery WITH
  N <- NFiles, Path <- Name, PathOf <- NameOf, Copies <- Versions, Nothing <- NoFile,
  stored <- verified, reported <- cur - 1,
  copy <- [n \in Name |-> IF dest[n] = NoFile THEN NoFile ELSE dest[n].data]

DeliversFiles == Delivery!Spec
-----------------------------------------------------------------------------
(* The inductive invariant behind TypeOK and DestIntegrity. *)

Busy == {"accept", "pump", "full", "drain", "complete", "cack"}

SenderBusy == /\ spc \in Busy => cur \in File
              /\ spc = "full" => inFlight > 0

OffersNamed == \A i \in 1..Len(toR) : toR[i].t = "FILE_OFFER" => toR[i].id \in File

PartOpen == rpc \in {"recv", "verify", "remove", "rename"} =>
              rfile \in File /\ part[rname] # NoFile

TypeInv == TypeOK /\ SenderBusy /\ OffersNamed /\ PartOpen

(* In queue q, with r the last offer read, f is the last file offered before *)
(* position i.                                                               *)
OfferedIn(q, r, i, f) ==
  \/ r = f /\ \A k \in 1..(i - 1) : q[k].t # "FILE_OFFER"
  \/ \E k \in 1..(i - 1) : /\ q[k].t = "FILE_OFFER" /\ q[k].id = f
                           /\ \A m \in (k + 1)..(i - 1) : q[m].t # "FILE_OFFER"

(* The receiver never compares FileID; it need not, because a COMPLETE is    *)
(* always behind the offer of its own file and before that of the next.      *)
FramesOwned ==
  /\ \A i \in 1..Len(toR) : toR[i].t = "COMPLETE" => OfferedIn(toR, rfile, i, toR[i].id)
  /\ up /\ spc \in Busy => OfferedIn(toR, rfile, Len(toR) + 1, cur)

HashesOfVersions ==
  /\ \A f \in File : src[f] \in Versions[f]
  /\ \A i \in 1..Len(toR) : toR[i].t = "COMPLETE" =>
       toR[i].id \in File /\ toR[i].body \in Versions[toR[i].id]

PromotedIsVersion == rpc \in {"remove", "rename"} => part[rname].data \in Versions[rfile]

SyncedOnDisk ==
  /\ rpc \in {"verify", "remove", "rename"} => part[rname].synced
  /\ \A n \in Name : dest[n] # NoFile => dest[n].synced

(* What makes DestIntegrity inductive: the hash in a COMPLETE is that of a   *)
(* version of the file it is compared with, nothing writes to the partial    *)
(* file between the comparison and the rename, and a crash takes nothing     *)
(* from a file that was synced before it was renamed.                        *)
IntegrityInv == /\ TypeInv /\ HashesOfVersions /\ FramesOwned
                /\ PromotedIsVersion /\ SyncedOnDisk /\ DestIntegrity
-----------------------------------------------------------------------------
(* The inductive invariant behind WindowRespected and AcksConserved. *)

(* Pieces come in pairs, the first one possibly read already. *)
Paired(s) == \A i \in 1..Len(s) : s[i].part = "header" <=> (Len(s) - i) % 2 = 1

Framed == up => Paired(toS)

(* Frames on their way, in one direction or the other. *)
UnderWay == Len(toR) + Len(toS) \div 2

AcksIn(q) == IF q # <<>> /\ q[Len(q)] = "err" THEN Len(q) - 1 ELSE Len(q)

(* Request, answer, one at a time, except that a window of chunks may be    *)
(* unanswered.                                                              *)
FramesCounted ==
  up => /\ Pumping => UnderWay + One(Held(cur)) + AcksIn(ackCh[cur]) <= inFlight
        /\ spc \in {"accept", "cack"} => UnderWay + One(Held(0)) <= 1
        /\ spc \in {"offer", "complete"} => UnderWay = 0

FramesOfPhase ==
  up => \A i \in 1..Len(toR) :
          /\ Pumping => toR[i].t = "DATA"
          /\ spc = "accept" => toR[i].t = "FILE_OFFER"
          /\ spc = "cack" => toR[i].t = "COMPLETE"

(* No ackReader before its file, and none after its error. *)
ReadersInTurn ==
  \A f \in File :
    /\ f > cur \/ (f = cur /\ spc \in {"offer", "accept"}) => rd[f].at = "off" /\ ackCh[f] = <<>>
    /\ \A i \in 1..Len(ackCh[f]) : ackCh[f][i] = "err" => i = Len(ackCh[f]) /\ rd[f].at = "off"

WindowKept == /\ inFlight <= Window /\ (spc = "pump" => inFlight < Window)
              /\ \A i \in 1..Len(toR) : toR[i].t = "DATA" => i <= Window

FlowInv == /\ TypeInv /\ Framed /\ FramesCounted /\ FramesOfPhase
           /\ ReadersInTurn /\ WindowKept

(* For the first file the count is exact: only one goroutine reads, no     *)
(* frame is misread and every acknowledgement is a positive one.           *)
Alone(r) == /\ \A q \in Reader \ {r} : rd[q].at = "off"
            /\ rd[r].at \in {"header", "payload", "got"}
            /\ rd[r].at = "payload" <=> Len(toS) % 2 = 1
            /\ \A i \in 1..Len(toS) : toS[i].part # "rest"

FirstFile ==
  up /\ cur = 1 =>
    /\ spc = "offer" => toS = <<>> /\ \A q \in Reader : rd[q].at = "off"
    /\ spc = "accept" => Alone(0)
    /\ Pumping =>
         /\ Alone(1)
         /\ \A i \in 1..Len(toS) : IsAck(toS[i].frame) /\ toS[i].frame.ok
         /\ Held(1) => IsAck(rd[1].frame) /\ rd[1].frame.ok
         /\ \A i \in 1..Len(ackCh[1]) : ackCh[1][i] = "ack"
         /\ UnderWay + One(Held(1)) + Len(ackCh[1]) = inFlight

ExactInv == FlowInv /\ FirstFile

(* Why ServedOrHung holds: an ackReader says that it returns, and once the  *)
(* error has been taken from a full window nothing else is.                 *)
ErrorWaits == ackCh[cur] # <<>> /\ ackCh[cur][Len(ackCh[cur])] = "err"

Served == /\ spc \in {"pump", "full"} => ~ackErr
          /\ spc = "full" => inFlight = Window
          /\ Pumping => IF Hung THEN Deserted ELSE rd[cur].at # "off" \/ ErrorWaits

ServedInv == FlowInv /\ Served
-----------------------------------------------------------------------------
(* The inductive invariant behind ReportedIsSafe and DeliversFiles. *)

Requests == {"FILE_OFFER", "COMPLETE"}
Replies == {"FILE_ACCEPT", "FILE_REJECT", "COMPLETE_ACK"}
Sending == spc \in {"offer", "pump", "full", "drain", "complete"}   \* owed no reply

IsReply(i) == toS[i].part = "header" /\ toS[i].frame.t \in Replies
ReplyHeld == Held(0) /\ rd[0].frame.t \in Replies

(* An offer or a COMPLETE is the only thing the receiver has to read. *)
RequestFirst ==
  \A i \in 1..Len(toR) : toR[i].t \in Requests =>
    /\ i = 1 /\ cur \in File /\ toR[i].id = cur
    /\ \A k \in 1..Len(toR) : toR[k].t # "DATA"

(* Requests and replies belong to the file and the phase the sender is in. *)
InPhase ==
  /\ \A i \in 1..Len(toR) : toR[i].t \in Requests =>
       /\ ~Sending
       /\ spc = "accept" => toR[i].t = "FILE_OFFER"
       /\ spc = "cack" => toR[i].t = "COMPLETE"
  /\ \A i \in 1..Len(toS) : IsReply(i) =>
       /\ ~Sending
       /\ spc = "accept" => toS[i].frame.t \in {"FILE_ACCEPT", "FILE_REJECT"}
       /\ spc = "cack" => toS[i].frame.t = "COMPLETE_ACK"

(* One request has one reply. *)
OneReply ==
  spc \in {"accept", "cack"} =>
    /\ (\E i \in 1..Len(toR) : toR[i].t \in Requests) =>
         ~ReplyHeld /\ \A i \in 1..Len(toS) : ~IsReply(i)
    /\ \A i \in 1..Len(toS) : IsReply(i) =>
         ~ReplyHeld /\ \A k \in 1..Len(toS) : IsReply(k) => k = i

(* How far the receiver is when a frame is on its way. *)
CountsAgree ==
  /\ verified \in {cur - 1, cur}
  /\ spc # "cack" /\ spc \in Busy \cup {"offer", "done"} => verified = cur - 1
  /\ (\E i \in 1..Len(toR) : toR[i].t \in Requests) => verified = cur - 1
  /\ spc = "cack" =>
       /\ \A i \in 1..Len(toS) : IsReply(i) /\ toS[i].frame.ok => verified = cur
       /\ ReplyHeld /\ rd[0].frame.ok => verified = cur
  /\ verified <= NFiles
  /\ spc = "done" => cur = NFiles + 1
  /\ (\E i \in 1..Len(toR) : toR[i].t = "SESSION_DONE") => spc = "done"
  /\ rpc = "done" => spc = "done"

RightFile ==
  /\ rpc \in {"recv", "verify"} => rfile = verified + 1
  /\ rpc \in {"remove", "rename"} => rfile = verified

ShownUpTo ==
  rpc # "ended" => \A f \in File : f <= verified =>
    dest[NameOf[f]] # NoFile \/ (rpc \in {"remove", "rename"} /\ NameOf[f] = rname)

DeliveryInv == /\ IntegrityInv /\ FlowInv
               /\ RequestFirst /\ InPhase /\ OneReply
               /\ CountsAgree /\ RightFile /\ ShownUpTo

(* What ChunksInSequence, NoJunkOnDisk and ReportedIsSafe need on top. *)

(* The sender numbers its chunks from where the receiver counts. *)
NumbersAgree ==
  up /\ rpc = "recv" =>
    /\ Pumping => idx = expected + Len(toR)
    /\ spc = "accept" =>
         /\ \A i \in 1..Len(toS) : IsReply(i) /\ toS[i].frame.t = "FILE_ACCEPT" =>
                                   toS[i].frame.num = expected
         /\ Held(0) /\ rd[0].frame.t = "FILE_ACCEPT" =>
              IF rd[0].at = "fill" THEN toS = <<>> ELSE rd[0].frame.num = expected

(* A damaged chunk has a CRC that does not match. *)
JunkIsFlagged ==
  \A i \in 1..Len(toR) : toR[i].t = "DATA" /\ toR[i].ok => Junk \notin ToSet(toR[i].body)

(* What is verified stays safe, each file having a name of its own. *)
OwnNames == \A f, g \in File : NameOf[f] = NameOf[g] => f = g

VerifiedIsSafe ==
  \A f \in File : f <= verified => Holds(dest[NameOf[f]], f) \/ Holds(part[NameOf[f]], f)

ContentInv == /\ ChunksInSequence /\ NumbersAgree
              /\ JunkIsFlagged /\ NoJunkOnDisk
              /\ OwnNames => VerifiedIsSafe
-----------------------------------------------------------------------------
(* Progress, under FairSpec. *)

(* sendChunks gets through its three loops. *)
PipelineDrains == spc \in {"pump", "full", "drain"} ~> spc \notin {"pump", "full", "drain"}

(* Once the connection is gone, both ends return. *)
BrokenConnEndsSession == ~up ~> SenderOver /\ ReceiverOver

(* When the sender has returned, so does the receiver, and the goroutines   *)
(* the sender started.                                                      *)
ReceiverFollowsSender == SenderOver ~> ReceiverOver
AckReadersReturn == SenderOver ~> \A r \in Reader : rd[r].at = "off"

(* A session ends. *)
SessionEnds == <>(SenderOver /\ ReceiverOver)
=============================================================================
