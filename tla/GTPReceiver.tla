---------------------------- MODULE GTPReceiver ----------------------------
(***************************************************************************)
(* backend/gtp/receiver.go: Receive and receiveFile, with the two files it *)
(* keeps on disk for a name: the ".gtpart" file that grows chunk by chunk  *)
(* and the final file it is renamed to.  The disk outlives the process.    *)
(***************************************************************************)
EXTENDS GTPWire

CONSTANTS
  Name,     \* destination paths
  NameOf,   \* NameOf[f]: the path the offered name of file f is cleaned to
  NoFile    \* no such file on disk

ASSUME NameAssumption == /\ NameOf \in [File -> Name]
                         /\ NoFile \notin [data : Content, synced : BOOLEAN]

VARIABLES
  rpc,       \* where Receive is
  rfile,     \* offer.ID of the last offer read, 0 before the first
  rsize,     \* offer.Size
  received,  \* bytes counted as received
  expected,  \* expectedChunk
  part,      \* the .gtpart files
  dest,      \* the final files
  verified   \* history: files whose hash agreed in this session

receiverVars == <<rpc, rfile, rsize, received, expected, part, dest, verified>>
disk == <<part, dest>>

DiskFile == [data : Content, synced : BOOLEAN]
OnDisk(data, synced) == [data |-> data, synced |-> synced]

ReceiverOver == rpc \in {"done", "ended"}
ReceiverPC == {"idle", "recv", "verify", "remove", "rename", "done", "ended"}

ReceiverTypeOK ==
  /\ rpc \in ReceiverPC
  /\ rfile \in 0..NFiles
  /\ rsize \in Nat /\ received \in Nat /\ expected \in Nat
  /\ part \in [Name -> DiskFile \cup {NoFile}]
  /\ dest \in [Name -> DiskFile \cup {NoFile}]
  /\ verified \in Nat

ReceiverStart == /\ rpc = "idle" /\ rfile = 0
                 /\ rsize = 0 /\ received = 0 /\ expected = 0
                 /\ verified = 0

ReceiverRestarts == /\ rpc' = "idle" /\ rfile' = 0
                    /\ rsize' = 0 /\ received' = 0 /\ expected' = 0
                    /\ verified' = 0
                    /\ UNCHANGED disk

ReceiverInit == /\ ReceiverStart
                /\ part = [n \in Name |-> NoFile]
                /\ dest = [n \in Name |-> NoFile]

rname == NameOf[rfile]     \* destPath, while a file is being received

Next1(t) == toR # <<>> /\ Head(toR).t = t

ReadOne == toR' = Tail(toR) /\ UNCHANGED <<up, faults>>

Reply(m) == toS' = Delivered(m)

(* Receive returns, after a last write, and the caller closes. *)
EndWith(last, unread) == /\ rpc' = "ended"
                         /\ ReceiverCloses(last, unread)
                         /\ UNCHANGED faults
-----------------------------------------------------------------------------
(* An offer: look for a partial file, ask the user (terminal mode), make   *)
(* the directory, accept, open the partial file.                           *)

ResumeChunk(n) == IF part[n] = NoFile THEN 0 ELSE Len(part[n].data) \div ChunkSize

(* O_APPEND for a resumed file, O_TRUNC otherwise. *)
Opened(n) == IF ResumeChunk(n) > 0 THEN part[n] ELSE OnDisk(<<>>, FALSE)

AcceptOffer ==
  /\ rpc = "idle" /\ Next1("FILE_OFFER")
  /\ LET n == NameOf[Head(toR).id]
     IN /\ Reply(FileAccept(Head(toR).id, ResumeChunk(n)))
        /\ part' = [part EXCEPT ![n] = Opened(n)]
        /\ received' = ResumeChunk(n) * ChunkSize
        /\ expected' = ResumeChunk(n)
  /\ rfile' = Head(toR).id
  /\ rsize' = Head(toR).num
  /\ rpc' = "recv"
  /\ ReadOne
  /\ UNCHANGED <<dest, verified>>

(* The user declines: REJECT, and on to the next frame. *)
DeclineOffer == /\ Spend("decline")
                /\ rpc = "idle" /\ Next1("FILE_OFFER")
                /\ Reply(FileReject(Head(toR).id))
                /\ rfile' = Head(toR).id
                /\ toR' = Tail(toR)
                /\ UNCHANGED <<up, rpc, rsize, received, expected, disk, verified>>

(* MkdirAll fails: REJECT and return.  Open fails: return after the ACCEPT. *)
OfferFails == /\ Spend("ioerr")
              /\ rpc = "idle" /\ Next1("FILE_OFFER")
              /\ \E last \in {FileReject(Head(toR).id),
                              FileAccept(Head(toR).id, ResumeChunk(NameOf[Head(toR).id]))} :
                   ReceiverCloses(Pieces(last), Tail(toR))
              /\ rfile' = Head(toR).id
              /\ rpc' = "ended"
              /\ UNCHANGED <<rsize, received, expected, disk, verified>>

(* The answer cannot be written: return before the partial file is opened. *)
OfferUnanswered == /\ rpc = "idle" /\ Next1("FILE_OFFER") /\ ~up
                   /\ rfile' = Head(toR).id
                   /\ EndWith(<<>>, Tail(toR))
                   /\ UNCHANGED <<rsize, received, expected, disk, verified>>

ReceiveSessionDone == /\ rpc = "idle" /\ Next1("SESSION_DONE")
                      /\ rpc' = "done"
                      /\ ReceiverCloses(<<>>, Tail(toR))
                      /\ UNCHANGED <<faults, rfile, rsize, received, expected, disk, verified>>

(* ERROR or any other frame. *)
SessionFails == /\ rpc = "idle" /\ toR # <<>>
                /\ Head(toR).t \notin {"FILE_OFFER", "SESSION_DONE"}
                /\ EndWith(<<>>, Tail(toR))
                /\ UNCHANGED <<rfile, rsize, received, expected, disk, verified>>
-----------------------------------------------------------------------------
(* Chunks, while received < offer.Size. *)

Wanting == rpc = "recv" /\ received < rsize

\* Mutant of CrcAgrees: the CRC is not compared.
CrcIgnored(m) == TRUE

CrcAgrees(m) == m.ok
GoodChunk(m) == m.t = "DATA" /\ CrcAgrees(m)
Nack == Pieces(DataAck(rfile, expected, FALSE))

Appended(bytes) == [part EXCEPT ![rname] = OnDisk(@.data \o bytes, FALSE)]

ReceiveChunk == /\ Wanting /\ toR # <<>>
                /\ GoodChunk(Head(toR)) /\ Head(toR).num = expected
                /\ part' = Appended(Head(toR).body)
                /\ Reply(DataAck(rfile, expected, TRUE))
                /\ received' = received + Len(Head(toR).body)
                /\ expected' = expected + 1
                /\ ReadOne
                /\ UNCHANGED <<rpc, rfile, rsize, dest, verified>>

(* The chunk is on disk when the acknowledgement cannot be written. *)
AckFails == /\ Wanting /\ toR # <<>> /\ ~up
            /\ GoodChunk(Head(toR)) /\ Head(toR).num = expected
            /\ part' = Appended(Head(toR).body)
            /\ EndWith(<<>>, Tail(toR))
            /\ UNCHANGED <<rfile, rsize, received, expected, dest, verified>>

(* Not a DATA frame, or the CRC does not match: NACK and return.  A chunk   *)
(* out of order: return without a NACK.                                     *)
RejectChunk == /\ Wanting /\ toR # <<>>
               /\ ~(GoodChunk(Head(toR)) /\ Head(toR).num = expected)
               /\ EndWith(IF GoodChunk(Head(toR)) THEN <<>> ELSE Nack, Tail(toR))
               /\ UNCHANGED <<rfile, rsize, received, expected, disk, verified>>

(* f.Write fails half way (a full disk): what was written stays. *)
ShortWrite == /\ Spend("short")
              /\ Wanting /\ toR # <<>>
              /\ GoodChunk(Head(toR)) /\ Head(toR).num = expected
              /\ \E p \in Prefixes(Head(toR).body) \ {Head(toR).body} : part' = Appended(p)
              /\ ReceiverCloses(Nack, Tail(toR))
              /\ rpc' = "ended"
              /\ UNCHANGED <<rfile, rsize, received, expected, dest, verified>>

(* A read fails between files, in a file or before COMPLETE. *)
ReadError == /\ toR = <<>> /\ ~up
             /\ rpc \in {"idle", "verify"} \/ Wanting
             /\ EndWith(IF rpc = "recv" THEN Nack ELSE <<>>, <<>>)
             /\ UNCHANGED <<rfile, rsize, received, expected, disk, verified>>
-----------------------------------------------------------------------------
(* All bytes counted: Sync, COMPLETE, verify, promote. *)

\* Mutant of Synced: no Sync before the promotion.
NotSynced(x) == x

Synced(x) == OnDisk(x.data, TRUE)

SyncPart == /\ rpc = "recv" /\ received >= rsize
            /\ part' = [part EXCEPT ![rname] = Synced(@)]
            /\ rpc' = "verify"
            /\ UNCHANGED <<wireVars, rfile, rsize, received, expected, dest, verified>>

\* Mutant of HashAgrees: the hashes are not compared.
HashIgnored(m) == TRUE

HashAgrees(m) == part[rname].data = m.body

VerifyOK == /\ rpc = "verify" /\ Next1("COMPLETE") /\ HashAgrees(Head(toR))
            /\ Reply(CompleteAck(rfile, TRUE))
            /\ verified' = verified + 1
            /\ rpc' = "remove"
            /\ ReadOne
            /\ UNCHANGED <<rfile, rsize, received, expected, disk>>

(* The partial file is removed, a later session starts from nothing. *)
Mismatch == /\ rpc = "verify" /\ Next1("COMPLETE") /\ ~HashAgrees(Head(toR))
            /\ part' = [part EXCEPT ![rname] = NoFile]
            /\ EndWith(Pieces(CompleteAck(rfile, FALSE)), Tail(toR))
            /\ UNCHANGED <<rfile, rsize, received, expected, dest, verified>>

(* A frame that is not COMPLETE, or COMPLETE_ACK cannot be written. *)
VerifyFails == /\ rpc = "verify" /\ toR # <<>>
               /\ Next1("COMPLETE") => ~up
               /\ EndWith(<<>>, Tail(toR))
               /\ UNCHANGED <<rfile, rsize, received, expected, disk, verified>>

(* "Atomically promote partial to final" is two calls.  An error of the    *)
(* first is ignored; the second then replaces the old file.                *)
RemoveOld == /\ rpc = "remove"
             /\ \E old \in {NoFile, dest[rname]} : dest' = [dest EXCEPT ![rname] = old]
             /\ rpc' = "rename"
             /\ UNCHANGED <<wireVars, rfile, rsize, received, expected, part, verified>>

RenamePart == /\ rpc = "rename"
              /\ dest' = [dest EXCEPT ![rname] = part[rname]]
              /\ part' = [part EXCEPT ![rname] = NoFile]
              /\ rpc' = "idle"
              /\ UNCHANGED <<wireVars, rfile, rsize, received, expected, verified>>

(* Sync, hash or rename fails: return, the partial file stays. *)
DiskFails == /\ Spend("ioerr")
             /\ \/ rpc = "recv" /\ received >= rsize
                \/ rpc = "rename"
                \/ rpc = "verify" /\ Next1("COMPLETE")
             /\ ReceiverCloses(<<>>, IF rpc = "verify" THEN Tail(toR) ELSE toR)
             /\ rpc' = "ended"
             /\ UNCHANGED <<rfile, rsize, received, expected, disk, verified>>

ReceiverMain == \/ AcceptOffer \/ OfferUnanswered \/ ReceiveSessionDone \/ SessionFails
                \/ ReceiveChunk \/ AckFails \/ RejectChunk \/ ReadError
                \/ SyncPart \/ VerifyOK \/ Mismatch \/ VerifyFails
                \/ RemoveOld \/ RenamePart
-----------------------------------------------------------------------------
(* What a crash of the receiver leaves of a file: everything when only the  *)
(* process dies, any beginning of what was not synced when the machine does.*)
AfterCrash(x) == IF x = NoFile THEN {NoFile}
                 ELSE {x} \cup
                      {OnDisk(p, TRUE) : p \in IF x.synced THEN {x.data} ELSE Prefixes(x.data)}

ReceiverCrashes == /\ Spend("rcrash")
                   /\ \E n \in Name : \E p \in AfterCrash(part[n]), d \in AfterCrash(dest[n]) :
                        /\ part' = [part EXCEPT ![n] = p]
                        /\ dest' = [dest EXCEPT ![n] = d]
                   /\ rpc' = IF ReceiverOver THEN rpc ELSE "ended"
                   /\ ReceiverCloses(<<>>, toR)
                   /\ UNCHANGED <<rfile, rsize, received, expected, verified>>

ReceiverFaults == DeclineOffer \/ OfferFails \/ ShortWrite \/ DiskFails \/ ReceiverCrashes
=============================================================================
