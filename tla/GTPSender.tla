----------------------------- MODULE GTPSender -----------------------------
(***************************************************************************)
(* backend/gtp/sender.go: Send, sendFile, sendChunks.  The main goroutine  *)
(* walks through the files; for each file sendChunks starts a goroutine    *)
(* (ackReader) that reads DATA_ACKs off the same connection and hands them *)
(* over a channel.  Nothing stops that goroutine when its file is finished:*)
(* it returns only on an error, so it still reads while the main goroutine *)
(* reads COMPLETE_ACK and the replies to later offers.                     *)
(*                                                                         *)
(* Reader 0 is the main goroutine's own call of ReadAny or ReadControl,    *)
(* reader f the ackReader of file f.                                       *)
(***************************************************************************)
EXTENDS GTPWire

CONSTANT Versions    \* Versions[f]: what file f may hold while the sender runs

ASSUME VersionsAssumption == Versions \in [File -> SUBSET Content]
ASSUME JunkAssumption == \A f \in File : \A c \in Versions[f] : Junk \notin ToSet(c)

VARIABLES
  src,       \* content of the files on the sender's disk
  spc,       \* where the main goroutine is
  cur,       \* the file it is at
  off,       \* file position of f.Read
  idx,       \* chunkIndex
  inFlight,  \* chunks sent minus acknowledgements taken from ackCh
  ackErr,    \* ackErr # nil
  rd,        \* the readers
  ackCh      \* one channel per sendChunks call, capacity Window

senderVars == <<src, spc, cur, off, idx, inFlight, ackErr, rd, ackCh>>

Reader == 0..NFiles
NoReader == [at |-> "off", frame |-> ErrorFrame]
Reading == {"header", "payload", "fill"}     \* inside io.ReadFull
SenderOver == spc \in {"done", "ended"}

ReaderState == [at : {"off", "got", "err", "report"} \cup Reading, frame : Message]
SenderPC == {"offer", "accept", "pump", "full", "drain", "complete", "cack", "fail",
             "done", "ended"}

SenderTypeOK ==
  /\ src \in [File -> Content]
  /\ spc \in SenderPC
  /\ cur \in 1..(NFiles + 1)
  /\ off \in Nat /\ idx \in Nat /\ inFlight \in Nat
  /\ ackErr \in BOOLEAN
  /\ rd \in [Reader -> ReaderState]
  /\ ackCh \in [File -> Seq({"ack", "err"})]

SenderStart ==
  /\ spc = "offer" /\ cur = 1
  /\ off = 0 /\ idx = 0 /\ inFlight = 0 /\ ackErr = FALSE
  /\ rd = [r \in Reader |-> NoReader]
  /\ ackCh = [f \in File |-> <<>>]

SenderRestarts ==
  /\ spc' = "offer" /\ cur' = 1
  /\ off' = 0 /\ idx' = 0 /\ inFlight' = 0 /\ ackErr' = FALSE
  /\ rd' = [r \in Reader |-> NoReader]
  /\ ackCh' = [f \in File |-> <<>>]
  /\ UNCHANGED src

SenderInit == SenderStart /\ src \in {s \in [File -> UNION {Versions[f] : f \in File}] :
                                        \A f \in File : s[f] \in Versions[f]}

Goto(pc) == spc' = pc

StartReading(r) == rd' = [rd EXCEPT ![r] = [at |-> "header", frame |-> ErrorFrame]]
-----------------------------------------------------------------------------
(* ReadFrame, one step per io.ReadFull.  Which of several blocked readers  *)
(* gets the next bytes is up to the runtime.                               *)

ReadHeader(r) == /\ rd[r].at = "header"
                 /\ toS # <<>> /\ Head(toS).part = "header"
                 /\ rd' = [rd EXCEPT ![r] = [at |-> "payload", frame |-> Head(toS).frame]]
                 /\ toS' = Tail(toS)

BadMagic(r) == /\ rd[r].at = "header"
               /\ toS # <<>> /\ Head(toS).part # "header"
               /\ rd' = [rd EXCEPT ![r].at = "err"]
               /\ toS' = Nibble(toS)

ReadPayload(r) == /\ rd[r].at = "payload"
                  /\ toS # <<>> /\ Head(toS).part = "payload"
                  /\ rd' = [rd EXCEPT ![r].at = "got"]
                  /\ toS' = Tail(toS)

(* Nine bytes of the payload are missing: read on into the next frame. *)
ReadRest(r) == /\ rd[r].at = "payload"
               /\ toS # <<>> /\ Head(toS).part = "rest"
               /\ rd' = [rd EXCEPT ![r].at = "fill"]
               /\ toS' = Tail(toS)

ReadFill(r) == /\ rd[r].at = "fill"
               /\ toS # <<>>
               /\ rd' = [rd EXCEPT ![r] = [at |-> "got", frame |-> Garbled(rd[r].frame)]]
               /\ toS' = Nibble(toS)

ReadFails(r) == /\ rd[r].at \in Reading
                /\ toS = <<>> /\ ~up
                /\ rd' = [rd EXCEPT ![r].at = "err"]
                /\ toS' = toS

ReadFrame(r) ==
  /\ \/ ReadHeader(r) \/ BadMagic(r) \/ ReadPayload(r) \/ ReadRest(r) \/ ReadFill(r)
     \/ ReadFails(r)
  /\ UNCHANGED <<toR, up, faults, src, spc, cur, off, idx, inFlight, ackErr, ackCh>>
-----------------------------------------------------------------------------
(* ackReader.  A negative acknowledgement is pushed as a message first and *)
(* then, in a second push, as the error that ends the goroutine.           *)

Push(r, what) == /\ Len(ackCh[r]) < Window
                 /\ ackCh' = [ackCh EXCEPT ![r] = Append(@, what)]
                 /\ UNCHANGED <<wireVars, src, spc, cur, off, idx, inFlight, ackErr>>

IsAck(m) == m.t = "DATA_ACK"

PushAck(r) == /\ rd[r].at = "got" /\ IsAck(rd[r].frame)
              /\ Push(r, "ack")
              /\ IF rd[r].frame.ok THEN StartReading(r)
                                   ELSE rd' = [rd EXCEPT ![r].at = "report"]

\* Mutants of PushErr: the goroutine returns without a word; it reports and reads on.
PushErrNot(r) == /\ rd[r].at \in {"err", "report"}
                 /\ rd' = [rd EXCEPT ![r] = NoReader]
                 /\ UNCHANGED <<wireVars, src, spc, cur, off, idx, inFlight, ackErr, ackCh>>

PushErrAndReadOn(r) == /\ rd[r].at \in {"err", "report"}
                       /\ Push(r, "err")
                       /\ StartReading(r)

PushErr(r) == /\ \/ rd[r].at \in {"err", "report"}
                 \/ rd[r].at = "got" /\ ~IsAck(rd[r].frame)
              /\ Push(r, "err")
              /\ rd' = [rd EXCEPT ![r] = NoReader]

AckReader(r) == ReadFrame(r) \/ PushAck(r) \/ PushErr(r)
-----------------------------------------------------------------------------
(* The main goroutine. *)

Least(a, b) == IF a < b THEN a ELSE b
NextChunk == SubSeq(src[cur], off + 1, Least(off + ChunkSize, Len(src[cur])))

\* Mutant of WindowFull: one chunk too many.
WindowFullLate(n) == n > Window

WindowFull(n) == n >= Window

\* Mutants of FirstChunk: a resumed file numbered from 0; off by one.
FirstChunkZero(resume) == 0
FirstChunkBefore(resume) == resume - 1

FirstChunk(resume) == resume

\* Mutant of AfterAck: one acknowledgement taken for all of them.
AfterAckNone(n) == 0

AfterAck(n) == n - 1

\* Mutant of AllAcked: the last acknowledgement is not waited for.
AllAckedButOne == inFlight <= 1

AllAcked == inFlight = 0

(* Stat, hash and FILE_OFFER; when every file is done, SESSION_DONE, return  *)
(* and the caller's deferred Close.                                          *)
SendOffer == /\ spc = "offer" /\ cur \in File
             /\ SendToReceiver(FileOffer(cur, Len(src[cur])))
             /\ Goto("accept") /\ StartReading(0)
             /\ UNCHANGED <<src, cur, off, idx, inFlight, ackErr, ackCh>>

SendSessionDone == /\ spc = "offer" /\ cur \notin File
                   /\ up => Len(toR) < NetCap
                   /\ SenderCloses(<<SessionDone>>)
                   /\ Goto("done")
                   /\ UNCHANGED <<faults, src, cur, off, idx, inFlight, ackErr, rd, ackCh>>

(* FILE_ACCEPT: open, seek to the resume chunk, start the ackReader. *)
StartChunks == /\ spc = "accept" /\ rd[0].at = "got" /\ rd[0].frame.t = "FILE_ACCEPT"
               /\ idx' = FirstChunk(rd[0].frame.num)
               /\ off' = rd[0].frame.num * ChunkSize
               /\ inFlight' = 0 /\ ackErr' = FALSE
               /\ rd' = [rd EXCEPT ![0] = NoReader, ![cur] = [NoReader EXCEPT !.at = "header"]]
               /\ Goto("pump")
               /\ UNCHANGED <<wireVars, src, cur, ackCh>>

\* Mutant of OfferRefused: a rejected file is passed over.
OfferPassedOver == /\ spc = "accept" /\ rd[0].at = "got" /\ rd[0].frame.t # "FILE_ACCEPT"
                   /\ Goto("offer") /\ cur' = cur + 1
                   /\ rd' = [rd EXCEPT ![0] = NoReader]
                   /\ UNCHANGED <<wireVars, src, off, idx, inFlight, ackErr, ackCh>>

(* FILE_REJECT, any other frame, or a read error. *)
OfferRefused == /\ spc = "accept"
                /\ \/ rd[0].at = "got" /\ rd[0].frame.t # "FILE_ACCEPT"
                   \/ rd[0].at = "err"
                /\ Goto("fail")
                /\ rd' = [rd EXCEPT ![0] = NoReader]
                /\ UNCHANGED <<wireVars, src, cur, off, idx, inFlight, ackErr, ackCh>>

SendChunk == /\ spc = "pump" /\ off < Len(src[cur])
             /\ SendToReceiver(Data(cur, idx, NextChunk))
             /\ off' = off + Len(NextChunk)
             /\ idx' = idx + 1
             /\ inFlight' = inFlight + 1
             /\ Goto(IF WindowFull(inFlight + 1) THEN "full" ELSE "pump")
             /\ UNCHANGED <<src, cur, ackErr, rd, ackCh>>

SendChunkFails == /\ spc = "pump" /\ off < Len(src[cur]) /\ ~up
                  /\ ackErr' = TRUE
                  /\ Goto("drain")
                  /\ UNCHANGED <<wireVars, src, cur, off, idx, inFlight, rd, ackCh>>

EndOfFile == /\ spc = "pump" /\ off >= Len(src[cur])
             /\ Goto("drain")
             /\ UNCHANGED <<wireVars, src, cur, off, idx, inFlight, ackErr, rd, ackCh>>

(* One receive from ackCh. *)
Taken(what) == /\ ackCh[cur] # <<>> /\ Head(ackCh[cur]) = what
               /\ ackCh' = [ackCh EXCEPT ![cur] = Tail(@)]
               /\ UNCHANGED <<wireVars, src, cur, off, idx, rd>>

(* The loop while the window is full: an error leaves it for the final     *)
(* drain, with inFlight still at the window.                               *)
FullTakesAck == /\ spc = "full" /\ Taken("ack")
                /\ inFlight' = AfterAck(inFlight)
                /\ Goto(IF WindowFull(AfterAck(inFlight)) THEN "full" ELSE "pump")
                /\ UNCHANGED ackErr

FullTakesErr == /\ spc = "full" /\ Taken("err")
                /\ ackErr' = TRUE
                /\ Goto("drain")
                /\ UNCHANGED inFlight

(* The final drain: an error leaves it and sendChunks returns it. *)
DrainTakesAck == /\ spc = "drain" /\ ~AllAcked /\ Taken("ack")
                 /\ inFlight' = AfterAck(inFlight)
                 /\ UNCHANGED <<spc, ackErr>>

DrainTakesErr == /\ spc = "drain" /\ ~AllAcked /\ Taken("err")
                 /\ ackErr' = TRUE
                 /\ Goto("fail")
                 /\ UNCHANGED inFlight

Drained == /\ spc = "drain" /\ AllAcked
           /\ Goto(IF ackErr THEN "fail" ELSE "complete")
           /\ UNCHANGED <<wireVars, src, cur, off, idx, inFlight, ackErr, rd, ackCh>>

(* Hash the file as it is now, send COMPLETE, wait for COMPLETE_ACK. *)
SendComplete == /\ spc = "complete"
                /\ SendToReceiver(Complete(cur, src[cur]))
                /\ Goto("cack") /\ StartReading(0)
                /\ UNCHANGED <<src, cur, off, idx, inFlight, ackErr, ackCh>>

\* Mutant of Acknowledged: ack.OK is not looked at.
AcknowledgedAnyway(m) == m.t = "COMPLETE_ACK"

Acknowledged(m) == m.t = "COMPLETE_ACK" /\ m.ok

FileSent == /\ spc = "cack" /\ rd[0].at = "got" /\ Acknowledged(rd[0].frame)
            /\ cur' = cur + 1
            /\ Goto("offer")
            /\ rd' = [rd EXCEPT ![0] = NoReader]
            /\ UNCHANGED <<wireVars, src, off, idx, inFlight, ackErr, ackCh>>

FileNotSent == /\ spc = "cack"
               /\ \/ rd[0].at = "got" /\ ~Acknowledged(rd[0].frame)
                  \/ rd[0].at = "err"
               /\ Goto("fail")
               /\ rd' = [rd EXCEPT ![0] = NoReader]
               /\ UNCHANGED <<wireVars, src, cur, off, idx, inFlight, ackErr, ackCh>>

WriteFails == /\ spc \in {"offer", "complete"} /\ ~up
              /\ Goto("fail")
              /\ UNCHANGED <<wireVars, src, cur, off, idx, inFlight, ackErr, rd, ackCh>>

\* Mutant of SenderAborts: neither ERROR nor Close.
SenderAbortsSilently == /\ spc = "fail"
                        /\ Goto("ended")
                        /\ UNCHANGED <<wireVars, src, cur, off, idx, inFlight, ackErr, rd, ackCh>>

(* Send returns an error: ERROR frame, then the caller's deferred Close. *)
SenderAborts == /\ spc = "fail"
                /\ up => Len(toR) < NetCap
                /\ SenderCloses(<<ErrorFrame>>)
                /\ Goto("ended")
                /\ UNCHANGED <<faults, src, cur, off, idx, inFlight, ackErr, rd, ackCh>>

SenderMain == \/ SendOffer \/ SendSessionDone \/ StartChunks \/ OfferRefused
              \/ SendChunk \/ SendChunkFails \/ EndOfFile \/ FullTakesAck \/ FullTakesErr
              \/ DrainTakesAck \/ DrainTakesErr \/ Drained \/ SendComplete \/ FileSent \/ FileNotSent \/ WriteFails
              \/ SenderAborts \/ ReadFrame(0)
-----------------------------------------------------------------------------
(* What may happen to the sender. *)

(* Somebody writes to a file while, or before, it is sent. *)
EditFile(f) == /\ Spend("edit") /\ ~SenderOver
               /\ \E c \in Versions[f] \ {src[f]} : src' = [src EXCEPT ![f] = c]
               /\ UNCHANGED <<toR, toS, up, spc, cur, off, idx, inFlight, ackErr, rd, ackCh>>

(* Stat, open, seek, read or hash fails. *)
SourceUnreadable ==
  /\ Spend("ioerr")
  /\ \/ spc \in {"offer", "pump", "complete"} /\ cur \in File /\ rd' = rd
     \/ /\ spc = "accept" /\ rd[0].at = "got" /\ rd[0].frame.t = "FILE_ACCEPT"
        /\ rd' = [rd EXCEPT ![0] = NoReader]
  /\ Goto("fail")
  /\ UNCHANGED <<toR, toS, up, src, cur, off, idx, inFlight, ackErr, ackCh>>

(* The process is killed, goroutines and all; the system closes its socket. *)
SenderKilled == /\ Spend("skill") /\ ~SenderOver
                /\ SenderCloses(<<>>)
                /\ Goto("ended")
                /\ rd' = [r \in Reader |-> NoReader]
                /\ UNCHANGED <<src, cur, off, idx, inFlight, ackErr, ackCh>>
=============================================================================
