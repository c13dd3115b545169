------------------------- MODULE GTPIntegrityProofs -------------------------
(***************************************************************************)
(* DestIntegrity of GTPTransfer, proved: IntegrityInv is inductive.        *)
(*                                                                         *)
(* The argument in one paragraph.  The receiver compares the hash in the   *)
(* COMPLETE it reads with the partial file of the LAST OFFER it read, not  *)
(* of the file COMPLETE names.  FramesOwned says that these are the same:  *)
(* walking back from a COMPLETE in the queue, the first offer met, or the  *)
(* last one read, is that of its own file.  So the partial file that       *)
(* agrees is a version of the file it is kept for; nothing writes to it    *)
(* until it is renamed, and it was synced before it was compared, so that  *)
(* a crash takes nothing away from it or from the final file.              *)
(***************************************************************************)
EXTENDS GTPTransferProofs

-----------------------------------------------------------------------------
(* Queues of frames. *)

(* Every COMPLETE in queue q carries a version's hash and follows the offer *)
(* of its own file, r being the last offer read.                            *)
Owned(q, r) == \A i \in 1..Len(q) : q[i].t = "COMPLETE" =>
                 /\ q[i].id \in File /\ q[i].body \in Versions[q[i].id]
                 /\ OfferedIn(q, r, i, q[i].id)

(* Which file was last offered depends on the frames before it only. *)
LEMMA OfferedAgree ==
  ASSUME NEW q, NEW p, NEW r, NEW i \in Nat, NEW f, OfferedIn(q, r, i, f),
         \A k \in 1..(i - 1) : p[k].t = q[k].t /\ p[k].id = q[k].id
  PROVE  OfferedIn(p, r, i, f)
<1>1. CASE r = f /\ \A k \in 1..(i - 1) : q[k].t # "FILE_OFFER"
  BY <1>1 DEF OfferedIn
<1>2. CASE \E k \in 1..(i - 1) : /\ q[k].t = "FILE_OFFER" /\ q[k].id = f
                                 /\ \A m \in (k + 1)..(i - 1) : q[m].t # "FILE_OFFER"
  <2>1. PICK k \in 1..(i - 1) : /\ q[k].t = "FILE_OFFER" /\ q[k].id = f
                                /\ \A m \in (k + 1)..(i - 1) : q[m].t # "FILE_OFFER"
    BY <1>2
  <2>2. \A m \in (k + 1)..(i - 1) : m \in 1..(i - 1)
    OBVIOUS
  <2> QED
    BY <2>1, <2>2 DEF OfferedIn
<1> QED
  BY <1>1, <1>2 DEF OfferedIn

(* A queue with the same frames as another where it has a COMPLETE, and the *)
(* same types and files elsewhere: a beginning of it, its end replaced by   *)
(* frames that are no COMPLETE, damaged chunks.                             *)
LEMMA OwnedLike ==
  ASSUME NEW q \in Seq(Message), NEW p \in Seq(Message), NEW r, Owned(q, r),
         \A i \in 1..Len(p) : p[i].t = "COMPLETE" => i <= Len(q) /\ p[i] = q[i],
         \A i \in 1..Len(p) : i <= Len(q) => p[i].t = q[i].t /\ p[i].id = q[i].id
  PROVE  Owned(p, r)
<1> SUFFICES ASSUME NEW i \in 1..Len(p), p[i].t = "COMPLETE"
             PROVE  /\ p[i].id \in File /\ p[i].body \in Versions[p[i].id]
                    /\ OfferedIn(p, r, i, p[i].id)
  BY DEF Owned
<1>1. i \in 1..Len(q) /\ p[i] = q[i] /\ i \in Nat
  OBVIOUS
<1>2. q[i].id \in File /\ q[i].body \in Versions[q[i].id] /\ OfferedIn(q, r, i, q[i].id)
  BY <1>1 DEF Owned
<1>3. \A k \in 1..(i - 1) : p[k].t = q[k].t /\ p[k].id = q[k].id
  BY <1>1
<1> QED
  BY <1>1, <1>2, <1>3, OfferedAgree

(* One frame more, at the end. *)
LEMMA OwnedAppend ==
  ASSUME NEW q \in Seq(Message), NEW m \in Message, NEW r, Owned(q, r),
         m.t = "COMPLETE" => /\ m.id \in File /\ m.body \in Versions[m.id]
                             /\ OfferedIn(q, r, Len(q) + 1, m.id)
  PROVE  Owned(Append(q, m), r)
<1> DEFINE p == Append(q, m)
<1>1. /\ p \in Seq(Message) /\ Len(p) = Len(q) + 1 /\ p[Len(q) + 1] = m
      /\ \A i \in 1..Len(q) : p[i] = q[i]
      /\ Len(q) \in Nat
  BY QueueType
<1> HIDE DEF p
<1> SUFFICES ASSUME NEW i \in 1..Len(p), p[i].t = "COMPLETE"
             PROVE  /\ p[i].id \in File /\ p[i].body \in Versions[p[i].id]
                    /\ OfferedIn(p, r, i, p[i].id)
  BY DEF Owned, p
<1>2. \A k \in 1..(i - 1) : p[k].t = q[k].t /\ p[k].id = q[k].id
  BY <1>1
<1>3. CASE i \in 1..Len(q)
  BY <1>1, <1>2, <1>3, OfferedAgree DEF Owned
<1>4. CASE i = Len(q) + 1
  BY <1>1, <1>2, <1>4, OfferedAgree
<1> QED
  BY <1>1, <1>3, <1>4

(* A frame that is no offer changes nothing for the next. *)
LEMMA OfferedNext ==
  ASSUME NEW p, NEW r, NEW n \in Nat, NEW f, OfferedIn(p, r, n + 1, f),
         p[n + 1].t # "FILE_OFFER"
  PROVE  OfferedIn(p, r, n + 2, f)
<1>1. CASE r = f /\ \A k \in 1..n : p[k].t # "FILE_OFFER"
  <2>1. \A k \in 1..(n + 2 - 1) : p[k].t # "FILE_OFFER"
    BY <1>1
  <2> QED
    BY <1>1, <2>1 DEF OfferedIn
<1>2. CASE \E k \in 1..n : /\ p[k].t = "FILE_OFFER" /\ p[k].id = f
                           /\ \A j \in (k + 1)..n : p[j].t # "FILE_OFFER"
  <2>1. PICK k \in 1..n : /\ p[k].t = "FILE_OFFER" /\ p[k].id = f
                          /\ \A j \in (k + 1)..n : p[j].t # "FILE_OFFER"
    BY <1>2
  <2>2. k \in 1..(n + 2 - 1) /\ \A j \in (k + 1)..(n + 2 - 1) : p[j].t # "FILE_OFFER"
    BY <2>1
  <2> QED
    BY <2>1, <2>2 DEF OfferedIn
<1>3. n + 1 - 1 = n
  OBVIOUS
<1> QED
  BY <1>1, <1>2, <1>3 DEF OfferedIn

(* Which file was last offered, after one frame more. *)
LEMMA OfferedAppend ==
  ASSUME NEW q \in Seq(Message), NEW m \in Message, NEW r, NEW f,
         IF m.t = "FILE_OFFER" THEN m.id = f ELSE OfferedIn(q, r, Len(q) + 1, f)
  PROVE  OfferedIn(Append(q, m), r, Len(Append(q, m)) + 1, f)
<1> DEFINE p == Append(q, m)
           n == Len(q)
<1>1. /\ Len(p) = n + 1 /\ p[n + 1] = m /\ n \in Nat
      /\ \A i \in 1..n : p[i] = q[i]
  BY QueueType
<1> HIDE DEF p, n
<1>2. CASE m.t = "FILE_OFFER"
  <2>1. n + 1 \in 1..(Len(p) + 1 - 1)
    BY <1>1
  <2>2. \A k \in (n + 1 + 1)..(Len(p) + 1 - 1) : p[k].t # "FILE_OFFER"
    BY <1>1
  <2>3. p[n + 1].t = "FILE_OFFER" /\ p[n + 1].id = f
    BY <1>1, <1>2
  <2>4. OfferedIn(p, r, Len(p) + 1, f)
    BY <2>1, <2>2, <2>3 DEF OfferedIn
  <2> QED
    BY <2>4 DEF p
<1>3. CASE m.t # "FILE_OFFER"
  <2>1. OfferedIn(q, r, n + 1, f)
    BY <1>3 DEF n
  <2>2. OfferedIn(p, r, n + 1, f)
    BY <1>1, <2>1, OfferedAgree
  <2>3. OfferedIn(p, r, n + 2, f)
    BY <1>1, <1>3, <2>2, OfferedNext
  <2>4. Len(p) + 1 = n + 2
    BY <1>1
  <2> QED
    BY <2>3, <2>4 DEF p
<1> QED
  BY <1>2, <1>3

(* Which file was last offered, after the first frame has been read. *)
LEMMA OfferedTail ==
  ASSUME NEW q \in Seq(Message), q # <<>>, NEW r, NEW s, NEW f, NEW i \in 2..(Len(q) + 1),
         OfferedIn(q, r, i, f),
         s = IF Head(q).t = "FILE_OFFER" THEN Head(q).id ELSE r
  PROVE  OfferedIn(Tail(q), s, i - 1, f)
<1> DEFINE p == Tail(q)
<1>1. /\ Head(q) = q[1] /\ Len(q) \in Nat \ {0} /\ Len(p) = Len(q) - 1
      /\ \A j \in 1..(Len(q) - 1) : p[j] = q[j + 1]
  BY QueueType
<1> HIDE DEF p
<1>2. \A j \in 1..(i - 2) : p[j] = q[j + 1]
  BY <1>1
<1>3. CASE r = f /\ \A k \in 1..(i - 1) : q[k].t # "FILE_OFFER"
  <2>1. s = f
    BY <1>1, <1>3
  <2>2. \A k \in 1..(i - 1 - 1) : p[k].t # "FILE_OFFER"
    BY <1>2, <1>3
  <2> QED
    BY <2>1, <2>2 DEF OfferedIn, p
<1>4. CASE \E k \in 1..(i - 1) : /\ q[k].t = "FILE_OFFER" /\ q[k].id = f
                                 /\ \A m \in (k + 1)..(i - 1) : q[m].t # "FILE_OFFER"
  <2>1. PICK k \in 1..(i - 1) : /\ q[k].t = "FILE_OFFER" /\ q[k].id = f
                                /\ \A m \in (k + 1)..(i - 1) : q[m].t # "FILE_OFFER"
    BY <1>4
  <2>2. CASE k = 1
    <3>1. s = f
      BY <1>1, <2>1, <2>2
    <3>2. \A j \in 1..(i - 1 - 1) : p[j].t # "FILE_OFFER"
      BY <1>2, <2>1, <2>2
    <3> QED
      BY <3>1, <3>2 DEF OfferedIn, p
  <2>3. CASE k # 1
    <3>1. k - 1 \in 1..(i - 1 - 1) /\ p[k - 1] = q[k]
      BY <1>2, <2>3
    <3>2. \A j \in (k - 1 + 1)..(i - 1 - 1) : p[j].t # "FILE_OFFER"
      BY <1>2, <2>1
    <3> QED
      BY <2>1, <3>1, <3>2 DEF OfferedIn, p
  <2> QED
    BY <2>2, <2>3
<1> QED
  BY <1>3, <1>4 DEF OfferedIn

(* The same for all of the queue. *)
LEMMA OwnedTail ==
  ASSUME NEW q \in Seq(Message), q # <<>>, NEW r, NEW s, Owned(q, r),
         s = IF Head(q).t = "FILE_OFFER" THEN Head(q).id ELSE r
  PROVE  Owned(Tail(q), s)
<1>1. /\ Len(q) \in Nat \ {0} /\ Len(Tail(q)) = Len(q) - 1
      /\ \A i \in 1..(Len(q) - 1) : Tail(q)[i] = q[i + 1]
  BY QueueType
<1> SUFFICES ASSUME NEW i \in 1..Len(Tail(q)), Tail(q)[i].t = "COMPLETE"
             PROVE  /\ Tail(q)[i].id \in File /\ Tail(q)[i].body \in Versions[Tail(q)[i].id]
                    /\ OfferedIn(Tail(q), s, i, Tail(q)[i].id)
  BY DEF Owned
<1>2. i + 1 \in 1..Len(q) /\ i + 1 \in 2..(Len(q) + 1) /\ i + 1 - 1 = i /\ Tail(q)[i] = q[i + 1]
  BY <1>1
<1>3. /\ q[i + 1].id \in File /\ q[i + 1].body \in Versions[q[i + 1].id]
      /\ OfferedIn(q, r, i + 1, q[i + 1].id)
  BY <1>2 DEF Owned
<1>4. OfferedIn(Tail(q), s, i + 1 - 1, q[i + 1].id)
  BY <1>2, <1>3, OfferedTail
<1> QED
  BY <1>2, <1>3, <1>4
-----------------------------------------------------------------------------
(* FramesOwned and HashesOfVersions, step by step. *)

WireInv == /\ \A f \in File : src[f] \in Versions[f]
           /\ Owned(toR, rfile)
           /\ up /\ spc \in Busy => OfferedIn(toR, rfile, Len(toR) + 1, cur)

(* WireInv is these two invariants, said of queue and hashes at once. *)
LEMMA WireInvMeans == WireInv <=> FramesOwned /\ HashesOfVersions
BY DEF WireInv, Owned, FramesOwned, HashesOfVersions

(* A step that leaves the frames alone and starts no file. *)
LEMMA QuietStep ==
  ASSUME WireInv, UNCHANGED <<toR, up, rfile, src>>,
         spc' \in Busy => spc \in Busy /\ cur' = cur
  PROVE  WireInv'
BY DEF WireInv, Owned, OfferedIn

(* A step after which the connection is closed, and what is left in the     *)
(* queue is as OwnedLike has it.                                            *)
LEMMA ClosedStep ==
  ASSUME WireInv, Owned(toR', rfile'), up' = FALSE, src' = src
  PROVE  WireInv'
BY DEF WireInv

(* An empty queue owes nothing. *)
LEMMA OwnedEmpty == ASSUME NEW r PROVE Owned(<<>>, r)
BY DEF Owned

(* A frame is sent; if it is an offer, it is that of the current file. *)
LEMMA SendStep ==
  ASSUME TypeInv, WireInv, NEW m \in Message, SendToReceiver(m),
         UNCHANGED <<rfile, src>>, cur' = cur, cur \in File,
         IF m.t = "FILE_OFFER" THEN m.id = cur ELSE spc \in Busy,
         m.t = "COMPLETE" => m.id = cur /\ m.body = src[cur]
  PROVE  WireInv'
<1>1. toR \in Seq(Message)
  BY DEF TypeInv, TypeOK, WireTypeOK
<1>2. CASE up /\ toR' = Append(toR, m)
  <2>1. m.t # "FILE_OFFER" => OfferedIn(toR, rfile, Len(toR) + 1, cur)
    BY <1>2 DEF WireInv
  <2>2. Owned(Append(toR, m), rfile)
    <3>1. m.t = "COMPLETE" => m.id \in File /\ m.body \in Versions[m.id]
      BY DEF WireInv
    <3>2. Owned(toR, rfile)
      BY DEF WireInv
    <3> QED
      BY <1>1, <2>1, <3>1, <3>2, OwnedAppend
  <2>3. OfferedIn(Append(toR, m), rfile, Len(Append(toR, m)) + 1, cur)
    BY <1>1, <2>1, OfferedAppend
  <2> QED
    BY <1>2, <2>2, <2>3 DEF WireInv
<1>3. CASE ~up /\ toR' = toR
  BY <1>3 DEF WireInv, SendToReceiver
<1> QED
  BY <1>2, <1>3 DEF SendToReceiver

(* The sender's Close: what arrives is a beginning of what was sent, with at *)
(* most a last frame that is no COMPLETE.                                    *)
LEMMA SenderCloseStep ==
  ASSUME TypeInv, WireInv, NEW last \in Seq(Message), SenderCloses(last),
         \A i \in 1..Len(last) : last[i].t # "COMPLETE",
         UNCHANGED <<rfile, src>>
  PROVE  WireInv'
<1> DEFINE q == IF up THEN toR \o last ELSE toR
<1>1. toR \in Seq(Message) /\ q \in Seq(Message)
  BY DEF TypeInv, TypeOK, WireTypeOK
<1>2. /\ \A i \in 1..Len(q) : q[i].t = "COMPLETE" => i <= Len(toR) /\ q[i] = toR[i]
      /\ \A i \in 1..Len(q) : i <= Len(toR) => q[i] = toR[i]
  BY <1>1
<1>3. toR' \in Survives(q, toS) /\ up' = FALSE
  BY DEF SenderCloses
<1> HIDE DEF q
<1>4. /\ toR' \in Seq(Message) /\ Len(toR') <= Len(q)
      /\ \A i \in 1..Len(toR') : toR'[i] = q[i]
  BY <1>1, <1>3, SurvivesType
<1>5. /\ \A i \in 1..Len(toR') : toR'[i].t = "COMPLETE" => i <= Len(toR) /\ toR'[i] = toR[i]
      /\ \A i \in 1..Len(toR') : i <= Len(toR) => toR'[i] = toR[i]
  BY <1>1, <1>2, <1>4
<1>6. Owned(toR', rfile)
  BY <1>1, <1>4, <1>5, OwnedLike DEF WireInv
<1> QED
  BY <1>3, <1>6, ClosedStep

(* The sender's main goroutine. *)
LEMMA SenderMainFrames ==
  ASSUME TypeInv, WireInv, SenderMain, UNCHANGED receiverVars
  PROVE  WireInv'
<1>1. /\ SenderBusy /\ rfile' = rfile /\ File \subseteq Nat
      /\ off \in Nat /\ idx \in Nat /\ src \in [File -> Content] /\ SenderTypeOK
  BY DEF TypeInv, TypeOK, SenderTypeOK, receiverVars, File
<1>2. CASE SendOffer
  <2>1. cur \in File /\ Len(src[cur]) \in Nat
    BY <1>1, <1>2, NextChunkType DEF SendOffer
  <2>2. /\ FileOffer(cur, Len(src[cur])) \in Message
        /\ FileOffer(cur, Len(src[cur])).t = "FILE_OFFER"
        /\ FileOffer(cur, Len(src[cur])).id = cur
    BY <1>1, <2>1 DEF FileOffer, Msg, Message, FrameType, Content
  <2>3. SendToReceiver(FileOffer(cur, Len(src[cur]))) /\ cur' = cur /\ src' = src
    BY <1>2 DEF SendOffer
  <2> QED
    BY <1>1, <2>1, <2>2, <2>3, SendStep
<1>3. CASE SendChunk
  <2>1. cur \in File /\ spc \in Busy
    BY <1>1, <1>3 DEF SendChunk, SenderBusy, Busy
  <2>2. NextChunk \in Content
    BY <1>1, <2>1, NextChunkType
  <2>3. Data(cur, idx, NextChunk) \in Message /\ Data(cur, idx, NextChunk).t = "DATA"
    BY <1>1, <2>1, <2>2, MessageType DEF Data, FrameType, Msg
  <2>4. SendToReceiver(Data(cur, idx, NextChunk)) /\ cur' = cur /\ src' = src
    BY <1>3 DEF SendChunk
  <2> QED
    BY <1>1, <2>1, <2>3, <2>4, SendStep
<1>4. CASE SendComplete
  <2>1. cur \in File /\ spc \in Busy /\ src[cur] \in Content
    BY <1>1, <1>4 DEF SendComplete, SenderBusy, Busy
  <2>2. /\ Complete(cur, src[cur]) \in Message /\ Complete(cur, src[cur]).t = "COMPLETE"
        /\ Complete(cur, src[cur]).id = cur /\ Complete(cur, src[cur]).body = src[cur]
    BY <1>1, <2>1, MessageType DEF Complete, FrameType, Msg
  <2>3. SendToReceiver(Complete(cur, src[cur])) /\ cur' = cur /\ src' = src
    BY <1>4 DEF SendComplete
  <2> QED
    BY <1>1, <2>1, <2>2, <2>3, SendStep
<1>5. CASE SendSessionDone
  <2>1. SessionDone \in Message /\ SessionDone.t # "COMPLETE"
    BY DEF SessionDone, Msg, Message, FrameType, Content
  <2>2. <<SessionDone>> \in Seq(Message)
        /\ \A i \in 1..Len(<<SessionDone>>) : <<SessionDone>>[i].t # "COMPLETE"
    BY <2>1
  <2>3. SenderCloses(<<SessionDone>>) /\ src' = src
    BY <1>5 DEF SendSessionDone
  <2> QED
    BY <1>1, <2>2, <2>3, SenderCloseStep
<1>6. CASE SenderAborts
  <2>1. <<ErrorFrame>> \in Seq(Message)
        /\ \A i \in 1..Len(<<ErrorFrame>>) : <<ErrorFrame>>[i].t # "COMPLETE"
    BY ErrorFrameType DEF ErrorFrame, Msg
  <2>2. SenderCloses(<<ErrorFrame>>) /\ src' = src
    BY <1>6 DEF SenderAborts
  <2> QED
    BY <1>1, <2>1, <2>2, SenderCloseStep
<1>7. CASE \/ StartChunks \/ OfferRefused \/ SendChunkFails \/ EndOfFile \/ FullTakesAck
           \/ FullTakesErr \/ DrainTakesAck \/ DrainTakesErr \/ Drained \/ FileSent
           \/ FileNotSent \/ WriteFails \/ ReadFrame(0)
  <2>1. UNCHANGED <<toR, up, src>> /\ (spc' \in Busy => spc \in Busy /\ cur' = cur)
    BY <1>7 DEF StartChunks, OfferRefused, SendChunkFails, EndOfFile, FullTakesAck, FullTakesErr,
       DrainTakesAck, DrainTakesErr, Drained, FileSent, FileNotSent, WriteFails, ReadFrame,
       Taken, Goto, Busy, wireVars
  <2> QED
    BY <1>1, <2>1, QuietStep
<1> QED
  BY <1>2, <1>3, <1>4, <1>5, <1>6, <1>7 DEF SenderMain

(* The ackReaders, and what may happen to the sender. *)
LEMMA SenderRestFrames ==
  ASSUME TypeInv, WireInv, UNCHANGED receiverVars,
         \/ \E f \in File : AckReader(f) \/ EditFile(f)
         \/ SourceUnreadable \/ SenderKilled
  PROVE  WireInv'
<1>1. rfile' = rfile
  BY DEF receiverVars
<1>2. ASSUME NEW f \in File, AckReader(f) PROVE WireInv'
  <2>1. UNCHANGED <<toR, up, src, spc, cur>>
    BY <1>2 DEF AckReader, ReadFrame, PushAck, PushErr, Push, wireVars
  <2> QED
    BY <1>1, <2>1, QuietStep
<1>3. ASSUME NEW f \in File, EditFile(f) PROVE WireInv'
  <2>1. PICK c \in Versions[f] : src' = [src EXCEPT ![f] = c]
    BY <1>3 DEF EditFile
  <2>2. src \in [File -> Content]
    BY DEF TypeInv, TypeOK, SenderTypeOK
  <2>3. \A g \in File : src'[g] \in Versions[g]
    BY <2>1, <2>2 DEF WireInv
  <2>4. UNCHANGED <<toR, up, spc, cur>>
    BY <1>3 DEF EditFile
  <2> QED
    BY <1>1, <2>3, <2>4 DEF WireInv, Owned, OfferedIn
<1>4. CASE SourceUnreadable
  <2>1. UNCHANGED <<toR, up, src>> /\ spc' \notin Busy
    BY <1>4 DEF SourceUnreadable, Goto, Busy
  <2> QED
    BY <1>1, <2>1, QuietStep
<1>5. CASE SenderKilled
  <2>1. SenderCloses(<<>>) /\ src' = src /\ <<>> \in Seq(Message)
    BY <1>5 DEF SenderKilled
  <2>2. \A i \in 1..Len(<<>>) : <<>>[i].t # "COMPLETE"
    OBVIOUS
  <2> QED
    BY <1>1, <2>1, <2>2, SenderCloseStep
<1> QED
  BY <1>2, <1>3, <1>4, <1>5

(* What may happen to the connection. *)
LEMMA NetworkFrames ==
  ASSUME TypeInv, WireInv, NetworkFault
  PROVE  WireInv'
<1>1. /\ UNCHANGED <<rfile, src, spc, cur>> /\ toR \in Seq(Message) /\ Owned(toR, rfile)
      /\ toR' \in Seq(Message)
  BY NetworkFaultType DEF NetworkFault, senderVars, receiverVars, TypeInv, TypeOK, WireTypeOK,
     WireInv
<1>2. CASE BreakConn
  <2>1. toR' \in Prefixes(toR) /\ up' = FALSE
    BY <1>2 DEF BreakConn
  <2>2. Len(toR') <= Len(toR) /\ \A i \in 1..Len(toR') : toR'[i] = toR[i]
    BY <1>1, <2>1, PrefixType
  <2>3. Owned(toR', rfile)
    BY <1>1, <2>2, OwnedLike
  <2> QED
    BY <1>1, <2>1, <2>3, ClosedStep
<1>3. CASE CorruptChunk
  <2>1. PICK i \in 1..Len(toR) :
          /\ toR[i].t = "DATA"
          /\ toR' = [toR EXCEPT ![i].body = [j \in DOMAIN @ |-> Junk], ![i].ok = FALSE]
    BY <1>3 DEF CorruptChunk
  <2>2. toR[i] \in Message /\ up' = up
    BY <1>1, <1>3 DEF CorruptChunk
  <2>3. /\ Len(toR') = Len(toR)
        /\ \A k \in 1..Len(toR) : k # i => toR'[k] = toR[k]
        /\ toR'[i].t = "DATA" /\ toR'[i].id = toR[i].id
    BY <1>1, <2>1, <2>2 DEF Message
  <2>4. \A k \in 1..Len(toR') : toR'[k].t = toR[k].t /\ toR'[k].id = toR[k].id
    BY <2>1, <2>3
  <2>5. \A k \in 1..Len(toR') : toR'[k].t = "COMPLETE" => k <= Len(toR) /\ toR'[k] = toR[k]
    BY <1>1, <2>3
  <2>6. Owned(toR', rfile)
    BY <1>1, <2>4, <2>5, OwnedLike
  <2>7. up' /\ spc' \in Busy => OfferedIn(toR', rfile, Len(toR') + 1, cur)
    <3>1. up /\ spc \in Busy => OfferedIn(toR, rfile, Len(toR) + 1, cur)
      BY DEF WireInv
    <3>2. \A k \in 1..(Len(toR) + 1 - 1) : toR'[k].t = toR[k].t /\ toR'[k].id = toR[k].id
      BY <1>1, <2>3, <2>4
    <3>3. Len(toR) + 1 \in Nat
      BY <1>1
    <3> QED
      BY <1>1, <2>2, <2>3, <3>1, <3>2, <3>3, OfferedAgree
  <2> QED
    BY <1>1, <2>6, <2>7 DEF WireInv
<1> QED
  BY <1>2, <1>3 DEF NetworkFault

(* The receiver reads a frame. *)
LEMMA ReadStep ==
  ASSUME TypeInv, WireInv, toR # <<>>, toR' = Tail(toR), UNCHANGED <<up, src, spc, cur>>,
         rfile' = IF Head(toR).t = "FILE_OFFER" THEN Head(toR).id ELSE rfile
  PROVE  WireInv'
<1>1. /\ toR \in Seq(Message) /\ Owned(toR, rfile)
      /\ up /\ spc \in Busy => OfferedIn(toR, rfile, Len(toR) + 1, cur)
  BY DEF TypeInv, TypeOK, WireTypeOK, WireInv
<1>2. Len(toR) \in Nat \ {0} /\ Len(Tail(toR)) = Len(toR) - 1
  BY <1>1, QueueType
<1>3. Owned(toR', rfile')
  BY <1>1, OwnedTail
<1>4. up /\ spc \in Busy => OfferedIn(toR', rfile', Len(toR) + 1 - 1, cur)
  <2>1. Len(toR) + 1 \in 2..(Len(toR) + 1)
    BY <1>2
  <2> QED
    BY <1>1, <2>1, OfferedTail
<1>5. Len(toR) + 1 - 1 = Len(toR') + 1
  BY <1>2
<1> QED
  BY <1>3, <1>4, <1>5 DEF WireInv

(* The receiver. *)
LEMMA ReceiverFrames ==
  ASSUME TypeInv, WireInv, ReceiverStep \/ ReceiverFault
  PROVE  WireInv'
<1>1. ReceiverTypeInv /\ UNCHANGED <<src, spc, cur>>
  BY DEF TypeInv, TypeOK, ReceiverTypeInv, ReceiverStep, ReceiverFault, senderVars
<1>2. CASE Returns
  <2>1. toR' = <<>> /\ up' = FALSE
    BY <1>1, <1>2, ReturnsClose DEF ReceiverCloses
  <2> QED
    BY <1>1, <2>1, OwnedEmpty, ClosedStep
<1>3. CASE AcceptOffer \/ DeclineOffer
  BY <1>1, <1>3, ReadStep DEF AcceptOffer, DeclineOffer, Next1, ReadOne
<1>4. CASE ReceiveChunk \/ VerifyOK
  BY <1>1, <1>4, ReadStep DEF ReceiveChunk, VerifyOK, GoodChunk, Next1, ReadOne
<1>5. CASE SyncPart \/ RemoveOld \/ RenamePart
  <2>1. UNCHANGED <<toR, up, rfile>>
    BY <1>5 DEF SyncPart, RemoveOld, RenamePart, wireVars
  <2> QED
    BY <1>1, <2>1, QuietStep
<1> QED
  BY <1>2, <1>3, <1>4, <1>5 DEF ReceiverStep, ReceiverMain, ReceiverFault, ReceiverFaults, Returns

(* All together. *)
LEMMA NextFrames ==
  ASSUME TypeInv, WireInv, [Next]_vars
  PROVE  WireInv'
<1>1. CASE SenderStep \/ SenderFault
  BY <1>1, SenderMainFrames, SenderRestFrames DEF SenderStep, SenderFault
<1>2. CASE ReceiverStep \/ ReceiverFault
  BY <1>2, ReceiverFrames
<1>3. CASE NetworkFault
  BY <1>3, NetworkFrames
<1>4. CASE NewSession
  <2>1. toR' = <<>> /\ src' = src /\ spc' \notin Busy
    BY <1>4 DEF NewSession, SenderRestarts, Busy
  <2> QED
    BY <2>1, OwnedEmpty DEF WireInv
<1>5. CASE UNCHANGED vars
  <2>1. UNCHANGED <<toR, up, rfile, src, spc, cur>>
    BY <1>5 DEF vars, wireVars, senderVars, receiverVars
  <2> QED
    BY <2>1, QuietStep
<1> QED
  BY <1>1, <1>2, <1>3, <1>4, <1>5 DEF Next
-----------------------------------------------------------------------------
(* The disk. *)

DiskInv == PromotedIsVersion /\ SyncedOnDisk /\ DestIntegrity

(* The disk changes only while Receive runs, or in a crash. *)
LEMMA RestOfDisk ==
  ASSUME DiskInv, UNCHANGED <<part, dest>>,
         (rpc' = rpc /\ rfile' = rfile) \/ rpc' \in {"idle", "recv", "done", "ended"}
  PROVE  DiskInv'
BY DEF DiskInv, PromotedIsVersion, SyncedOnDisk, DestIntegrity, rname

(* A version of a file counts under its own name. *)
LEMMA VersionsByName ==
  ASSUME NEW f \in File
  PROVE  Versions[f] \subseteq VersionsOf(NameOf[f])
BY DEF VersionsOf

(* A crash takes nothing from a file that was synced. *)
LEMMA SyncedSurvives ==
  ASSUME NEW x \in DiskFile \cup {NoFile}, NEW y \in AfterCrash(x),
         x # NoFile => x.synced
  PROVE  y = x
<1>1. CASE x = NoFile
  BY <1>1 DEF AfterCrash
<1>2. CASE x # NoFile
  <2>1. x \in DiskFile /\ x.synced = TRUE
    BY <1>2 DEF DiskFile
  <2>2. OnDisk(x.data, TRUE) = x
    BY <2>1 DEF OnDisk, DiskFile
  <2> QED
    BY <1>2, <2>1, <2>2 DEF AfterCrash
<1> QED
  BY <1>1, <1>2

(* A receiver that returns leaves the final files as they are. *)
LEMMA ReturnsKeepDest ==
  ASSUME TypeInv, DiskInv, Returns
  PROVE  dest' = dest
<1>1. CASE ReceiverCrashes
  <2>1. PICK n \in Name :
          \E p \in AfterCrash(part[n]), d \in AfterCrash(dest[n]) :
             part' = [part EXCEPT ![n] = p] /\ dest' = [dest EXCEPT ![n] = d]
    BY <1>1 DEF ReceiverCrashes
  <2>2. PICK d \in AfterCrash(dest[n]) : dest' = [dest EXCEPT ![n] = d]
    BY <2>1
  <2>3. dest \in [Name -> DiskFile \cup {NoFile}]
    BY DEF TypeInv, TypeOK, ReceiverTypeOK
  <2>4. dest[n] # NoFile => dest[n].synced
    BY DEF DiskInv, SyncedOnDisk
  <2>5. d = dest[n]
    BY <2>2, <2>3, <2>4, SyncedSurvives
  <2> QED
    BY <2>2, <2>3, <2>5
<1>2. CASE ~ReceiverCrashes
  BY <1>2 DEF Returns, OfferFails, OfferUnanswered, ReceiveSessionDone, SessionFails, AckFails,
     RejectChunk, ShortWrite, ReadError, Mismatch, VerifyFails, DiskFails, disk
<1> QED
  BY <1>1, <1>2

(* The receiver, one step per action that touches what DiskInv speaks of. *)
LEMMA ReceiverDisk ==
  ASSUME TypeInv, WireInv, DiskInv, ReceiverStep \/ ReceiverFault
  PROVE  DiskInv'
<1>1. /\ part \in [Name -> DiskFile \cup {NoFile}] /\ dest \in [Name -> DiskFile \cup {NoFile}]
      /\ toR \in Seq(Message)
      /\ PromotedIsVersion /\ SyncedOnDisk /\ DestIntegrity
  BY DEF TypeInv, TypeOK, WireTypeOK, ReceiverTypeOK, DiskInv
<1>2. rpc \in {"recv", "verify", "remove", "rename"} =>
        rfile \in File /\ rname \in Name /\ part[rname] # NoFile
  BY NameAssumption DEF TypeInv, PartOpen, rname
<1>3. CASE Returns
  <2>1. dest' = dest
    BY <1>3, ReturnsKeepDest
  <2>2. rpc' \in {"done", "ended"}
    BY <1>3 DEF Returns, OfferFails, OfferUnanswered, ReceiveSessionDone, SessionFails,
       AckFails, RejectChunk, ShortWrite, ReadError, Mismatch, VerifyFails, DiskFails, ReceiverCrashes, EndWith,
       ReceiverOver
  <2> QED
    BY <1>1, <2>1, <2>2 DEF DiskInv, PromotedIsVersion, SyncedOnDisk, DestIntegrity
<1>4. CASE AcceptOffer \/ DeclineOffer \/ ReceiveChunk
  <2>1. dest' = dest /\ rpc' \in {"idle", "recv"}
    BY <1>4 DEF AcceptOffer, DeclineOffer, ReceiveChunk, Wanting, disk
  <2> QED
    BY <1>1, <2>1 DEF DiskInv, PromotedIsVersion, SyncedOnDisk, DestIntegrity
<1>5. CASE SyncPart
  <2>1. /\ rpc = "recv" /\ rpc' = "verify" /\ rfile' = rfile /\ dest' = dest
        /\ part' = [part EXCEPT ![rname] = Synced(part[rname])]
    BY <1>5 DEF SyncPart
  <2>2. rname' = rname /\ part'[rname].synced
    BY <1>1, <1>2, <2>1 DEF rname, Synced, OnDisk
  <2> QED
    BY <1>1, <2>1, <2>2 DEF DiskInv, PromotedIsVersion, SyncedOnDisk, DestIntegrity
<1>6. CASE VerifyOK
  <2>1. /\ rpc = "verify" /\ rpc' = "remove" /\ UNCHANGED <<rfile, part, dest>>
        /\ toR # <<>> /\ Head(toR).t = "COMPLETE" /\ part[rname].data = Head(toR).body
    BY <1>6 DEF VerifyOK, Next1, HashAgrees, disk
  <2>2. Head(toR) = toR[1] /\ 1 \in 1..Len(toR)
    BY <1>1, <2>1, QueueType
  <2>3. toR[1].id \in File /\ toR[1].body \in Versions[toR[1].id] /\ rfile = toR[1].id
    <3>1. OfferedIn(toR, rfile, 1, toR[1].id) => rfile = toR[1].id
      BY DEF OfferedIn
    <3> QED
      BY <2>1, <2>2, <3>1 DEF WireInv, Owned
  <2>4. part[rname].data \in Versions[rfile] /\ rname' = rname
    BY <2>1, <2>2, <2>3 DEF rname
  <2> QED
    BY <1>1, <2>1, <2>4 DEF DiskInv, PromotedIsVersion, SyncedOnDisk, DestIntegrity
<1>7. CASE RemoveOld
  <2>1. /\ rpc = "remove" /\ rpc' = "rename" /\ UNCHANGED <<rfile, part>>
        /\ \E old \in {NoFile, dest[rname]} : dest' = [dest EXCEPT ![rname] = old]
    BY <1>7 DEF RemoveOld
  <2>2. \A n \in Name : dest'[n] = dest[n] \/ dest'[n] = NoFile
    BY <1>1, <2>1
  <2>3. rname' = rname
    BY <2>1 DEF rname
  <2> QED
    BY <1>1, <2>1, <2>2, <2>3 DEF DiskInv, PromotedIsVersion, SyncedOnDisk, DestIntegrity
<1>8. CASE RenamePart
  <2>1. /\ rpc = "rename" /\ rpc' = "idle"
        /\ dest' = [dest EXCEPT ![rname] = part[rname]]
    BY <1>8 DEF RenamePart
  <2>2. /\ part[rname].synced /\ part[rname].data \in VersionsOf(rname)
    BY <1>1, <1>2, <2>1, VersionsByName DEF PromotedIsVersion, SyncedOnDisk, rname
  <2>3. \A n \in Name : dest'[n] = IF n = rname THEN part[rname] ELSE dest[n]
    BY <1>1, <2>1
  <2>4. SyncedOnDisk'
    BY <1>1, <2>1, <2>2, <2>3 DEF SyncedOnDisk
  <2>5. DestIntegrity'
    BY <1>1, <2>2, <2>3 DEF DestIntegrity, VersionsOf
  <2> QED
    BY <2>1, <2>4, <2>5 DEF DiskInv, PromotedIsVersion
<1> QED
  BY <1>3, <1>4, <1>5, <1>6, <1>7, <1>8
     DEF ReceiverStep, ReceiverMain, ReceiverFault, ReceiverFaults, Returns

(* All together. *)
LEMMA NextDisk ==
  ASSUME TypeInv, WireInv, DiskInv, [Next]_vars
  PROVE  DiskInv'
<1>1. CASE ReceiverStep \/ ReceiverFault
  BY <1>1, ReceiverDisk
<1>2. CASE SenderStep \/ SenderFault \/ NetworkFault \/ UNCHANGED vars
  <2>1. UNCHANGED <<part, dest, rpc, rfile>>
    BY <1>2 DEF SenderStep, SenderFault, NetworkFault, vars, receiverVars
  <2> QED
    BY <2>1, RestOfDisk
<1>3. CASE NewSession
  <2>1. UNCHANGED <<part, dest>> /\ rpc' = "idle"
    BY <1>3 DEF NewSession, ReceiverRestarts, disk
  <2> QED
    BY <2>1, RestOfDisk
<1> QED
  BY <1>1, <1>2, <1>3 DEF Next
-----------------------------------------------------------------------------
(* The program starts in a state of the invariant. *)
LEMMA InitIntegrity == Init => IntegrityInv
<1> SUFFICES ASSUME Init PROVE IntegrityInv
  OBVIOUS
<1>1. TypeInv
  BY InitTypeInv
<1>2. toR = <<>> /\ spc \notin Busy /\ \A f \in File : src[f] \in Versions[f]
  BY DEF Init, WireInit, SenderInit, SenderStart, Busy
<1>3. WireInv
  BY <1>2, OwnedEmpty DEF WireInv
<1>4. rpc = "idle" /\ \A n \in Name : dest[n] = NoFile
  BY DEF Init, ReceiverInit, ReceiverStart
<1>5. DiskInv
  BY <1>4 DEF DiskInv, PromotedIsVersion, SyncedOnDisk, DestIntegrity
<1> QED
  BY <1>1, <1>3, <1>5, WireInvMeans DEF IntegrityInv, DiskInv

(* IntegrityInv is inductive: the hash in a COMPLETE is that of a version of *)
(* the file it will be compared with, and nothing touches a partial file     *)
(* between the comparison and the rename.                                    *)
THEOREM IntegrityIsInvariant == Spec => []IntegrityInv
<1>1. Init => IntegrityInv
  BY InitIntegrity
<1>2. IntegrityInv /\ [Next]_vars => IntegrityInv'
  <2> SUFFICES ASSUME IntegrityInv, [Next]_vars PROVE IntegrityInv'
    OBVIOUS
  <2>1. TypeInv /\ WireInv /\ DiskInv
    BY WireInvMeans DEF IntegrityInv, DiskInv
  <2>2. TypeInv' /\ WireInv' /\ DiskInv'
    BY <2>1, NextTypeInv, NextFrames, NextDisk
  <2> QED
    BY <2>2 DEF IntegrityInv, DiskInv, WireInv, Owned, FramesOwned, HashesOfVersions
<1> QED
  BY <1>1, <1>2, PTL DEF Spec

(* A file under its final name is one complete version of a file offered by *)
(* that name, for any number of files, sessions and faults and however many *)
(* files share the name.                                                    *)
THEOREM DestIsIntact == Spec => []DestIntegrity
<1>1. IntegrityInv => DestIntegrity
  BY DEF IntegrityInv
<1> QED
  BY <1>1, IntegrityIsInvariant, PTL
=============================================================================
