------------------------- MODULE GTPTransferProofs -------------------------
(***************************************************************************)
(* Proofs about GTPTransfer for every number of files, window, chunk size, *)
(* queue length, fault budget and number of sessions.                      *)
(***************************************************************************)
EXTENDS GTPTransfer, SequenceTheorems, TLAPS

-----------------------------------------------------------------------------
(* Queues and frames. *)

(* Every frame the code builds has the shape of a message. *)
LEMMA MessageType ==
  ASSUME NEW t \in FrameType, NEW id \in Nat, NEW num \in Nat, NEW body \in Content,
         NEW ok \in BOOLEAN
  PROVE  Msg(t, id, num, body, ok) \in Message
BY DEF Msg, Message

(* So has the frame a reader holds before it has read one. *)
LEMMA ErrorFrameType == ErrorFrame \in Message
BY DEF ErrorFrame, Msg, Message, FrameType, Content

(* A prefix is a shorter queue that agrees with the queue where it goes. *)
LEMMA PrefixType ==
  ASSUME NEW S, NEW q \in Seq(S), NEW p \in Prefixes(q)
  PROVE  /\ p \in Seq(S)
         /\ Len(p) <= Len(q)
         /\ \A i \in 1..Len(p) : p[i] = q[i]
BY DEF Prefixes

(* So is what a Close lets through. *)
LEMMA SurvivesType ==
  ASSUME NEW S, NEW q \in Seq(S), NEW u, NEW p \in Survives(q, u)
  PROVE  /\ p \in Seq(S)
         /\ Len(p) <= Len(q)
         /\ \A i \in 1..Len(p) : p[i] = q[i]
BY PrefixType DEF Survives

(* A frame on the stream is its header and its payload. *)
LEMMA PiecesType ==
  ASSUME NEW m \in Message
  PROVE  Pieces(m) \in Seq(Piece)
BY DEF Pieces, Piece

(* Writing to the sender leaves a stream. *)
LEMMA DeliveredType ==
  ASSUME NEW m \in Message, toS \in Seq(Piece)
  PROVE  Delivered(m) \in Seq(Piece)
BY PiecesType DEF Delivered

(* So does reading nine bytes of it. *)
LEMMA NibbleType ==
  ASSUME NEW s \in Seq(Piece), s # <<>>
  PROVE  Nibble(s) \in Seq(Piece)
<1> DEFINE rest == [s[1] EXCEPT !.part = "rest"]
<1>1. s[1] \in Piece /\ 1 \in 1..Len(s)
  OBVIOUS
<1>2. rest \in Piece
  BY <1>1 DEF Piece
<1>3. [s EXCEPT ![1] = rest] \in Seq(Piece)
  BY <1>1, <1>2, ExceptSeq
<1>4. [s EXCEPT ![1].part = "rest"] = [s EXCEPT ![1] = rest]
  OBVIOUS
<1>5. Tail(s) \in Seq(Piece)
  OBVIOUS
<1> QED
  BY <1>3, <1>4, <1>5 DEF Nibble

(* One frame more, or one less, keeps a queue a queue. *)
LEMMA QueueType ==
  ASSUME NEW S, NEW q \in Seq(S)
  PROVE  /\ \A m \in S : /\ Append(q, m) \in Seq(S)
                         /\ Len(Append(q, m)) = Len(q) + 1
                         /\ Append(q, m)[Len(q) + 1] = m
                         /\ \A i \in 1..Len(q) : Append(q, m)[i] = q[i]
         /\ q # <<>> => /\ Head(q) \in S
                        /\ Head(q) = q[1]
                        /\ Len(q) \in Nat \ {0}
                        /\ Tail(q) \in Seq(S)
                        /\ Len(Tail(q)) = Len(q) - 1
                        /\ \A i \in 1..(Len(q) - 1) : Tail(q)[i] = q[i + 1]
OBVIOUS
-----------------------------------------------------------------------------
(* Type correctness: the steps of the sender. *)

SenderTypeInv == WireTypeOK /\ SenderTypeOK /\ SenderBusy /\ OffersNamed

(* ReadFrame moves pieces from the stream to a reader. *)
LEMMA ReadFrameType ==
  ASSUME SenderTypeInv, NEW r \in Reader, ReadFrame(r)
  PROVE  SenderTypeInv'
<1>1. toS \in Seq(Piece) /\ rd \in [Reader -> ReaderState]
  BY DEF SenderTypeInv, WireTypeOK, SenderTypeOK
<1>2. toS # <<>> => /\ Head(toS) \in Piece /\ Tail(toS) \in Seq(Piece)
                    /\ Nibble(toS) \in Seq(Piece)
  BY <1>1, QueueType, NibbleType
<1>3. \A m \in Message : Garbled(m) \in Message
  BY DEF Garbled, Msg, Message, Content
<1>4. \A a \in {"off", "got", "err", "report"} \cup Reading, m \in Message :
        [at |-> a, frame |-> m] \in ReaderState
  BY DEF ReaderState
<1>5. toS' \in Seq(Piece) /\ rd' \in [Reader -> ReaderState]
  <2>1. CASE ReadHeader(r)
    BY <1>1, <1>2, <1>4, <2>1 DEF ReadHeader, Piece, Reading
  <2>2. CASE BadMagic(r)
    BY <1>1, <1>2, <2>2 DEF BadMagic, ReaderState
  <2>3. CASE ReadPayload(r)
    BY <1>1, <1>2, <2>3 DEF ReadPayload, ReaderState
  <2>4. CASE ReadRest(r)
    BY <1>1, <1>2, <2>4 DEF ReadRest, ReaderState, Reading
  <2>5. CASE ReadFill(r)
    <3>1. rd[r].frame \in Message
      BY <1>1 DEF ReaderState
    <3> QED
      BY <1>1, <1>2, <1>3, <1>4, <2>5, <3>1 DEF ReadFill
  <2>6. CASE ReadFails(r)
    BY <1>1, <2>6 DEF ReadFails, ReaderState
  <2> QED
    BY <2>1, <2>2, <2>3, <2>4, <2>5, <2>6 DEF ReadFrame
<1> QED
  BY <1>5 DEF SenderTypeInv, WireTypeOK, SenderTypeOK, SenderBusy, OffersNamed, ReadFrame

(* An ackReader only touches its own state and its own channel. *)
LEMMA AckReaderType ==
  ASSUME SenderTypeInv, NEW r \in File, PushAck(r) \/ PushErr(r)
  PROVE  SenderTypeInv'
<1>1. /\ rd \in [Reader -> ReaderState] /\ ackCh \in [File -> Seq({"ack", "err"})]
      /\ r \in Reader
  BY WireAssumption DEF SenderTypeInv, SenderTypeOK, Reader, File
<1>2. /\ NoReader \in ReaderState
      /\ [at |-> "header", frame |-> ErrorFrame] \in ReaderState
  BY ErrorFrameType DEF NoReader, ReaderState, Reading
<1>3. \A w \in {"ack", "err"} : Append(ackCh[r], w) \in Seq({"ack", "err"})
  BY <1>1
<1>4. ackCh' \in [File -> Seq({"ack", "err"})]
  BY <1>1, <1>3 DEF PushAck, PushErr, Push
<1>5. rd' \in [Reader -> ReaderState]
  <2>1. [rd[r] EXCEPT !.at = "report"] \in ReaderState
    BY <1>1 DEF ReaderState
  <2>2. \A x \in ReaderState : [rd EXCEPT ![r] = x] \in [Reader -> ReaderState]
    BY <1>1
  <2>3. CASE PushAck(r) /\ rd[r].frame.ok
    BY <1>2, <2>2, <2>3 DEF PushAck, StartReading
  <2>4. CASE PushAck(r) /\ ~rd[r].frame.ok
    <3>1. rd' = [rd EXCEPT ![r] = [rd[r] EXCEPT !.at = "report"]]
      BY <2>4 DEF PushAck
    <3> QED
      BY <2>1, <2>2, <3>1
  <2>5. CASE PushErr(r)
    BY <1>2, <2>2, <2>5 DEF PushErr
  <2> QED
    BY <2>3, <2>4, <2>5
<1> QED
  BY <1>4, <1>5 DEF SenderTypeInv, WireTypeOK, SenderTypeOK, SenderBusy, OffersNamed, PushAck,
     PushErr, Push, wireVars

(* What is written to the receiver is a frame, and an offer names a file. *)
LEMMA SendType ==
  ASSUME WireTypeOK, OffersNamed, NEW m \in Message, SendToReceiver(m),
         m.t = "FILE_OFFER" => m.id \in File
  PROVE  WireTypeOK' /\ OffersNamed'
<1>1. CASE toR' = Append(toR, m)
  <2>1. toR' \in Seq(Message)
    BY <1>1, QueueType DEF WireTypeOK
  <2>2. \A i \in 1..Len(toR') : \/ i \in 1..Len(toR) /\ toR'[i] = toR[i]
                                \/ toR'[i] = m
    BY <1>1, QueueType DEF WireTypeOK
  <2> QED
    BY <2>1, <2>2 DEF WireTypeOK, OffersNamed, SendToReceiver
<1>2. CASE toR' = toR
  BY <1>2 DEF WireTypeOK, OffersNamed, SendToReceiver
<1> QED
  BY <1>1, <1>2 DEF SendToReceiver

(* A Close leaves a beginning of what was sent, the last frame included. *)
LEMMA SenderClosesType ==
  ASSUME WireTypeOK, OffersNamed, NEW last \in Seq(Message), SenderCloses(last),
         \A i \in 1..Len(last) : last[i].t # "FILE_OFFER", faults' \in 0..MaxFaults
  PROVE  WireTypeOK' /\ OffersNamed'
<1> DEFINE q == IF up THEN toR \o last ELSE toR
<1>1. q \in Seq(Message)
  BY DEF WireTypeOK
<1>2. \A i \in 1..Len(q) : q[i].t = "FILE_OFFER" => q[i].id \in File
  BY DEF WireTypeOK, OffersNamed
<1>3. toR' \in Survives(q, toS) /\ toS' = <<>> /\ up' = FALSE
  BY DEF SenderCloses
<1> HIDE DEF q
<1>4. /\ toR' \in Seq(Message) /\ Len(toR') <= Len(q)
      /\ \A i \in 1..Len(toR') : toR'[i] = q[i]
  BY <1>1, <1>3, SurvivesType
<1>5. OffersNamed'
  BY <1>1, <1>2, <1>4 DEF OffersNamed
<1>6. toS' \in Seq(Piece)
  BY <1>3
<1> QED
  BY <1>3, <1>4, <1>5, <1>6 DEF WireTypeOK

(* Chunk numbers into byte counts and back. *)
LEMMA ProductType ==
  ASSUME NEW a \in Nat, NEW b \in Nat
  PROVE  a * b \in Nat
OBVIOUS

(* See ProductType. *)
LEMMA QuotientType ==
  ASSUME NEW a \in Nat, NEW b \in Nat \ {0}
  PROVE  a \div b \in Nat
OBVIOUS

(* The next chunk is read from the file at the file position. *)
LEMMA NextChunkType ==
  ASSUME SenderTypeOK, cur \in File
  PROVE  NextChunk \in Content /\ Len(src[cur]) \in Nat
<1>1. src[cur] \in Seq(Unit)
  BY DEF SenderTypeOK, Content
<1>2. /\ Len(src[cur]) \in Nat /\ off + 1 \in Nat \ {0}
      /\ Least(off + ChunkSize, Len(src[cur])) \in Int
      /\ Least(off + ChunkSize, Len(src[cur])) <= Len(src[cur])
  BY <1>1, WireAssumption DEF SenderTypeOK, Least
<1>3. SubSeq(src[cur], off + 1, Least(off + ChunkSize, Len(src[cur]))) \in Seq(Unit)
  BY <1>1, <1>2, SubSeqProperties
<1> QED
  BY <1>2, <1>3 DEF NextChunk, Content

(* The main goroutine, one step per action. *)
LEMMA SenderMainType ==
  ASSUME SenderTypeInv, SenderMain
  PROVE  SenderTypeInv'
<1> USE DEF SenderTypeInv
<1>1. /\ WireTypeOK /\ SenderTypeOK /\ SenderBusy /\ OffersNamed
      /\ rd \in [Reader -> ReaderState]
      /\ 0 \in Reader /\ File \subseteq Reader /\ File \subseteq Nat
  BY WireAssumption DEF SenderTypeOK, Reader, File
<1>2. /\ NoReader \in ReaderState
      /\ [at |-> "header", frame |-> ErrorFrame] \in ReaderState
      /\ [NoReader EXCEPT !.at = "header"] \in ReaderState
  BY ErrorFrameType DEF NoReader, ReaderState, Reading
<1>3. \A r \in Reader, x \in ReaderState : [rd EXCEPT ![r] = x] \in [Reader -> ReaderState]
  BY <1>1
<1>4. rd[0].frame \in Message
  BY <1>1 DEF ReaderState
<1> DEFINE Numbers == /\ off \in Nat /\ idx \in Nat /\ inFlight \in Nat /\ ackErr \in BOOLEAN
                      /\ src \in [File -> Content] /\ cur \in 1..(NFiles + 1)
                      /\ ackCh \in [File -> Seq({"ack", "err"})]
<1>5. Numbers
  BY DEF SenderTypeOK
<1>6. CASE SendOffer
  <2>1. cur \in File /\ Len(src[cur]) \in Nat
    BY <1>6, NextChunkType DEF SendOffer
  <2>2. FileOffer(cur, Len(src[cur])) \in Message /\ FileOffer(cur, Len(src[cur])).id = cur
    BY <2>1, <1>1 DEF FileOffer, Msg, Message, FrameType, Content
  <2>3. WireTypeOK' /\ OffersNamed'
    BY <1>1, <1>6, <2>1, <2>2, SendType DEF SendOffer
  <2>4. rd' \in [Reader -> ReaderState]
    BY <1>1, <1>2, <1>3, <1>6 DEF SendOffer, StartReading
  <2> QED
    BY <1>5, <1>6, <2>1, <2>3, <2>4 DEF SendOffer, SenderTypeOK, SenderBusy, Goto, SenderPC
<1>7. CASE SendSessionDone
  <2>1. SessionDone \in Message /\ SessionDone.t # "FILE_OFFER"
    BY DEF SessionDone, Msg, Message, FrameType, Content
  <2>2. <<SessionDone>> \in Seq(Message)
        /\ \A i \in 1..Len(<<SessionDone>>) : <<SessionDone>>[i].t # "FILE_OFFER"
    BY <2>1
  <2>3. faults' \in 0..MaxFaults
    BY <1>1, <1>7 DEF SendSessionDone, WireTypeOK
  <2>4. WireTypeOK' /\ OffersNamed'
    BY <1>1, <1>7, <2>2, <2>3, SenderClosesType DEF SendSessionDone
  <2> QED
    BY <1>1, <1>5, <1>7, <2>4 DEF SendSessionDone, SenderTypeOK, SenderBusy, Goto, SenderPC, Busy
<1>8. CASE StartChunks
  <2>1. rd[0].frame.num \in Nat
    BY <1>4 DEF Message
  <2>2. cur \in File
    BY <1>1, <1>8 DEF StartChunks, SenderBusy, Busy
  <2>3. rd' \in [Reader -> ReaderState]
    BY <1>1, <1>2, <1>3, <1>8, <2>2 DEF StartChunks
  <2>4. idx' \in Nat /\ off' \in Nat /\ inFlight' \in Nat /\ ackErr' \in BOOLEAN
    <3>1. rd[0].frame.num * ChunkSize \in Nat
      BY <2>1, WireAssumption, ProductType
    <3> QED
      BY <1>8, <2>1, <3>1 DEF StartChunks, FirstChunk
  <2>5. WireTypeOK' /\ OffersNamed'
    BY <1>1, <1>8 DEF StartChunks, wireVars, WireTypeOK, OffersNamed
  <2> QED
    BY <1>5, <1>8, <2>2, <2>3, <2>4, <2>5 DEF StartChunks, SenderTypeOK, SenderBusy, Goto,
       SenderPC
<1>9. CASE OfferRefused \/ FileNotSent
  <2>1. rd' \in [Reader -> ReaderState]
    BY <1>1, <1>2, <1>3, <1>9 DEF OfferRefused, FileNotSent
  <2> QED
    BY <1>1, <1>5, <1>9, <2>1 DEF OfferRefused, FileNotSent, SenderTypeOK, SenderBusy, Goto,
       SenderPC, Busy, wireVars, WireTypeOK, OffersNamed
<1>10. CASE SendChunk
  <2>1. cur \in File
    BY <1>1, <1>10 DEF SendChunk, SenderBusy, Busy
  <2>2. NextChunk \in Content /\ Len(NextChunk) \in Nat
    BY <1>1, <2>1, NextChunkType DEF Content
  <2>3. Data(cur, idx, NextChunk) \in Message /\ Data(cur, idx, NextChunk).t # "FILE_OFFER"
    BY <1>1, <1>5, <2>1, <2>2, MessageType DEF Data, FrameType, Msg
  <2>4. WireTypeOK' /\ OffersNamed'
    BY <1>1, <1>10, <2>3, SendType DEF SendChunk
  <2>5. off' \in Nat /\ idx' \in Nat /\ inFlight' \in Nat \ {0}
    BY <1>5, <1>10, <2>2 DEF SendChunk
  <2> QED
    BY <1>1, <1>5, <1>10, <2>1, <2>4, <2>5 DEF SendChunk, SenderTypeOK, SenderBusy, Goto, SenderPC
<1>11. CASE SendChunkFails \/ EndOfFile \/ WriteFails \/ Drained
  BY <1>1, <1>5, <1>11 DEF SendChunkFails, EndOfFile, WriteFails, Drained, SenderTypeOK,
     SenderBusy,
     Goto, SenderPC, Busy, wireVars, WireTypeOK, OffersNamed
<1>12. ASSUME NEW w \in {"ack", "err"}, Taken(w), cur \in File
       PROVE  /\ ackCh' \in [File -> Seq({"ack", "err"})]
              /\ WireTypeOK' /\ OffersNamed'
  <2>1. ackCh[cur] \in Seq({"ack", "err"}) /\ ackCh[cur] # <<>>
    BY <1>5, <1>12 DEF Taken
  <2>2. Tail(ackCh[cur]) \in Seq({"ack", "err"})
    BY <2>1
  <2> QED
    BY <1>1, <1>5, <1>12, <2>2 DEF Taken, wireVars, WireTypeOK, OffersNamed
<1>13. CASE FullTakesAck \/ DrainTakesAck
  <2>1. cur \in File /\ inFlight > 0 /\ Taken("ack")
    BY <1>1, <1>5, <1>13 DEF FullTakesAck, DrainTakesAck, SenderBusy, Busy, AllAcked
  <2>2. inFlight' \in Nat
    BY <1>5, <1>13, <2>1 DEF FullTakesAck, DrainTakesAck, AfterAck
  <2>3. spc' \in {"full", "pump", "drain"} /\ spc' = "full" => inFlight' > 0
    BY <1>13, <2>2, WireAssumption DEF FullTakesAck, DrainTakesAck, Goto, WindowFull
  <2>4. spc' \in {"full", "pump", "drain"}
    BY <1>13 DEF FullTakesAck, DrainTakesAck, Goto
  <2>5. ackErr' = ackErr
    BY <1>13 DEF FullTakesAck, DrainTakesAck
  <2> QED
    BY <1>1, <1>5, <1>12, <2>1, <2>2, <2>3, <2>4, <2>5 DEF Taken, SenderTypeOK, SenderBusy,
       SenderPC
<1>14. CASE FullTakesErr \/ DrainTakesErr
  <2>1. cur \in File /\ Taken("err")
    BY <1>1, <1>14 DEF FullTakesErr, DrainTakesErr, SenderBusy, Busy
  <2> QED
    BY <1>1, <1>5, <1>12, <1>14, <2>1 DEF Taken, FullTakesErr, DrainTakesErr, SenderTypeOK,
       SenderBusy, SenderPC, Goto, Busy
<1>15. CASE SendComplete
  <2>1. cur \in File /\ src[cur] \in Content
    BY <1>1, <1>5, <1>15 DEF SendComplete, SenderBusy, Busy
  <2>2. Complete(cur, src[cur]) \in Message /\ Complete(cur, src[cur]).t # "FILE_OFFER"
    BY <1>1, <2>1, MessageType DEF Complete, FrameType, Msg
  <2>3. WireTypeOK' /\ OffersNamed'
    BY <1>1, <1>15, <2>2, SendType DEF SendComplete
  <2>4. rd' \in [Reader -> ReaderState]
    BY <1>1, <1>2, <1>3, <1>15 DEF SendComplete, StartReading
  <2> QED
    BY <1>1, <1>5, <1>15, <2>1, <2>3, <2>4 DEF SendComplete, SenderTypeOK, SenderBusy, Goto,
       SenderPC
<1>16. CASE FileSent
  <2>1. cur \in File /\ cur + 1 \in 1..(NFiles + 1)
    BY <1>1, <1>16, WireAssumption DEF FileSent, SenderBusy, Busy, File
  <2>2. rd' \in [Reader -> ReaderState]
    BY <1>1, <1>2, <1>3, <1>16 DEF FileSent
  <2> QED
    BY <1>1, <1>5, <1>16, <2>1, <2>2 DEF FileSent, SenderTypeOK, SenderBusy, Goto, SenderPC, Busy,
       wireVars, WireTypeOK, OffersNamed
<1>17. CASE SenderAborts
  <2>1. <<ErrorFrame>> \in Seq(Message)
        /\ \A i \in 1..Len(<<ErrorFrame>>) : <<ErrorFrame>>[i].t # "FILE_OFFER"
    BY ErrorFrameType DEF ErrorFrame, Msg
  <2>2. faults' \in 0..MaxFaults
    BY <1>1, <1>17 DEF SenderAborts, WireTypeOK
  <2>3. WireTypeOK' /\ OffersNamed'
    BY <1>1, <1>17, <2>1, <2>2, SenderClosesType DEF SenderAborts
  <2> QED
    BY <1>1, <1>5, <1>17, <2>3 DEF SenderAborts, SenderTypeOK, SenderBusy, Goto, SenderPC, Busy
<1>18. CASE ReadFrame(0)
  BY <1>1, <1>18, ReadFrameType
<1> QED
  BY <1>6, <1>7, <1>8, <1>9, <1>10, <1>11, <1>13, <1>14, <1>15, <1>16, <1>17, <1>18
     DEF SenderMain

(* What may happen to the sender. *)
LEMMA SenderFaultType ==
  ASSUME SenderTypeInv, SenderKilled \/ SourceUnreadable \/ \E f \in File : EditFile(f)
  PROVE  SenderTypeInv'
<1> USE DEF SenderTypeInv
<1>1. faults' \in 0..MaxFaults
  BY WireAssumption DEF SenderKilled, SourceUnreadable, EditFile, Spend, WireTypeOK
<1>2. NoReader \in ReaderState /\ 0 \in Reader
  BY ErrorFrameType, WireAssumption DEF NoReader, ReaderState, Reader
<1>3. CASE SenderKilled
  <2>1. WireTypeOK' /\ OffersNamed'
    <3>1. <<>> \in Seq(Message) /\ \A i \in 1..Len(<<>>) : <<>>[i].t # "FILE_OFFER"
      OBVIOUS
    <3> QED
      BY <1>1, <1>3, <3>1, SenderClosesType DEF SenderKilled
  <2>2. rd' \in [Reader -> ReaderState]
    BY <1>2, <1>3 DEF SenderKilled
  <2> QED
    BY <1>3, <2>1, <2>2 DEF SenderKilled, SenderTypeOK, SenderBusy, Goto, SenderPC, Busy
<1>4. CASE SourceUnreadable
  <2>1. rd' \in [Reader -> ReaderState]
    BY <1>2, <1>4 DEF SourceUnreadable, SenderTypeOK
  <2> QED
    BY <1>1, <1>4, <2>1 DEF SourceUnreadable, SenderTypeOK, SenderBusy, Goto, SenderPC, Busy,
       WireTypeOK, OffersNamed
<1>5. ASSUME NEW f \in File, EditFile(f) PROVE SenderTypeInv'
  <2>1. src' \in [File -> Content]
    BY <1>5, VersionsAssumption DEF EditFile, SenderTypeOK
  <2> QED
    BY <1>1, <1>5, <2>1 DEF EditFile, SenderTypeOK, SenderBusy, WireTypeOK, OffersNamed
<1> QED
  BY <1>3, <1>4, <1>5

(* What may happen to the connection. *)
LEMMA NetworkFaultType ==
  ASSUME WireTypeOK, OffersNamed, BreakConn \/ CorruptChunk
  PROVE  WireTypeOK' /\ OffersNamed'
<1>1. faults' \in 0..MaxFaults
  BY WireAssumption DEF BreakConn, CorruptChunk, Spend, WireTypeOK
<1>2. CASE BreakConn
  <2>1. toR' \in Prefixes(toR) /\ toS' \in Prefixes(toS) /\ up' = FALSE
    BY <1>2 DEF BreakConn
  <2>2. /\ toR' \in Seq(Message) /\ Len(toR') <= Len(toR)
        /\ \A i \in 1..Len(toR') : toR'[i] = toR[i]
        /\ toS' \in Seq(Piece)
    BY <2>1, PrefixType DEF WireTypeOK
  <2>3. OffersNamed'
    BY <2>2 DEF OffersNamed, WireTypeOK
  <2> QED
    BY <1>1, <2>1, <2>2, <2>3 DEF WireTypeOK
<1>3. CASE CorruptChunk
  <2>1. PICK i \in 1..Len(toR) :
          /\ toR[i].t = "DATA"
          /\ toR' = [toR EXCEPT ![i].body = [j \in DOMAIN @ |-> Junk], ![i].ok = FALSE]
    BY <1>3 DEF CorruptChunk

      <2> DEFINE m == [[toR[i] EXCEPT !.body = [j \in DOMAIN toR[i].body |-> Junk]] EXCEPT !.ok = FALSE]
  <2>2. toR[i] \in Message
    BY DEF WireTypeOK
  <2>3. [j \in DOMAIN toR[i].body |-> Junk] \in Content
    BY <2>2, WireAssumption DEF Message, Content
  <2>4. m \in Message /\ m.t = "DATA"
    BY <2>1, <2>2, <2>3 DEF Message
  <2>5. toR' = [toR EXCEPT ![i] = m]
    BY <2>1, <2>2 DEF WireTypeOK
  <2> HIDE DEF m
  <2>6. /\ toR' \in Seq(Message) /\ Len(toR') = Len(toR)
        /\ \A k \in 1..Len(toR) : toR'[k] = IF k = i THEN m ELSE toR[k]
    BY <2>4, <2>5, ExceptSeq DEF WireTypeOK
  <2>7. OffersNamed'
    BY <2>4, <2>6 DEF OffersNamed
  <2> QED
    BY <1>1, <1>3, <2>6, <2>7 DEF WireTypeOK, CorruptChunk
<1> QED
  BY <1>2, <1>3
-----------------------------------------------------------------------------
(* Type correctness: the steps of the receiver. *)

ReceiverTypeInv == WireTypeOK /\ ReceiverTypeOK /\ OffersNamed /\ PartOpen

(* Reading one frame leaves a queue of frames. *)
LEMMA ReadOneType ==
  ASSUME WireTypeOK, OffersNamed, toR # <<>>
  PROVE  /\ Head(toR) \in Message
         /\ Head(toR).t = "FILE_OFFER" => Head(toR).id \in File
         /\ Tail(toR) \in Seq(Message)
         /\ \A i \in 1..Len(Tail(toR)) : Tail(toR)[i].t = "FILE_OFFER" => Tail(toR)[i].id \in File
<1>1. /\ Head(toR) \in Message /\ Head(toR) = toR[1] /\ Len(toR) \in Nat \ {0}
      /\ Tail(toR) \in Seq(Message) /\ Len(Tail(toR)) = Len(toR) - 1
      /\ \A i \in 1..(Len(toR) - 1) : Tail(toR)[i] = toR[i + 1]
  BY QueueType DEF WireTypeOK
<1>2. \A i \in 1..(Len(toR) - 1) : i + 1 \in 1..Len(toR)
  BY <1>1
<1> QED
  BY <1>1, <1>2 DEF OffersNamed

(* The receiver's Close. *)
LEMMA ReceiverClosesType ==
  ASSUME WireTypeOK, NEW last \in Seq(Piece), NEW u, ReceiverCloses(last, u),
         faults' \in 0..MaxFaults
  PROVE  WireTypeOK' /\ OffersNamed'
<1> DEFINE q == IF up THEN toS \o last ELSE toS
<1>1. q \in Seq(Piece)
  BY DEF WireTypeOK
<1>2. toS' \in Survives(q, u) /\ toR' = <<>> /\ up' = FALSE
  BY DEF ReceiverCloses
<1> HIDE DEF q
<1>3. toS' \in Seq(Piece)
  BY <1>1, <1>2, SurvivesType
<1>4. toR' \in Seq(Message) /\ OffersNamed'
  BY <1>2 DEF OffersNamed
<1> QED
  BY <1>2, <1>3, <1>4 DEF WireTypeOK

(* Acknowledgements, replies and the pieces of a last write. *)
LEMMA ReplyType ==
  ASSUME ReceiverTypeOK, WireTypeOK, NEW f \in Nat, NEW n \in Nat, NEW ok \in BOOLEAN
  PROVE  /\ \A m \in {FileAccept(f, n), FileReject(f), DataAck(f, n, ok), CompleteAck(f, ok)} :
              m \in Message /\ Delivered(m) \in Seq(Piece) /\ Pieces(m) \in Seq(Piece)
         /\ Nack \in Seq(Piece)
<1>1. /\ <<>> \in Content /\ 0 \in Nat
      /\ {"FILE_ACCEPT", "FILE_REJECT", "DATA_ACK", "COMPLETE_ACK"} \subseteq FrameType
  BY DEF Content, FrameType
<1>2. /\ FileAccept(f, n) \in Message /\ FileReject(f) \in Message
      /\ DataAck(f, n, ok) \in Message /\ CompleteAck(f, ok) \in Message
  BY <1>1, MessageType DEF FileAccept, FileReject, DataAck, CompleteAck
<1>3. rfile \in Nat /\ expected \in Nat /\ FALSE \in BOOLEAN
  BY WireAssumption DEF ReceiverTypeOK
<1>4. DataAck(rfile, expected, FALSE) \in Message
  BY <1>1, <1>3, MessageType DEF DataAck
<1> QED
  BY <1>2, <1>4, PiecesType, DeliveredType DEF WireTypeOK, Nack

(* A step that neither ends the session nor fails. *)
LEMMA ReceiverStepType ==
  ASSUME ReceiverTypeInv,
         \/ AcceptOffer \/ ReceiveChunk \/ SyncPart \/ VerifyOK \/ RemoveOld \/ RenamePart
         \/ DeclineOffer
  PROVE  ReceiverTypeInv'
<1> USE DEF ReceiverTypeInv
<1>1. /\ rfile \in Nat /\ expected \in Nat /\ received \in Nat /\ rsize \in Nat
      /\ verified \in Nat
      /\ part \in [Name -> DiskFile \cup {NoFile}] /\ dest \in [Name -> DiskFile \cup {NoFile}]
      /\ File \subseteq 0..NFiles /\ File \subseteq Nat
  BY WireAssumption DEF ReceiverTypeOK, File
<1>2. rpc \in {"recv", "verify", "remove", "rename"} =>
        rfile \in File /\ rname \in Name /\ part[rname] \in DiskFile
  BY <1>1, NameAssumption DEF PartOpen, rname
<1>3. toR # <<>> => /\ Head(toR) \in Message
                    /\ Head(toR).t = "FILE_OFFER" => Head(toR).id \in File
                    /\ Tail(toR) \in Seq(Message)
  BY ReadOneType
<1>4. ASSUME toR # <<>>, toR' = Tail(toR), toS' \in Seq(Piece), up' = up,
             faults' \in 0..MaxFaults
      PROVE  WireTypeOK' /\ OffersNamed'
  BY <1>4, ReadOneType DEF WireTypeOK, OffersNamed
<1>5. faults \in 0..MaxFaults
  BY DEF WireTypeOK
<1>6. CASE AcceptOffer
  <2> DEFINE n == NameOf[Head(toR).id]
  <2>1. toR # <<>> /\ Head(toR).id \in File /\ Head(toR).num \in Nat
    BY <1>3, <1>6 DEF AcceptOffer, Next1, Message
  <2>2. n \in Name
    BY <2>1, NameAssumption
  <2>3. ResumeChunk(n) \in Nat
    <3>1. part[n] # NoFile => Len(part[n].data) \in Nat
      BY <1>1, <2>2 DEF DiskFile, Content
    <3> QED
      BY <3>1, QuotientType, WireAssumption DEF ResumeChunk
  <2>4. Opened(n) \in DiskFile /\ Opened(n) # NoFile
    <3>1. OnDisk(<<>>, FALSE) \in DiskFile
      BY DEF OnDisk, DiskFile, Content
    <3>2. ResumeChunk(n) > 0 => part[n] \in DiskFile
      BY <1>1, <2>2 DEF ResumeChunk
    <3> QED
      BY <3>1, <3>2, NameAssumption DEF Opened, DiskFile
  <2>5. /\ rfile' = Head(toR).id /\ rsize' \in Nat /\ expected' \in Nat
        /\ part' = [part EXCEPT ![n] = Opened(n)]
    BY <1>6, <2>1, <2>3 DEF AcceptOffer
  <2>6. received' \in Nat
    BY <1>6, <2>3, ProductType, WireAssumption DEF AcceptOffer
  <2>7. part' \in [Name -> DiskFile \cup {NoFile}] /\ part'[n] # NoFile
    BY <1>1, <2>2, <2>4, <2>5
  <2>8. toS' \in Seq(Piece)
    BY <1>1, <1>6, <2>1, <2>3, ReplyType DEF AcceptOffer, Reply
  <2>9. WireTypeOK' /\ OffersNamed'
    BY <1>4, <1>5, <1>6, <2>1, <2>8 DEF AcceptOffer, ReadOne
  <2> QED
    BY <1>1, <1>6, <2>1, <2>5, <2>6, <2>7, <2>9
       DEF AcceptOffer, ReceiverTypeOK, PartOpen, ReceiverPC, rname
<1>7. CASE ReceiveChunk
  <2>1. /\ toR # <<>> /\ rpc = "recv" /\ Head(toR).body \in Content
    BY <1>3, <1>7 DEF ReceiveChunk, Wanting, Message
  <2>2. part[rname].data \o Head(toR).body \in Content /\ Len(Head(toR).body) \in Nat
    BY <1>2, <2>1 DEF DiskFile, Content
  <2>3. OnDisk(part[rname].data \o Head(toR).body, FALSE) \in DiskFile
    BY <2>2 DEF OnDisk, DiskFile
  <2>4. part' = [part EXCEPT ![rname] = OnDisk(part[rname].data \o Head(toR).body, FALSE)]
    BY <1>7 DEF ReceiveChunk, Appended
  <2>5. part' \in [Name -> DiskFile \cup {NoFile}] /\ part'[rname] # NoFile
    BY <1>1, <1>2, <2>1, <2>3, <2>4, NameAssumption DEF DiskFile
  <2>6. toS' \in Seq(Piece)
    BY <1>1, <1>7, ReplyType DEF ReceiveChunk, Reply
  <2>7. WireTypeOK' /\ OffersNamed'
    BY <1>4, <1>5, <1>7, <2>1, <2>6 DEF ReceiveChunk, ReadOne
  <2> QED
    BY <1>1, <1>2, <1>7, <2>1, <2>2, <2>5, <2>7
       DEF ReceiveChunk, ReceiverTypeOK, PartOpen, ReceiverPC, rname
<1>8. CASE SyncPart
  <2>1. rpc = "recv" /\ Synced(part[rname]) \in DiskFile
    BY <1>2, <1>8 DEF SyncPart, Synced, OnDisk, DiskFile
  <2>2. part' = [part EXCEPT ![rname] = Synced(part[rname])]
    BY <1>8 DEF SyncPart
  <2>3. part' \in [Name -> DiskFile \cup {NoFile}] /\ part'[rname] # NoFile
    BY <1>1, <1>2, <2>1, <2>2, NameAssumption DEF DiskFile
  <2> QED
    BY <1>1, <1>2, <1>8, <2>1, <2>3 DEF SyncPart, ReceiverTypeOK, PartOpen, ReceiverPC, rname,
       wireVars, WireTypeOK, OffersNamed
<1>9. CASE VerifyOK
  <2>1. toR # <<>> /\ rpc = "verify"
    BY <1>9 DEF VerifyOK, Next1
  <2>2. toS' \in Seq(Piece)
    BY <1>1, <1>9, ReplyType DEF VerifyOK, Reply
  <2>3. WireTypeOK' /\ OffersNamed'
    BY <1>4, <1>5, <1>9, <2>1, <2>2 DEF VerifyOK, ReadOne
  <2> QED
    BY <1>1, <1>2, <1>9, <2>1, <2>3 DEF VerifyOK, ReceiverTypeOK, PartOpen, ReceiverPC, rname,
       disk
<1>10. CASE RemoveOld
  <2>1. dest' \in [Name -> DiskFile \cup {NoFile}]
    BY <1>1, <1>10 DEF RemoveOld
  <2> QED
    BY <1>1, <1>2, <1>10, <2>1 DEF RemoveOld, ReceiverTypeOK, PartOpen, ReceiverPC, rname,
       wireVars, WireTypeOK, OffersNamed
<1>11. CASE RenamePart
  <2>1. part[rname] \in DiskFile
    BY <1>2, <1>11 DEF RenamePart
  <2>2. dest' \in [Name -> DiskFile \cup {NoFile}] /\ part' \in [Name -> DiskFile \cup {NoFile}]
    BY <1>1, <1>11, <2>1 DEF RenamePart
  <2> QED
    BY <1>1, <1>11, <2>2 DEF RenamePart, ReceiverTypeOK, PartOpen, ReceiverPC,
       wireVars, WireTypeOK, OffersNamed
<1>12. CASE DeclineOffer
  <2>1. toR # <<>> /\ rpc = "idle" /\ Head(toR).id \in File
    BY <1>3, <1>12 DEF DeclineOffer, Next1
  <2>2. toS' \in Seq(Piece)
    BY <1>1, <1>12, <2>1, ReplyType DEF DeclineOffer, Reply
  <2>3. faults' \in 0..MaxFaults
    BY <1>5, <1>12, WireAssumption DEF DeclineOffer, Spend
  <2>4. WireTypeOK' /\ OffersNamed'
    BY <1>4, <1>12, <2>1, <2>2, <2>3 DEF DeclineOffer
  <2> QED
    BY <1>1, <1>12, <2>1, <2>4 DEF DeclineOffer, ReceiverTypeOK, PartOpen, disk
<1> QED
  BY <1>6, <1>7, <1>8, <1>9, <1>10, <1>11, <1>12

(* The actions after which Receive has returned. *)
Returns == \/ OfferFails \/ OfferUnanswered \/ ReceiveSessionDone \/ SessionFails
           \/ AckFails \/ RejectChunk \/ ShortWrite \/ ReadError \/ Mismatch \/ VerifyFails \/ DiskFails
           \/ ReceiverCrashes

(* Every return closes the connection after some last write. *)
LEMMA ReturnsClose ==
  ASSUME ReceiverTypeInv, Returns
  PROVE  \E last \in Seq(Piece), u \in Seq(Message) : ReceiverCloses(last, u)
<1> USE DEF ReceiverTypeInv
<1>1. <<>> \in Seq(Piece) /\ toR \in Seq(Message) /\ <<>> \in Seq(Message)
  BY DEF WireTypeOK
<1>2. toR # <<>> => Head(toR) \in Message /\ Tail(toR) \in Seq(Message)
  BY ReadOneType
<1>3. rfile \in Nat /\ expected \in Nat
  BY WireAssumption DEF ReceiverTypeOK
<1>4. Nack \in Seq(Piece)
  BY <1>3, ReplyType
<1>5. Pieces(CompleteAck(rfile, FALSE)) \in Seq(Piece)
  BY <1>3, ReplyType
<1>6. CASE OfferFails
  <2> DEFINE n == NameOf[Head(toR).id]
  <2>1. toR # <<>> /\ Head(toR).t = "FILE_OFFER" /\ Head(toR).id \in Nat
    BY <1>2, <1>6 DEF OfferFails, Next1, Message
  <2>2. Head(toR).id \in File
    BY <2>1, ReadOneType
  <2>3. ResumeChunk(n) \in Nat
    <3>1. part[n] # NoFile => Len(part[n].data) \in Nat
      BY <2>2, NameAssumption DEF ReceiverTypeOK, DiskFile, Content
    <3> QED
      BY <3>1, QuotientType, WireAssumption DEF ResumeChunk
  <2>4. /\ Pieces(FileReject(Head(toR).id)) \in Seq(Piece)
        /\ Pieces(FileAccept(Head(toR).id, ResumeChunk(n))) \in Seq(Piece)
    BY <2>1, <2>3, ReplyType
  <2> QED
    BY <1>2, <1>6, <2>1, <2>4 DEF OfferFails
<1>7. CASE OfferUnanswered \/ ReceiveSessionDone \/ SessionFails \/ AckFails \/ VerifyFails
  BY <1>1, <1>2, <1>7 DEF OfferUnanswered, ReceiveSessionDone, SessionFails, AckFails,
     VerifyFails, EndWith, Next1
<1>8. CASE RejectChunk \/ ShortWrite
  BY <1>1, <1>2, <1>4, <1>8 DEF RejectChunk, ShortWrite, EndWith
<1>9. CASE ReadError
  BY <1>1, <1>4, <1>9 DEF ReadError, EndWith
<1>10. CASE Mismatch
  BY <1>2, <1>5, <1>10 DEF Mismatch, EndWith, Next1
<1>11. CASE DiskFails \/ ReceiverCrashes
  BY <1>1, <1>2, <1>11 DEF DiskFails, ReceiverCrashes, Next1
<1> QED
  BY <1>6, <1>7, <1>8, <1>9, <1>10, <1>11 DEF Returns

(* A crash leaves of a file at most a file. *)
LEMMA AfterCrashType ==
  ASSUME NEW x \in DiskFile \cup {NoFile}, NEW y \in AfterCrash(x)
  PROVE  y \in DiskFile \cup {NoFile}
<1>1. CASE x = NoFile
  BY <1>1 DEF AfterCrash
<1>2. CASE x # NoFile
  <2>1. \A p \in Prefixes(x.data) : p \in Content
    BY <1>2, PrefixType DEF DiskFile, Content
  <2>2. \A p \in Content : OnDisk(p, TRUE) \in DiskFile
    BY DEF OnDisk, DiskFile
  <2> QED
    BY <1>2, <2>1, <2>2 DEF AfterCrash, DiskFile
<1> QED
  BY <1>1, <1>2

(* What a return leaves on disk is still files. *)
LEMMA ReturnsDisk ==
  ASSUME ReceiverTypeInv, Returns
  PROVE  /\ part' \in [Name -> DiskFile \cup {NoFile}]
         /\ dest' \in [Name -> DiskFile \cup {NoFile}]
<1> USE DEF ReceiverTypeInv
<1>1. /\ part \in [Name -> DiskFile \cup {NoFile}]
      /\ dest \in [Name -> DiskFile \cup {NoFile}]
  BY DEF ReceiverTypeOK
<1>2. rpc \in {"recv", "verify"} => rname \in Name /\ part[rname] \in DiskFile
  BY <1>1, NameAssumption DEF PartOpen, rname
<1>3. CASE AckFails \/ ShortWrite
  <2>1. toR # <<>> /\ rpc = "recv" /\ dest' = dest
    BY <1>3 DEF AckFails, ShortWrite, Wanting
  <2>2. Head(toR).body \in Content
    BY <2>1, ReadOneType DEF Message
  <2>3. PICK p \in Content : part' = Appended(p)
    BY <1>3, <2>2, PrefixType DEF AckFails, ShortWrite, Content
  <2>4. OnDisk(part[rname].data \o p, FALSE) \in DiskFile
    BY <1>2, <2>1, <2>3 DEF OnDisk, DiskFile, Content
  <2>5. part' = [part EXCEPT ![rname] = OnDisk(part[rname].data \o p, FALSE)]
    BY <2>3 DEF Appended
  <2> QED
    BY <1>1, <1>2, <2>1, <2>4, <2>5
<1>4. CASE Mismatch
  <2>1. rpc = "verify" /\ part' = [part EXCEPT ![rname] = NoFile] /\ dest' = dest
    BY <1>4 DEF Mismatch
  <2> QED
    BY <1>1, <1>2, <2>1
<1>5. CASE ReceiverCrashes
  <2>1. PICK n \in Name :
          \E p \in AfterCrash(part[n]), d \in AfterCrash(dest[n]) :
             part' = [part EXCEPT ![n] = p] /\ dest' = [dest EXCEPT ![n] = d]
    BY <1>5 DEF ReceiverCrashes
  <2> PICK p \in AfterCrash(part[n]), d \in AfterCrash(dest[n]) :
          part' = [part EXCEPT ![n] = p] /\ dest' = [dest EXCEPT ![n] = d]
    BY <2>1
  <2>2. p \in DiskFile \cup {NoFile} /\ d \in DiskFile \cup {NoFile}
    BY <1>1, <2>1, AfterCrashType
  <2> QED
    BY <1>1, <2>1, <2>2
<1>6. CASE \/ OfferFails \/ OfferUnanswered \/ ReceiveSessionDone \/ SessionFails
           \/ RejectChunk \/ ReadError \/ VerifyFails \/ DiskFails
  BY <1>1, <1>6 DEF OfferFails, OfferUnanswered, ReceiveSessionDone, SessionFails, RejectChunk,
     ReadError, VerifyFails, DiskFails, disk
<1> QED
  BY <1>3, <1>4, <1>5, <1>6 DEF Returns

(* A return keeps types and names. *)
LEMMA ReturnsType ==
  ASSUME ReceiverTypeInv, Returns
  PROVE  ReceiverTypeInv'
<1> USE DEF ReceiverTypeInv
<1>1. /\ WireTypeOK /\ ReceiverTypeOK /\ OffersNamed
      /\ File \subseteq 0..NFiles
  BY WireAssumption DEF File
<1>2. faults' \in 0..MaxFaults
  <2>1. faults \in 0..MaxFaults
    BY <1>1 DEF WireTypeOK
  <2>2. CASE OfferFails \/ ShortWrite \/ DiskFails \/ ReceiverCrashes
    <3>1. faults < MaxFaults /\ faults' = faults + 1
      BY <2>2 DEF OfferFails, ShortWrite, DiskFails, ReceiverCrashes, Spend
    <3> QED
      BY <2>1, <3>1, WireAssumption
  <2>3. CASE \/ OfferUnanswered \/ ReceiveSessionDone \/ SessionFails \/ AckFails
             \/ RejectChunk \/ ReadError \/ Mismatch \/ VerifyFails
    BY <2>1, <2>3 DEF OfferUnanswered, ReceiveSessionDone, SessionFails, AckFails, RejectChunk,
       ReadError, Mismatch, VerifyFails, EndWith
  <2> QED
    BY <2>2, <2>3 DEF Returns
<1>3. WireTypeOK' /\ OffersNamed'
  BY <1>1, <1>2, ReturnsClose, ReceiverClosesType
<1>4. rpc' \in {"done", "ended"}
  BY DEF Returns, OfferFails, OfferUnanswered, ReceiveSessionDone, SessionFails, AckFails,
     RejectChunk, ShortWrite, ReadError, Mismatch, VerifyFails, DiskFails, ReceiverCrashes,
     EndWith, ReceiverOver
<1>5. rfile' \in 0..NFiles
  <2>1. CASE OfferFails \/ OfferUnanswered
    <3>1. toR # <<>> /\ Head(toR).t = "FILE_OFFER" /\ rfile' = Head(toR).id
      BY <2>1 DEF OfferFails, OfferUnanswered, Next1
    <3> QED
      BY <1>1, <3>1, ReadOneType
  <2>2. CASE ~OfferFails /\ ~OfferUnanswered
    BY <1>1, <2>2 DEF Returns, ReceiveSessionDone, SessionFails, AckFails,
       RejectChunk, ShortWrite, ReadError, Mismatch, VerifyFails, DiskFails, ReceiverCrashes,
       ReceiverTypeOK
  <2> QED
    BY <2>1, <2>2
<1>6. UNCHANGED <<rsize, received, expected, verified>>
  BY DEF Returns, OfferFails, OfferUnanswered, ReceiveSessionDone, SessionFails, AckFails,
     RejectChunk, ShortWrite, ReadError, Mismatch, VerifyFails, DiskFails, ReceiverCrashes
<1> QED
  BY <1>1, <1>3, <1>4, <1>5, <1>6, ReturnsDisk DEF ReceiverTypeOK, PartOpen, ReceiverPC
-----------------------------------------------------------------------------
(* Type correctness of the whole. *)

(* A new channel is empty. *)
LEMMA EmptyChannel == <<>> \in Seq({"ack", "err"})
OBVIOUS

(* The program starts in a state of the invariant. *)
LEMMA InitTypeInv == Init => TypeInv
<1> SUFFICES ASSUME Init PROVE TypeInv
  OBVIOUS
<1>1. WireTypeOK /\ OffersNamed
  BY WireAssumption DEF Init, WireInit, WireTypeOK, OffersNamed
<1>2. src \in [File -> Content]
  BY VersionsAssumption DEF Init, SenderInit
<1>3. NoReader \in ReaderState
  BY ErrorFrameType DEF NoReader, ReaderState
<1>4. rd \in [Reader -> ReaderState] /\ ackCh \in [File -> Seq({"ack", "err"})]
  BY <1>3, EmptyChannel DEF Init, SenderInit, SenderStart
<1>5. SenderTypeOK /\ SenderBusy
  <2>1. /\ spc = "offer" /\ cur = 1 /\ off = 0 /\ idx = 0 /\ inFlight = 0 /\ ackErr = FALSE
        /\ 1 \in 1..(NFiles + 1)
    BY WireAssumption DEF Init, SenderInit, SenderStart
  <2> QED
    BY <1>2, <1>4, <2>1 DEF SenderTypeOK, SenderBusy, SenderPC, Busy
<1>6. ReceiverTypeOK /\ PartOpen
  BY WireAssumption DEF Init, ReceiverInit, ReceiverStart, ReceiverTypeOK, PartOpen, ReceiverPC
<1>7. session \in 1..MaxSessions
  BY SessionAssumption DEF Init
<1> QED
  BY <1>1, <1>5, <1>6, <1>7 DEF TypeInv, TypeOK

(* So does every further session. *)
LEMMA NewSessionType ==
  ASSUME TypeInv, NewSession
  PROVE  TypeInv'
<1> USE DEF TypeInv, TypeOK
<1>1. WireTypeOK' /\ OffersNamed'
  BY DEF NewSession, WireTypeOK, OffersNamed
<1>2. NoReader \in ReaderState
  BY ErrorFrameType DEF NoReader, ReaderState
<1>3. rd' \in [Reader -> ReaderState] /\ ackCh' \in [File -> Seq({"ack", "err"})]
  BY <1>2, EmptyChannel DEF NewSession, SenderRestarts
<1>4. SenderTypeOK' /\ SenderBusy'
  <2>1. /\ spc' = "offer" /\ cur' = 1 /\ off' = 0 /\ idx' = 0 /\ inFlight' = 0 /\ ackErr' = FALSE
        /\ src' \in [File -> Content] /\ 1 \in 1..(NFiles + 1)
    BY WireAssumption DEF NewSession, SenderRestarts, SenderTypeOK
  <2> QED
    BY <1>3, <2>1 DEF SenderTypeOK, SenderBusy, SenderPC, Busy
<1>5. ReceiverTypeOK' /\ PartOpen'
  BY WireAssumption DEF NewSession, ReceiverRestarts, ReceiverTypeOK, PartOpen, ReceiverPC, disk
<1>6. session' \in 1..MaxSessions
  BY SessionAssumption DEF NewSession
<1> QED
  BY <1>1, <1>4, <1>5, <1>6

(* TypeInv is inductive. *)
LEMMA NextTypeInv ==
  ASSUME TypeInv, [Next]_vars
  PROVE  TypeInv'
<1> USE DEF TypeInv, TypeOK
<1>1. SenderTypeInv /\ ReceiverTypeInv /\ session \in 1..MaxSessions
  BY DEF SenderTypeInv, ReceiverTypeInv
<1>2. ASSUME UNCHANGED <<receiverVars, session>>
      PROVE  (ReceiverTypeOK /\ PartOpen)' /\ session' \in 1..MaxSessions
  BY <1>2 DEF receiverVars, ReceiverTypeOK, PartOpen, rname
<1>3. ASSUME UNCHANGED <<senderVars, session>>
      PROVE  (SenderTypeOK /\ SenderBusy)' /\ session' \in 1..MaxSessions
  BY <1>3 DEF senderVars, SenderTypeOK, SenderBusy
<1>4. CASE SenderStep
  <2>1. SenderTypeInv'
    <3>1. \A f \in File : f \in Reader
      BY WireAssumption DEF File, Reader
    <3> QED
      BY <1>1, <1>4, <3>1, SenderMainType, ReadFrameType, AckReaderType DEF SenderStep, AckReader
  <2> QED
    BY <1>2, <1>4, <2>1 DEF SenderStep, SenderTypeInv
<1>5. CASE ReceiverStep
  <2>1. ReceiverTypeInv'
    BY <1>1, <1>5, ReceiverStepType, ReturnsType DEF ReceiverStep, ReceiverMain, Returns
  <2> QED
    BY <1>3, <1>5, <2>1 DEF ReceiverStep, ReceiverTypeInv
<1>6. CASE SenderFault
  <2>1. SenderTypeInv'
    BY <1>1, <1>6, SenderFaultType DEF SenderFault
  <2> QED
    BY <1>2, <1>6, <2>1 DEF SenderFault, SenderTypeInv
<1>7. CASE ReceiverFault
  <2>1. ReceiverTypeInv'
    BY <1>1, <1>7, ReceiverStepType, ReturnsType DEF ReceiverFault, ReceiverFaults, Returns
  <2> QED
    BY <1>3, <1>7, <2>1 DEF ReceiverFault, ReceiverTypeInv
<1>8. CASE NetworkFault
  <2>1. WireTypeOK' /\ OffersNamed'
    BY <1>8, NetworkFaultType DEF NetworkFault
  <2> QED
    BY <1>2, <1>3, <1>8, <2>1 DEF NetworkFault
<1>9. CASE NewSession
  BY <1>9, NewSessionType
<1>10. CASE UNCHANGED vars
  <2>1. WireTypeOK' /\ OffersNamed'
    BY <1>10 DEF vars, wireVars, WireTypeOK, OffersNamed
  <2> QED
    BY <1>2, <1>3, <1>10, <2>1 DEF vars
<1> QED
  BY <1>4, <1>5, <1>6, <1>7, <1>8, <1>9, <1>10 DEF Next

(* TypeOK, with the facts it needs: the main goroutine works on a file of   *)
(* the list, an offer names one, and the partial file is open while a file  *)
(* is received.                                                             *)
THEOREM TypeCorrect == Spec => []TypeInv
<1>1. Init => TypeInv
  BY InitTypeInv
<1>2. TypeInv /\ [Next]_vars => TypeInv'
  BY NextTypeInv
<1> QED
  BY <1>1, <1>2, PTL DEF Spec

(* Every variable keeps to its type: the statement of the run gtp_one_file, *)
(* for all values of the constants.                                         *)
THEOREM TypesHold == Spec => []TypeOK
<1>1. TypeInv => TypeOK
  BY DEF TypeInv
<1> QED
  BY <1>1, TypeCorrect, PTL
=============================================================================
