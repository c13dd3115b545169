-------------------------- MODULE GTPContentProofs --------------------------
(***************************************************************************)
(* What reaches the disk and stays there: ReportedIsSafe, ChunksInSequence *)
(* and NoJunkOnDisk of GTPTransfer, on top of DeliveryInv.                 *)
(***************************************************************************)
EXTENDS GTPDeliveryProofs

-----------------------------------------------------------------------------
(* ReportedIsSafe.  While the receiver writes, removes or resumes a partial *)
(* file, that file is the next after the verified ones; from the comparison *)
(* to the rename it is the last verified one, and synced.                   *)

(* Only the partial file of a file not verified yet changes. *)
LEMMA NextFileChanges ==
  ASSUME OwnNames, VerifiedIsSafe, UNCHANGED <<dest, verified>>,
         NEW g \in File, ~(g <= verified), NEW x, part' = [part EXCEPT ![NameOf[g]] = x],
         part \in [Name -> DiskFile \cup {NoFile}]
  PROVE  VerifiedIsSafe'
<1>1. \A f \in File : f <= verified => NameOf[f] # NameOf[g] /\ NameOf[f] \in Name
  BY NameAssumption DEF OwnNames
<1>2. \A f \in File : f <= verified => part'[NameOf[f]] = part[NameOf[f]]
  BY <1>1
<1> QED
  BY <1>2 DEF VerifiedIsSafe, Holds

(* What is under a name does not change. *)
LEMMA DiskKept == ASSUME VerifiedIsSafe, UNCHANGED <<part, dest, verified>> PROVE VerifiedIsSafe'
BY DEF VerifiedIsSafe, Holds

(* A crash keeps what was verified, because it was synced before. *)
LEMMA CrashKeeps ==
  ASSUME TypeInv, DiskInv, VerifiedIsSafe, ReceiverCrashes
  PROVE  VerifiedIsSafe'
<1>1. dest' = dest /\ verified' = verified
  BY ReturnsKeepDest DEF Returns, ReceiverCrashes
<1>2. PICK n \in Name : \E p \in AfterCrash(part[n]), d \in AfterCrash(dest[n]) :
        part' = [part EXCEPT ![n] = p] /\ dest' = [dest EXCEPT ![n] = d]
  BY DEF ReceiverCrashes
<1>3. PICK p \in AfterCrash(part[n]) : part' = [part EXCEPT ![n] = p]
  BY <1>2
<1>4. part \in [Name -> DiskFile \cup {NoFile}] /\ part[n] \in DiskFile \cup {NoFile}
  BY DEF TypeInv, TypeOK, ReceiverTypeOK
<1>5. \A f \in File : Holds(part[NameOf[f]], f) => Holds(part'[NameOf[f]], f)
  <2> SUFFICES ASSUME NEW f \in File, Holds(part[NameOf[f]], f)
               PROVE  Holds(part'[NameOf[f]], f)
    OBVIOUS
  <2>1. NameOf[f] \in Name
    BY NameAssumption
  <2>2. CASE NameOf[f] = n
    <3>1. part[n] # NoFile => part[n].synced
      BY <2>2 DEF Holds
    <3>2. p = part[n]
      BY <1>4, <3>1, SyncedSurvives
    <3> QED
      BY <1>3, <1>4, <2>1, <2>2, <3>2
  <2>3. CASE NameOf[f] # n
    BY <1>3, <1>4, <2>1, <2>3
  <2> QED
    BY <2>2, <2>3
<1> QED
  BY <1>1, <1>5 DEF VerifiedIsSafe

(* The receiver. *)
LEMMA ReceiverSafe ==
  ASSUME OwnNames, DeliveryInv, DeliveryInv', VerifiedIsSafe, ReceiverStep \/ ReceiverFault
  PROVE  VerifiedIsSafe'
<1>1. /\ TypeInv /\ DiskInv /\ Talk /\ Shown /\ verified \in Nat
      /\ part \in [Name -> DiskFile \cup {NoFile}] /\ dest \in [Name -> DiskFile \cup {NoFile}]
      /\ toR \in Seq(Message) /\ File \subseteq Nat
  <2>1. TypeInv /\ DiskInv /\ Talk /\ Shown
    BY DeliveryParts
  <2> QED
    BY <2>1 DEF TypeInv, TypeOK, WireTypeOK, ReceiverTypeOK, File
<1>2. /\ rpc \in {"recv", "verify", "remove", "rename"} =>
            rfile \in File /\ rname = NameOf[rfile] /\ rname \in Name /\ part[rname] # NoFile
      /\ rpc \in {"recv", "verify"} => ~(rfile <= verified)
      /\ rpc \in {"remove", "rename"} => rfile = verified /\ Holds(part[rname], rfile)
  BY <1>1, NameAssumption DEF TypeInv, PartOpen, rname, Shown, RightFile, DiskInv,
     PromotedIsVersion, SyncedOnDisk, Holds
<1>3. CASE AcceptOffer
  <2>1. /\ toR # <<>> /\ Head(toR).t = "FILE_OFFER" /\ UNCHANGED <<dest, verified>>
        /\ part' = [part EXCEPT ![NameOf[Head(toR).id]] = Opened(NameOf[Head(toR).id])]
    BY <1>3 DEF AcceptOffer, Next1
  <2>2. Head(toR) = toR[1] /\ 1 \in 1..Len(toR)
    BY <1>1, <2>1, QueueType
  <2>3. toR[1].id = cur /\ cur \in File /\ verified = cur - 1
    BY <1>1, <2>1, <2>2 DEF Talk, RequestFirst, CountsAgree, Requests
  <2>4. ~(cur <= verified)
    BY <1>1, <2>3
  <2> QED
    BY <1>1, <2>1, <2>2, <2>3, <2>4, NextFileChanges
<1>4. CASE ReceiveChunk \/ AckFails \/ ShortWrite \/ SyncPart \/ Mismatch
  <2>1. /\ rpc \in {"recv", "verify"} /\ UNCHANGED <<dest, verified>>
        /\ \E x : part' = [part EXCEPT ![rname] = x]
    BY <1>4 DEF ReceiveChunk, AckFails, ShortWrite, SyncPart, Mismatch, Appended, Wanting
  <2> QED
    BY <1>1, <1>2, <2>1, NextFileChanges
<1>5. CASE VerifyOK
  <2>1. /\ rpc = "verify" /\ rpc' = "remove" /\ verified' = verified + 1
        /\ UNCHANGED <<rfile, part, dest>>
    BY <1>5 DEF VerifyOK, disk
  <2>2. rfile = verified + 1
    BY <1>1, <2>1 DEF Shown, RightFile
  <2>3. Holds(part'[NameOf[rfile]], rfile)
    <3>1. part'[rname'].data \in Versions[rfile'] /\ part'[rname'].synced
      BY <2>1 DEF DeliveryInv, IntegrityInv, PromotedIsVersion, SyncedOnDisk
    <3> QED
      BY <1>2, <2>1, <3>1 DEF Holds, rname
  <2>4. \A f \in File : f <= verified' => f <= verified \/ f = rfile
    BY <1>1, <2>1, <2>2
  <2> QED
    BY <2>1, <2>3, <2>4 DEF VerifiedIsSafe
<1>6. CASE RemoveOld \/ RenamePart
  <2>1. /\ rpc \in {"remove", "rename"} /\ verified' = verified
        /\ \/ part' = part /\ \E x : dest' = [dest EXCEPT ![rname] = x]
           \/ /\ part' = [part EXCEPT ![rname] = NoFile]
              /\ dest' = [dest EXCEPT ![rname] = part[rname]]
    BY <1>6 DEF RemoveOld, RenamePart
  <2> SUFFICES ASSUME NEW f \in File, f <= verified
               PROVE  Holds(dest'[NameOf[f]], f) \/ Holds(part'[NameOf[f]], f)
    BY <2>1 DEF VerifiedIsSafe
  <2>2. CASE f = rfile
    BY <1>1, <1>2, <2>1, <2>2
  <2>3. CASE f # rfile
    <3>1. NameOf[f] # rname /\ NameOf[f] \in Name
      BY <1>2, <2>1, <2>3, NameAssumption DEF OwnNames
    <3>2. dest'[NameOf[f]] = dest[NameOf[f]] /\ part'[NameOf[f]] = part[NameOf[f]]
      BY <1>1, <2>1, <3>1
    <3> QED
      BY <3>2 DEF VerifiedIsSafe
  <2> QED
    BY <2>2, <2>3
<1>7. CASE ReceiverCrashes
  BY <1>1, <1>7, CrashKeeps
<1>8. CASE DeclineOffer \/ OfferFails \/ OfferUnanswered \/ ReceiveSessionDone \/ SessionFails
           \/ RejectChunk \/ ReadError \/ VerifyFails \/ DiskFails
  <2>1. UNCHANGED <<part, dest, verified>>
    BY <1>8 DEF DeclineOffer, OfferFails, OfferUnanswered, ReceiveSessionDone, SessionFails,
       RejectChunk, ReadError, VerifyFails, DiskFails, disk
  <2> QED
    BY <2>1, DiskKept
<1> QED
  BY <1>3, <1>4, <1>5, <1>6, <1>7, <1>8
     DEF ReceiverStep, ReceiverMain, ReceiverFault, ReceiverFaults

(* All together. *)
LEMMA NextSafe ==
  ASSUME OwnNames, DeliveryInv, DeliveryInv', VerifiedIsSafe, [Next]_vars
  PROVE  VerifiedIsSafe'
<1>1. CASE ReceiverStep \/ ReceiverFault
  BY <1>1, ReceiverSafe
<1>2. CASE SenderStep \/ SenderFault \/ NetworkFault \/ UNCHANGED vars
  <2>1. UNCHANGED <<part, dest, verified>>
    BY <1>2 DEF SenderStep, SenderFault, NetworkFault, vars, receiverVars
  <2> QED
    BY <2>1, DiskKept
<1>3. CASE NewSession
  BY <1>3 DEF NewSession, ReceiverRestarts, VerifiedIsSafe, File
<1> QED
  BY <1>1, <1>2, <1>3 DEF Next
-----------------------------------------------------------------------------
(* ChunksInSequence.  sendChunks numbers its chunks from the resume chunk   *)
(* of the FILE_ACCEPT it has read, the receiver counts from the one it has  *)
(* sent: the number must survive the way, whoever else reads.               *)

Numbers == ChunksInSequence /\ NumbersAgree

(* The chunks of queue p are at their places in queue q. *)
ChunksOf(p, q) == \A i \in 1..Len(p) : p[i].t = "DATA" =>
                    i \in 1..Len(q) /\ q[i].t = "DATA" /\ p[i].num = q[i].num

(* The connection is gone: nothing is sent any more. *)
LEMMA ClosedNumbers ==
  ASSUME Numbers, UNCHANGED <<rpc, expected>>, ChunksOf(toR', toR), ~up'
  PROVE  Numbers'
<1>1. ChunksInSequence'
  BY DEF Numbers, ChunksInSequence, ChunksOf
<1>2. NumbersAgree'
  BY DEF NumbersAgree
<1> QED
  BY <1>1, <1>2 DEF Numbers

(* The receiver is not in a file. *)
LEMMA NoFileNumbers == ASSUME rpc' # "recv" PROVE Numbers'
BY DEF Numbers, ChunksInSequence, NumbersAgree

(* Nothing that is numbered moves. *)
LEMMA QuietNumbers ==
  ASSUME Numbers, UNCHANGED <<rpc, expected, toS, up, idx>>,
         ChunksOf(toR', toR), Len(toR') = Len(toR), Pumping' => Pumping,
         spc' = "accept" => spc = "accept" /\ rd'[0] = rd[0]
  PROVE  Numbers'
<1>1. ChunksInSequence'
  BY DEF Numbers, ChunksInSequence, ChunksOf
<1>2. NumbersAgree'
  BY DEF Numbers, NumbersAgree, IsReply, Held
<1> QED
  BY <1>1, <1>2 DEF Numbers

(* Every chunk is at its place. *)
LEMMA SameChunks == ASSUME NEW q PROVE ChunksOf(q, q)
BY DEF ChunksOf

(* One step of a reader.  The main goroutine waiting for the rest of a      *)
(* payload has the only frame there is, so it waits for good, or for the    *)
(* end of the connection.                                                   *)
LEMMA ReadNumbers ==
  ASSUME TypeInv, Flow, Numbers, UNCHANGED receiverVars, NEW r \in Reader, ReadFrame(r)
  PROVE  Numbers'
<1>1. /\ UNCHANGED <<rpc, expected, toR, up, spc, idx>> /\ toS \in Seq(Piece)
      /\ rd \in [Reader -> ReaderState] /\ rd[r] \in ReaderState /\ 0 \in Reader
  BY WireAssumption DEF receiverVars, ReadFrame, TypeInv, TypeOK, WireTypeOK, SenderTypeOK, Reader
<1>2. ChunksInSequence'
  BY <1>1 DEF Numbers, ChunksInSequence
<1>3. ASSUME up, rpc = "recv", spc = "accept"
      PROVE  /\ \A i \in 1..Len(toS') : IsReply(i)' /\ toS'[i].frame.t = "FILE_ACCEPT" =>
                                          toS'[i].frame.num = expected
             /\ Held(0)' /\ rd'[0].frame.t = "FILE_ACCEPT" =>
                  IF rd'[0].at = "fill" THEN toS' = <<>> ELSE rd'[0].frame.num = expected
  <2>1. /\ \A i \in 1..Len(toS) : IsReply(i) /\ toS[i].frame.t = "FILE_ACCEPT" =>
                                    toS[i].frame.num = expected
        /\ Held(0) /\ rd[0].frame.t = "FILE_ACCEPT" =>
              IF rd[0].at = "fill" THEN toS = <<>> ELSE rd[0].frame.num = expected
    BY <1>3 DEF Numbers, NumbersAgree
  <2>2. PICK d \in {0, 1} : \A i \in 1..Len(toS') : toS'[i].part = "header" =>
                               i + d \in 1..Len(toS) /\ toS'[i] = toS[i + d]
    BY ReadPieces
  <2>3. \A i \in 1..Len(toS') : IsReply(i)' => /\ i + d \in 1..Len(toS) /\ IsReply(i + d)
                                                /\ toS'[i] = toS[i + d]
    BY <2>2 DEF IsReply
  <2>4. toS # <<>>
    BY <1>3 DEF ReadFrame, ReadHeader, BadMagic, ReadPayload, ReadRest, ReadFill, ReadFails
  <2>5. CASE r # 0
    <3>1. rd'[0] = rd[0]
      BY <1>1, <2>5 DEF ReadFrame, ReadHeader, BadMagic, ReadPayload, ReadRest, ReadFill, ReadFails
    <3> QED
      BY <2>1, <2>3, <2>4, <3>1 DEF Held
  <2>6. CASE r = 0
    <3>1. CASE ReadHeader(0)
      <4>1. /\ toS[1].part = "header" /\ 1 \in 1..Len(toS)
            /\ rd'[0] = [at |-> "payload", frame |-> toS[1].frame]
        BY <1>1, <2>4, <3>1, QueueType DEF ReadHeader
      <4> QED
        BY <2>1, <2>3, <4>1 DEF IsReply, Replies
    <3>2. CASE ReadPayload(0)
      <4>1. rd'[0].at = "got" /\ rd'[0].frame = rd[0].frame /\ rd[0].at = "payload"
        BY <1>1, <2>6, <3>2 DEF ReadPayload, ReaderState
      <4> QED
        BY <2>1, <2>3, <4>1 DEF Held
    <3>3. CASE ReadRest(0)
      <4>1. rd'[0].at = "fill" /\ rd[0].at = "payload" /\ toS' = Tail(toS)
        BY <1>1, <2>6, <3>3 DEF ReadRest, ReaderState
      <4>2. UnderWay + One(Held(0)) <= 1 /\ Held(0)
        BY <1>3, <4>1 DEF Flow, FramesCounted, Held
      <4>3. Counted
        BY CountTypes
      <4>4. Len(toS) \div 2 = 0 /\ Len(toS) \in Nat
        BY <4>2, <4>3 DEF Counted, UnderWay, One
      <4>5. Len(toS) <= 1
        BY <4>4
      <4>6. toS' = <<>>
        BY <1>1, <2>4, <4>1, <4>5
      <4> QED
        BY <2>1, <2>3, <4>1, <4>6
    <3>4. CASE ReadFill(0)
      <4>1. rd'[0].frame.t = rd[0].frame.t /\ rd[0].at = "fill"
        BY <1>1, <2>6, <3>4 DEF ReadFill, Garbled, Msg
      <4>2. rd'[0].frame.t # "FILE_ACCEPT"
        BY <2>1, <2>4, <4>1 DEF Held
      <4> QED
        BY <2>1, <2>3, <4>2
    <3>5. CASE BadMagic(0) \/ ReadFails(0)
      <4>1. rd'[0].at = "err"
        BY <1>1, <2>6, <3>5 DEF BadMagic, ReadFails, ReaderState
      <4> QED
        BY <2>1, <2>3, <4>1 DEF Held
    <3> QED
      BY <2>6, <3>1, <3>2, <3>3, <3>4, <3>5 DEF ReadFrame
  <2> QED
    BY <2>5, <2>6
<1>4. NumbersAgree'
  BY <1>1, <1>3 DEF Numbers, NumbersAgree, Pumping
<1> QED
  BY <1>2, <1>4 DEF Numbers

(* The sender writes: a chunk has the next number, a request no number. *)
LEMMA SendNumbers ==
  ASSUME TypeInv, Numbers, UNCHANGED receiverVars, NEW m \in Message, SendToReceiver(m),
         IF m.t = "DATA" THEN Pumping /\ m.num = idx /\ idx' = idx + 1 ELSE ~Pumping',
         spc' # "accept"
  PROVE  Numbers'
<1>1. /\ UNCHANGED <<rpc, expected, toS, up>> /\ toR \in Seq(Message)
      /\ idx \in Nat /\ expected \in Nat
  BY DEF SendToReceiver, receiverVars, TypeInv, TypeOK, WireTypeOK, SenderTypeOK, ReceiverTypeOK
<1>2. CASE up /\ toR' = Append(toR, m)
  <2> DEFINE n == Len(toR)
             k == Len(toR')
  <2>1. /\ n \in Nat /\ k = n + 1 /\ toR'[n + 1] = m
        /\ \A i \in 1..n : toR'[i] = toR[i]
    BY <1>1, <1>2, QueueType
  <2>2. rpc = "recv" => \A i \in 1..n : toR[i].t = "DATA" => toR[i].num = expected + i - 1
    BY DEF Numbers, ChunksInSequence
  <2>3. rpc = "recv" /\ Pumping => idx = expected + n
    BY <1>2 DEF Numbers, NumbersAgree
  <2> HIDE DEF n, k
  <2>4. rpc = "recv" => \A i \in 1..k : toR'[i].t = "DATA" => toR'[i].num = expected + i - 1
    <3> SUFFICES ASSUME rpc = "recv", NEW i \in 1..k, toR'[i].t = "DATA"
                 PROVE  toR'[i].num = expected + i - 1
      OBVIOUS
    <3>1. CASE i \in 1..n
      BY <2>1, <2>2, <3>1
    <3>2. CASE i = n + 1
      BY <1>1, <2>1, <2>3, <3>2
    <3> QED
      BY <2>1, <3>1, <3>2
  <2>5. rpc = "recv" /\ Pumping' => idx' = expected + k
    BY <1>1, <2>1, <2>3
  <2> QED
    BY <1>1, <2>4, <2>5 DEF Numbers, ChunksInSequence, NumbersAgree, k
<1>3. CASE ~up /\ toR' = toR
  BY <1>1, <1>3, SameChunks, ClosedNumbers
<1> QED
  BY <1>2, <1>3 DEF SendToReceiver

(* An offer is sent when there is no reply yet. *)
LEMMA OfferNumbers ==
  ASSUME TypeInv, Talk, Numbers, UNCHANGED receiverVars, SendOffer
  PROVE  Numbers'
<1>1. /\ UNCHANGED <<rpc, expected, toS, up>> /\ toR \in Seq(Message)
      /\ spc = "offer" /\ spc' = "accept" /\ rd \in [Reader -> ReaderState] /\ 0 \in Reader
      /\ rd' = [rd EXCEPT ![0] = [at |-> "header", frame |-> ErrorFrame]]
      /\ cur \in File
  BY WireAssumption DEF SendOffer, StartReading, Goto, SendToReceiver, receiverVars, TypeInv, TypeOK,
     WireTypeOK, SenderTypeOK, Reader
<1>2. ChunksOf(toR', toR)
  <2> DEFINE m == FileOffer(cur, Len(src[cur]))
  <2>1. m.t = "FILE_OFFER" /\ m \in Message
    <3>1. Len(src[cur]) \in Nat
      BY <1>1, NextChunkType DEF TypeInv, TypeOK
    <3>2. cur \in Nat /\ "FILE_OFFER" \in FrameType /\ <<>> \in Content
      BY <1>1 DEF File, FrameType, Content
    <3> QED
      BY <3>1, <3>2, MessageType DEF FileOffer, Msg
  <2>2. toR' = Append(toR, m) \/ toR' = toR
    BY DEF SendOffer, SendToReceiver
  <2> HIDE DEF m
  <2>3. CASE toR' = Append(toR, m)
    <3>1. /\ Len(toR) \in Nat /\ Len(toR') = Len(toR) + 1 /\ toR'[Len(toR) + 1] = m
          /\ \A i \in 1..Len(toR) : toR'[i] = toR[i]
      BY <1>1, <2>1, <2>3, QueueType
    <3> QED
      BY <2>1, <3>1 DEF ChunksOf
  <2>4. CASE toR' = toR
    BY <2>4, SameChunks
  <2> QED
    BY <2>2, <2>3, <2>4
<1>3. ChunksInSequence'
  BY <1>1, <1>2 DEF Numbers, ChunksInSequence, ChunksOf
<1>4. ~Held(0)' /\ \A i \in 1..Len(toS) : ~IsReply(i)
  BY <1>1 DEF Held, Talk, InPhase, Sending
<1>5. NumbersAgree'
  BY <1>1, <1>4 DEF NumbersAgree, Pumping, IsReply
<1> QED
  BY <1>3, <1>5 DEF Numbers

(* FILE_ACCEPT has been read: no frame is on its way, and the number is     *)
(* the one the receiver waits for.                                          *)
LEMMA StartNumbers ==
  ASSUME TypeInv, Flow, Numbers, UNCHANGED receiverVars, StartChunks
  PROVE  Numbers'
<1>1. /\ UNCHANGED <<rpc, expected, toR, toS, up>>
      /\ spc = "accept" /\ spc' = "pump" /\ rd[0].at = "got" /\ rd[0].frame.t = "FILE_ACCEPT"
      /\ idx' = rd[0].frame.num /\ expected \in Nat
  BY DEF StartChunks, FirstChunk, Goto, wireVars, receiverVars, TypeInv, TypeOK, ReceiverTypeOK
<1>2. up => Len(toR) = 0
  <2>1. up => UnderWay + One(Held(0)) <= 1
    BY <1>1 DEF Flow, FramesCounted
  <2>2. One(Held(0)) = 1
    BY <1>1 DEF One, Held
  <2>3. Len(toR) \in Nat /\ Len(toS) \div 2 \in Nat
    BY CountTypes DEF Counted
  <2> QED
    BY <2>1, <2>2, <2>3 DEF UnderWay
<1>3. up /\ rpc = "recv" => rd[0].frame.num = expected
  BY <1>1 DEF Numbers, NumbersAgree, Held
<1>4. ChunksInSequence'
  BY <1>1 DEF Numbers, ChunksInSequence
<1>5. up' /\ rpc' = "recv" => idx' = expected' + Len(toR')
  BY <1>1, <1>2, <1>3
<1>6. NumbersAgree'
  BY <1>1, <1>5 DEF NumbersAgree
<1> QED
  BY <1>4, <1>6 DEF Numbers

(* The sender closes, after a last frame that is no chunk. *)
LEMMA SenderCloseNumbers ==
  ASSUME TypeInv, Numbers, UNCHANGED receiverVars, NEW last \in Seq(Message),
         SenderCloses(last), \A i \in 1..Len(last) : last[i].t # "DATA"
  PROVE  Numbers'
<1>1. toR \in Seq(Message) /\ UNCHANGED <<rpc, expected>> /\ up' = FALSE
  BY DEF TypeInv, TypeOK, WireTypeOK, receiverVars, SenderCloses
<1> DEFINE q == IF up THEN toR \o last ELSE toR
<1>2. /\ q \in Seq(Message)
      /\ \A i \in 1..Len(q) : (i \in 1..Len(toR) /\ q[i] = toR[i]) \/ q[i].t # "DATA"
  <2>1. CASE up
    <3>1. /\ toR \o last \in Seq(Message) /\ Len(toR \o last) = Len(toR) + Len(last)
          /\ \A i \in 1..(Len(toR) + Len(last)) :
               (toR \o last)[i] = IF i <= Len(toR) THEN toR[i] ELSE last[i - Len(toR)]
          /\ Len(toR) \in Nat /\ Len(last) \in Nat
      BY <1>1
    <3> QED
      BY <2>1, <3>1
  <2>2. CASE ~up
    BY <1>1, <2>2
  <2> QED
    BY <2>1, <2>2
<1>3. toR' \in Survives(q, toS)
  BY DEF SenderCloses
<1> HIDE DEF q
<1>4. Len(toR') <= Len(q) /\ Len(toR') \in Nat /\ Len(q) \in Nat /\ \A i \in 1..Len(toR') : toR'[i] = q[i]
  BY <1>2, <1>3, SurvivesType
<1>5. ChunksOf(toR', toR)
  BY <1>2, <1>4 DEF ChunksOf
<1> QED
  BY <1>1, <1>5, ClosedNumbers

(* The main goroutine. *)
LEMMA SenderMainNumbers ==
  ASSUME TypeInv, Flow, Talk, Numbers, UNCHANGED receiverVars, SenderMain
  PROVE  Numbers'
<1>1. /\ UNCHANGED <<rpc, expected>> /\ 0 \in Reader /\ toR \in Seq(Message) /\ SenderTypeOK
      /\ (spc \in {"pump", "complete"} => cur \in File) /\ idx \in Nat
      /\ (cur \in File => cur \in Nat /\ src[cur] \in Content)
  <2>1. SenderTypeOK /\ toR \in Seq(Message) /\ (spc \in Busy => cur \in File)
    BY DEF TypeInv, TypeOK, WireTypeOK, SenderBusy
  <2>2. idx \in Nat /\ src \in [File -> Content]
    BY <2>1 DEF SenderTypeOK
  <2> QED
    BY <2>1, <2>2, WireAssumption DEF receiverVars, Reader, Busy, File
<1>2. CASE SendChunk
  <2> DEFINE m == Data(cur, idx, NextChunk)
  <2>1. m \in Message /\ m.t = "DATA" /\ m.num = idx
    <3>1. NextChunk \in Content /\ "DATA" \in FrameType
      BY <1>1, <1>2, NextChunkType DEF SendChunk, FrameType
    <3> QED
      BY <1>1, <1>2, <3>1, MessageType DEF Data, Msg, SendChunk
  <2>2. SendToReceiver(m) /\ idx' = idx + 1 /\ Pumping /\ spc' # "accept"
    BY <1>2 DEF SendChunk, Goto, Pumping
  <2> HIDE DEF m
  <2> QED
    BY <2>1, <2>2, SendNumbers
<1>3. CASE SendComplete
  <2> DEFINE m == Complete(cur, src[cur])
  <2>1. m \in Message /\ m.t = "COMPLETE"
    <3>1. "COMPLETE" \in FrameType /\ 0 \in Nat
      BY DEF FrameType
    <3> QED
      BY <1>1, <1>3, <3>1, MessageType DEF Complete, Msg, SendComplete
  <2>2. SendToReceiver(m) /\ spc' = "cack"
    BY <1>3 DEF SendComplete, Goto
  <2> HIDE DEF m
  <2> QED
    BY <2>1, <2>2, SendNumbers DEF Pumping
<1>4. CASE SendOffer
  BY <1>4, OfferNumbers
<1>5. CASE StartChunks
  BY <1>5, StartNumbers
<1>6. CASE SendSessionDone
  <2>1. SessionDone \in Message /\ SessionDone.t = "SESSION_DONE"
    BY MessageType DEF SessionDone, FrameType, Content, Msg, Message
  <2>2. <<SessionDone>> \in Seq(Message)
        /\ \A i \in 1..Len(<<SessionDone>>) : <<SessionDone>>[i].t # "DATA"
    BY <2>1
  <2>3. SenderCloses(<<SessionDone>>)
    BY <1>6 DEF SendSessionDone
  <2> QED
    BY <2>2, <2>3, SenderCloseNumbers
<1>7. CASE SenderAborts
  <2>1. <<ErrorFrame>> \in Seq(Message)
        /\ \A i \in 1..Len(<<ErrorFrame>>) : <<ErrorFrame>>[i].t # "DATA"
    BY ErrorFrameType DEF ErrorFrame, Msg
  <2>2. SenderCloses(<<ErrorFrame>>)
    BY <1>7 DEF SenderAborts
  <2> QED
    BY <2>1, <2>2, SenderCloseNumbers
<1>8. CASE ReadFrame(0)
  BY <1>1, <1>8, ReadNumbers
<1>9. CASE \/ OfferRefused \/ SendChunkFails \/ EndOfFile \/ FullTakesAck \/ FullTakesErr
           \/ DrainTakesAck \/ DrainTakesErr \/ Drained \/ FileSent \/ FileNotSent
           \/ WriteFails
  <2>1. /\ UNCHANGED <<toR, toS, up, idx>> /\ (Pumping' => Pumping) /\ spc' # "accept"
    BY <1>9 DEF OfferRefused, SendChunkFails, EndOfFile, FullTakesAck, FullTakesErr,
       DrainTakesAck, DrainTakesErr, Drained, FileSent, FileNotSent, WriteFails, Taken, Goto,
       wireVars, Pumping
  <2> QED
    BY <1>1, <2>1, SameChunks, QuietNumbers
<1> QED
  BY <1>2, <1>3, <1>4, <1>5, <1>6, <1>7, <1>8, <1>9 DEF SenderMain

(* The ackReaders, and what may happen to the sender and the network. *)
LEMMA SenderRestNumbers ==
  ASSUME TypeInv, Flow, Numbers, UNCHANGED receiverVars,
         \/ \E f \in File : AckReader(f) \/ EditFile(f)
         \/ SourceUnreadable \/ SenderKilled
         \/ UNCHANGED senderVars /\ (BreakConn \/ CorruptChunk)
  PROVE  Numbers'
<1>1. UNCHANGED <<rpc, expected>> /\ toR \in Seq(Message) /\ File \subseteq Reader
  BY DEF receiverVars, TypeInv, TypeOK, WireTypeOK, File, Reader
<1>2. ASSUME NEW f \in File, AckReader(f) PROVE Numbers'
  <2>1. CASE ReadFrame(f)
    BY <1>1, <2>1, ReadNumbers
  <2>2. CASE PushAck(f) \/ PushErr(f)
    <3>1. UNCHANGED <<toR, toS, up, idx, spc>>
      BY <2>2 DEF PushAck, PushErr, Push, wireVars
    <3>2. rd'[0] = rd[0]
      <4>1. \E x : rd' = [rd EXCEPT ![f] = x]
        BY <2>2 DEF PushAck, PushErr, StartReading
      <4>2. f # 0 /\ rd \in [Reader -> ReaderState] /\ 0 \in Reader
        BY WireAssumption DEF File, Reader, TypeInv, TypeOK, SenderTypeOK
      <4> QED
        BY <4>1, <4>2
    <3> QED
      BY <1>1, <3>1, <3>2, SameChunks, QuietNumbers DEF Pumping
  <2> QED
    BY <1>2, <2>1, <2>2 DEF AckReader
<1>3. ASSUME NEW f \in File, EditFile(f) PROVE Numbers'
  BY <1>1, <1>3, SameChunks, QuietNumbers DEF EditFile, Pumping
<1>4. CASE SourceUnreadable
  BY <1>1, <1>4, SameChunks, QuietNumbers DEF SourceUnreadable, Goto, Pumping
<1>5. CASE SenderKilled
  <2>1. SenderCloses(<<>>) /\ <<>> \in Seq(Message) /\ \A i \in 1..Len(<<>>) : <<>>[i].t # "DATA"
    BY <1>5 DEF SenderKilled
  <2> QED
    BY <2>1, SenderCloseNumbers
<1>6. CASE BreakConn
  <2>1. toR' \in Prefixes(toR) /\ ~up'
    BY <1>6 DEF BreakConn
  <2>2. Len(toR') <= Len(toR) /\ \A i \in 1..Len(toR') : toR'[i] = toR[i]
    BY <1>1, <2>1, PrefixType
  <2>3. toR' \in Seq(Message)
    BY <1>1, <2>1, PrefixType
  <2>4. ChunksOf(toR', toR)
    BY <1>1, <2>2, <2>3 DEF ChunksOf
  <2> QED
    BY <1>1, <2>1, <2>4, ClosedNumbers
<1>7. CASE UNCHANGED senderVars /\ CorruptChunk
  <2>1. PICK i \in 1..Len(toR) :
          toR' = [toR EXCEPT ![i].body = [j \in DOMAIN @ |-> Junk], ![i].ok = FALSE]
    BY <1>7 DEF CorruptChunk
  <2>2. /\ Len(toR') = Len(toR)
        /\ \A k \in 1..Len(toR) : toR'[k].t = toR[k].t /\ toR'[k].num = toR[k].num
    BY <1>1, <2>1 DEF Message
  <2>3. ChunksOf(toR', toR)
    BY <2>2 DEF ChunksOf
  <2>4. UNCHANGED <<toS, up, idx, spc, rd>>
    BY <1>7 DEF CorruptChunk, senderVars
  <2> QED
    BY <1>1, <2>2, <2>3, <2>4, QuietNumbers DEF Pumping
<1> QED
  BY <1>2, <1>3, <1>4, <1>5, <1>6, <1>7

(* The receiver takes an offer: no chunk is on its way, and the FILE_ACCEPT *)
(* it sends is the only one.                                                *)
LEMMA AcceptNumbers ==
  ASSUME TypeInv, TypeInv', Talk, UNCHANGED senderVars, AcceptOffer
  PROVE  Numbers'
<1>1. /\ toR \in Seq(Message) /\ toS \in Seq(Piece) /\ toR # <<>>
      /\ Head(toR).t = "FILE_OFFER" /\ toR' = Tail(toR) /\ UNCHANGED <<up, spc, rd>>
      /\ expected' = ResumeChunk(NameOf[Head(toR).id])
      /\ toS' = Delivered(FileAccept(Head(toR).id, ResumeChunk(NameOf[Head(toR).id])))
  BY DEF TypeInv, TypeOK, WireTypeOK, AcceptOffer, Next1, ReadOne, Reply, senderVars
<1>2. /\ toR[1].t \in Requests /\ toR[1].t = "FILE_OFFER" /\ 1 \in 1..Len(toR)
      /\ \A i \in 1..Len(toR') : i + 1 \in 1..Len(toR) /\ toR'[i] = toR[i + 1]
  <2> DEFINE n == Len(toR)
             k == Len(toR')
  <2>1. /\ n \in Nat \ {0} /\ k = n - 1 /\ Head(toR) = toR[1]
        /\ \A i \in 1..(n - 1) : toR'[i] = toR[i + 1]
    BY <1>1, QueueType
  <2> HIDE DEF n, k
  <2>2. 1 \in 1..n /\ \A i \in 1..k : i + 1 \in 1..n /\ toR'[i] = toR[i + 1]
    BY <2>1
  <2> QED
    BY <1>1, <2>1, <2>2 DEF n, k, Requests
<1>3. /\ \A i \in 1..Len(toR') : toR'[i].t # "DATA"
      /\ ~Sending /\ spc # "cack"
      /\ spc = "accept" => ~ReplyHeld /\ \A i \in 1..Len(toS) : ~IsReply(i)
  BY <1>2 DEF Talk, RequestFirst, InPhase, OneReply
<1>4. ChunksInSequence'
  BY <1>3 DEF ChunksInSequence
<1>5. spc = "accept" /\ up =>
        \A i \in 1..Len(toS') : IsReply(i)' /\ toS'[i].frame.t = "FILE_ACCEPT" =>
                                 toS'[i].frame.num = expected'
  <2> SUFFICES ASSUME spc = "accept", up
               PROVE  \A i \in 1..Len(toS') : IsReply(i)' => toS'[i].frame.num = expected'
    OBVIOUS
  <2> DEFINE m == FileAccept(Head(toR).id, expected')
  <2>1. m \in Message /\ m.num = expected'
    <3>1. Head(toR).id \in Nat /\ expected' \in Nat
      <4>1. Head(toR) \in Message
        BY <1>1, QueueType
      <4>2. ReceiverTypeOK'
        BY DEF TypeInv, TypeOK
      <4> QED
        BY <4>1, <4>2 DEF Message, ReceiverTypeOK
    <3>2. "FILE_ACCEPT" \in FrameType /\ <<>> \in Content /\ TRUE \in BOOLEAN
      BY DEF FrameType, Content
    <3>3. Msg("FILE_ACCEPT", Head(toR).id, expected', <<>>, TRUE) \in Message
      BY <3>1, <3>2, MessageType
    <3>4. Msg("FILE_ACCEPT", Head(toR).id, expected', <<>>, TRUE).num = expected'
      BY DEF Msg
    <3> QED
      BY <3>3, <3>4 DEF FileAccept
  <2>2. toS' = Delivered(m)
    BY <1>1
  <2> HIDE DEF m
  <2>3. toS' \in Prefixes(IF up THEN toS \o Pieces(m) ELSE toS)
    BY <1>1, <2>1, <2>2, DeliveredType, WholeIsPrefix DEF Delivered
  <2>4. \A i \in 1..Len(toS') : IsReply(i)' =>
          toS'[i].frame = m \/ (i \in 1..Len(toS) /\ IsReply(i))
    BY <1>1, <2>1, <2>3, WrittenPieces DEF IsReply
  <2> QED
    BY <1>3, <2>1, <2>4
<1>6. spc = "accept" => ~(Held(0) /\ rd[0].frame.t = "FILE_ACCEPT")
  BY <1>3 DEF ReplyHeld, Replies
<1>7. NumbersAgree'
  BY <1>1, <1>3, <1>5, <1>6 DEF NumbersAgree, Pumping, Sending, Held
<1> QED
  BY <1>4, <1>7 DEF Numbers

(* The receiver counts the chunks it takes. *)
LEMMA ChunkNumbers ==
  ASSUME TypeInv, Flow, Numbers, UNCHANGED senderVars, ReceiveChunk
  PROVE  Numbers'
<1> DEFINE n == Len(toR)
           k == Len(toR')
<1>1. /\ toR \in Seq(Message) /\ toR # <<>> /\ toR' = Tail(toR) /\ UNCHANGED <<up, spc, idx>>
      /\ rpc = "recv" /\ expected' = expected + 1 /\ Head(toR).t = "DATA"
      /\ expected \in Nat /\ idx \in Nat
  BY DEF TypeInv, TypeOK, WireTypeOK, SenderTypeOK, ReceiverTypeOK, ReceiveChunk, Wanting,
     GoodChunk, ReadOne, senderVars
<1>2. /\ n \in Nat \ {0} /\ k = n - 1 /\ Head(toR) = toR[1]
      /\ \A i \in 1..(n - 1) : toR'[i] = toR[i + 1]
  BY <1>1, QueueType
<1>3. \A i \in 1..n : toR[i].t = "DATA" => toR[i].num = expected + i - 1
  BY <1>1 DEF Numbers, ChunksInSequence
<1>4. up /\ Pumping => idx = expected + n
  BY <1>1 DEF Numbers, NumbersAgree
<1>5. up => spc # "accept"
  <2>1. 1 \in 1..n
    BY <1>2
  <2> QED
    BY <1>1, <1>2, <2>1 DEF Flow, FramesOfPhase
<1> HIDE DEF n, k
<1>6. \A i \in 1..k : toR'[i].t = "DATA" => toR'[i].num = expected' + i - 1
  <2> SUFFICES ASSUME NEW i \in 1..k, toR'[i].t = "DATA"
               PROVE  toR'[i].num = expected' + i - 1
    OBVIOUS
  <2>1. i + 1 \in 1..n /\ toR'[i] = toR[i + 1]
    BY <1>2
  <2>2. toR[i + 1].num = expected + (i + 1) - 1
    BY <1>3, <2>1
  <2>3. expected + (i + 1) - 1 = expected + 1 + i - 1
    BY <1>1, <1>2
  <2> QED
    BY <1>1, <2>1, <2>2, <2>3
<1>7. up' /\ Pumping' => idx' = expected' + k
  BY <1>1, <1>2, <1>4 DEF Pumping
<1> QED
  BY <1>1, <1>5, <1>6, <1>7 DEF Numbers, ChunksInSequence, NumbersAgree, k

(* All together. *)
LEMMA NextNumbers ==
  ASSUME TypeInv, TypeInv', Flow, Talk, Numbers, [Next]_vars
  PROVE  Numbers'
<1>1. CASE SenderStep \/ SenderFault
  BY <1>1, SenderMainNumbers, SenderRestNumbers DEF SenderStep, SenderFault
<1>2. CASE ReceiverStep \/ ReceiverFault
  <2>1. UNCHANGED senderVars
    BY <1>2 DEF ReceiverStep, ReceiverFault
  <2>2. CASE AcceptOffer
    BY <2>1, <2>2, AcceptNumbers
  <2>3. CASE ReceiveChunk
    BY <2>1, <2>3, ChunkNumbers
  <2>4. CASE Returns \/ DeclineOffer \/ SyncPart \/ VerifyOK \/ RemoveOld \/ RenamePart
    <3>1. rpc' # "recv"
      BY <2>4 DEF Returns, OfferFails, OfferUnanswered, ReceiveSessionDone, SessionFails, AckFails,
         RejectChunk, ShortWrite, ReadError, Mismatch, VerifyFails, DiskFails, ReceiverCrashes,
         EndWith, ReceiverOver, DeclineOffer, SyncPart, VerifyOK, RemoveOld, RenamePart
    <3> QED
      BY <3>1, NoFileNumbers
  <2> QED
    BY <1>2, <2>2, <2>3, <2>4
       DEF ReceiverStep, ReceiverMain, ReceiverFault, ReceiverFaults, Returns
<1>3. CASE NetworkFault
  BY <1>3, SenderRestNumbers DEF NetworkFault
<1>4. CASE NewSession
  BY <1>4, NoFileNumbers DEF NewSession, ReceiverRestarts
<1>5. CASE UNCHANGED vars
  <2>1. UNCHANGED <<rpc, expected, toS, up, idx, toR, spc, rd>>
    BY <1>5 DEF vars, wireVars, senderVars, receiverVars
  <2> QED
    BY <2>1, SameChunks, QuietNumbers DEF Pumping
<1> QED
  BY <1>1, <1>2, <1>3, <1>4, <1>5 DEF Next
-----------------------------------------------------------------------------
(* NoJunkOnDisk. *)

Clean(s) == Junk \notin ToSet(s)
Flagged(q) == \A i \in 1..Len(q) : q[i].t = "DATA" /\ q[i].ok => Clean(q[i].body)

(* What consists of clean units is clean. *)
LEMMA CleanOf ==
  ASSUME NEW s \in Content, Clean(s), NEW p \in Content,
         \A i \in 1..Len(p) : \E j \in 1..Len(s) : p[i] = s[j]
  PROVE  Clean(p)
BY DEF Clean, ToSet, Content

(* A beginning of it is. *)
LEMMA CleanPrefix ==
  ASSUME NEW s \in Content, Clean(s), NEW p \in Prefixes(s)
  PROVE  p \in Content /\ Clean(p)
<1>1. /\ p \in Content /\ Len(p) <= Len(s) /\ \A i \in 1..Len(p) : p[i] = s[i]
  BY PrefixType DEF Content
<1>2. \A i \in 1..Len(p) : i \in 1..Len(s)
  BY <1>1 DEF Content
<1> QED
  BY <1>1, <1>2, CleanOf

(* Two of them put together are. *)
LEMMA CleanJoin ==
  ASSUME NEW s \in Content, Clean(s), NEW p \in Content, Clean(p)
  PROVE  s \o p \in Content /\ Clean(s \o p)
<1>1. /\ Len(s) \in Nat /\ Len(p) \in Nat
      /\ DOMAIN s = 1..Len(s) /\ DOMAIN p = 1..Len(p)
      /\ s \o p \in Content /\ DOMAIN (s \o p) = 1..(Len(s) + Len(p))
      /\ \A i \in 1..(Len(s) + Len(p)) : (s \o p)[i] = IF i <= Len(s) THEN s[i] ELSE p[i - Len(s)]
  BY DEF Content
<1>2. \A i \in 1..(Len(s) + Len(p)) : (s \o p)[i] # Junk
  <2> SUFFICES ASSUME NEW i \in 1..(Len(s) + Len(p)) PROVE (s \o p)[i] # Junk
    OBVIOUS
  <2>1. CASE i <= Len(s)
    <3>1. i \in DOMAIN s
      BY <1>1, <2>1
    <3> QED
      BY <1>1, <2>1, <3>1 DEF Clean, ToSet
  <2>2. CASE ~(i <= Len(s))
    <3>1. i - Len(s) \in DOMAIN p
      BY <1>1, <2>2
    <3> QED
      BY <1>1, <2>2, <3>1 DEF Clean, ToSet
  <2> QED
    BY <2>1, <2>2
<1> QED
  BY <1>1, <1>2 DEF Clean, ToSet

(* A chunk of a file that is clean. *)
LEMMA CleanChunk ==
  ASSUME SenderTypeOK, cur \in File, src[cur] \in Versions[cur]
  PROVE  Clean(NextChunk)
<1> DEFINE s == src[cur]
           b == Least(off + ChunkSize, Len(s))
<1>1. /\ s \in Content /\ Len(s) \in Nat /\ off \in Nat /\ ChunkSize \in Nat
      /\ NextChunk \in Content /\ Clean(s)
  BY WireAssumption, JunkAssumption, NextChunkType DEF SenderTypeOK, Content, Clean
<1>2. b \in Nat /\ b <= Len(s)
  BY <1>1 DEF Least
<1>3. NextChunk = SubSeq(s, off + 1, b)
  BY DEF NextChunk
<1> HIDE DEF s, b
<1>4. \A i \in 1..Len(NextChunk) : off + i \in 1..Len(s) /\ NextChunk[i] = s[off + i]
  <2>1. Len(SubSeq(s, off + 1, b)) = IF off + 1 <= b THEN b - off ELSE 0
    BY <1>1, <1>2 DEF Content
  <2>2. \A i \in 1..(IF off + 1 <= b THEN b - off ELSE 0) :
          off + i \in 1..Len(s) /\ SubSeq(s, off + 1, b)[i] = s[off + i]
    BY <1>1, <1>2 DEF Content
  <2> QED
    BY <1>3, <2>1, <2>2
<1> QED
  BY <1>1, <1>4, CleanOf

(* The frames: a queue with the same flags and no new chunk, or one new one. *)
LEMMA FlaggedLike ==
  ASSUME NEW q, NEW p, Flagged(q),
         \A i \in 1..Len(p) : \/ p[i].t # "DATA" \/ ~p[i].ok \/ Clean(p[i].body)
                              \/ \E k \in 1..Len(q) : p[i] = q[k]
  PROVE  Flagged(p)
BY DEF Flagged

(* The sender's steps. *)
LEMMA SenderFlagged ==
  ASSUME TypeInv, TypeInv', WireInv, Flagged(toR), SenderStep \/ SenderFault
  PROVE  Flagged(toR')
<1>1. toR \in Seq(Message) /\ toR' \in Seq(Message) /\ SenderTypeOK
  BY DEF TypeInv, TypeOK, WireTypeOK
<1>2. ASSUME NEW m, SendToReceiver(m), m.t # "DATA" \/ Clean(m.body)
      PROVE  Flagged(toR')
  <2>1. CASE toR' = Append(toR, m)
    <3>1. /\ Len(toR) \in Nat /\ Len(toR') = Len(toR) + 1 /\ toR'[Len(toR) + 1] = m
          /\ \A i \in 1..Len(toR) : toR'[i] = toR[i]
      BY <1>1, <2>1
    <3>2. \A i \in 1..Len(toR') : toR'[i] = m \/ \E k \in 1..Len(toR) : toR'[i] = toR[k]
      BY <3>1
    <3> QED
      BY <1>2, <3>2, FlaggedLike
  <2>2. CASE toR' = toR
    BY <2>2
  <2> QED
    BY <1>2, <2>1, <2>2 DEF SendToReceiver
<1>3. ASSUME NEW last \in Seq(Message), SenderCloses(last),
             \A i \in 1..Len(last) : last[i].t # "DATA"
      PROVE  Flagged(toR')
  <2> DEFINE q == IF up THEN toR \o last ELSE toR
  <2>1. /\ q \in Seq(Message)
        /\ \A i \in 1..Len(q) : q[i].t # "DATA" \/ \E k \in 1..Len(toR) : q[i] = toR[k]
    <3>1. CASE up
      <4>1. /\ toR \o last \in Seq(Message) /\ Len(toR \o last) = Len(toR) + Len(last)
            /\ \A i \in 1..(Len(toR) + Len(last)) :
                 (toR \o last)[i] = IF i <= Len(toR) THEN toR[i] ELSE last[i - Len(toR)]
            /\ Len(toR) \in Nat /\ Len(last) \in Nat
        BY <1>1
      <4> QED
        BY <1>3, <3>1, <4>1
    <3>2. CASE ~up
      BY <1>1, <3>2
    <3> QED
      BY <3>1, <3>2
  <2>2. toR' \in Survives(q, toS)
    BY <1>3 DEF SenderCloses
  <2> HIDE DEF q
  <2>3. Len(toR') <= Len(q) /\ \A i \in 1..Len(toR') : toR'[i] = q[i]
    BY <2>1, <2>2, SurvivesType
  <2>4. \A i \in 1..Len(toR') : i \in 1..Len(q)
    BY <1>1, <2>1, <2>3
  <2> QED
    BY <2>1, <2>3, <2>4, FlaggedLike
<1>4. CASE SendChunk
  <2>1. cur \in File
    BY <1>4 DEF SendChunk, TypeInv, SenderBusy, Busy
  <2>2. Clean(NextChunk)
    BY <1>1, <2>1, CleanChunk DEF WireInv
  <2>3. Data(cur, idx, NextChunk).body = NextChunk
    BY DEF Data, Msg
  <2> QED
    BY <1>2, <1>4, <2>2, <2>3 DEF SendChunk
<1>5. CASE SendOffer \/ SendComplete
  BY <1>2, <1>5 DEF SendOffer, SendComplete, FileOffer, Complete, Msg
<1>6. CASE SendSessionDone \/ SenderAborts \/ SenderKilled
  <2>1. \A last \in {<<SessionDone>>, <<ErrorFrame>>, <<>>} :
          last \in Seq(Message) /\ \A i \in 1..Len(last) : last[i].t # "DATA"
    <3>1. SessionDone \in Message /\ SessionDone.t # "DATA"
      BY MessageType DEF SessionDone, FrameType, Content, Msg, Message
    <3>2. ErrorFrame \in Message /\ ErrorFrame.t # "DATA"
      BY ErrorFrameType DEF ErrorFrame, Msg
    <3>3. <<SessionDone>> \in Seq(Message)
          /\ \A i \in 1..Len(<<SessionDone>>) : <<SessionDone>>[i].t # "DATA"
      BY <3>1
    <3>4. <<ErrorFrame>> \in Seq(Message)
          /\ \A i \in 1..Len(<<ErrorFrame>>) : <<ErrorFrame>>[i].t # "DATA"
      BY <3>2
    <3>5. <<>> \in Seq(Message) /\ \A i \in 1..Len(<<>>) : <<>>[i].t # "DATA"
      OBVIOUS
    <3> QED
      BY <3>3, <3>4, <3>5
  <2>2. \E last \in {<<SessionDone>>, <<ErrorFrame>>, <<>>} : SenderCloses(last)
    BY <1>6 DEF SendSessionDone, SenderAborts, SenderKilled
  <2> QED
    BY <1>3, <2>1, <2>2
<1>7. CASE ~(\/ SendChunk \/ SendOffer \/ SendComplete \/ SendSessionDone
             \/ SenderAborts \/ SenderKilled)
  <2>1. toR' = toR
    BY <1>7 DEF SenderStep, SenderFault, SenderMain, AckReader, StartChunks, OfferRefused,
       SendChunkFails, EndOfFile, FullTakesAck, FullTakesErr, DrainTakesAck, DrainTakesErr,
       Drained, FileSent, FileNotSent, WriteFails, ReadFrame, PushAck, PushErr, Push, Taken,
       EditFile, SourceUnreadable, wireVars
  <2> QED
    BY <2>1
<1> QED
  BY <1>4, <1>5, <1>6, <1>7

(* The network damages chunks, and their CRCs with them. *)
LEMMA NetworkFlagged ==
  ASSUME TypeInv, Flagged(toR), NetworkFault
  PROVE  Flagged(toR')
<1>1. toR \in Seq(Message)
  BY DEF TypeInv, TypeOK, WireTypeOK
<1>2. CASE BreakConn
  <2>1. toR' \in Prefixes(toR)
    BY <1>2 DEF BreakConn
  <2>2. /\ toR' \in Seq(Message) /\ Len(toR') <= Len(toR)
        /\ \A i \in 1..Len(toR') : toR'[i] = toR[i]
    BY <1>1, <2>1, PrefixType
  <2>3. \A i \in 1..Len(toR') : i \in 1..Len(toR)
    BY <1>1, <2>2
  <2> QED
    BY <2>2, <2>3, FlaggedLike
<1>3. CASE CorruptChunk
  <2>1. PICK i \in 1..Len(toR) :
          toR' = [toR EXCEPT ![i].body = [j \in DOMAIN @ |-> Junk], ![i].ok = FALSE]
    BY <1>3 DEF CorruptChunk
  <2>2. Len(toR') = Len(toR) /\ \A k \in 1..Len(toR) : k # i => toR'[k] = toR[k]
    BY <1>1, <2>1
  <2>3. ~toR'[i].ok
    BY <1>1, <2>1 DEF Message
  <2> QED
    BY <2>2, <2>3, FlaggedLike
<1> QED
  BY <1>2, <1>3 DEF NetworkFault

CleanDisk(d) == \A n \in Name : d[n] # NoFile => Clean(d[n].data)

(* What is written to one partial file is clean. *)
LEMMA CleanWrite ==
  ASSUME CleanDisk(part), part \in [Name -> DiskFile \cup {NoFile}], NEW n \in Name, NEW x,
         part' = [part EXCEPT ![n] = x], x # NoFile => Clean(x.data)
  PROVE  CleanDisk(part')
BY DEF CleanDisk

(* The receiver: it appends what the CRC agrees with. *)
LEMMA ReceiverClean ==
  ASSUME TypeInv, Flagged(toR), CleanDisk(part), ReceiverStep \/ ReceiverFault
  PROVE  Flagged(toR') /\ CleanDisk(part')
<1>1. /\ toR \in Seq(Message) /\ part \in [Name -> DiskFile \cup {NoFile}]
      /\ toR # <<>> => Head(toR) \in Message /\ Head(toR) = toR[1] /\ 1 \in 1..Len(toR)
  <2>1. toR \in Seq(Message) /\ part \in [Name -> DiskFile \cup {NoFile}]
    BY DEF TypeInv, TypeOK, WireTypeOK, ReceiverTypeOK
  <2> QED
    BY <2>1, QueueType
<1>2. rpc \in {"recv", "verify", "remove", "rename"} =>
        /\ rname \in Name /\ part[rname] # NoFile /\ part[rname] \in DiskFile
        /\ Clean(part[rname].data) /\ part[rname].data \in Content
  <2>1. rpc \in {"recv", "verify", "remove", "rename"} => rname \in Name /\ part[rname] # NoFile
    BY NameAssumption DEF TypeInv, PartOpen, rname
  <2> QED
    BY <1>1, <2>1 DEF CleanDisk, DiskFile
<1>3. Flagged(toR')
  <2>1. toR' = <<>> \/ toR' = toR \/ (toR # <<>> /\ toR' = Tail(toR))
    <3>1. CASE Returns
      <4>1. ReceiverTypeInv
        BY DEF TypeInv, TypeOK, ReceiverTypeInv
      <4> QED
        BY <3>1, <4>1, ReturnsClose DEF ReceiverCloses
    <3>2. CASE ~Returns
      BY <3>2 DEF ReceiverStep, ReceiverMain, ReceiverFault, ReceiverFaults, Returns, AcceptOffer,
         DeclineOffer, ReceiveChunk, SyncPart, VerifyOK, RemoveOld, RenamePart, ReadOne, Next1, wireVars
    <3> QED
      BY <3>1, <3>2
  <2>2. CASE toR # <<>> /\ toR' = Tail(toR)
    <3> DEFINE n == Len(toR)
               k == Len(toR')
    <3>1. n \in Nat \ {0} /\ k = n - 1 /\ \A i \in 1..(n - 1) : toR'[i] = toR[i + 1]
      BY <1>1, <2>2, QueueType
    <3> HIDE DEF n, k
    <3>2. \A i \in 1..k : i + 1 \in 1..n /\ toR'[i] = toR[i + 1]
      BY <3>1
    <3> QED
      BY <3>2, FlaggedLike DEF n, k
  <2> QED
    BY <2>1, <2>2 DEF Flagged
<1>4. CASE AcceptOffer
  <2>1. /\ toR # <<>> /\ Head(toR).t = "FILE_OFFER"
        /\ part' = [part EXCEPT ![NameOf[Head(toR).id]] = Opened(NameOf[Head(toR).id])]
    BY <1>4 DEF AcceptOffer, Next1
  <2>2. NameOf[Head(toR).id] \in Name
    BY <1>1, <2>1, NameAssumption DEF TypeInv, OffersNamed
  <2>3. \A n \in Name : Opened(n) # NoFile => Clean(Opened(n).data)
    <3> SUFFICES ASSUME NEW n \in Name, Opened(n) # NoFile PROVE Clean(Opened(n).data)
      OBVIOUS
    <3>1. CASE Opened(n) = part[n]
      BY <3>1 DEF CleanDisk
    <3>2. CASE Opened(n) = OnDisk(<<>>, FALSE)
      BY <3>2 DEF OnDisk, Clean, ToSet
    <3> QED
      BY <3>1, <3>2 DEF Opened
  <2> QED
    BY <1>1, <1>3, <2>1, <2>2, <2>3, CleanWrite
<1>5. CASE ReceiveChunk \/ AckFails \/ ShortWrite
  <2>1. /\ rpc = "recv" /\ toR # <<>> /\ Head(toR).t = "DATA" /\ Head(toR).ok
        /\ \E p \in Prefixes(Head(toR).body) \cup {Head(toR).body} : part' = Appended(p)
    BY <1>5 DEF ReceiveChunk, AckFails, ShortWrite, Wanting, GoodChunk, CrcAgrees
  <2>2. PICK p \in Prefixes(Head(toR).body) \cup {Head(toR).body} : part' = Appended(p)
    BY <2>1
  <2>3. Head(toR).body \in Content /\ Clean(Head(toR).body)
    BY <1>1, <2>1 DEF Message, Flagged
  <2>4. p \in Content /\ Clean(p)
    BY <2>2, <2>3, CleanPrefix
  <2>5. Clean(part[rname].data \o p)
    BY <1>2, <2>1, <2>4, CleanJoin
  <2>6. part' = [part EXCEPT ![rname] = OnDisk(part[rname].data \o p, FALSE)]
    BY <2>2 DEF Appended
  <2> QED
    BY <1>1, <1>2, <1>3, <2>1, <2>5, <2>6, CleanWrite DEF OnDisk
<1>6. CASE SyncPart
  <2>1. rpc = "recv" /\ part' = [part EXCEPT ![rname] = Synced(part[rname])]
    BY <1>6 DEF SyncPart
  <2>2. Synced(part[rname]).data = part[rname].data
    BY DEF Synced, OnDisk
  <2> QED
    BY <1>1, <1>2, <1>3, <2>1, <2>2, CleanWrite
<1>7. CASE Mismatch \/ RenamePart
  <2>1. /\ rpc \in {"verify", "rename"} /\ part' = [part EXCEPT ![rname] = NoFile]
    BY <1>7 DEF Mismatch, RenamePart
  <2> QED
    BY <1>1, <1>2, <1>3, <2>1, CleanWrite
<1>8. CASE ReceiverCrashes
  <2>1. PICK n \in Name : \E p \in AfterCrash(part[n]), d \in AfterCrash(dest[n]) :
          part' = [part EXCEPT ![n] = p] /\ dest' = [dest EXCEPT ![n] = d]
    BY <1>8 DEF ReceiverCrashes
  <2>2. PICK p \in AfterCrash(part[n]) : part' = [part EXCEPT ![n] = p]
    BY <2>1
  <2>3. p # NoFile => Clean(p.data)
    <3>1. CASE part[n] = NoFile
      BY <2>2, <3>1 DEF AfterCrash
    <3>2. CASE part[n] # NoFile
      <4>1. part[n].data \in Content /\ Clean(part[n].data)
        BY <1>1, <3>2 DEF DiskFile, CleanDisk
      <4>2. p = part[n] \/ \E c \in Prefixes(part[n].data) \cup {part[n].data} : p = OnDisk(c, TRUE)
        BY <2>2, <3>2 DEF AfterCrash
      <4>3. \A c \in Prefixes(part[n].data) \cup {part[n].data} : Clean(c)
        BY <4>1, CleanPrefix
      <4> QED
        BY <4>1, <4>2, <4>3 DEF OnDisk
    <3> QED
      BY <3>1, <3>2
  <2> QED
    BY <1>1, <1>3, <2>2, <2>3, CleanWrite
<1>9. CASE \/ DeclineOffer \/ OfferFails \/ OfferUnanswered \/ ReceiveSessionDone \/ SessionFails
           \/ RejectChunk \/ ReadError \/ VerifyOK \/ VerifyFails \/ RemoveOld \/ DiskFails
  <2>1. part' = part
    BY <1>9 DEF DeclineOffer, OfferFails, OfferUnanswered, ReceiveSessionDone, SessionFails,
       RejectChunk, ReadError, VerifyOK, VerifyFails, RemoveOld, DiskFails, disk
  <2> QED
    BY <1>3, <2>1 DEF CleanDisk
<1> QED
  BY <1>4, <1>5, <1>6, <1>7, <1>8, <1>9
     DEF ReceiverStep, ReceiverMain, ReceiverFault, ReceiverFaults

(* All together. *)
LEMMA NextClean ==
  ASSUME TypeInv, TypeInv', WireInv, Flagged(toR), CleanDisk(part), [Next]_vars
  PROVE  Flagged(toR') /\ CleanDisk(part')
<1>1. CASE SenderStep \/ SenderFault
  <2>1. part' = part
    BY <1>1 DEF SenderStep, SenderFault, receiverVars
  <2> QED
    BY <1>1, <2>1, SenderFlagged
<1>2. CASE ReceiverStep \/ ReceiverFault
  BY <1>2, ReceiverClean
<1>3. CASE NetworkFault
  <2>1. part' = part
    BY <1>3 DEF NetworkFault, receiverVars
  <2> QED
    BY <1>3, <2>1, NetworkFlagged
<1>4. CASE NewSession
  <2>1. toR' = <<>> /\ part' = part
    BY <1>4 DEF NewSession, ReceiverRestarts, disk
  <2> QED
    BY <2>1 DEF Flagged
<1>5. CASE UNCHANGED vars
  BY <1>5 DEF vars, wireVars, receiverVars
<1> QED
  BY <1>1, <1>2, <1>3, <1>4, <1>5 DEF Next

-----------------------------------------------------------------------------
(* ContentInv, in the parts the lemmas speak of. *)
LEMMA ContentParts ==
  ContentInv <=> /\ Numbers /\ Flagged(toR) /\ CleanDisk(part)
                 /\ OwnNames => VerifiedIsSafe
BY DEF ContentInv, Numbers, JunkIsFlagged, NoJunkOnDisk, Flagged, CleanDisk, Clean

(* The same, of the state after a step. *)
LEMMA ContentPartsNext ==
  ContentInv' <=> /\ Numbers' /\ Flagged(toR') /\ CleanDisk(part')
                  /\ OwnNames => VerifiedIsSafe'
BY DEF ContentInv, Numbers, JunkIsFlagged, NoJunkOnDisk, Flagged, CleanDisk, Clean, OwnNames

(* On top of DeliveryInv, ContentInv is inductive: chunks carry the numbers *)
(* the receiver counts, damaged ones are flagged, and what was verified is  *)
(* safe.                                                                    *)
THEOREM ContentIsInvariant == Spec => []ContentInv
<1>1. Init => ContentInv
  <2> SUFFICES ASSUME Init PROVE ContentInv
    OBVIOUS
  <2>1. /\ toR = <<>> /\ rpc = "idle" /\ verified = 0
        /\ part = [n \in Name |-> NoFile]
    BY DEF Init, WireInit, ReceiverInit, ReceiverStart
  <2>2. Numbers
    BY <2>1 DEF Numbers, ChunksInSequence, NumbersAgree
  <2>3. Flagged(toR) /\ CleanDisk(part) /\ VerifiedIsSafe
    BY <2>1 DEF Flagged, CleanDisk, VerifiedIsSafe, File
  <2> QED
    BY <2>2, <2>3, ContentParts
<1>2. DeliveryInv /\ DeliveryInv' /\ ContentInv /\ [Next]_vars => ContentInv'
  <2> SUFFICES ASSUME DeliveryInv, DeliveryInv', ContentInv, [Next]_vars
               PROVE  ContentInv'
    OBVIOUS
  <2>1. TypeInv /\ TypeInv' /\ WireInv /\ Flow /\ Talk
    BY DeliveryParts, DeliveryPartsNext
  <2>2. Numbers'
    BY <2>1, ContentParts, NextNumbers
  <2>3. Flagged(toR') /\ CleanDisk(part')
    BY <2>1, ContentParts, NextClean
  <2>4. OwnNames => VerifiedIsSafe'
    BY ContentParts, NextSafe
  <2> QED
    BY <2>2, <2>3, <2>4, ContentPartsNext
<1> QED
  BY <1>1, <1>2, DeliveryIsInvariant, PTL DEF Spec

(* The branch for a chunk out of order is dead code: whatever a session     *)
(* resumes, and whichever goroutine took the replies, chunks arrive under   *)
(* the numbers the receiver counts.                                         *)
THEOREM ChunksArriveInSequence == Spec => []ChunksInSequence
<1>1. ContentInv => ChunksInSequence
  BY DEF ContentInv
<1> QED
  BY <1>1, ContentIsInvariant, PTL

(* A chunk damaged on its way never reaches the disk, not even in part: not *)
(* when the write is cut short and not when the machine stops.              *)
THEOREM JunkStaysOffDisk == Spec => []NoJunkOnDisk
<1>1. ContentInv => NoJunkOnDisk
  BY DEF ContentInv
<1> QED
  BY <1>1, ContentIsInvariant, PTL

(* A file the sender has reported sent is at the receiver, complete and     *)
(* synced, under its final name or still in the partial file, and no crash  *)
(* takes it away: for any number of files, when each has a name of its own. *)
THEOREM ReportedStaysSafe == OwnNames => (Spec => []ReportedIsSafe)
<1>1. OwnNames /\ DeliveryInv /\ ContentInv => ReportedIsSafe
  <2> SUFFICES ASSUME OwnNames, DeliveryInv, ContentInv, NEW f \in File, f < cur
               PROVE  Holds(dest[NameOf[f]], f) \/ Holds(part[NameOf[f]], f)
    BY DEF ReportedIsSafe
  <2>1. cur \in Nat /\ verified \in {cur - 1, cur} /\ f \in Nat
    BY WireAssumption DEF DeliveryInv, CountsAgree, FlowInv, TypeInv, TypeOK, SenderTypeOK, File
  <2>2. f <= verified
    BY <2>1
  <2> QED
    BY <2>2 DEF ContentInv, VerifiedIsSafe
<1>2. OwnNames => OwnNames'
  BY DEF OwnNames
<1>3. OwnNames => []OwnNames
  BY <1>2, PTL
<1> QED
  BY <1>1, <1>3, DeliveryIsInvariant, ContentIsInvariant, PTL
=============================================================================
