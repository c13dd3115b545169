--------------------------- MODULE GTPFlowProofs ---------------------------
(***************************************************************************)
(* What is on its way between sender and receiver, counted.                *)
(*                                                                         *)
(* FlowInv says that while the connection is up the frames under way in    *)
(* both directions, with the one the responsible goroutine holds and the   *)
(* acknowledgements in its channel, are at most one for a request and at   *)
(* most inFlight for chunks.  Goroutines left over from earlier files may  *)
(* take frames away, which only makes the count smaller.                   *)
(***************************************************************************)
EXTENDS GTPTransferProofs, FiniteSetTheorems

-----------------------------------------------------------------------------
(* The stream of pieces. *)

(* Reading takes a header off a stream of whole frames, or the payload off  *)
(* one whose first header is read.                                          *)
LEMMA StreamRead ==
  ASSUME NEW s \in Seq(Piece), Paired(s), s # <<>>
  PROVE  /\ Paired(Tail(s)) /\ Paired(Nibble(s))
         /\ IF Head(s).part = "header"
            THEN Len(s) % 2 = 0 /\ Len(Tail(s)) \div 2 = Len(s) \div 2 - 1
            ELSE Len(s) % 2 = 1 /\ Len(Tail(s)) \div 2 = Len(s) \div 2
         /\ Len(Tail(s)) \div 2 <= Len(s) \div 2
         /\ Len(Nibble(s)) \div 2 <= Len(s) \div 2
<1>1. /\ Len(s) \in Nat \ {0} /\ Head(s) = s[1] /\ Tail(s) \in Seq(Piece)
      /\ Len(Tail(s)) = Len(s) - 1 /\ \A i \in 1..(Len(s) - 1) : Tail(s)[i] = s[i + 1]
  BY QueueType
<1>2. Paired(Tail(s))
  <2> SUFFICES ASSUME NEW i \in 1..Len(Tail(s))
               PROVE  Tail(s)[i].part = "header" <=> (Len(Tail(s)) - i) % 2 = 1
    BY DEF Paired
  <2>1. i + 1 \in 1..Len(s) /\ Tail(s)[i] = s[i + 1] /\ Len(s) - (i + 1) = Len(Tail(s)) - i
    BY <1>1
  <2> QED
    BY <2>1 DEF Paired
<1>3. s[1].part = "header" <=> (Len(s) - 1) % 2 = 1
  BY <1>1 DEF Paired
<1>4. (Len(s) - 1) % 2 = 1 => Len(s) % 2 = 0 /\ (Len(s) - 1) \div 2 = Len(s) \div 2 - 1
  BY <1>1
<1>5. (Len(s) - 1) % 2 # 1 => Len(s) % 2 = 1 /\ (Len(s) - 1) \div 2 = Len(s) \div 2
  BY <1>1
<1>6. s[1].part # "header" => Paired(Nibble(s)) /\ Len(Nibble(s)) = Len(s)
  <2> SUFFICES ASSUME s[1].part # "header" PROVE Paired(Nibble(s)) /\ Len(Nibble(s)) = Len(s)
    OBVIOUS
  <2> DEFINE m == [s[1] EXCEPT !.part = "rest"]
  <2>1. s[1] \in Piece
    BY <1>1
  <2>2. m \in Piece /\ m.part = "rest"
    BY <2>1 DEF Piece
  <2>3. Nibble(s) = [s EXCEPT ![1] = m]
    BY <1>1 DEF Nibble
  <2> HIDE DEF m
  <2>4. Len(Nibble(s)) = Len(s) /\ \A i \in 1..Len(s) : Nibble(s)[i] = IF i = 1 THEN m ELSE s[i]
    BY <1>1, <2>2, <2>3, ExceptSeq
  <2> QED
    BY <1>1, <2>2, <2>4 DEF Paired
<1>7. s[1].part = "header" => Nibble(s) = Tail(s)
  BY <1>1 DEF Nibble
<1>8. CASE s[1].part = "header"
  <2>1. Len(s) % 2 = 0 /\ Len(Tail(s)) \div 2 = Len(s) \div 2 - 1 /\ Nibble(s) = Tail(s)
    BY <1>1, <1>3, <1>4, <1>7, <1>8
  <2>2. Len(s) \div 2 \in Int
    BY <1>1
  <2> QED
    BY <1>1, <1>2, <1>8, <2>1, <2>2
<1>9. CASE s[1].part # "header"
  <2>1. Len(s) % 2 = 1 /\ Len(Tail(s)) \div 2 = Len(s) \div 2
    BY <1>1, <1>3, <1>5, <1>9
  <2>2. Len(s) \div 2 \in Int
    BY <1>1
  <2> QED
    BY <1>1, <1>2, <1>6, <1>9, <2>1, <2>2
<1> QED
  BY <1>8, <1>9

(* Writing a frame adds a pair. *)
LEMMA StreamWritten ==
  ASSUME NEW s \in Seq(Piece), Paired(s), NEW m \in Message
  PROVE  /\ Paired(s \o Pieces(m))
         /\ Len(s \o Pieces(m)) \div 2 = Len(s) \div 2 + 1
<1> DEFINE p == s \o Pieces(m)
<1>1. /\ Len(s) \in Nat /\ Len(p) = Len(s) + 2
      /\ \A i \in 1..Len(s) : p[i] = s[i]
      /\ p[Len(s) + 1].part = "header" /\ p[Len(s) + 2].part = "payload"
  BY DEF Pieces
<1> HIDE DEF p
<1>2. Len(p) \div 2 = Len(s) \div 2 + 1
  BY <1>1
<1>3. Paired(p)
  <2> SUFFICES ASSUME NEW i \in 1..Len(p)
               PROVE  p[i].part = "header" <=> (Len(p) - i) % 2 = 1
    BY DEF Paired
  <2>1. CASE i \in 1..Len(s)
    <3>1. (Len(p) - i) % 2 = (Len(s) - i) % 2
      BY <1>1, <2>1
    <3> QED
      BY <1>1, <2>1, <3>1 DEF Paired
  <2>2. CASE i = Len(s) + 1
    BY <1>1, <2>2
  <2>3. CASE i = Len(s) + 2
    BY <1>1, <2>3
  <2> QED
    BY <1>1, <2>1, <2>2, <2>3
<1> QED
  BY <1>2, <1>3 DEF p
-----------------------------------------------------------------------------
(* The steps of the readers. *)

Flow == Framed /\ FramesCounted /\ FramesOfPhase /\ ReadersInTurn /\ WindowKept

Counted == /\ Len(toR) \in Nat /\ Len(toS) \in Nat /\ inFlight \in Nat
           /\ Len(toS) \div 2 \in Nat /\ UnderWay \in Nat
           /\ \A f \in File : /\ ackCh[f] \in Seq({"ack", "err"}) /\ Len(ackCh[f]) \in Nat
                              /\ AcksIn(ackCh[f]) \in Nat

(* What is counted is a number. *)
LEMMA CountTypes == TypeInv => Counted
<1> SUFFICES ASSUME TypeInv PROVE Counted
  OBVIOUS
<1>1. toR \in Seq(Message) /\ toS \in Seq(Piece) /\ inFlight \in Nat
      /\ ackCh \in [File -> Seq({"ack", "err"})]
  BY DEF TypeInv, TypeOK, WireTypeOK, SenderTypeOK
<1>2. Len(toR) \in Nat /\ Len(toS) \in Nat
  BY <1>1
<1>3. Len(toS) \div 2 \in Nat
  BY <1>2
<1>4. \A f \in File : AcksIn(ackCh[f]) \in Nat
  <2> SUFFICES ASSUME NEW f \in File PROVE AcksIn(ackCh[f]) \in Nat
    OBVIOUS
  <2>1. ackCh[f] \in Seq({"ack", "err"})
    BY <1>1
  <2>2. Len(ackCh[f]) \in Nat /\ (ackCh[f] # <<>> => Len(ackCh[f]) > 0)
    BY <2>1
  <2> QED
    BY <2>2 DEF AcksIn
<1> QED
  BY <1>1, <1>2, <1>3, <1>4 DEF UnderWay, Counted

(* Before a step and after it. *)
LEMMA CountTypesNext == TypeInv' => Counted'
BY CountTypes, PTL

(* Reading a frame takes it off the stream and, at most, into the hands of  *)
(* the reader: nothing is counted twice.                                    *)
LEMMA ReadFrameCount ==
  ASSUME TypeInv, TypeInv', Framed, NEW r \in Reader, ReadFrame(r)
  PROVE  /\ Framed'
         /\ up => /\ UnderWay' <= UnderWay
                  /\ UnderWay' + One(Held(r)') <= UnderWay + One(Held(r))
         /\ rd[r].at \in Reading /\ rd'[r].at # "off"
         /\ \A q \in Reader \ {r} : rd'[q] = rd[q]
<1>1. toS \in Seq(Piece) /\ rd \in [Reader -> ReaderState] /\ UNCHANGED <<toR, up>>
  BY DEF TypeInv, TypeOK, WireTypeOK, SenderTypeOK, ReadFrame
<1>2. /\ Len(toR) \in Nat /\ Len(toS) \div 2 \in Nat /\ UnderWay \in Nat
      /\ Len(toR') \in Nat /\ Len(toS') \div 2 \in Nat /\ UnderWay' \in Nat
  BY CountTypes, CountTypesNext DEF Counted
<1> DEFINE Moved == /\ rd[r].at \in Reading /\ rd'[r].at # "off"
                    /\ \A q \in Reader \ {r} : rd'[q] = rd[q]
           Less == /\ Paired(toS') /\ Len(toS') \div 2 <= Len(toS) \div 2
                   /\ (Held(r)' => Held(r)) \/ Len(toS') \div 2 = Len(toS) \div 2 - 1
<1>3. up => Paired(toS)
  BY DEF Framed
<1>4. CASE ReadHeader(r)
  <2>1. rd' = [rd EXCEPT ![r] = [at |-> "payload", frame |-> Head(toS).frame]]
    BY <1>4 DEF ReadHeader
  <2>2. Moved
    BY <1>1, <1>4, <2>1 DEF ReadHeader, Reading
  <2>3. up => Less
    BY <1>1, <1>2, <1>3, <1>4, StreamRead DEF ReadHeader
  <2> QED
    BY <2>2, <2>3, <1>1, <1>2 DEF Framed, UnderWay, One
<1>5. CASE BadMagic(r)
  <2>1. Moved /\ ~Held(r)'
    BY <1>1, <1>5 DEF BadMagic, Reading, Held
  <2>2. up => Less
    BY <1>1, <1>3, <1>5, <2>1, StreamRead DEF BadMagic
  <2> QED
    BY <2>1, <2>2, <1>1, <1>2 DEF Framed, UnderWay, One
<1>6. CASE ReadPayload(r) \/ ReadRest(r)
  <2>1. Moved /\ Held(r)
    <3>1. rd[r].at = "payload" /\ \E a \in {"got", "fill"} : rd' = [rd EXCEPT ![r].at = a]
      BY <1>6 DEF ReadPayload, ReadRest
    <3>2. rd[r] \in ReaderState
      BY <1>1
    <3> QED
      BY <1>1, <3>1, <3>2 DEF Reading, Held, ReaderState
  <2>2. up => Less
    BY <1>1, <1>3, <1>6, <2>1, StreamRead DEF ReadPayload, ReadRest
  <2> QED
    BY <2>1, <2>2, <1>1, <1>2 DEF Framed, UnderWay, One
<1>7. CASE ReadFill(r)
  <2>1. rd[r].at = "fill" /\ rd' = [rd EXCEPT ![r] = [at |-> "got", frame |-> Garbled(rd[r].frame)]]
    BY <1>7 DEF ReadFill
  <2>2. Moved /\ Held(r)
    BY <1>1, <2>1 DEF Reading, Held
  <2>3. up => Less
    BY <1>1, <1>3, <1>7, <2>2, StreamRead DEF ReadFill
  <2> QED
    BY <2>2, <2>3, <1>1, <1>2 DEF Framed, UnderWay, One
<1>8. CASE ReadFails(r)
  <2>1. ~up /\ ~up' /\ Moved
    BY <1>1, <1>8 DEF ReadFails, Reading
  <2> QED
    BY <2>1 DEF Framed
<1> QED
  BY <1>4, <1>5, <1>6, <1>7, <1>8 DEF ReadFrame

(* So the count holds whoever reads. *)
LEMMA ReadFrameFlow ==
  ASSUME TypeInv, TypeInv', Flow, NEW r \in Reader, ReadFrame(r)
  PROVE  Flow'
<1>1. /\ UNCHANGED <<toR, up, spc, cur, inFlight, ackCh>>
      /\ 0 \in Reader /\ File \subseteq Reader
      /\ (Pumping => cur \in File)
  BY WireAssumption DEF ReadFrame, TypeInv, TypeOK, SenderTypeOK, SenderBusy, Pumping, Busy, Reader, File
<1>2. /\ Framed'
      /\ up => /\ UnderWay' <= UnderWay
               /\ UnderWay' + One(Held(r)') <= UnderWay + One(Held(r))
      /\ rd[r].at \in Reading /\ rd'[r].at # "off"
      /\ \A q \in Reader \ {r} : rd'[q] = rd[q]
  BY ReadFrameCount DEF Flow
<1>3. /\ UnderWay \in Nat /\ UnderWay' \in Nat /\ inFlight \in Nat
      /\ \A f \in File : AcksIn(ackCh[f]) \in Nat
  BY CountTypes, CountTypesNext DEF Counted
<1>4. \A q \in Reader : up => UnderWay' + One(Held(q)') <= UnderWay + One(Held(q))
  <2> SUFFICES ASSUME NEW q \in Reader, up
               PROVE  UnderWay' + One(Held(q)') <= UnderWay + One(Held(q))
    OBVIOUS
  <2>1. CASE q = r
    BY <1>2, <2>1
  <2>2. CASE q # r
    <3>1. One(Held(q)') = One(Held(q)) /\ One(Held(q)) \in Nat
      BY <1>2, <2>2 DEF Held, One
    <3> QED
      BY <1>2, <1>3, <3>1
  <2> QED
    BY <2>1, <2>2
<1>5. FramesCounted'
  <2> SUFFICES ASSUME up PROVE FramesCounted'
    BY <1>1 DEF FramesCounted
  <2>1. \A q \in Reader : One(Held(q)) \in Nat /\ One(Held(q)') \in Nat
    BY DEF One
  <2>2. CASE Pumping
    <3>1. UnderWay + One(Held(cur)) + AcksIn(ackCh[cur]) <= inFlight
      BY <2>2 DEF Flow, FramesCounted
    <3>2. UnderWay' + One(Held(cur)') <= UnderWay + One(Held(cur))
      BY <1>1, <1>4, <2>2
    <3>3. UnderWay' + One(Held(cur)') + AcksIn(ackCh[cur]) <= inFlight
      BY <1>1, <1>3, <2>1, <2>2, <3>1, <3>2
    <3> QED
      BY <1>1, <2>2, <3>3 DEF FramesCounted, Pumping, Held
  <2>3. CASE spc \in {"accept", "cack"}
    <3>1. UnderWay + One(Held(0)) <= 1
      BY <2>3 DEF Flow, FramesCounted
    <3>2. UnderWay' + One(Held(0)') <= 1
      BY <1>1, <1>3, <1>4, <2>1, <3>1
    <3> QED
      BY <1>1, <2>3, <3>2 DEF FramesCounted, Pumping
  <2>4. CASE ~Pumping /\ spc \notin {"accept", "cack"}
    BY <1>1, <1>2, <1>3, <2>4 DEF Flow, FramesCounted, Pumping
  <2> QED
    BY <2>2, <2>3, <2>4
<1>6. ReadersInTurn'
  <2> SUFFICES ASSUME NEW f \in File
               PROVE  /\ f > cur \/ (f = cur /\ spc \in {"offer", "accept"}) =>
                            rd'[f].at = "off" /\ ackCh[f] = <<>>
                      /\ \A i \in 1..Len(ackCh[f]) : ackCh[f][i] = "err" =>
                            i = Len(ackCh[f]) /\ rd'[f].at = "off"
    BY <1>1 DEF ReadersInTurn
  <2>1. f \in Reader /\ (f = r => rd[f].at # "off")
    BY <1>1, <1>2 DEF Reading
  <2> QED
    BY <1>2, <2>1 DEF Flow, ReadersInTurn
<1> QED
  BY <1>1, <1>2, <1>5, <1>6 DEF Flow, FramesOfPhase, WindowKept, Pumping

(* An ackReader that is still running has reported no error. *)
LEMMA RunningQueue ==
  ASSUME ReadersInTurn, NEW r \in File, ackCh[r] \in Seq({"ack", "err"}), rd[r].at # "off",
         NEW w \in {"ack", "err"}
  PROVE  /\ AcksIn(Append(ackCh[r], w)) = AcksIn(ackCh[r]) + (IF w = "ack" THEN 1 ELSE 0)
         /\ \A i \in 1..Len(Append(ackCh[r], w)) :
              Append(ackCh[r], w)[i] = "err" => w = "err" /\ i = Len(Append(ackCh[r], w))
<1> DEFINE q == ackCh[r]
           p == Append(q, w)
<1>1. \A i \in 1..Len(q) : q[i] # "err"
  BY DEF ReadersInTurn
<1>2. /\ Len(q) \in Nat /\ Len(p) = Len(q) + 1 /\ p[Len(q) + 1] = w /\ p # <<>>
      /\ \A i \in 1..Len(q) : p[i] = q[i]
  BY QueueType
<1>3. q # <<>> => q[Len(q)] # "err"
  BY <1>1, <1>2
<1> HIDE DEF p, q
<1>4. AcksIn(q) = Len(q) /\ AcksIn(p) = Len(q) + (IF w = "ack" THEN 1 ELSE 0)
  BY <1>2, <1>3 DEF AcksIn
<1>5. \A i \in 1..Len(p) : p[i] = "err" => w = "err" /\ i = Len(p)
  BY <1>1, <1>2
<1> QED
  BY <1>4, <1>5 DEF p, q

(* An acknowledgement moves from the ackReader's hands to its channel. *)
LEMMA PushFlow ==
  ASSUME TypeInv, Flow, NEW r \in File, PushAck(r) \/ PushErr(r)
  PROVE  Flow'
<1>1. /\ UNCHANGED <<toR, toS, up, spc, cur, inFlight>>
      /\ rd \in [Reader -> ReaderState] /\ r \in Reader /\ r # 0
      /\ ackCh \in [File -> Seq({"ack", "err"})]
      /\ (Pumping => cur \in File) /\ File \subseteq Reader
  BY WireAssumption DEF PushAck, PushErr, Push, wireVars, TypeInv, TypeOK, SenderTypeOK,
     SenderBusy, Pumping, Busy, Reader, File
<1>2. Counted
  BY CountTypes
<1>3. PICK w \in {"ack", "err"} :
        /\ rd[r].at # "off" /\ ackCh' = [ackCh EXCEPT ![r] = Append(ackCh[r], w)]
        /\ w = "ack" => Held(r)
        /\ ~Held(r)' /\ (w = "err" => rd'[r].at = "off")
        /\ \A q \in Reader \ {r} : rd'[q] = rd[q]
  <2>1. CASE PushAck(r)
    <3>1. ackCh' = [ackCh EXCEPT ![r] = Append(ackCh[r], "ack")] /\ rd[r].at = "got"
      BY <2>1 DEF PushAck, Push
    <3>2. rd'[r].at \in {"header", "report"} /\ \A q \in Reader \ {r} : rd'[q] = rd[q]
      <4>1. rd[r] \in ReaderState
        BY <1>1
      <4>2. \E x \in {[at |-> "header", frame |-> ErrorFrame], [rd[r] EXCEPT !.at = "report"]} :
              rd' = [rd EXCEPT ![r] = x]
        BY <2>1 DEF PushAck, StartReading
      <4> QED
        BY <1>1, <4>1, <4>2 DEF ReaderState
    <3> QED
      BY <3>1, <3>2 DEF Held
  <2>2. CASE PushErr(r)
    <3>1. /\ ackCh' = [ackCh EXCEPT ![r] = Append(ackCh[r], "err")] /\ rd[r].at # "off"
          /\ rd' = [rd EXCEPT ![r] = NoReader]
      BY <2>2 DEF PushErr, Push
    <3>2. rd'[r].at = "off" /\ \A q \in Reader \ {r} : rd'[q] = rd[q]
      BY <1>1, <3>1 DEF NoReader
    <3> QED
      BY <3>1, <3>2 DEF Held
  <2> QED
    BY <2>1, <2>2
<1>4. /\ AcksIn(ackCh'[r]) = AcksIn(ackCh[r]) + (IF w = "ack" THEN 1 ELSE 0)
      /\ \A i \in 1..Len(ackCh'[r]) : ackCh'[r][i] = "err" => w = "err" /\ i = Len(ackCh'[r])
      /\ \A f \in File \ {r} : ackCh'[f] = ackCh[f]
  BY <1>1, <1>3, RunningQueue DEF Flow
<1>5. UnderWay' = UnderWay /\ Framed'
  BY <1>1 DEF UnderWay, Flow, Framed
<1>6. FramesCounted'
  <2> SUFFICES ASSUME up PROVE FramesCounted'
    BY <1>1 DEF FramesCounted
  <2>1. Held(0)' <=> Held(0)
    BY <1>1, <1>3, WireAssumption DEF Held, Reader
  <2>2. ASSUME Pumping
        PROVE  UnderWay' + One(Held(cur)') + AcksIn(ackCh'[cur]) <= inFlight
    <3>1. /\ UnderWay + One(Held(cur)) + AcksIn(ackCh[cur]) <= inFlight
          /\ UnderWay \in Nat /\ inFlight \in Nat /\ AcksIn(ackCh[cur]) \in Nat
      BY <1>1, <1>2, <2>2 DEF Flow, FramesCounted, Counted
    <3>2. CASE cur = r
      <4>1. One(Held(cur)') = 0 /\ (w = "ack" => One(Held(cur)) = 1) /\ One(Held(cur)) \in Nat
        BY <1>1, <1>3, <3>2 DEF One, Held
      <4> QED
        BY <1>3, <1>4, <1>5, <3>1, <3>2, <4>1
    <3>3. CASE cur # r
      <4>1. One(Held(cur)') = One(Held(cur)) /\ AcksIn(ackCh'[cur]) = AcksIn(ackCh[cur])
        BY <1>1, <1>3, <1>4, <2>2, <3>3 DEF One, Held
      <4> QED
        BY <1>5, <3>1, <4>1
    <3> QED
      BY <3>2, <3>3
  <2> QED
    BY <1>1, <1>5, <2>1, <2>2 DEF Flow, FramesCounted, Pumping, Held, One
<1>7. ReadersInTurn'
  <2> SUFFICES ASSUME NEW f \in File
               PROVE  /\ f > cur \/ (f = cur /\ spc \in {"offer", "accept"}) =>
                            rd'[f].at = "off" /\ ackCh'[f] = <<>>
                      /\ \A i \in 1..Len(ackCh'[f]) : ackCh'[f][i] = "err" =>
                            i = Len(ackCh'[f]) /\ rd'[f].at = "off"
    BY <1>1 DEF ReadersInTurn
  <2>1. CASE f = r
    BY <1>3, <1>4, <2>1 DEF Flow, ReadersInTurn
  <2>2. CASE f # r
    <3>1. rd'[f] = rd[f] /\ ackCh'[f] = ackCh[f]
      BY <1>1, <1>3, <1>4, <2>2
    <3> QED
      BY <3>1 DEF Flow, ReadersInTurn
  <2> QED
    BY <2>1, <2>2
<1> QED
  BY <1>1, <1>5, <1>6, <1>7 DEF Flow, FramesOfPhase, WindowKept, Pumping
-----------------------------------------------------------------------------
(* The steps of the main goroutine. *)

(* A frame is sent while nothing, or fewer than a window of chunks, is      *)
(* under way.                                                               *)
LEMMA SendCount ==
  ASSUME TypeInv, TypeInv', NEW m, SendToReceiver(m)
  PROVE  /\ toS' = toS /\ up' = up
         /\ up => /\ UnderWay' = UnderWay + 1 /\ Len(toR') = Len(toR) + 1
                  /\ toR'[Len(toR) + 1] = m
                  /\ \A i \in 1..Len(toR) : toR'[i] = toR[i]
         /\ ~up => toR' = toR
<1>1. toR \in Seq(Message) /\ Counted
  BY CountTypes DEF TypeInv, TypeOK, WireTypeOK
<1>2. toS' = toS /\ up' = up /\ (up => toR' = Append(toR, m)) /\ (~up => toR' = toR)
  BY DEF SendToReceiver
<1>3. up => /\ Len(toR') = Len(toR) + 1 /\ toR'[Len(toR) + 1] = m
            /\ \A i \in 1..Len(toR) : toR'[i] = toR[i]
  BY <1>1, <1>2
<1> QED
  BY <1>1, <1>2, <1>3 DEF UnderWay, Counted

(* An offer, a COMPLETE: the only frame under way. *)
LEMMA RequestFlow ==
  ASSUME TypeInv, TypeInv', Flow, SendOffer \/ SendComplete
  PROVE  Flow'
<1>1. /\ UNCHANGED <<cur, inFlight, ackCh>>
      /\ rd \in [Reader -> ReaderState] /\ 0 \in Reader /\ 0 \notin File /\ File \subseteq Reader
      /\ rd' = [rd EXCEPT ![0] = [at |-> "header", frame |-> ErrorFrame]]
  BY WireAssumption DEF SendOffer, SendComplete, StartReading, TypeInv, TypeOK, SenderTypeOK,
     Reader, File
<1>2. \A f \in File : rd'[f] = rd[f]
  BY <1>1
<1>3. PICK m : /\ SendToReceiver(m)
               /\ \/ spc = "offer" /\ spc' = "accept" /\ m.t = "FILE_OFFER"
                  \/ spc = "complete" /\ spc' = "cack" /\ m.t = "COMPLETE"
  BY DEF SendOffer, SendComplete, Goto, FileOffer, Complete, Msg
<1>4. /\ toS' = toS /\ up' = up
      /\ up => /\ UnderWay' = UnderWay + 1 /\ Len(toR') = Len(toR) + 1
               /\ toR'[Len(toR) + 1] = m
               /\ \A i \in 1..Len(toR) : toR'[i] = toR[i]
      /\ ~up => toR' = toR
  BY <1>3, SendCount
<1>5. Counted
  BY CountTypes
<1>6. up => UnderWay = 0 /\ Len(toR) = 0
  BY <1>3, <1>5 DEF Flow, FramesCounted, UnderWay, Counted
<1>7. ~Held(0)'
  BY <1>1 DEF Held
<1>8. FramesCounted'
  BY <1>3, <1>4, <1>6, <1>7 DEF FramesCounted, Pumping, One
<1>9. FramesOfPhase'
  BY <1>3, <1>4, <1>6 DEF FramesOfPhase, Pumping
<1>10. ReadersInTurn'
  BY <1>1, <1>2, <1>3 DEF Flow, ReadersInTurn
<1>11. WindowKept'
  BY <1>1, <1>3, <1>4, <1>6, WireAssumption DEF Flow, WindowKept
<1> QED
  BY <1>4, <1>8, <1>9, <1>10, <1>11 DEF Flow, Framed

(* A chunk: one more under way, one more in flight. *)
LEMMA ChunkFlow ==
  ASSUME TypeInv, TypeInv', Flow, SendChunk
  PROVE  Flow'
<1>1. /\ UNCHANGED <<cur, rd, ackCh>> /\ inFlight' = inFlight + 1
      /\ spc = "pump" /\ spc' \in {"pump", "full"} /\ (spc' = "pump" => inFlight + 1 < Window)
      /\ cur \in File
  BY WireAssumption DEF SendChunk, Goto, WindowFull, TypeInv, TypeOK, SenderTypeOK, SenderBusy, Busy
<1>2. PICK m : SendToReceiver(m) /\ m.t = "DATA"
  BY DEF SendChunk, Data, Msg
<1>3. /\ toS' = toS /\ up' = up
      /\ up => /\ UnderWay' = UnderWay + 1 /\ Len(toR') = Len(toR) + 1
               /\ toR'[Len(toR) + 1] = m
               /\ \A i \in 1..Len(toR) : toR'[i] = toR[i]
      /\ ~up => toR' = toR
  BY <1>2, SendCount
<1>4. Counted
  BY CountTypes
<1>5. One(Held(cur)) \in Nat /\ One(Held(cur)') = One(Held(cur)) /\ AcksIn(ackCh[cur]) \in Nat
  BY <1>1, <1>4 DEF Held, One, Counted
<1>6. up => UnderWay + One(Held(cur)) + AcksIn(ackCh[cur]) <= inFlight
  BY <1>1 DEF Flow, FramesCounted, Pumping
<1>7. FramesCounted'
  <2> SUFFICES ASSUME up PROVE FramesCounted'
    BY <1>3 DEF FramesCounted
  <2>1. UnderWay' + One(Held(cur)') + AcksIn(ackCh[cur]) <= inFlight + 1
    BY <1>3, <1>4, <1>5, <1>6 DEF Counted
  <2> QED
    BY <1>1, <2>1 DEF FramesCounted, Pumping, Held
<1>8. FramesOfPhase'
  BY <1>1, <1>2, <1>3 DEF Flow, FramesOfPhase, Pumping
<1>9. ReadersInTurn'
  BY <1>1 DEF Flow, ReadersInTurn
<1>10. WindowKept'
  <2>1. inFlight < Window /\ inFlight' <= Window /\ (spc' = "pump" => inFlight' < Window)
    BY <1>1, <1>4, WireAssumption DEF Flow, WindowKept, Counted
  <2>2. up => Len(toR) + 1 <= Window
    BY <1>4, <1>5, <1>6, <2>1, WireAssumption DEF Counted, UnderWay
  <2> QED
    BY <1>2, <1>3, <2>1, <2>2 DEF Flow, WindowKept
<1> QED
  BY <1>3, <1>7, <1>8, <1>9, <1>10 DEF Flow, Framed

(* FILE_ACCEPT in hand: nothing is under way when the chunks start. *)
LEMMA StartFlow ==
  ASSUME TypeInv, Flow, StartChunks
  PROVE  Flow'
<1>1. /\ UNCHANGED <<toR, toS, up, cur, ackCh>> /\ inFlight' = 0
      /\ spc = "accept" /\ spc' = "pump" /\ Held(0)
      /\ cur \in File /\ cur \in Reader /\ cur # 0 /\ 0 \in Reader /\ File \subseteq Reader
      /\ rd \in [Reader -> ReaderState]
      /\ rd' = [rd EXCEPT ![0] = NoReader, ![cur] = [NoReader EXCEPT !.at = "header"]]
  BY WireAssumption DEF StartChunks, wireVars, Goto, Held, TypeInv, TypeOK, SenderTypeOK,
     SenderBusy, Busy, Reader, File
<1>2. rd'[cur].at = "header" /\ \A f \in File \ {cur} : rd'[f] = rd[f]
  BY <1>1, WireAssumption DEF NoReader, File
<1>3. ackCh[cur] = <<>> /\ AcksIn(ackCh[cur]) = 0 /\ One(Held(cur)') = 0
  BY <1>1, <1>2 DEF Flow, ReadersInTurn, AcksIn, One, Held
<1>4. Counted
  BY CountTypes
<1>5. up => UnderWay = 0 /\ Len(toR) = 0
  BY <1>1, <1>4 DEF Flow, FramesCounted, Counted, UnderWay, One
<1>6. FramesCounted'
  <2>1. up => UnderWay' = 0
    BY <1>1, <1>5 DEF UnderWay
  <2>2. ~Held(cur)'
    BY <1>1, <1>2 DEF Held
  <2> QED
    BY <1>1, <1>3, <2>1, <2>2 DEF FramesCounted, Pumping, Held, One
<1>7. FramesOfPhase'
  BY <1>1, <1>5 DEF FramesOfPhase
<1>8. ReadersInTurn'
  <2> SUFFICES ASSUME NEW f \in File
               PROVE  /\ f > cur => rd'[f].at = "off" /\ ackCh[f] = <<>>
                      /\ \A i \in 1..Len(ackCh[f]) : ackCh[f][i] = "err" =>
                            i = Len(ackCh[f]) /\ rd'[f].at = "off"
    BY <1>1 DEF ReadersInTurn
  <2>1. CASE f = cur
    BY <1>1, <1>3, <2>1 DEF File
  <2>2. CASE f # cur
    <3>1. rd'[f] = rd[f]
      BY <1>2, <2>2
    <3> QED
      BY <3>1 DEF Flow, ReadersInTurn
  <2> QED
    BY <2>1, <2>2
<1>9. WindowKept'
  BY <1>1, WireAssumption DEF Flow, WindowKept
<1> QED
  BY <1>1, <1>6, <1>7, <1>8, <1>9 DEF Flow, Framed

(* A receive from the channel: one acknowledgement less to come, or none.   *)
LEMMA TakenFlow ==
  ASSUME TypeInv, TypeInv', Flow,
         FullTakesAck \/ FullTakesErr \/ DrainTakesAck \/ DrainTakesErr
  PROVE  Flow'
<1> DEFINE q == ackCh[cur]
<1>1. /\ UNCHANGED <<toR, toS, up, cur, rd>>
      /\ spc \in {"full", "drain"} /\ cur \in File
      /\ q # <<>> /\ q \in Seq({"ack", "err"})
      /\ ackCh \in [File -> Seq({"ack", "err"})]
      /\ ackCh' = [ackCh EXCEPT ![cur] = Tail(q)]
  BY DEF FullTakesAck, FullTakesErr, DrainTakesAck, DrainTakesErr, Taken, wireVars, TypeInv,
     TypeOK, SenderTypeOK, SenderBusy, Busy
<1>2. Counted /\ Counted'
  BY CountTypes, CountTypesNext
<1>3. /\ Len(q) \in Nat \ {0} /\ Head(q) = q[1] /\ Len(Tail(q)) = Len(q) - 1
      /\ \A i \in 1..(Len(q) - 1) : Tail(q)[i] = q[i + 1]
  BY <1>1, QueueType
<1>4. /\ \A i \in 1..Len(Tail(q)) : Tail(q)[i] = "err" => i = Len(Tail(q)) /\ rd[cur].at = "off"
      /\ Head(q) = "err" => Len(Tail(q)) = 0
  <2> DEFINE t == Tail(q)
             n == Len(q)
             k == Len(t)
  <2>1. /\ n \in Nat \ {0} /\ k = n - 1 /\ Head(q) = q[1]
        /\ \A i \in 1..k : t[i] = q[i + 1]
    BY <1>3
  <2>2. \A i \in 1..n : q[i] = "err" => i = n /\ rd[cur].at = "off"
    BY <1>1 DEF Flow, ReadersInTurn
  <2> HIDE DEF q, t, n, k
  <2>3. /\ \A i \in 1..k : t[i] = "err" => i = k /\ rd[cur].at = "off"
        /\ Head(q) = "err" => k = 0
    BY <2>1, <2>2
  <2> QED
    BY <2>3 DEF t, k
<1>5. AcksIn(Tail(q)) <= AcksIn(q) /\ (Head(q) = "ack" => AcksIn(Tail(q)) = AcksIn(q) - 1)
  <2>1. CASE Len(q) = 1
    <3>1. Tail(q) = <<>>
      BY <1>1, <1>3, <2>1
    <3> QED
      BY <1>1, <1>3, <2>1, <3>1 DEF AcksIn
  <2>2. CASE Len(q) # 1
    <3> HIDE DEF q
    <3>1. /\ Len(q) - 1 \in 1..(Len(q) - 1) /\ Len(q) - 1 + 1 = Len(q) /\ Len(q) \in Int
          /\ Tail(q) # <<>>
      BY <1>3, <2>2
    <3>2. Tail(q)[Len(Tail(q))] = q[Len(q)]
      BY <1>3, <3>1
    <3> QED
      BY <1>1, <1>3, <2>2, <3>1, <3>2 DEF AcksIn
  <2> QED
    BY <2>1, <2>2
<1>6. ackCh'[cur] = Tail(q) /\ \A f \in File \ {cur} : ackCh'[f] = ackCh[f]
  BY <1>1
<1>7. ASSUME spc' \notin {"offer", "accept"} PROVE ReadersInTurn'
  <2> SUFFICES ASSUME NEW f \in File
               PROVE  /\ f > cur => rd[f].at = "off" /\ ackCh'[f] = <<>>
                      /\ \A i \in 1..Len(ackCh'[f]) : ackCh'[f][i] = "err" =>
                            i = Len(ackCh'[f]) /\ rd[f].at = "off"
    BY <1>1, <1>7 DEF ReadersInTurn
  <2> HIDE DEF q
  <2>1. CASE f = cur
    BY <1>1, <1>4, <1>6, <2>1 DEF File
  <2>2. CASE f # cur
    <3>1. ackCh'[f] = ackCh[f]
      BY <1>6, <2>2
    <3> QED
      BY <3>1 DEF Flow, ReadersInTurn
  <2> QED
    BY <2>1, <2>2
<1>8. CASE FullTakesAck \/ DrainTakesAck
  <2>1. /\ Head(q) = "ack" /\ inFlight' = inFlight - 1
        /\ spc' \in {"full", "pump", "drain"} /\ (spc' = "pump" => inFlight - 1 < Window)
    BY <1>2, <1>8, WireAssumption DEF FullTakesAck, DrainTakesAck, Taken, AfterAck, Goto, WindowFull, Counted
  <2> HIDE DEF q
  <2>2. FramesCounted'
    <3> SUFFICES ASSUME up PROVE FramesCounted'
      BY <1>1 DEF FramesCounted
    <3>1. UnderWay + One(Held(cur)) + AcksIn(q) <= inFlight
      BY <1>1 DEF Flow, FramesCounted, Pumping, q
    <3>2. /\ UnderWay \in Nat /\ One(Held(cur)) \in Nat /\ AcksIn(q) \in Nat
          /\ UnderWay' = UnderWay /\ One(Held(cur)') = One(Held(cur))
      BY <1>1, <1>2 DEF Counted, One, UnderWay, Held, q
    <3>3. UnderWay' + One(Held(cur)') + AcksIn(ackCh'[cur]) <= inFlight'
      BY <1>2, <1>5, <1>6, <2>1, <3>1, <3>2 DEF Counted
    <3> QED
      BY <1>1, <2>1, <3>3 DEF FramesCounted, Pumping, Held
  <2>3. WindowKept'
    BY <1>1, <1>2, <2>1, WireAssumption DEF Flow, WindowKept, Counted
  <2>4. ReadersInTurn'
    BY <1>7, <2>1
  <2>5. FramesOfPhase'
    BY <1>1, <2>1 DEF Flow, FramesOfPhase, Pumping
  <2> QED
    BY <1>1, <2>2, <2>3, <2>4, <2>5 DEF Flow, Framed
<1>9. CASE FullTakesErr \/ DrainTakesErr
  <2>1. Head(q) = "err" /\ inFlight' = inFlight /\ spc' \in {"drain", "fail"}
    BY <1>9 DEF FullTakesErr, DrainTakesErr, Taken, Goto
  <2> HIDE DEF q
  <2>2. FramesCounted'
    <3> SUFFICES ASSUME up PROVE FramesCounted'
      BY <1>1 DEF FramesCounted
    <3>1. UnderWay + One(Held(cur)) + AcksIn(q) <= inFlight
      BY <1>1 DEF Flow, FramesCounted, Pumping, q
    <3>2. /\ UnderWay \in Nat /\ One(Held(cur)) \in Nat /\ AcksIn(q) \in Nat
          /\ UnderWay' = UnderWay /\ One(Held(cur)') = One(Held(cur))
          /\ AcksIn(ackCh'[cur]) \in Nat
      BY <1>1, <1>2 DEF Counted, One, UnderWay, Held, q
    <3>3. UnderWay' + One(Held(cur)') + AcksIn(ackCh'[cur]) <= inFlight'
      BY <1>2, <1>5, <1>6, <2>1, <3>1, <3>2 DEF Counted
    <3> QED
      BY <1>1, <2>1, <3>3 DEF FramesCounted, Pumping, Held
  <2>3. WindowKept'
    BY <1>1, <2>1 DEF Flow, WindowKept
  <2>4. ReadersInTurn'
    BY <1>7, <2>1
  <2>5. FramesOfPhase'
    BY <1>1, <2>1 DEF Flow, FramesOfPhase, Pumping
  <2> QED
    BY <1>1, <2>2, <2>3, <2>4, <2>5 DEF Flow, Framed
<1> QED
  BY <1>8, <1>9

(* A step that neither sends, reads nor takes anything that is counted. *)
LEMMA QuietFlow ==
  ASSUME TypeInv, Flow, UNCHANGED <<toS, up, inFlight, ackCh>>,
         Len(toR') = Len(toR), \A i \in 1..Len(toR) : toR'[i].t = toR[i].t,
         \A f \in File : rd'[f] = rd[f],
         cur' \in {cur, cur + 1},
         Pumping' => Pumping /\ cur' = cur /\ (spc' = "pump" => spc = "pump"),
         spc' \in {"accept", "cack"} => spc' = spc /\ rd'[0] = rd[0],
         spc' \in {"offer", "complete"} => (up => UnderWay = 0),
         spc' \in {"offer", "accept"} /\ cur' = cur => spc' = spc
  PROVE  Flow'
<1>1. /\ cur \in 1..(NFiles + 1) /\ File \subseteq Nat /\ (Pumping => cur \in File)
      /\ Len(toR) \in Nat
  BY CountTypes DEF TypeInv, TypeOK, SenderTypeOK, SenderBusy, Pumping, Busy, File, Counted
<1>2. UnderWay' = UnderWay
  BY DEF UnderWay
<1>3. FramesCounted'
  <2>1. Pumping' => One(Held(cur)') = One(Held(cur))
    BY <1>1 DEF Held, One
  <2>2. spc' \in {"accept", "cack"} => One(Held(0)') = One(Held(0)) /\ spc' = spc
    BY DEF Held, One
  <2>3. ASSUME up, Pumping' PROVE UnderWay' + One(Held(cur)') + AcksIn(ackCh'[cur']) <= inFlight'
    BY <1>2, <2>1, <2>3 DEF Flow, FramesCounted
  <2>4. ASSUME up, Pumping' PROVE (Pumping => UnderWay + One(Held(cur)) + AcksIn(ackCh[cur]) <= inFlight)'
    BY <2>3, <2>4
  <2>5. ASSUME up, spc' \in {"accept", "cack"} PROVE (UnderWay + One(Held(0)) <= 1)'
    BY <1>2, <2>2, <2>5 DEF Flow, FramesCounted
  <2> QED
    BY <1>2, <2>4, <2>5 DEF FramesCounted
<1>4. FramesOfPhase'
  <2>1. spc' = "accept" \/ spc' = "cack" \/ Pumping' => FramesOfPhase'
    BY DEF Flow, FramesOfPhase, Pumping
  <2> QED
    BY <2>1 DEF FramesOfPhase, Pumping
<1>5. ReadersInTurn'
  <2> SUFFICES ASSUME NEW f \in File
               PROVE  f > cur' \/ (f = cur' /\ spc' \in {"offer", "accept"}) =>
                        rd[f].at = "off" /\ ackCh[f] = <<>>
    BY DEF Flow, ReadersInTurn
  <2>1. f > cur' => f > cur
    BY <1>1
  <2>2. f = cur' /\ cur' # cur => f > cur
    BY <1>1
  <2> QED
    BY <2>1, <2>2 DEF Flow, ReadersInTurn
<1>6. WindowKept'
  <2>1. spc' = "pump" => spc = "pump"
    BY DEF Pumping
  <2> QED
    BY <1>1, <2>1 DEF Flow, WindowKept
<1> QED
  BY <1>3, <1>4, <1>5, <1>6 DEF Flow, Framed

(* Once the connection is down only the readers and the window matter. *)
LEMMA DownFlow ==
  ASSUME Flow, up' = FALSE, UNCHANGED <<cur, inFlight, ackCh>>,
         \A f \in File : rd'[f].at \in {rd[f].at, "off"},
         spc' = spc \/ spc' \in {"done", "ended"},
         \A i \in 1..Len(toR') : toR'[i].t = "DATA" => i <= Window
  PROVE  Flow'
<1>1. ReadersInTurn'
  BY DEF Flow, ReadersInTurn
<1>2. WindowKept'
  BY DEF Flow, WindowKept
<1> QED
  BY <1>1, <1>2 DEF Flow, Framed, FramesCounted, FramesOfPhase

(* What a Close lets through holds no chunk that was not there. *)
LEMMA SurvivingChunks ==
  ASSUME WireTypeOK, WindowKept, NEW last \in Seq(Message), SenderCloses(last),
         \A i \in 1..Len(last) : last[i].t # "DATA"
  PROVE  up' = FALSE /\ \A i \in 1..Len(toR') : toR'[i].t = "DATA" => i <= Window
<1> DEFINE q == IF up THEN toR \o last ELSE toR
<1>1. toR \in Seq(Message) /\ q \in Seq(Message)
  BY DEF WireTypeOK
<1>2. \A i \in 1..Len(q) : q[i].t = "DATA" => i <= Window
  <2>1. \A i \in 1..Len(q) : q[i].t = "DATA" => i <= Len(toR) /\ q[i] = toR[i]
    BY <1>1
  <2> QED
    BY <1>1, <2>1 DEF WindowKept
<1>3. toR' \in Survives(q, toS) /\ up' = FALSE
  BY DEF SenderCloses
<1> HIDE DEF q
<1>4. Len(toR') <= Len(q) /\ \A i \in 1..Len(toR') : toR'[i] = q[i]
  BY <1>1, <1>3, SurvivesType
<1>5. Len(toR') \in Nat
  BY <1>1, <1>3, SurvivesType
<1> QED
  BY <1>1, <1>2, <1>3, <1>4, <1>5

(* The sender's main goroutine. *)
LEMMA SenderMainFlow ==
  ASSUME TypeInv, TypeInv', Flow, SenderMain
  PROVE  Flow'
<1>1. /\ WireTypeOK /\ WindowKept /\ Counted
      /\ rd \in [Reader -> ReaderState] /\ 0 \in Reader /\ 0 \notin File /\ File \subseteq Reader
      /\ cur \in 1..(NFiles + 1) /\ (Pumping => cur \in File)
  BY CountTypes, WireAssumption DEF Flow, TypeInv, TypeOK, SenderTypeOK, SenderBusy, Pumping,
     Busy, Reader, File
<1>2. CASE SendOffer \/ SendComplete
  BY <1>2, RequestFlow
<1>3. CASE SendChunk
  BY <1>3, ChunkFlow
<1>4. CASE StartChunks
  BY <1>4, StartFlow
<1>5. CASE FullTakesAck \/ FullTakesErr \/ DrainTakesAck \/ DrainTakesErr
  BY <1>5, TakenFlow
<1>6. CASE ReadFrame(0)
  BY <1>1, <1>6, ReadFrameFlow
<1>7. CASE SendChunkFails \/ EndOfFile
  <2>1. /\ UNCHANGED <<toR, toS, up, inFlight, ackCh, rd, cur>>
        /\ spc = "pump" /\ spc' = "drain"
    BY <1>7 DEF SendChunkFails, EndOfFile, wireVars, Goto
  <2> QED
    BY <2>1, QuietFlow DEF Pumping
<1>8. CASE Drained
  <2>1. /\ UNCHANGED <<toR, toS, up, inFlight, ackCh, rd, cur>>
        /\ spc = "drain" /\ spc' \in {"fail", "complete"} /\ inFlight = 0
    BY <1>8 DEF Drained, wireVars, Goto, AllAcked
  <2>2. up => UnderWay = 0
    <3>1. up => UnderWay + One(Held(cur)) + AcksIn(ackCh[cur]) <= 0
      BY <2>1 DEF Flow, FramesCounted, Pumping
    <3>2. UnderWay \in Nat /\ AcksIn(ackCh[cur]) \in Nat /\ One(Held(cur)) \in Nat
      BY <1>1, <2>1 DEF Counted, Pumping, One
    <3> QED
      BY <3>1, <3>2
  <2> QED
    BY <2>1, <2>2, QuietFlow DEF Pumping
<1>9. CASE FileSent
  <2>1. /\ UNCHANGED <<toR, toS, up, inFlight, ackCh>> /\ cur' = cur + 1
        /\ spc = "cack" /\ spc' = "offer" /\ Held(0)
        /\ rd' = [rd EXCEPT ![0] = NoReader]
    BY <1>9 DEF FileSent, wireVars, Goto, Held
  <2>2. \A f \in File : rd'[f] = rd[f]
    BY <1>1, <2>1
  <2>3. up => UnderWay = 0
    <3>1. up => UnderWay + 1 <= 1
      BY <2>1 DEF Flow, FramesCounted, One
    <3> QED
      BY <1>1, <3>1 DEF Counted
  <2> QED
    BY <1>1, <2>1, <2>2, <2>3, QuietFlow DEF Pumping
<1>10. CASE OfferRefused \/ FileNotSent \/ WriteFails
  <2>1. /\ UNCHANGED <<toR, toS, up, inFlight, ackCh, cur>> /\ spc' = "fail"
        /\ rd' = [rd EXCEPT ![0] = NoReader] \/ rd' = rd
    BY <1>10 DEF OfferRefused, FileNotSent, WriteFails, wireVars, Goto
  <2>2. \A f \in File : rd'[f] = rd[f]
    BY <1>1, <2>1
  <2> QED
    BY <2>1, <2>2, QuietFlow DEF Pumping
<1>11. CASE SendSessionDone \/ SenderAborts
  <2>1. /\ UNCHANGED <<cur, rd, inFlight, ackCh>> /\ spc' \in {"done", "ended"}
        /\ SenderCloses(<<SessionDone>>) \/ SenderCloses(<<ErrorFrame>>)
    BY <1>11 DEF SendSessionDone, SenderAborts, Goto
  <2>2. SessionDone \in Message /\ SessionDone.t # "DATA"
    BY DEF SessionDone, Msg, Message, FrameType, Content
  <2>3. ErrorFrame \in Message /\ ErrorFrame.t # "DATA"
    BY ErrorFrameType DEF ErrorFrame, Msg
  <2>4. up' = FALSE /\ \A i \in 1..Len(toR') : toR'[i].t = "DATA" => i <= Window
    <3>1. \A m \in {SessionDone, ErrorFrame} :
            <<m>> \in Seq(Message) /\ \A i \in 1..Len(<<m>>) : <<m>>[i].t # "DATA"
      BY <2>2, <2>3
    <3> QED
      BY <1>1, <2>1, <3>1, SurvivingChunks
  <2> QED
    BY <2>1, <2>4, DownFlow
<1> QED
  BY <1>2, <1>3, <1>4, <1>5, <1>6, <1>7, <1>8, <1>9, <1>10, <1>11 DEF SenderMain

(* What may happen to the sender and to the connection. *)
LEMMA FaultFlow ==
  ASSUME TypeInv, Flow,
         \/ SenderKilled \/ SourceUnreadable \/ \E f \in File : EditFile(f)
         \/ (BreakConn \/ CorruptChunk) /\ UNCHANGED senderVars
  PROVE  Flow'
<1>1. /\ WireTypeOK /\ WindowKept /\ toR \in Seq(Message) /\ Len(toR) \in Nat
      /\ rd \in [Reader -> ReaderState] /\ 0 \in Reader /\ 0 \notin File /\ File \subseteq Reader
  BY WireAssumption DEF Flow, TypeInv, TypeOK, WireTypeOK, SenderTypeOK, Reader, File
<1>2. CASE SenderKilled
  <2>1. /\ UNCHANGED <<cur, inFlight, ackCh>> /\ spc' = "ended" /\ SenderCloses(<<>>)
        /\ rd' = [r \in Reader |-> NoReader]
    BY <1>2 DEF SenderKilled, Goto
  <2>2. <<>> \in Seq(Message) /\ \A i \in 1..Len(<<>>) : <<>>[i].t # "DATA"
    OBVIOUS
  <2>3. up' = FALSE /\ \A i \in 1..Len(toR') : toR'[i].t = "DATA" => i <= Window
    BY <1>1, <2>1, <2>2, SurvivingChunks
  <2>4. \A f \in File : rd'[f].at = "off"
    BY <1>1, <2>1 DEF NoReader
  <2> QED
    BY <2>1, <2>3, <2>4, DownFlow
<1>3. CASE SourceUnreadable
  <2>1. /\ UNCHANGED <<toR, toS, up, cur, inFlight, ackCh>> /\ spc' = "fail"
        /\ rd' = rd \/ rd' = [rd EXCEPT ![0] = NoReader]
    BY <1>3 DEF SourceUnreadable, Goto
  <2>2. \A f \in File : rd'[f] = rd[f]
    BY <1>1, <2>1
  <2> QED
    BY <2>1, <2>2, QuietFlow DEF Pumping
<1>4. CASE \E f \in File : EditFile(f)
  <2>1. UNCHANGED <<toR, toS, up, spc, cur, inFlight, rd, ackCh>>
    BY <1>4 DEF EditFile
  <2>2. spc' \in {"offer", "complete"} => (up => UnderWay = 0)
    BY <2>1 DEF Flow, FramesCounted
  <2> QED
    BY <2>1, <2>2, QuietFlow DEF Pumping
<1>5. CASE BreakConn /\ UNCHANGED senderVars
  <2>1. UNCHANGED <<spc, cur, inFlight, rd, ackCh>> /\ toR' \in Prefixes(toR) /\ up' = FALSE
    BY <1>5 DEF BreakConn, senderVars
  <2>2. toR' \in Seq(Message) /\ Len(toR') <= Len(toR) /\ \A i \in 1..Len(toR') : toR'[i] = toR[i]
    BY <1>1, <2>1, PrefixType
  <2>3. \A i \in 1..Len(toR') : toR'[i].t = "DATA" => i <= Window
    BY <1>1, <2>2 DEF WindowKept
  <2> QED
    BY <2>1, <2>3, DownFlow
<1>6. CASE CorruptChunk /\ UNCHANGED senderVars
  <2>1. UNCHANGED <<toS, up, spc, cur, inFlight, rd, ackCh>>
    BY <1>6 DEF CorruptChunk, senderVars
  <2>2. PICK i \in 1..Len(toR) :
          /\ toR[i].t = "DATA"
          /\ toR' = [toR EXCEPT ![i].body = [j \in DOMAIN @ |-> Junk], ![i].ok = FALSE]
    BY <1>6 DEF CorruptChunk
  <2>3. toR[i] \in Message
    BY <1>1
  <2>4. Len(toR') = Len(toR) /\ \A k \in 1..Len(toR) : toR'[k].t = toR[k].t
    BY <1>1, <2>2, <2>3 DEF Message
  <2>5. spc' \in {"offer", "complete"} => (up => UnderWay = 0)
    BY <2>1 DEF Flow, FramesCounted
  <2> QED
    BY <2>1, <2>4, <2>5, QuietFlow DEF Pumping
<1> QED
  BY <1>2, <1>3, <1>4, <1>5, <1>6
-----------------------------------------------------------------------------
(* The steps of the receiver. *)

(* A frame is read and one is written: the number under way is the same. *)
LEMMA ReplyFlow ==
  ASSUME TypeInv, Flow, toR # <<>>, toR' = Tail(toR), up' = up, UNCHANGED senderVars,
         NEW m \in Message, toS' = Delivered(m)
  PROVE  Flow'
<1>1. toR \in Seq(Message) /\ toS \in Seq(Piece) /\ Counted
  BY CountTypes DEF TypeInv, TypeOK, WireTypeOK
<1>2. /\ Len(toR) \in Nat \ {0} /\ Len(toR') = Len(toR) - 1
      /\ \A i \in 1..(Len(toR) - 1) : toR'[i] = toR[i + 1]
  BY <1>1, QueueType
<1>3. up => Paired(toS') /\ Len(toS') \div 2 = Len(toS) \div 2 + 1
  BY <1>1, StreamWritten DEF Delivered, Flow, Framed
<1>4. up => UnderWay' = UnderWay
  BY <1>1, <1>2, <1>3 DEF UnderWay, Counted
<1>5. FramesCounted'
  BY <1>4 DEF Flow, FramesCounted, senderVars, Pumping, Held, One
<1>6. FramesOfPhase'
  <2> SUFFICES ASSUME up, NEW i \in 1..Len(toR')
               PROVE  /\ Pumping => toR'[i].t = "DATA"
                      /\ spc = "accept" => toR'[i].t = "FILE_OFFER"
                      /\ spc = "cack" => toR'[i].t = "COMPLETE"
    BY DEF FramesOfPhase, senderVars, Pumping
  <2>1. toR'[i] = toR[i + 1] /\ i + 1 \in 1..Len(toR)
    BY <1>2
  <2> QED
    BY <2>1 DEF Flow, FramesOfPhase
<1>7. ReadersInTurn'
  BY DEF Flow, ReadersInTurn, senderVars
<1>8. WindowKept'
  <2>1. ASSUME NEW i \in 1..Len(toR'), toR'[i].t = "DATA" PROVE i <= Window
    <3>1. toR'[i] = toR[i + 1] /\ i + 1 \in 1..Len(toR)
      BY <1>2
    <3>2. i + 1 <= Window
      BY <2>1, <3>1 DEF Flow, WindowKept
    <3> QED
      BY <3>2, WireAssumption
  <2> QED
    BY <2>1 DEF Flow, WindowKept, senderVars
<1> QED
  BY <1>3, <1>5, <1>6, <1>7, <1>8 DEF Flow, Framed

(* What the receiver writes is a frame. *)
LEMMA RepliesAreMessages ==
  ASSUME TypeInv, toR # <<>>
  PROVE  /\ DataAck(rfile, expected, TRUE) \in Message
         /\ CompleteAck(rfile, TRUE) \in Message
         /\ Head(toR).t = "FILE_OFFER" =>
              /\ FileReject(Head(toR).id) \in Message
              /\ FileAccept(Head(toR).id, ResumeChunk(NameOf[Head(toR).id])) \in Message
<1>1. /\ rfile \in Nat /\ expected \in Nat /\ WireTypeOK /\ OffersNamed /\ ReceiverTypeOK
      /\ {"FILE_ACCEPT", "FILE_REJECT", "DATA_ACK", "COMPLETE_ACK"} \subseteq FrameType
      /\ <<>> \in Content /\ 0 \in Nat
  BY WireAssumption DEF TypeInv, TypeOK, ReceiverTypeOK, FrameType, Content
<1>2. DataAck(rfile, expected, TRUE) \in Message /\ CompleteAck(rfile, TRUE) \in Message
  BY <1>1, MessageType DEF DataAck, CompleteAck
<1>3. ASSUME Head(toR).t = "FILE_OFFER"
      PROVE  /\ FileReject(Head(toR).id) \in Message
             /\ FileAccept(Head(toR).id, ResumeChunk(NameOf[Head(toR).id])) \in Message
  <2>1. Head(toR).id \in File /\ Head(toR).id \in Nat
    BY <1>1, <1>3, ReadOneType DEF File
  <2>2. NameOf[Head(toR).id] \in Name
    BY <2>1, NameAssumption
  <2>3. ResumeChunk(NameOf[Head(toR).id]) \in Nat
    <3>1. \A n \in Name : part[n] # NoFile => Len(part[n].data) \in Nat
      BY <1>1 DEF ReceiverTypeOK, DiskFile, Content
    <3> QED
      BY <2>2, <3>1, QuotientType, WireAssumption DEF ResumeChunk
  <2> QED
    BY <1>1, <2>1, <2>3, MessageType DEF FileReject, FileAccept
<1> QED
  BY <1>2, <1>3

(* The receiver. *)
LEMMA ReceiverFlow ==
  ASSUME TypeInv, Flow, ReceiverStep \/ ReceiverFault
  PROVE  Flow'
<1>1. ReceiverTypeInv /\ UNCHANGED senderVars
  BY DEF TypeInv, TypeOK, ReceiverTypeInv, ReceiverStep, ReceiverFault
<1>2. CASE Returns
  <2>1. toR' = <<>> /\ up' = FALSE
    BY <1>1, <1>2, ReturnsClose DEF ReceiverCloses
  <2>2. UNCHANGED <<spc, cur, inFlight, rd, ackCh>>
    BY <1>1 DEF senderVars
  <2>3. \A i \in 1..Len(toR') : toR'[i].t = "DATA" => i <= Window
    BY <2>1
  <2> QED
    BY <2>1, <2>2, <2>3, DownFlow
<1>3. CASE AcceptOffer \/ DeclineOffer
  <2>1. /\ toR # <<>> /\ Head(toR).t = "FILE_OFFER" /\ toR' = Tail(toR) /\ up' = up
        /\ \/ toS' = Delivered(FileReject(Head(toR).id))
           \/ toS' = Delivered(FileAccept(Head(toR).id, ResumeChunk(NameOf[Head(toR).id])))
    BY <1>3 DEF AcceptOffer, DeclineOffer, Next1, ReadOne, Reply
  <2> QED
    BY <1>1, <2>1, RepliesAreMessages, ReplyFlow
<1>4. CASE ReceiveChunk \/ VerifyOK
  <2>1. /\ toR # <<>> /\ toR' = Tail(toR) /\ up' = up
        /\ \/ toS' = Delivered(DataAck(rfile, expected, TRUE))
           \/ toS' = Delivered(CompleteAck(rfile, TRUE))
    BY <1>4 DEF ReceiveChunk, VerifyOK, Next1, ReadOne, Reply
  <2> QED
    BY <1>1, <2>1, RepliesAreMessages, ReplyFlow
<1>5. CASE SyncPart \/ RemoveOld \/ RenamePart
  <2>1. UNCHANGED <<toR, toS, up>>
    BY <1>5 DEF SyncPart, RemoveOld, RenamePart, wireVars
  <2> QED
    BY <1>1, <2>1 DEF Flow, Framed, FramesCounted, FramesOfPhase, ReadersInTurn, WindowKept,
       senderVars, UnderWay, Pumping, Held
<1> QED
  BY <1>2, <1>3, <1>4, <1>5 DEF ReceiverStep, ReceiverMain, ReceiverFault, ReceiverFaults, Returns
-----------------------------------------------------------------------------
(* FlowInv is inductive. *)

(* Nothing is under way when a session starts. *)
LEMMA FreshFlow ==
  /\ toR = <<>> /\ toS = <<>> /\ spc = "offer" /\ cur = 1 /\ inFlight = 0
     /\ rd = [r \in Reader |-> NoReader] /\ ackCh = [f \in File |-> <<>>]
  => Flow
<1> SUFFICES ASSUME toR = <<>>, toS = <<>>, spc = "offer", cur = 1, inFlight = 0,
                    rd = [r \in Reader |-> NoReader], ackCh = [f \in File |-> <<>>]
             PROVE  Flow
  OBVIOUS
<1>1. \A f \in File : rd[f].at = "off" /\ ackCh[f] = <<>>
  BY WireAssumption DEF Reader, File, NoReader
<1>2. UnderWay = 0
  BY DEF UnderWay
<1>3. ReadersInTurn
  BY <1>1 DEF ReadersInTurn
<1> QED
  BY <1>2, <1>3, WireAssumption DEF Flow, Framed, Paired, FramesCounted, FramesOfPhase,
     WindowKept, Pumping

(* The same, of the state after a step. *)
LEMMA FreshFlowNext ==
  (/\ toR = <<>> /\ toS = <<>> /\ spc = "offer" /\ cur = 1 /\ inFlight = 0
      /\ rd = [r \in Reader |-> NoReader] /\ ackCh = [f \in File |-> <<>>])'
  => Flow'
BY FreshFlow, PTL

(* All together. *)
LEMMA NextFlow ==
  ASSUME TypeInv, TypeInv', Flow, [Next]_vars
  PROVE  Flow'
<1>1. CASE SenderStep
  <2>1. \A f \in File : f \in Reader
    BY WireAssumption DEF File, Reader
  <2> QED
    BY <1>1, <2>1, SenderMainFlow, ReadFrameFlow, PushFlow DEF SenderStep, AckReader
<1>2. CASE ReceiverStep \/ ReceiverFault
  BY <1>2, ReceiverFlow
<1>3. CASE SenderFault \/ NetworkFault
  BY <1>3, FaultFlow DEF SenderFault, NetworkFault
<1>4. CASE NewSession
  BY <1>4, FreshFlowNext DEF NewSession, SenderRestarts
<1>5. CASE UNCHANGED vars
  BY <1>5 DEF Flow, Framed, FramesCounted, FramesOfPhase, ReadersInTurn, WindowKept,
     vars, wireVars, senderVars, UnderWay, Pumping, Held
<1> QED
  BY <1>1, <1>2, <1>3, <1>4, <1>5 DEF Next

(* What is on its way is what the sender waits for: one answer to an offer  *)
(* or a COMPLETE, at most inFlight chunks and acknowledgements otherwise.   *)
THEOREM FlowIsInvariant == Spec => []FlowInv
<1>1. Init => FlowInv
  BY InitTypeInv, FreshFlow DEF Init, WireInit, SenderInit, SenderStart, FlowInv, Flow
<1>2. FlowInv /\ [Next]_vars => FlowInv'
  BY NextTypeInv, NextFlow DEF FlowInv, Flow
<1> QED
  BY <1>1, <1>2, PTL DEF Spec

(* The positions that hold something, among 1..n. *)
LEMMA PartOf ==
  ASSUME NEW n \in Nat, NEW S \in SUBSET (1..n)
  PROVE  IsFiniteSet(S) /\ Cardinality(S) \in Nat /\ Cardinality(S) <= n
<1>1. IsFiniteSet(1..n) /\ Cardinality(1..n) = n
  BY FS_Interval
<1> QED
  BY <1>1, FS_Subset, FS_CardinalityType

(* No more than a window of chunks is ever unread by the receiver, whatever *)
(* the goroutines left over from earlier files take away.                   *)
THEOREM WindowIsRespected == Spec => []WindowRespected
<1>1. FlowInv => WindowRespected
  <2> SUFFICES ASSUME FlowInv PROVE WindowRespected
    OBVIOUS
  <2> DEFINE S == {i \in 1..Len(toR) : toR[i].t = "DATA"}
  <2>1. S \in SUBSET (1..Window) /\ Window \in Nat
    <3>1. \A i \in S : i \in Nat /\ i >= 1 /\ i <= Window
      BY DEF FlowInv, WindowKept
    <3> QED
      BY <3>1, WireAssumption
  <2> HIDE DEF S
  <2>2. Cardinality(S) <= Window
    BY <2>1, PartOf
  <2> QED
    BY <2>2 DEF WindowRespected, Chunks, S, FlowInv, WindowKept
<1> QED
  BY <1>1, FlowIsInvariant, PTL
-----------------------------------------------------------------------------
(* AcksConserved. *)

(* Of the pieces every second one is a header. *)
LEMMA HeadersCounted ==
  ASSUME NEW s \in Seq(Piece), Paired(s)
  PROVE  LET H == {i \in 1..Len(s) : s[i].part = "header"}
         IN  IsFiniteSet(H) /\ Cardinality(H) = Len(s) \div 2
<1> DEFINE H == {i \in 1..Len(s) : s[i].part = "header"}
           n == Len(s)
           k == n \div 2
           b == n % 2
           f == [j \in 1..k |-> 2 * j - 1 + b]
<1>1. n \in Nat /\ k \in Nat /\ b \in {0, 1} /\ n = 2 * k + b
  OBVIOUS
<1>2. H = {i \in 1..n : (n - i) % 2 = 1}
  BY DEF Paired
<1> HIDE DEF H, n, k, b
<1>3. \A j \in 1..k : 2 * j - 1 + b \in 1..n /\ (n - (2 * j - 1 + b)) % 2 = 1
  <2> SUFFICES ASSUME NEW j \in 1..k
               PROVE  2 * j - 1 + b \in 1..n /\ (n - (2 * j - 1 + b)) % 2 = 1
    OBVIOUS
  <2>1. n - (2 * j - 1 + b) = 2 * (k - j) + 1
    BY <1>1
  <2>2. (2 * (k - j) + 1) % 2 = 1
    BY <1>1
  <2>3. 2 * j - 1 + b \in 1..n
    BY <1>1
  <2> QED
    BY <2>1, <2>2, <2>3
<1>4. \A i \in H : \E j \in 1..k : i = 2 * j - 1 + b
  <2> SUFFICES ASSUME NEW i \in H PROVE \E j \in 1..k : i = 2 * j - 1 + b
    OBVIOUS
  <2>1. i \in 1..n /\ (n - i) % 2 = 1
    BY <1>2
  <2> DEFINE d == (n - i) \div 2
  <2>2. d \in Nat /\ n - i = 2 * d + 1
    BY <1>1, <2>1
  <2> HIDE DEF d
  <2>3. k - d \in 1..k /\ i = 2 * (k - d) - 1 + b
    BY <1>1, <2>1, <2>2
  <2> QED
    BY <2>3
<1>5. f \in Bijection(1..k, H)
  <2>1. f \in [1..k -> H]
    BY <1>2, <1>3
  <2>2. \A x, y \in 1..k : f[x] = f[y] => x = y
    BY <1>1
  <2>3. \A i \in H : \E j \in 1..k : f[j] = i
    BY <1>4
  <2> HIDE DEF f
  <2>4. IsInjective(f)
    BY <2>1, <2>2 DEF IsInjective
  <2> QED
    BY <2>1, <2>3, <2>4 DEF Bijection, Injection, Surjection
<1>6. ExistsBijection(1..k, H)
  BY <1>5 DEF ExistsBijection
<1>7. IsFiniteSet(1..k) /\ Cardinality(1..k) = k
  BY <1>1, FS_Interval
<1>8. IsFiniteSet(H) /\ Cardinality(H) = k
  BY <1>6, <1>7, FS_Bijection
<1> QED
  BY <1>8 DEF H, k, n

(* As many positions as the last one says. *)
LEMMA UpTo == ASSUME NEW n \in Nat PROVE Cardinality(1..n) = n
BY FS_Interval

(* FlowInv bounds what AcksConserved counts. *)
LEMMA AtMostInFlight ==
  ASSUME FlowInv, up, Pumping
  PROVE  Chunks + Acks <= inFlight
<1> DEFINE C == {i \in 1..Len(toR) : toR[i].t = "DATA"}
           H == {i \in 1..Len(toS) : toS[i].part = "header"}
           A == {i \in 1..Len(toS) : toS[i].part = "header" /\ IsAck(toS[i].frame)}
           q == ackCh[cur]
           Q == {i \in 1..Len(q) : q[i] = "ack"}
<1>1. Counted /\ cur \in File /\ toS \in Seq(Piece)
  BY CountTypes DEF FlowInv, TypeInv, TypeOK, WireTypeOK, SenderBusy, Pumping, Busy
<1>2. Cardinality(C) \in Nat /\ Cardinality(C) <= Len(toR)
  BY <1>1, PartOf DEF Counted
<1>3. Cardinality(A) \in Nat /\ Cardinality(A) <= Len(toS) \div 2
  <2>1. IsFiniteSet(H) /\ Cardinality(H) = Len(toS) \div 2
    BY <1>1, HeadersCounted DEF FlowInv, Framed
  <2>2. A \in SUBSET H
    OBVIOUS
  <2> QED
    BY <2>1, <2>2, FS_Subset, FS_CardinalityType
<1>4. Cardinality(Q) \in Nat /\ Cardinality(Q) <= AcksIn(q)
  <2>1. q \in Seq({"ack", "err"}) /\ Len(q) \in Nat /\ AcksIn(q) \in Nat
    BY <1>1 DEF Counted
  <2>2. Q \in SUBSET (1..AcksIn(q))
    BY <2>1 DEF AcksIn
  <2> QED
    BY <2>1, <2>2, PartOf
<1>5. /\ One(Held(cur) /\ IsAck(rd[cur].frame)) \in Nat /\ One(Held(cur)) \in Nat
      /\ One(Held(cur) /\ IsAck(rd[cur].frame)) <= One(Held(cur))
  BY DEF One
<1>6. /\ UnderWay + One(Held(cur)) + AcksIn(q) <= inFlight
      /\ UnderWay = Len(toR) + Len(toS) \div 2 /\ inFlight \in Nat
      /\ Len(toR) \in Nat /\ Len(toS) \div 2 \in Nat /\ AcksIn(q) \in Nat
  BY <1>1 DEF FlowInv, FramesCounted, UnderWay, Counted
<1>7. /\ Chunks = Cardinality(C)
      /\ Acks = Cardinality(A) + One(Held(cur) /\ IsAck(rd[cur].frame)) + Cardinality(Q)
  BY DEF Chunks, Acks
<1> HIDE DEF C, A, Q, H, q
<1> QED
  BY <1>2, <1>3, <1>4, <1>5, <1>6, <1>7

(* ExactInv says that for the first file the count is exact. *)
LEMMA ExactlyInFlight ==
  ASSUME ExactInv, up, Pumping, cur = 1
  PROVE  Chunks + Acks = inFlight
<1> DEFINE C == {i \in 1..Len(toR) : toR[i].t = "DATA"}
           H == {i \in 1..Len(toS) : toS[i].part = "header"}
           A == {i \in 1..Len(toS) : toS[i].part = "header" /\ IsAck(toS[i].frame)}
           q == ackCh[1]
           Q == {i \in 1..Len(q) : q[i] = "ack"}
           x == One(Held(cur) /\ IsAck(rd[cur].frame))
           y == One(Held(1))
<1>1. Counted /\ 1 \in File /\ toS \in Seq(Piece) /\ Framed /\ FramesOfPhase /\ FirstFile
  BY CountTypes DEF ExactInv, FlowInv, TypeInv, TypeOK, WireTypeOK, SenderBusy, Pumping, Busy
<1>2. /\ UnderWay + y + Len(q) = inFlight
      /\ UnderWay = Len(toR) + Len(toS) \div 2
      /\ Len(toR) \in Nat /\ Len(toS) \div 2 \in Nat /\ Len(q) \in Nat
  BY <1>1 DEF FirstFile, UnderWay, Counted
<1>3. Cardinality(C) = Len(toR)
  <2>1. C = 1..Len(toR)
    BY <1>1 DEF FramesOfPhase
  <2>2. Cardinality(1..Len(toR)) = Len(toR)
    BY <1>2, UpTo
  <2> HIDE DEF C
  <2> QED
    BY <2>1, <2>2
<1>4. Cardinality(A) = Len(toS) \div 2
  <2>1. Cardinality(H) = Len(toS) \div 2
    BY <1>1, HeadersCounted DEF Framed
  <2>2. A = H
    BY <1>1 DEF FirstFile
  <2> QED
    BY <2>1, <2>2
<1>5. Cardinality(Q) = Len(q)
  <2>1. Q = 1..Len(q)
    BY <1>1 DEF FirstFile
  <2>2. Cardinality(1..Len(q)) = Len(q)
    BY <1>2, UpTo
  <2> HIDE DEF Q
  <2> QED
    BY <2>1, <2>2
<1>6. x = y /\ y \in Nat
  BY <1>1 DEF FirstFile, One
<1>7. Chunks = Cardinality(C) /\ Acks = Cardinality(A) + x + Cardinality(Q)
  BY DEF Chunks, Acks
<1> HIDE DEF C, A, Q, H, q, x, y
<1> QED
  BY <1>2, <1>3, <1>4, <1>5, <1>6, <1>7
-----------------------------------------------------------------------------
(* FirstFile, step by step. *)

(* The only goroutine that reads takes what it reads into its hands. *)
LEMMA AloneReads ==
  ASSUME TypeInv, TypeInv', Framed, up, NEW r \in Reader, Alone(r),
         NEW q \in Reader, ReadFrame(q)
  PROVE  /\ q = r /\ Alone(r)'
         /\ UnderWay' + One(Held(r)') = UnderWay + One(Held(r))
         /\ \/ Held(r) /\ rd'[r].frame = rd[r].frame
            \/ toS # <<>> /\ rd'[r].frame = toS[1].frame
         /\ \A i \in 1..Len(toS') : \E j \in 1..Len(toS) : toS'[i] = toS[j]
<1>1. q = r
  <2>1. rd[q].at # "off"
    BY DEF ReadFrame, ReadHeader, BadMagic, ReadPayload, ReadRest, ReadFill, ReadFails, Reading
  <2> QED
    BY <2>1 DEF Alone
<1>2. /\ toS \in Seq(Piece) /\ rd \in [Reader -> ReaderState] /\ Paired(toS)
      /\ UNCHANGED <<toR, up>>
  BY DEF TypeInv, TypeOK, WireTypeOK, SenderTypeOK, Framed, ReadFrame
<1>3. /\ Len(toR) \in Nat /\ Len(toS) \div 2 \in Nat /\ UnderWay \in Nat /\ Len(toS') \div 2 \in Nat
  BY CountTypes, CountTypesNext DEF Counted
<1>4. ReadHeader(r) \/ ReadPayload(r)
  <2>1. toS # <<>>
    BY <1>1 DEF ReadFrame, ReadHeader, BadMagic, ReadPayload, ReadRest, ReadFill, ReadFails
  <2>2. /\ Head(toS).part # "rest"
        /\ Head(toS).part = "header" <=> Len(toS) % 2 # 1
    <3>1. Head(toS) = toS[1] /\ 1 \in 1..Len(toS)
      BY <1>2, <2>1, QueueType
    <3>2. IF Head(toS).part = "header" THEN Len(toS) % 2 = 0 ELSE Len(toS) % 2 = 1
      BY <1>2, <2>1, StreamRead
    <3> QED
      BY <3>1, <3>2 DEF Alone
  <2>3. rd[r].at # "fill"
    BY DEF Alone
  <2> QED
    BY <1>1, <2>1, <2>2, <2>3 DEF ReadFrame, BadMagic, ReadRest, ReadFill, ReadFails, Alone
<1>5. /\ toS # <<>> /\ toS' = Tail(toS) /\ Head(toS) = toS[1]
      /\ \A i \in 1..Len(toS') : \E j \in 1..Len(toS) : toS'[i] = toS[j]
      /\ Len(toS') % 2 = 1 - (Len(toS) % 2)
  <2>1. toS # <<>> /\ toS' = Tail(toS)
    BY <1>4 DEF ReadHeader, ReadPayload
  <2>2. /\ Len(toS) \in Nat \ {0} /\ Head(toS) = toS[1] /\ Len(toS') = Len(toS) - 1
        /\ \A i \in 1..(Len(toS) - 1) : toS'[i] = toS[i + 1]
    BY <1>2, <2>1, QueueType
  <2>3. \A i \in 1..Len(toS') : i + 1 \in 1..Len(toS) /\ toS'[i] = toS[i + 1]
    BY <2>2
  <2>4. (Len(toS) - 1) % 2 = 1 - (Len(toS) % 2)
    BY <2>2
  <2> QED
    BY <2>1, <2>2, <2>3, <2>4
<1>6. \A i \in 1..Len(toS') : toS'[i].part # "rest"
  BY <1>5 DEF Alone
<1>7. CASE ReadHeader(r)
  <2>1. rd[r].at = "header" /\ rd' = [rd EXCEPT ![r] = [at |-> "payload", frame |-> Head(toS).frame]]
        /\ Head(toS).part = "header"
    BY <1>7 DEF ReadHeader
  <2>2. rd'[r] = [at |-> "payload", frame |-> Head(toS).frame] /\ \A x \in Reader \ {r} : rd'[x] = rd[x]
    BY <1>2, <2>1
  <2>3. Len(toS') \div 2 = Len(toS) \div 2 - 1 /\ Len(toS) % 2 = 0
    BY <1>2, <1>5, <2>1, StreamRead
  <2>4. Alone(r)'
    BY <1>5, <1>6, <2>2, <2>3 DEF Alone
  <2>5. One(Held(r)) = 0 /\ One(Held(r)') = 1
    BY <2>1, <2>2 DEF Held, One
  <2>6. UnderWay' + One(Held(r)') = UnderWay + One(Held(r))
    BY <1>2, <1>3, <2>3, <2>5 DEF UnderWay
  <2>7. rd'[r].frame = toS[1].frame
    BY <1>5, <2>2
  <2> QED
    BY <1>1, <1>5, <2>4, <2>6, <2>7
<1>8. CASE ReadPayload(r)
  <2>1. rd[r].at = "payload" /\ rd' = [rd EXCEPT ![r].at = "got"] /\ Head(toS).part = "payload"
    BY <1>8 DEF ReadPayload
  <2>2. /\ rd'[r].at = "got" /\ rd'[r].frame = rd[r].frame
        /\ \A x \in Reader \ {r} : rd'[x] = rd[x]
    <3>1. rd[r] \in ReaderState
      BY <1>2
    <3> QED
      BY <1>2, <2>1, <3>1 DEF ReaderState
  <2>3. Len(toS') \div 2 = Len(toS) \div 2 /\ Len(toS) % 2 = 1
    BY <1>2, <1>5, <2>1, StreamRead
  <2>4. Alone(r)'
    BY <1>5, <1>6, <2>2, <2>3 DEF Alone
  <2>5. Held(r) /\ Held(r)'
    BY <2>1, <2>2 DEF Held
  <2> QED
    BY <1>1, <1>2, <1>3, <1>5, <2>2, <2>3, <2>4, <2>5 DEF UnderWay, One
<1> QED
  BY <1>4, <1>7, <1>8

(* A reader reads. *)
LEMMA ReadFrameFirst ==
  ASSUME TypeInv, TypeInv', Flow, FirstFile, NEW r \in Reader, ReadFrame(r)
  PROVE  FirstFile'
<1> SUFFICES ASSUME up', cur' = 1 PROVE FirstFile'
  BY DEF FirstFile
<1>1. /\ UNCHANGED <<toR, up, spc, cur, inFlight, ackCh>> /\ up /\ cur = 1
      /\ 0 \in Reader /\ 1 \in Reader /\ Framed
  BY WireAssumption DEF ReadFrame, Reader, Flow
<1>2. CASE spc = "offer"
  <2>1. rd[r].at = "off"
    BY <1>1, <1>2 DEF FirstFile
  <2> QED
    BY <1>1, <2>1, ReadFrameCount DEF Reading
<1>3. CASE spc = "accept"
  <2>1. Alone(0)'
    BY <1>1, <1>3, AloneReads DEF FirstFile
  <2> QED
    BY <1>1, <1>3, <2>1 DEF FirstFile, Pumping
<1>4. CASE Pumping
  <2>1. /\ Alone(1)
        /\ \A i \in 1..Len(toS) : IsAck(toS[i].frame) /\ toS[i].frame.ok
        /\ Held(1) => IsAck(rd[1].frame) /\ rd[1].frame.ok
        /\ \A i \in 1..Len(ackCh[1]) : ackCh[1][i] = "ack"
        /\ UnderWay + One(Held(1)) + Len(ackCh[1]) = inFlight
    BY <1>1, <1>4 DEF FirstFile
  <2>2. /\ Alone(1)'
        /\ UnderWay' + One(Held(1)') = UnderWay + One(Held(1))
        /\ \/ Held(1) /\ rd'[1].frame = rd[1].frame
           \/ toS # <<>> /\ rd'[1].frame = toS[1].frame
        /\ \A i \in 1..Len(toS') : \E j \in 1..Len(toS) : toS'[i] = toS[j]
    BY <1>1, <2>1, AloneReads
  <2>3. IsAck(rd'[1].frame) /\ rd'[1].frame.ok
    <3>1. toS # <<>> => 1 \in 1..Len(toS)
      <4>1. toS \in Seq(Piece)
        BY DEF TypeInv, TypeOK, WireTypeOK
      <4> QED
        BY <4>1
    <3> QED
      BY <2>1, <2>2, <3>1
  <2>4. \A i \in 1..Len(toS') : IsAck(toS'[i].frame) /\ toS'[i].frame.ok
    BY <2>1, <2>2
  <2>5. UnderWay' + One(Held(1)') + Len(ackCh'[1]) = inFlight'
    BY <1>1, <2>1, <2>2
  <2> QED
    BY <1>1, <1>4, <2>1, <2>2, <2>3, <2>4, <2>5 DEF FirstFile, Pumping, Held
<1>5. CASE spc \notin {"offer", "accept"} /\ ~Pumping
  BY <1>1, <1>5 DEF FirstFile, Pumping
<1> QED
  BY <1>2, <1>3, <1>4, <1>5

(* The ackReader pushes the acknowledgement it holds. *)
LEMMA PushFirst ==
  ASSUME TypeInv, TypeInv', Flow, FirstFile, NEW r \in File, PushAck(r) \/ PushErr(r)
  PROVE  FirstFile'
<1> SUFFICES ASSUME up', cur' = 1 PROVE FirstFile'
  BY DEF FirstFile
<1>1. /\ UNCHANGED <<toR, toS, up, spc, cur, inFlight>> /\ up /\ cur = 1
      /\ rd \in [Reader -> ReaderState] /\ ackCh \in [File -> Seq({"ack", "err"})]
      /\ r \in Reader /\ r # 0 /\ 1 \in Reader /\ 1 \in File
  <2>1. UNCHANGED <<toR, toS, up, spc, cur, inFlight>>
    BY DEF PushAck, PushErr, Push, wireVars
  <2>2. up /\ cur = 1
    BY <2>1
  <2>3. rd \in [Reader -> ReaderState] /\ ackCh \in [File -> Seq({"ack", "err"})]
    BY DEF TypeInv, TypeOK, SenderTypeOK
  <2>4. r \in Reader /\ r # 0 /\ 1 \in Reader /\ 1 \in File
    BY WireAssumption DEF Reader, File
  <2> QED
    BY <2>1, <2>2, <2>3, <2>4
<1> rd[r].at # "off"
  BY DEF PushAck, PushErr
<1>2. spc # "offer" /\ spc # "accept"
  BY <1>1 DEF FirstFile, Alone
<1>3. CASE Pumping
  <2>1. /\ Alone(1)
        /\ \A i \in 1..Len(toS) : IsAck(toS[i].frame) /\ toS[i].frame.ok
        /\ Held(1) => IsAck(rd[1].frame) /\ rd[1].frame.ok
        /\ \A i \in 1..Len(ackCh[1]) : ackCh[1][i] = "ack"
        /\ UnderWay + One(Held(1)) + Len(ackCh[1]) = inFlight
    BY <1>1, <1>3 DEF FirstFile
  <2>2. r = 1
    BY <1>1, <2>1 DEF Alone
  <2>3. rd[1].at \in {"header", "payload", "got"}
    BY <2>1 DEF Alone
  <2>4. ~PushErr(r)
    BY <2>1, <2>2, <2>3 DEF PushErr, Held
  <2>5. /\ rd[1].at = "got" /\ ackCh' = [ackCh EXCEPT ![1] = Append(ackCh[1], "ack")]
        /\ rd' = [rd EXCEPT ![1] = [at |-> "header", frame |-> ErrorFrame]]
    BY <2>1, <2>2, <2>4 DEF PushAck, Push, StartReading, Held
  <2>6. /\ rd'[1].at = "header" /\ \A q \in Reader \ {1} : rd'[q] = rd[q]
        /\ ackCh'[1] = Append(ackCh[1], "ack")
    BY <1>1, <2>5
  <2>7. Alone(1)'
    BY <1>1, <2>1, <2>5, <2>6 DEF Alone
  <2>8. /\ Len(ackCh'[1]) = Len(ackCh[1]) + 1 /\ Len(ackCh[1]) \in Nat
        /\ \A i \in 1..Len(ackCh'[1]) : ackCh'[1][i] = "ack"
    <3> DEFINE c == ackCh[1]
    <3>1. c \in Seq({"ack", "err"}) /\ \A i \in 1..Len(c) : c[i] = "ack"
      BY <1>1, <2>1
    <3>2. ackCh'[1] = Append(c, "ack")
      BY <2>6
    <3> HIDE DEF c
    <3>3. /\ Len(Append(c, "ack")) = Len(c) + 1 /\ Len(c) \in Nat
          /\ \A i \in 1..Len(Append(c, "ack")) : Append(c, "ack")[i] = "ack"
      BY <3>1
    <3> QED
      BY <3>2, <3>3 DEF c
  <2>9. UnderWay' + One(Held(1)') + Len(ackCh'[1]) = inFlight'
    <3>1. One(Held(1)) = 1 /\ One(Held(1)') = 0
      BY <2>5, <2>6 DEF Held, One
    <3>2. UnderWay' = UnderWay /\ UnderWay \in Nat
      BY <1>1, CountTypes DEF UnderWay, Counted
    <3> QED
      BY <1>1, <2>1, <2>8, <3>1, <3>2
  <2>10. ~Held(1)'
    BY <2>6 DEF Held
  <2> QED
    BY <1>1, <1>2, <2>1, <2>7, <2>8, <2>9, <2>10 DEF FirstFile
<1>4. CASE ~Pumping
  BY <1>1, <1>2, <1>4 DEF FirstFile, Pumping
<1> QED
  BY <1>3, <1>4

(* A step that leaves readers and pieces alone and starts nothing. *)
LEMMA QuietFirst ==
  ASSUME FirstFile, UNCHANGED <<toS, up, inFlight, ackCh, rd>>, Len(toR') = Len(toR),
         cur' = 1 => cur = 1,
         spc' \in {"offer", "accept"} => spc' = spc,
         Pumping' => Pumping
  PROVE  FirstFile'
<1>1. UnderWay' = UnderWay
  BY DEF UnderWay
<1> QED
  BY <1>1 DEF FirstFile, Alone, Pumping, Held

(* The sender's main goroutine. *)
LEMMA SenderMainFirst ==
  ASSUME TypeInv, TypeInv', Flow, FirstFile, SenderMain
  PROVE  FirstFile'
<1> SUFFICES ASSUME up', cur' = 1 PROVE FirstFile'
  BY DEF FirstFile
<1>1. /\ rd \in [Reader -> ReaderState] /\ ackCh \in [File -> Seq({"ack", "err"})]
      /\ toS \in Seq(Piece)
      /\ 0 \in Reader /\ 1 \in Reader /\ 1 \in File
      /\ cur \in 1..(NFiles + 1) /\ Counted /\ Counted'
  BY CountTypes, CountTypesNext, WireAssumption DEF TypeInv, TypeOK, WireTypeOK, SenderTypeOK,
     Reader, File
<1>2. CASE SendOffer
  <2>1. /\ cur = 1 /\ toS' = toS /\ up /\ spc = "offer" /\ spc' = "accept"
        /\ rd' = [rd EXCEPT ![0] = [at |-> "header", frame |-> ErrorFrame]]
    BY <1>2 DEF SendOffer, SendToReceiver, StartReading, Goto
  <2>2. toS = <<>> /\ \A q \in Reader : rd[q].at = "off"
    BY <2>1 DEF FirstFile
  <2>3. rd'[0].at = "header" /\ \A q \in Reader \ {0} : rd'[q] = rd[q]
    BY <1>1, <2>1
  <2>4. Alone(0)'
    BY <2>1, <2>2, <2>3 DEF Alone
  <2> QED
    BY <2>1, <2>4 DEF FirstFile, Pumping
<1>3. CASE StartChunks
  <2>1. /\ UNCHANGED <<toR, toS, up, cur, ackCh>> /\ cur = 1 /\ up
        /\ spc = "accept" /\ spc' = "pump" /\ rd[0].at = "got" /\ inFlight' = 0
        /\ rd' = [rd EXCEPT ![0] = NoReader, ![cur] = [NoReader EXCEPT !.at = "header"]]
    BY <1>3 DEF StartChunks, wireVars, Goto
  <2>2. Alone(0)
    BY <2>1 DEF FirstFile
  <2>3. ackCh[1] = <<>>
    BY <1>1, <2>1 DEF Flow, ReadersInTurn
  <2>4. UnderWay = 0 /\ toS = <<>>
    <3>1. UnderWay = 0
      BY <1>1, <2>1 DEF Flow, FramesCounted, Counted, Held, One
    <3>2. Len(toS) \div 2 = 0 /\ Len(toS) % 2 # 1
      BY <1>1, <2>1, <2>2, <3>1 DEF Counted, UnderWay, Alone
    <3>3. Len(toS) = 0
      BY <1>1, <3>2 DEF Counted
    <3> QED
      BY <1>1, <3>1, <3>3
  <2>5. rd'[1].at = "header" /\ rd'[0].at = "off" /\ \A q \in Reader \ {0, 1} : rd'[q] = rd[q]
    BY <1>1, <2>1 DEF NoReader
  <2>6. Alone(1)'
    <3>1. \A q \in Reader \ {1} : rd'[q].at = "off"
      BY <2>2, <2>5 DEF Alone
    <3>2. toS' = <<>> /\ Len(toS') % 2 # 1
      BY <2>1, <2>4
    <3> QED
      BY <2>5, <3>1, <3>2 DEF Alone
  <2>7. UnderWay' = 0 /\ ~Held(1)'
    BY <2>1, <2>4, <2>5 DEF UnderWay, Held
  <2> QED
    BY <2>1, <2>3, <2>4, <2>6, <2>7 DEF FirstFile, One
<1>4. CASE SendChunk
  <2>1. /\ UNCHANGED <<toS, up, cur, rd, ackCh>> /\ inFlight' = inFlight + 1 /\ up /\ cur = 1
        /\ spc = "pump" /\ spc' \in {"pump", "full"} /\ \E m : SendToReceiver(m)
    BY <1>4 DEF SendChunk, SendToReceiver, Goto
  <2>2. UnderWay' = UnderWay + 1
    BY <2>1, SendCount
  <2>3. UnderWay + One(Held(1)) + Len(ackCh[1]) = inFlight
    BY <2>1 DEF FirstFile, Pumping
  <2>4. /\ One(Held(1)) \in Nat /\ One(Held(1)') = One(Held(1))
        /\ Len(ackCh[1]) \in Nat /\ ackCh'[1] = ackCh[1]
        /\ UnderWay \in Nat /\ inFlight \in Nat
    BY <1>1, <2>1 DEF One, Held, Counted
  <2>5. UnderWay' + One(Held(1)') + Len(ackCh'[1]) = inFlight'
    <3>1. UnderWay + 1 + One(Held(1)) + Len(ackCh[1]) = inFlight + 1
      BY <2>3, <2>4
    <3> QED
      BY <2>1, <2>2, <2>4, <3>1
  <2> QED
    BY <2>1, <2>5 DEF FirstFile, Pumping, Alone, Held
<1>5. CASE FullTakesAck \/ FullTakesErr \/ DrainTakesAck \/ DrainTakesErr
  <2> DEFINE q == ackCh[1]
  <2>1. /\ UNCHANGED <<toR, toS, up, cur, rd>> /\ up /\ cur = 1 /\ Pumping
        /\ q # <<>> /\ q \in Seq({"ack", "err"})
        /\ ackCh' = [ackCh EXCEPT ![1] = Tail(q)]
    BY <1>1, <1>5 DEF FullTakesAck, FullTakesErr, DrainTakesAck, DrainTakesErr, Taken, wireVars,
       Pumping
  <2>2. \A i \in 1..Len(q) : q[i] = "ack"
    BY <2>1 DEF FirstFile
  <2>3. ackCh'[1] = Tail(q)
    BY <1>1, <2>1
  <2> HIDE DEF q
  <2>4. /\ Head(q) = "ack" /\ Len(Tail(q)) = Len(q) - 1 /\ Len(q) \in Nat
        /\ \A i \in 1..Len(Tail(q)) : Tail(q)[i] = "ack"
    BY <2>1, <2>2
  <2>5. inFlight' = inFlight - 1 /\ Pumping'
    BY <1>5, <2>1, <2>4 DEF FullTakesAck, FullTakesErr, DrainTakesAck, DrainTakesErr, Taken,
       AfterAck, Pumping, Goto, q
  <2>6. UnderWay' + One(Held(1)') + Len(ackCh'[1]) = inFlight'
    <3>1. UnderWay + One(Held(1)) + Len(q) = inFlight
      BY <2>1 DEF FirstFile, q
    <3>2. /\ UnderWay' = UnderWay /\ One(Held(1)') = One(Held(1)) /\ One(Held(1)) \in Nat
          /\ UnderWay \in Nat /\ inFlight \in Nat
      BY <1>1, <2>1 DEF UnderWay, One, Held, Counted
    <3>3. UnderWay + One(Held(1)) + (Len(q) - 1) = inFlight - 1
      BY <2>4, <3>1, <3>2
    <3> QED
      BY <2>3, <2>4, <2>5, <3>2, <3>3
  <2> QED
    BY <2>1, <2>3, <2>4, <2>5, <2>6 DEF FirstFile, Pumping, Alone, Held
<1>6. CASE ReadFrame(0)
  BY <1>1, <1>6, ReadFrameFirst
<1>7. CASE EndOfFile
  <2>1. UNCHANGED <<toR, toS, up, inFlight, ackCh, rd, cur>> /\ spc = "pump" /\ spc' = "drain"
    BY <1>7 DEF EndOfFile, wireVars, Goto
  <2> QED
    BY <2>1, QuietFirst DEF Pumping
<1>8. CASE FileSent
  <2>1. cur' = cur + 1
    BY <1>8 DEF FileSent
  <2> QED
    BY <1>1, <2>1
<1>9. CASE SendChunkFails \/ SendSessionDone \/ SenderAborts
  BY <1>9 DEF SendChunkFails, SendSessionDone, SenderAborts, SenderCloses, wireVars
<1>10. CASE SendComplete \/ OfferRefused \/ Drained \/ FileNotSent \/ WriteFails
  <2>1. spc' \in {"cack", "fail", "complete"}
    BY <1>10 DEF SendComplete, OfferRefused, Drained, FileNotSent, WriteFails, Goto
  <2> QED
    BY <2>1 DEF FirstFile, Pumping
<1> QED
  BY <1>2, <1>3, <1>4, <1>5, <1>6, <1>7, <1>8, <1>9, <1>10 DEF SenderMain

(* What may happen to the sender and to the connection. *)
LEMMA FaultFirst ==
  ASSUME TypeInv, FirstFile,
         \/ SenderKilled \/ SourceUnreadable \/ \E f \in File : EditFile(f)
         \/ (BreakConn \/ CorruptChunk) /\ UNCHANGED senderVars
  PROVE  FirstFile'
<1>1. CASE SenderKilled \/ BreakConn
  BY <1>1 DEF SenderKilled, BreakConn, SenderCloses, FirstFile
<1>2. CASE SourceUnreadable
  BY <1>2 DEF SourceUnreadable, Goto, FirstFile, Pumping
<1>3. CASE \E f \in File : EditFile(f)
  <2>1. UNCHANGED <<toR, toS, up, spc, cur, inFlight, rd, ackCh>>
    BY <1>3 DEF EditFile
  <2> QED
    BY <2>1, QuietFirst DEF Pumping
<1>4. CASE CorruptChunk /\ UNCHANGED senderVars
  <2>1. UNCHANGED <<toS, up, spc, cur, inFlight, rd, ackCh>>
    BY <1>4 DEF CorruptChunk, senderVars
  <2>2. toR \in Seq(Message)
    BY DEF TypeInv, TypeOK, WireTypeOK
  <2>3. Len(toR') = Len(toR)
    BY <1>4, <2>2 DEF CorruptChunk
  <2> QED
    BY <2>1, <2>3, QuietFirst DEF Pumping
<1> QED
  BY <1>1, <1>2, <1>3, <1>4

(* The receiver acknowledges each chunk. *)
LEMMA ReplyFirst ==
  ASSUME TypeInv, Flow, FirstFile, toR # <<>>, toR' = Tail(toR), up' = up, UNCHANGED senderVars,
         NEW m \in Message, toS' = Delivered(m), Pumping => IsAck(m) /\ m.ok
  PROVE  FirstFile'
<1> SUFFICES ASSUME up, cur = 1 PROVE FirstFile'
  BY DEF FirstFile, senderVars
<1>1. toR \in Seq(Message) /\ toS \in Seq(Piece) /\ Counted /\ UNCHANGED <<spc, cur, rd, ackCh, inFlight>>
  BY CountTypes DEF TypeInv, TypeOK, WireTypeOK, senderVars
<1>2. Len(toR) \in Nat \ {0} /\ Len(toR') = Len(toR) - 1
  BY <1>1, QueueType
<1>3. UnderWay # 0 /\ spc # "offer"
  BY <1>1, <1>2 DEF Flow, FramesCounted, UnderWay, Counted
<1>4. /\ Len(toS') = Len(toS) + 2
      /\ \A i \in 1..Len(toS') : (\E j \in 1..Len(toS) : toS'[i] = toS[j])
                                 \/ (toS'[i].frame = m /\ toS'[i].part # "rest")
  <2> DEFINE p == toS \o Pieces(m)
             n == Len(toS)
  <2>1. toS' = p
    BY DEF Delivered
  <2>2. /\ n \in Nat /\ Len(p) = n + 2 /\ \A i \in 1..n : p[i] = toS[i]
        /\ p[n + 1] = [part |-> "header", frame |-> m]
        /\ p[n + 2] = [part |-> "payload", frame |-> m]
    BY <1>1 DEF Pieces
  <2> HIDE DEF p, n
  <2>3. \A i \in 1..Len(p) : i \in 1..n \/ i = n + 1 \/ i = n + 2
    BY <2>2
  <2>4. \A i \in 1..Len(p) : (\E j \in 1..n : p[i] = toS[j])
                             \/ (p[i].frame = m /\ p[i].part # "rest")
    BY <2>2, <2>3
  <2> QED
    BY <2>1, <2>2, <2>4 DEF n
<1>5. Len(toS') % 2 = Len(toS) % 2
  BY <1>1, <1>4 DEF Counted
<1>6. \A r \in Reader : Alone(r) => Alone(r)'
  BY <1>1, <1>4, <1>5 DEF Alone
<1>7. UnderWay' = UnderWay
  <2>1. Len(toS') \div 2 = Len(toS) \div 2 + 1
    BY <1>1, <1>4 DEF Counted
  <2> QED
    BY <1>1, <1>2, <2>1 DEF UnderWay, Counted
<1>8. 0 \in Reader /\ 1 \in Reader
  BY WireAssumption DEF Reader
<1>9. Pumping => \A i \in 1..Len(toS') : IsAck(toS'[i].frame) /\ toS'[i].frame.ok
  BY <1>4 DEF FirstFile
<1> QED
  BY <1>1, <1>3, <1>6, <1>7, <1>8, <1>9 DEF FirstFile, Pumping, Held

(* The receiver. *)
LEMMA ReceiverFirst ==
  ASSUME TypeInv, Flow, FirstFile, ReceiverStep \/ ReceiverFault
  PROVE  FirstFile'
<1> SUFFICES ASSUME up, up' PROVE FirstFile'
  <2>1. up' => up
    BY DEF ReceiverStep, ReceiverFault, ReceiverMain, ReceiverFaults, AcceptOffer, OfferUnanswered,
       ReceiveSessionDone, SessionFails, ReceiveChunk, AckFails, RejectChunk, ReadError, SyncPart,
       VerifyOK, Mismatch, VerifyFails, RemoveOld, RenamePart, DeclineOffer, OfferFails,
       ShortWrite, DiskFails, ReceiverCrashes, EndWith, ReceiverCloses, ReadOne, wireVars
  <2> QED
    BY <2>1 DEF FirstFile
<1>1. ReceiverTypeInv /\ UNCHANGED senderVars
  BY DEF TypeInv, TypeOK, ReceiverTypeInv, ReceiverStep, ReceiverFault
<1>2. CASE Returns
  BY <1>1, <1>2, ReturnsClose DEF ReceiverCloses
<1>3. toR # <<>> => Head(toR) = toR[1] /\ 1 \in 1..Len(toR)
  <2>1. toR \in Seq(Message)
    BY DEF TypeInv, TypeOK, WireTypeOK
  <2> QED
    BY <2>1
<1>4. CASE AcceptOffer \/ DeclineOffer
  <2>1. /\ toR # <<>> /\ Head(toR).t = "FILE_OFFER" /\ toR' = Tail(toR) /\ up' = up
        /\ \/ toS' = Delivered(FileReject(Head(toR).id))
           \/ toS' = Delivered(FileAccept(Head(toR).id, ResumeChunk(NameOf[Head(toR).id])))
    BY <1>4 DEF AcceptOffer, DeclineOffer, Next1, ReadOne, Reply
  <2>2. ~Pumping
    BY <1>3, <2>1 DEF Flow, FramesOfPhase
  <2> QED
    BY <1>1, <2>1, <2>2, RepliesAreMessages, ReplyFirst
<1>5. CASE VerifyOK
  <2>1. /\ toR # <<>> /\ Head(toR).t = "COMPLETE" /\ toR' = Tail(toR) /\ up' = up
        /\ toS' = Delivered(CompleteAck(rfile, TRUE))
    BY <1>5 DEF VerifyOK, Next1, ReadOne, Reply
  <2>2. ~Pumping
    BY <1>3, <2>1 DEF Flow, FramesOfPhase
  <2> QED
    BY <1>1, <2>1, <2>2, RepliesAreMessages, ReplyFirst
<1>6. CASE ReceiveChunk
  <2>1. /\ toR # <<>> /\ toR' = Tail(toR) /\ up' = up
        /\ toS' = Delivered(DataAck(rfile, expected, TRUE))
    BY <1>6 DEF ReceiveChunk, ReadOne, Reply
  <2>2. IsAck(DataAck(rfile, expected, TRUE)) /\ DataAck(rfile, expected, TRUE).ok
    BY DEF IsAck, DataAck, Msg
  <2> QED
    BY <1>1, <2>1, <2>2, RepliesAreMessages, ReplyFirst
<1>7. CASE SyncPart \/ RemoveOld \/ RenamePart
  <2>1. UNCHANGED <<toR, toS, up>>
    BY <1>7 DEF SyncPart, RemoveOld, RenamePart, wireVars
  <2> QED
    BY <1>1, <2>1, QuietFirst DEF senderVars, Pumping
<1> QED
  BY <1>2, <1>4, <1>5, <1>6, <1>7
     DEF ReceiverStep, ReceiverMain, ReceiverFault, ReceiverFaults, Returns

(* All together. *)
LEMMA NextFirst ==
  ASSUME TypeInv, TypeInv', Flow, FirstFile, [Next]_vars
  PROVE  FirstFile'
<1>1. CASE SenderStep
  <2>1. \A f \in File : f \in Reader
    BY WireAssumption DEF File, Reader
  <2> QED
    BY <1>1, <2>1, SenderMainFirst, ReadFrameFirst, PushFirst DEF SenderStep, AckReader
<1>2. CASE ReceiverStep \/ ReceiverFault
  BY <1>2, ReceiverFirst
<1>3. CASE SenderFault \/ NetworkFault
  BY <1>3, FaultFirst DEF SenderFault, NetworkFault
<1>4. CASE NewSession
  BY <1>4 DEF NewSession, SenderRestarts, FirstFile, Pumping, NoReader
<1>5. CASE UNCHANGED vars
  BY <1>5 DEF FirstFile, vars, wireVars, senderVars, UnderWay, Pumping, Held, Alone
<1> QED
  BY <1>1, <1>2, <1>3, <1>4, <1>5 DEF Next

(* The inductive invariant: the flow of all files, and the exact account of *)
(* the first one's acknowledgements.                                        *)
THEOREM ExactIsInvariant == Spec => []ExactInv
<1>1. Init => ExactInv
  <2>1. Init => FlowInv
    BY InitTypeInv, FreshFlow DEF Init, WireInit, SenderInit, SenderStart, FlowInv, Flow
  <2>2. Init => FirstFile
    BY DEF Init, WireInit, SenderInit, SenderStart, FirstFile, Pumping, NoReader
  <2> QED
    BY <2>1, <2>2 DEF ExactInv
<1>2. ExactInv /\ [Next]_vars => ExactInv'
  BY NextTypeInv, NextFlow, NextFirst DEF ExactInv, FlowInv, Flow
<1> QED
  BY <1>1, <1>2, PTL DEF Spec

(* No chunk is acknowledged twice, and of the first file's none is lost:    *)
(* the count on which sendChunks decides when a file is through.            *)
THEOREM AcksAreConserved == Spec => []AcksConserved
<1>1. ExactInv => AcksConserved
  BY AtMostInFlight, ExactlyInFlight DEF ExactInv, AcksConserved
<1> QED
  BY ExactIsInvariant, <1>1, PTL

-----------------------------------------------------------------------------
(* ServedOrHung: whom sendChunks waits for.                                 *)

(* What nobody at the sender does leaves it served. *)
LEMMA QuietServed ==
  ASSUME Served, UNCHANGED <<spc, cur, inFlight, ackErr, ackCh, rd>>
  PROVE  Served'
BY DEF Served, Pumping, Hung, Deserted, ErrorWaits

(* sendChunks has returned, or has not begun. *)
LEMMA NotPumping == ~Pumping' => Served'
BY DEF Served, Pumping

(* A goroutine that reads goes on reading, or has something to push. *)
LEMMA ReadServed ==
  ASSUME TypeInv, Served, NEW r \in Reader, ReadFrame(r)
  PROVE  Served'
<1>1. UNCHANGED <<spc, cur, inFlight, ackErr, ackCh>>
  BY DEF ReadFrame
<1>2. rd \in [Reader -> ReaderState] /\ (Pumping => cur \in Reader)
  BY WireAssumption DEF TypeInv, TypeOK, SenderTypeOK, SenderBusy, Busy, Pumping, File, Reader
<1>3. rd[r] \in ReaderState /\ rd[r].at # "off"
  BY <1>2 DEF ReadFrame, ReadHeader, BadMagic, ReadPayload, ReadRest, ReadFill, ReadFails,
     Reading
<1>4. rd'[r].at # "off" /\ \A q \in Reader \ {r} : rd'[q] = rd[q]
  BY <1>2, <1>3 DEF ReadFrame, ReadHeader, BadMagic, ReadPayload, ReadRest, ReadFill, ReadFails,
     ReaderState
<1>5. Pumping => (rd'[cur].at = "off" <=> rd[cur].at = "off")
  BY <1>2, <1>3, <1>4
<1> QED
  BY <1>1, <1>5 DEF Served, Pumping, Hung, Deserted, ErrorWaits

(* A goroutine pushes what it has read, and last of all an error. *)
LEMMA PushServed ==
  ASSUME TypeInv, Served, NEW r \in File, PushAck(r) \/ PushErr(r)
  PROVE  Served'
<1> DEFINE q == ackCh[r]
<1>1. UNCHANGED <<spc, cur, inFlight, ackErr>>
  BY DEF PushAck, PushErr, Push
<1>2. /\ rd \in [Reader -> ReaderState] /\ ackCh \in [File -> Seq({"ack", "err"})]
      /\ r \in Reader /\ (Pumping => cur \in File /\ cur \in Reader)
  BY WireAssumption DEF TypeInv, TypeOK, SenderTypeOK, SenderBusy, Busy, Pumping, File, Reader
<1>3. /\ rd[r].at # "off"
      /\ \A k \in Reader \ {r} : rd'[k] = rd[k]
      /\ \A f \in File \ {r} : ackCh'[f] = ackCh[f]
  <2>1. rd[r].at # "off"
    BY DEF PushAck, PushErr
  <2>2. \E what : ackCh' = [ackCh EXCEPT ![r] = Append(@, what)]
    BY DEF PushAck, PushErr, Push
  <2>3. rd' = rd \/ \E new : rd' = [rd EXCEPT ![r] = new]
    <3>1. CASE PushErr(r)
      BY <3>1 DEF PushErr
    <3>2. CASE PushAck(r)
      BY <1>2, <3>2 DEF PushAck, StartReading, ReaderState
    <3> QED
      BY <3>1, <3>2
  <2> QED
    BY <1>2, <2>1, <2>2, <2>3
<1>4. CASE ~Pumping \/ cur # r
  BY <1>1, <1>2, <1>3, <1>4 DEF Served, Pumping, Hung, Deserted, ErrorWaits
<1>5. CASE Pumping /\ cur = r
  <2>1. ~Hung
    BY <1>3, <1>5 DEF Served, Deserted
  <2>2. CASE PushAck(r)
    <3>1. rd'[r].at # "off"
      <4>1. rd[r] \in ReaderState
        BY <1>2
      <4> QED
        BY <1>2, <2>2, <4>1 DEF PushAck, StartReading, ReaderState
    <3> QED
      BY <1>1, <1>5, <2>1, <3>1 DEF Served, Pumping, Hung
  <2>3. CASE PushErr(r)
    <3>1. ackCh'[r] = Append(q, "err") /\ q \in Seq({"ack", "err"})
      BY <1>2, <2>3 DEF PushErr, Push
    <3> HIDE DEF q
    <3>2. ackCh'[r] # <<>> /\ ackCh'[r][Len(ackCh'[r])] = "err"
      BY <3>1
    <3> QED
      BY <1>1, <1>5, <2>1, <3>2 DEF Served, Pumping, Hung, ErrorWaits
  <2> QED
    BY <2>2, <2>3
<1> QED
  BY <1>4, <1>5

(* What sendChunks takes: after an acknowledgement the error still waits;   *)
(* the error itself is the last thing in the channel of a goroutine that    *)
(* has returned.                                                            *)
LEMMA TakesServed ==
  ASSUME TypeInv, Flow, Served,
         FullTakesAck \/ FullTakesErr \/ DrainTakesAck \/ DrainTakesErr
  PROVE  Served'
<1> DEFINE q == ackCh[cur]
<1>1. UNCHANGED <<cur, rd>> /\ spc \in {"full", "drain"} /\ Pumping
  BY DEF FullTakesAck, FullTakesErr, DrainTakesAck, DrainTakesErr, Taken, Pumping
<1>2. /\ cur \in File /\ ackCh \in [File -> Seq({"ack", "err"})]
      /\ inFlight \in Nat /\ Window \in Nat /\ inFlight <= Window
  BY <1>1, WireAssumption
     DEF TypeInv, TypeOK, SenderTypeOK, SenderBusy, Busy, Flow, WindowKept
<1>3. q # <<>> /\ q \in Seq({"ack", "err"}) /\ ackCh'[cur] = Tail(q)
  BY <1>2 DEF FullTakesAck, FullTakesErr, DrainTakesAck, DrainTakesErr, Taken
<1>4. \A i \in 1..Len(q) : q[i] = "err" => i = Len(q) /\ rd[cur].at = "off"
  BY <1>2 DEF Flow, ReadersInTurn
<1>5. ~Hung
  BY <1>1, <1>3 DEF Served, Deserted
<1>6. rd[cur].at # "off" \/ q[Len(q)] = "err"
  BY <1>1, <1>5 DEF Served, ErrorWaits
<1>7. CASE FullTakesAck \/ DrainTakesAck
  <2>1. Head(q) = "ack" /\ inFlight' = inFlight - 1 /\ spc' \in {"pump", "drain", "full"}
        /\ ackErr' = ackErr
    BY <1>7 DEF FullTakesAck, DrainTakesAck, Taken, AfterAck, Goto
  <2>2. spc' = "drain" \/ spc' = "pump"
    BY <1>1, <1>2, <1>7 DEF FullTakesAck, DrainTakesAck, WindowFull, AfterAck, Goto
  <2>3. spc' = "pump" => ~ackErr
    BY <1>7, <2>2 DEF FullTakesAck, DrainTakesAck, Served
  <2>4. ~Hung'
    BY <1>2, <2>1 DEF Hung
  <2>5. rd[cur].at # "off" \/ (Tail(q) # <<>> /\ Tail(q)[Len(Tail(q))] = "err")
    <3> HIDE DEF q
    <3>1. CASE q[Len(q)] = "err"
      <4>1. Len(q) \in Nat /\ Len(q) # 1 /\ Len(q) # 0 /\ Len(Tail(q)) = Len(q) - 1
        BY <1>3, <2>1, <3>1
      <4>2. Tail(q)[Len(q) - 1] = q[Len(q)]
        BY <1>3, <4>1
      <4> QED
        BY <3>1, <4>1, <4>2
    <3> QED
      BY <1>6, <3>1
  <2> QED
    BY <1>1, <1>3, <2>1, <2>2, <2>3, <2>4, <2>5 DEF Served, ErrorWaits
<1>8. CASE FullTakesErr
  <2>1. Head(q) = "err" /\ spc = "full" /\ spc' = "drain" /\ ackErr' /\ inFlight' = inFlight
    BY <1>8 DEF FullTakesErr, Taken, Goto
  <2>2. inFlight = Window
    BY <2>1 DEF Served
  <2>3. Tail(q) = <<>> /\ rd[cur].at = "off"
    <3> HIDE DEF q
    <3>1. Len(q) \in Nat /\ Len(q) # 0 /\ q[1] = "err"
      BY <1>3, <2>1
    <3>2. 1 \in 1..Len(q)
      BY <3>1
    <3>3. 1 = Len(q) /\ rd[cur].at = "off"
      BY <1>4, <3>1, <3>2
    <3> QED
      BY <1>3, <3>3
  <2> QED
    BY <1>1, <1>2, <1>3, <2>1, <2>2, <2>3 DEF Served, Hung, Deserted, Pumping
<1>9. CASE DrainTakesErr
  BY <1>9, NotPumping DEF DrainTakesErr, Goto, Pumping
<1> QED
  BY <1>7, <1>8, <1>9

(* The sender's main goroutine. *)
LEMMA SenderMainServed ==
  ASSUME TypeInv, Flow, Served, SenderMain
  PROVE  Served'
<1>1. CASE SendOffer \/ SendSessionDone \/ OfferRefused \/ Drained \/ SendComplete \/ FileSent
           \/ FileNotSent \/ WriteFails \/ SenderAborts
  <2>1. spc' \in {"accept", "done", "fail", "complete", "cack", "offer", "ended"}
    BY <1>1 DEF SendOffer, SendSessionDone, OfferRefused, Drained, SendComplete, FileSent,
       FileNotSent, WriteFails, SenderAborts, Goto
  <2> QED
    BY <2>1, NotPumping DEF Pumping
<1>2. CASE StartChunks
  <2>1. /\ spc = "accept" /\ spc' = "pump" /\ ~ackErr' /\ cur' = cur
        /\ rd' = [rd EXCEPT ![0] = NoReader, ![cur] = [NoReader EXCEPT !.at = "header"]]
    BY <1>2 DEF StartChunks, Goto
  <2>2. cur \in Reader /\ cur # 0 /\ rd \in [Reader -> ReaderState]
    BY <2>1, WireAssumption DEF TypeInv, TypeOK, SenderTypeOK, SenderBusy, Busy, File, Reader
  <2>3. rd'[cur].at = "header"
    BY <2>1, <2>2 DEF NoReader
  <2> QED
    BY <2>1, <2>3 DEF Served, Hung, Pumping
<1>3. CASE SendChunk
  <2>1. /\ spc = "pump" /\ UNCHANGED <<cur, ackErr, rd, ackCh>> /\ inFlight' = inFlight + 1
        /\ spc' = IF WindowFull(inFlight + 1) THEN "full" ELSE "pump"
    BY <1>3 DEF SendChunk, Goto
  <2>2. inFlight \in Nat /\ Window \in Nat /\ inFlight < Window
    BY <2>1, WireAssumption DEF TypeInv, TypeOK, SenderTypeOK, Flow, WindowKept
  <2>3. spc' = "full" => inFlight' = Window
    BY <2>1, <2>2 DEF WindowFull
  <2> QED
    BY <2>1, <2>3 DEF Served, Hung, Pumping, ErrorWaits
<1>4. CASE SendChunkFails \/ EndOfFile
  <2>1. /\ spc = "pump" /\ spc' = "drain" /\ UNCHANGED <<cur, rd, ackCh, inFlight>>
    BY <1>4 DEF SendChunkFails, EndOfFile, Goto
  <2>2. inFlight \in Nat /\ Window \in Nat /\ inFlight < Window
    BY <2>1, WireAssumption DEF TypeInv, TypeOK, SenderTypeOK, Flow, WindowKept
  <2> QED
    BY <2>1, <2>2 DEF Served, Hung, Pumping, ErrorWaits
<1>5. CASE FullTakesAck \/ FullTakesErr \/ DrainTakesAck \/ DrainTakesErr
  BY <1>5, TakesServed
<1>6. CASE ReadFrame(0)
  BY <1>6, ReadServed, WireAssumption DEF Reader
<1> QED
  BY <1>1, <1>2, <1>3, <1>4, <1>5, <1>6 DEF SenderMain

LEMMA NextServed ==
  ASSUME TypeInv, Flow, Served, [Next]_vars
  PROVE  Served'
<1>1. CASE SenderStep
  <2>1. \A f \in File : f \in Reader
    BY WireAssumption DEF File, Reader
  <2> QED
    BY <1>1, <2>1, SenderMainServed, ReadServed, PushServed DEF SenderStep, AckReader
<1>2. CASE ReceiverStep \/ ReceiverFault \/ NetworkFault \/ UNCHANGED vars
  <2>1. UNCHANGED <<spc, cur, inFlight, ackErr, ackCh, rd>>
    BY <1>2 DEF ReceiverStep, ReceiverFault, NetworkFault, vars, senderVars
  <2> QED
    BY <2>1, QuietServed
<1>3. CASE SenderFault
  <2>1. CASE \E f \in File : EditFile(f)
    BY <2>1, QuietServed DEF EditFile
  <2>2. CASE SenderKilled \/ SourceUnreadable
    BY <2>2, NotPumping DEF SenderKilled, SourceUnreadable, Goto, Pumping
  <2> QED
    BY <1>3, <2>1, <2>2 DEF SenderFault
<1>4. CASE NewSession
  BY <1>4, NotPumping DEF NewSession, SenderRestarts, Pumping
<1> QED
  BY <1>1, <1>2, <1>3, <1>4 DEF Next

(* An ackReader says when it returns, and sendChunks hears it, unless it    *)
(* has heard it in the loop of the full window.                             *)
THEOREM ServedIsInvariant == Spec => []ServedInv
<1>1. Init => Served
  BY DEF Init, SenderInit, SenderStart, Served, Pumping
<1>2. FlowInv /\ Served /\ [Next]_vars => Served'
  BY NextServed DEF FlowInv, Flow
<1> QED
  BY <1>1, <1>2, FlowIsInvariant, PTL DEF Spec, ServedInv

(* sendChunks waits for a goroutine that has returned, with nothing left in *)
(* the channel, exactly when it has taken an error from a full window.      *)
THEOREM WaitsAreServed == Spec => []ServedOrHung
<1>1. ServedInv => ServedOrHung
  BY DEF ServedInv, Served, ServedOrHung, Deserted, ErrorWaits, Hung, Pumping
<1> QED
  BY ServedIsInvariant, <1>1, PTL

(* In that case Send does not return until its process is killed, whatever  *)
(* the receiver and the network do.                                         *)
THEOREM HangingLasts == Spec => HungForGood
<1>1. ServedInv /\ [Next]_vars => [Hung => Hung' \/ spc' = "ended"]_vars
  <2> SUFFICES ASSUME ServedInv, [Next]_vars, Hung PROVE Hung' \/ spc' = "ended"
    OBVIOUS
  <2>1. /\ spc = "drain" /\ Deserted /\ inFlight >= Window
        /\ inFlight \in Nat /\ Window \in Nat \ {0}
    BY WireAssumption DEF ServedInv, Served, Hung, Pumping, FlowInv, TypeInv, TypeOK, SenderTypeOK
  <2>2. CASE SenderStep
    <3>1. ~DrainTakesAck /\ ~DrainTakesErr /\ ~Drained
      BY <2>1 DEF DrainTakesAck, DrainTakesErr, Drained, Taken, Deserted, AllAcked
    <3>2. UNCHANGED <<spc, ackErr, inFlight>>
      BY <2>1, <2>2, <3>1
      DEF SenderStep, SenderMain, AckReader, SendOffer, SendSessionDone, StartChunks,
          OfferRefused, SendChunk, SendChunkFails, EndOfFile, FullTakesAck, FullTakesErr,
          SendComplete, FileSent, FileNotSent, WriteFails, SenderAborts, ReadFrame, PushAck,
          PushErr, Push
    <3> QED
      BY <3>2 DEF Hung
  <2>3. CASE SenderFault
    BY <2>1, <2>3 DEF SenderFault, SenderKilled, SourceUnreadable, EditFile, Goto, Hung
  <2>4. CASE ReceiverStep \/ ReceiverFault \/ NetworkFault \/ UNCHANGED vars
    BY <2>4 DEF ReceiverStep, ReceiverFault, NetworkFault, vars, senderVars, Hung
  <2>5. CASE NewSession
    BY <2>1, <2>5 DEF NewSession, SenderOver
  <2> QED
    BY <2>2, <2>3, <2>4, <2>5 DEF Next
<1> QED
  BY ServedIsInvariant, <1>1, PTL DEF Spec, HungForGood
=============================================================================
