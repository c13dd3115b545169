-------------------------- MODULE GTPDeliveryProofs --------------------------
(***************************************************************************)
(* What the sender reports and the receiver shows: DeliveryInv of          *)
(* GTPTransfer is inductive, and GTPTransfer implements FileDelivery.      *)
(*                                                                         *)
(* The argument in one paragraph.  An offer or a COMPLETE is sent when     *)
(* nothing is under way (FlowInv), so the receiver meets it first and      *)
(* alone, and its one reply is met by the main goroutine, by a leftover    *)
(* ackReader or by nobody.  While a request is under way the receiver has  *)
(* verified the files before cur, after a positive COMPLETE_ACK also cur:  *)
(* so a file is verified in its turn and reported after it was verified.   *)
(***************************************************************************)
EXTENDS GTPIntegrityProofs, GTPFlowProofs

-----------------------------------------------------------------------------
(* Requests and replies. *)

Talk == RequestFirst /\ InPhase /\ OneReply /\ CountsAgree

NoRequest(q) == \A i \in 1..Len(q) : q[i].t \notin Requests

(* Queue p asks nothing that q does not ask, and no chunk joined. *)
AsksLess(q, p) == \A i \in 1..Len(p) :
  \/ p[i].t \notin Requests \cup {"DATA"}
  \/ i \in 1..Len(q) /\ p[i].t = q[i].t /\ p[i].id = q[i].id

(* A step after which nothing new is asked or answered: the replies left    *)
(* are those there were, d positions on.                                    *)
LEMMA LessTalk ==
  ASSUME Talk, UNCHANGED <<cur, verified>>, NEW d \in {0, 1},
         NoRequest(toR') \/ AsksLess(toR, toR'),
         \A i \in 1..Len(toR') : toR'[i].t = "SESSION_DONE" =>
           \E k \in 1..Len(toR) : toR[k].t = "SESSION_DONE",
         \A i \in 1..Len(toS') : IsReply(i)' => i + d \in 1..Len(toS) /\ toS'[i] = toS[i + d],
         ReplyHeld' => /\ ReplyHeld /\ rd'[0].frame.t = rd[0].frame.t
                       /\ rd'[0].frame.ok => rd[0].frame.ok,
         spc' = spc \/ (Sending /\ Sending') \/ spc' \in {"fail", "ended"},
         spc = "done" => spc' = "done",
         rpc' = "done" => rpc = "done" \/ spc = "done"
  PROVE  Talk'
<1>1. \A i \in 1..Len(toR') : toR'[i].t \in Requests =>
        /\ i \in 1..Len(toR) /\ toR'[i].t = toR[i].t /\ toR'[i].id = toR[i].id
        /\ \A k \in 1..Len(toR') : toR'[k].t = "DATA" => k \in 1..Len(toR) /\ toR[k].t = "DATA"
  BY DEF NoRequest, AsksLess
<1>2. \A i \in 1..Len(toS') : IsReply(i)' => IsReply(i + d) /\ i + d \in 1..Len(toS)
                                             /\ toS'[i].frame = toS[i + d].frame
  BY DEF IsReply
<1>3. Sending' => Sending \/ spc' = spc
  BY DEF Sending
<1>4. spc' \in {"accept", "cack", "done"} => spc' = spc
  BY DEF Sending
<1>5. RequestFirst'
  BY <1>1 DEF Talk, RequestFirst
<1>6. InPhase'
  <2>1. ASSUME NEW i \in 1..Len(toR'), toR'[i].t \in Requests
        PROVE  /\ ~Sending' /\ (spc' = "accept" => toR'[i].t = "FILE_OFFER")
               /\ spc' = "cack" => toR'[i].t = "COMPLETE"
    BY <1>1, <1>3, <1>4, <2>1 DEF Talk, InPhase, Sending
  <2>2. ASSUME NEW i \in 1..Len(toS'), IsReply(i)'
        PROVE  /\ ~Sending' /\ (spc' = "accept" => toS'[i].frame.t \in {"FILE_ACCEPT", "FILE_REJECT"})
               /\ spc' = "cack" => toS'[i].frame.t = "COMPLETE_ACK"
    <3>1. i + d \in 1..Len(toS) /\ IsReply(i + d) /\ toS'[i].frame = toS[i + d].frame
      BY <1>2, <2>2
    <3> QED
      BY <1>3, <1>4, <3>1 DEF Talk, InPhase, Sending
  <2> QED
    BY <2>1, <2>2 DEF InPhase
<1>7. OneReply'
  <2> SUFFICES ASSUME spc' \in {"accept", "cack"}
               PROVE  /\ (\E i \in 1..Len(toR') : toR'[i].t \in Requests) =>
                            ~ReplyHeld' /\ \A i \in 1..Len(toS') : ~IsReply(i)'
                      /\ \A i \in 1..Len(toS') : IsReply(i)' =>
                            ~ReplyHeld' /\ \A k \in 1..Len(toS') : IsReply(k)' => k = i
    BY DEF OneReply
  <2>1. spc \in {"accept", "cack"}
    BY <1>4
  <2>2. ASSUME NEW i \in 1..Len(toR'), toR'[i].t \in Requests
        PROVE  ~ReplyHeld' /\ \A k \in 1..Len(toS') : ~IsReply(k)'
    BY <1>1, <1>2, <2>1, <2>2 DEF Talk, OneReply
  <2>3. ASSUME NEW i \in 1..Len(toS'), IsReply(i)'
        PROVE  ~ReplyHeld' /\ \A k \in 1..Len(toS') : IsReply(k)' => k = i
    <3>1. \A k \in 1..Len(toS') : IsReply(k)' => IsReply(k + d) /\ k + d \in 1..Len(toS)
      BY <1>2
    <3>2. ~ReplyHeld /\ \A k \in 1..Len(toS') : IsReply(k)' => k + d = i + d
      BY <2>1, <2>3, <3>1 DEF Talk, OneReply
    <3> QED
      BY <3>2
  <2> QED
    BY <2>2, <2>3
<1>8. CountsAgree'
  <2>1. /\ verified' \in {cur' - 1, cur'} /\ verified' <= NFiles
        /\ spc' = "done" => cur' = NFiles + 1
        /\ rpc' = "done" => spc' = "done"
    BY <1>4 DEF Talk, CountsAgree
  <2>2. spc' # "cack" /\ spc' \in Busy \cup {"offer", "done"} => verified' = cur' - 1
    BY DEF Talk, CountsAgree, Sending, Busy
  <2>3. (\E i \in 1..Len(toR') : toR'[i].t \in Requests) => verified' = cur' - 1
    BY <1>1 DEF Talk, CountsAgree
  <2>4. spc' = "cack" => /\ \A i \in 1..Len(toS') : IsReply(i)' /\ toS'[i].frame.ok => verified' = cur'
                         /\ ReplyHeld' /\ rd'[0].frame.ok => verified' = cur'
    BY <1>2, <1>4 DEF Talk, CountsAgree
  <2>5. (\E i \in 1..Len(toR') : toR'[i].t = "SESSION_DONE") => spc' = "done"
    BY DEF Talk, CountsAgree
  <2> QED
    BY <2>1, <2>2, <2>3, <2>4, <2>5 DEF CountsAgree
<1> QED
  BY <1>5, <1>6, <1>7, <1>8 DEF Talk

(* A request has been read and is answered with m, all of it, some of it or *)
(* none of it getting through.                                              *)
LEMMA AnswerTalk ==
  ASSUME TypeInv, Talk, toR # <<>>, toR[1].t \in Requests, UNCHANGED senderVars,
         toR' \in {Tail(toR), <<>>},
         NEW m,
         \A i \in 1..Len(toS') : \/ i \in 1..Len(toS) /\ toS'[i] = toS[i]
                                 \/ i = Len(toS) + 1 /\ toS'[i].frame = m
                                 \/ toS'[i].part # "header",
         IF toR[1].t = "FILE_OFFER" THEN m.t \in {"FILE_ACCEPT", "FILE_REJECT"}
                                    ELSE m.t = "COMPLETE_ACK",
         verified' = IF toR[1].t = "COMPLETE" /\ m.ok THEN verified + 1 ELSE verified,
         rpc' # "done"
  PROVE  Talk'
<1>1. /\ Len(toR) \in Nat \ {0} /\ 1 \in 1..Len(toR) /\ Len(toS) \in Nat
      /\ Len(Tail(toR)) = Len(toR) - 1
      /\ \A i \in 1..(Len(toR) - 1) : Tail(toR)[i] = toR[i + 1]
      /\ cur \in 1..(NFiles + 1) /\ NFiles \in Nat
  <2>1. toR \in Seq(Message) /\ toS \in Seq(Piece) /\ cur \in 1..(NFiles + 1)
    BY DEF TypeInv, TypeOK, WireTypeOK, SenderTypeOK
  <2> QED
    BY <2>1, QueueType, WireAssumption
<1>2. UNCHANGED <<spc, cur, rd>>
  BY DEF senderVars
<1>3. /\ cur \in File /\ verified = cur - 1 /\ ~Sending /\ spc # "done"
      /\ spc = "accept" => toR[1].t = "FILE_OFFER"
      /\ spc = "cack" => toR[1].t = "COMPLETE"
  <2>1. cur \in File /\ ~Sending /\ verified = cur - 1
        /\ (spc = "accept" => toR[1].t = "FILE_OFFER") /\ (spc = "cack" => toR[1].t = "COMPLETE")
    BY <1>1 DEF Talk, RequestFirst, InPhase, CountsAgree
  <2>2. spc # "done"
    BY <1>1, <2>1 DEF Talk, CountsAgree, File
  <2> QED
    BY <2>1, <2>2
<1>4. /\ \A i \in 1..Len(toR') : i + 1 \in 1..Len(toR) /\ toR'[i] = toR[i + 1]
      /\ NoRequest(toR')
  <2>1. \A i \in 1..Len(toR') : i + 1 \in 1..Len(toR) /\ toR'[i] = toR[i + 1]
    <3>1. CASE toR' = <<>>
      BY <3>1
    <3>2. CASE toR' = Tail(toR)
      <4> DEFINE n == Len(toR)
                 k == Len(toR')
      <4>1. n \in Nat /\ k = n - 1 /\ \A i \in 1..(n - 1) : toR'[i] = toR[i + 1]
        BY <1>1, <3>2
      <4> HIDE DEF n, k
      <4>2. \A i \in 1..k : i + 1 \in 1..n /\ toR'[i] = toR[i + 1]
        BY <4>1
      <4> QED
        BY <4>2 DEF n, k
    <3> QED
      BY <3>1, <3>2
  <2>2. \A i \in 1..Len(toR') : i + 1 # 1
    BY <1>1
  <2> QED
    BY <2>1, <2>2 DEF Talk, RequestFirst, NoRequest
<1>5. \A i \in 1..Len(toS') : IsReply(i)' =>
        \/ i \in 1..Len(toS) /\ IsReply(i) /\ toS'[i] = toS[i]
        \/ i = Len(toS) + 1 /\ toS'[i].frame = m
  BY DEF IsReply
<1>6. spc \in {"accept", "cack"} => ~ReplyHeld /\ \A i \in 1..Len(toS) : ~IsReply(i)
  BY <1>1 DEF Talk, OneReply
<1>7. RequestFirst'
  BY <1>4 DEF NoRequest, RequestFirst
<1>8. InPhase'
  <2>1. \A i \in 1..Len(toS') : IsReply(i)' /\ spc = "accept" =>
          toS'[i].frame.t \in {"FILE_ACCEPT", "FILE_REJECT"}
    BY <1>3, <1>5, <1>6
  <2>2. \A i \in 1..Len(toS') : IsReply(i)' /\ spc = "cack" => toS'[i].frame.t = "COMPLETE_ACK"
    BY <1>3, <1>5, <1>6
  <2> QED
    BY <1>2, <1>3, <1>4, <2>1, <2>2 DEF NoRequest, InPhase, Sending
<1>9. OneReply'
  <2>1. ReplyHeld' = ReplyHeld
    BY <1>2 DEF ReplyHeld, Held
  <2> QED
    BY <1>2, <1>4, <1>5, <1>6, <2>1 DEF NoRequest, OneReply
<1>10. CountsAgree'
  <2>1. verified' \in {cur - 1, cur} /\ verified' <= NFiles
    BY <1>1, <1>3 DEF File
  <2>2. spc # "cack" /\ spc \in Busy \cup {"offer", "done"} => verified' = cur - 1
    BY <1>3 DEF Busy, Sending
  <2>3. spc = "cack" => /\ \A i \in 1..Len(toS') : IsReply(i)' /\ toS'[i].frame.ok => verified' = cur
                        /\ ~ReplyHeld'
    <3>1. spc = "cack" => ~ReplyHeld'
      BY <1>2, <1>6 DEF ReplyHeld, Held
    <3>2. spc = "cack" => \A i \in 1..Len(toS') : IsReply(i)' => toS'[i].frame = m
      BY <1>5, <1>6
    <3>3. verified \in Int /\ verified + 1 = cur
      BY <1>1, <1>3
    <3> QED
      BY <1>3, <3>1, <3>2, <3>3
  <2>4. \A i \in 1..Len(toR') : toR'[i].t # "SESSION_DONE"
    BY <1>3, <1>4 DEF Talk, CountsAgree
  <2> QED
    BY <1>2, <1>3, <1>4, <2>1, <2>2, <2>3, <2>4 DEF CountsAgree, NoRequest
<1> QED
  BY <1>7, <1>8, <1>9, <1>10 DEF Talk
-----------------------------------------------------------------------------
(* The steps of the sender. *)

(* What a read leaves of the pieces, and what it gives the reader. *)
LEMMA ReadPieces ==
  ASSUME TypeInv, NEW r \in Reader, ReadFrame(r)
  PROVE  \E d \in {0, 1} :
           /\ \A i \in 1..Len(toS') : toS'[i].part = "header" =>
                i + d \in 1..Len(toS) /\ toS'[i] = toS[i + d]
           /\ \A q \in Reader \ {r} : rd'[q] = rd[q]
           /\ \/ /\ rd[r].at = "header" /\ d = 1 /\ toS # <<>> /\ toS[1].part = "header"
                 /\ rd'[r] = [at |-> "payload", frame |-> toS[1].frame]
              \/ Held(r)' => /\ Held(r) /\ rd'[r].frame.t = rd[r].frame.t
                             /\ rd'[r].frame.ok => rd[r].frame.ok
<1>1. toS \in Seq(Piece) /\ rd \in [Reader -> ReaderState] /\ rd[r] \in ReaderState
  BY DEF TypeInv, TypeOK, WireTypeOK, SenderTypeOK
<1>2. toS # <<>> => /\ Head(toS) = toS[1] /\ 1 \in 1..Len(toS) /\ toS[1] \in Piece
                    /\ \A i \in 1..Len(Tail(toS)) : i + 1 \in 1..Len(toS) /\ Tail(toS)[i] = toS[i + 1]
  <2> SUFFICES ASSUME toS # <<>>
               PROVE  /\ Head(toS) = toS[1] /\ 1 \in 1..Len(toS) /\ toS[1] \in Piece
                      /\ \A i \in 1..Len(Tail(toS)) : i + 1 \in 1..Len(toS) /\ Tail(toS)[i] = toS[i + 1]
    OBVIOUS
  <2> DEFINE n == Len(toS)
             k == Len(Tail(toS))
             t == Tail(toS)
  <2>1. /\ n \in Nat \ {0} /\ k = n - 1 /\ Head(toS) = toS[1] /\ toS[1] \in Piece
        /\ \A i \in 1..(n - 1) : t[i] = toS[i + 1]
    BY <1>1, QueueType
  <2> HIDE DEF n, k, t
  <2>2. 1 \in 1..n /\ \A i \in 1..k : i + 1 \in 1..n /\ t[i] = toS[i + 1]
    BY <2>1
  <2> QED
    BY <2>1, <2>2 DEF n, k, t
<1>3. toS # <<>> => \E d \in {0, 1} :
        \A i \in 1..Len(Nibble(toS)) : Nibble(toS)[i].part = "header" =>
          i + d \in 1..Len(toS) /\ Nibble(toS)[i] = toS[i + d]
  <2> SUFFICES ASSUME toS # <<>>
               PROVE  \E d \in {0, 1} :
                 \A i \in 1..Len(Nibble(toS)) : Nibble(toS)[i].part = "header" =>
                   i + d \in 1..Len(toS) /\ Nibble(toS)[i] = toS[i + d]
    OBVIOUS
  <2>1. CASE toS[1].part = "header"
    BY <1>2, <2>1 DEF Nibble
  <2>2. CASE toS[1].part # "header"
    <3> DEFINE m == [toS[1] EXCEPT !.part = "rest"]
    <3>1. m \in Piece /\ m.part = "rest"
      BY <1>2 DEF Piece
    <3>2. Nibble(toS) = [toS EXCEPT ![1] = m]
      BY <1>2, <2>2 DEF Nibble
    <3> HIDE DEF m
    <3>3. Len(Nibble(toS)) = Len(toS)
          /\ \A i \in 1..Len(toS) : Nibble(toS)[i] = IF i = 1 THEN m ELSE toS[i]
      BY <1>1, <1>2, <3>1, <3>2, ExceptSeq
    <3>4. \A i \in 1..Len(Nibble(toS)) : Nibble(toS)[i].part = "header" =>
            i + 0 \in 1..Len(toS) /\ Nibble(toS)[i] = toS[i + 0]
      BY <3>1, <3>3
    <3> QED
      BY <3>4
  <2> QED
    BY <2>1, <2>2
<1>4. CASE ReadHeader(r)
  BY <1>1, <1>2, <1>4 DEF ReadHeader
<1>5. CASE ReadPayload(r) \/ ReadRest(r)
  <2>1. rd[r].at = "payload" /\ toS # <<>> /\ toS' = Tail(toS)
        /\ \E a \in {"got", "fill"} : rd' = [rd EXCEPT ![r].at = a]
    BY <1>5 DEF ReadPayload, ReadRest
  <2>2. /\ rd'[r].frame = rd[r].frame /\ Held(r)
        /\ \A q \in Reader \ {r} : rd'[q] = rd[q]
    BY <1>1, <2>1 DEF ReaderState, Held
  <2> QED
    BY <1>2, <2>1, <2>2
<1>6. CASE BadMagic(r)
  <2>1. toS # <<>> /\ toS' = Nibble(toS) /\ rd' = [rd EXCEPT ![r].at = "err"]
    BY <1>6 DEF BadMagic
  <2>2. rd'[r].at = "err" /\ \A q \in Reader \ {r} : rd'[q] = rd[q]
    BY <1>1, <2>1 DEF ReaderState
  <2> QED
    BY <1>3, <2>1, <2>2 DEF Held
<1>7. CASE ReadFill(r)
  <2>1. /\ toS # <<>> /\ toS' = Nibble(toS) /\ rd[r].at = "fill"
        /\ rd' = [rd EXCEPT ![r] = [at |-> "got", frame |-> Garbled(rd[r].frame)]]
    BY <1>7 DEF ReadFill
  <2>2. /\ rd'[r].frame.t = rd[r].frame.t /\ rd'[r].frame.ok = FALSE /\ Held(r)
        /\ \A q \in Reader \ {r} : rd'[q] = rd[q]
    BY <1>1, <2>1 DEF Garbled, Msg, Held
  <2> QED
    BY <1>3, <2>1, <2>2
<1>8. CASE ReadFails(r)
  <2>1. toS' = toS /\ rd' = [rd EXCEPT ![r].at = "err"]
    BY <1>8 DEF ReadFails
  <2>2. rd'[r].at = "err" /\ \A q \in Reader \ {r} : rd'[q] = rd[q]
    BY <1>1, <2>1 DEF ReaderState
  <2>3. \A i \in 1..Len(toS') : i + 0 \in 1..Len(toS) /\ toS'[i] = toS[i + 0]
    BY <1>1, <2>1
  <2> QED
    BY <2>2, <2>3 DEF Held
<1> QED
  BY <1>4, <1>5, <1>6, <1>7, <1>8 DEF ReadFrame

(* Whoever reads, a reply is read once; by the main goroutine, it is held.  *)
LEMMA ReadTalk ==
  ASSUME TypeInv, Talk, rpc' = rpc, verified' = verified, NEW r \in Reader, ReadFrame(r)
  PROVE  Talk'
<1>1. PICK d \in {0, 1} :
        /\ \A i \in 1..Len(toS') : toS'[i].part = "header" =>
             i + d \in 1..Len(toS) /\ toS'[i] = toS[i + d]
        /\ \A q \in Reader \ {r} : rd'[q] = rd[q]
        /\ \/ /\ rd[r].at = "header" /\ d = 1 /\ toS # <<>> /\ toS[1].part = "header"
              /\ rd'[r] = [at |-> "payload", frame |-> toS[1].frame]
           \/ Held(r)' => /\ Held(r) /\ rd'[r].frame.t = rd[r].frame.t
                          /\ rd'[r].frame.ok => rd[r].frame.ok
  BY ReadPieces
<1>2. UNCHANGED <<toR, up, spc, cur>> /\ 0 \in Reader
  BY WireAssumption DEF ReadFrame, Reader
<1>3. \A i \in 1..Len(toS') : IsReply(i)' => i + d \in 1..Len(toS) /\ toS'[i] = toS[i + d]
  BY <1>1 DEF IsReply
<1>4. AsksLess(toR, toR')
  BY <1>2 DEF AsksLess
<1>5. CASE /\ r = 0 /\ rd[0].at = "header" /\ d = 1 /\ toS # <<>> /\ IsReply(1)
           /\ rd'[0] = [at |-> "payload", frame |-> toS[1].frame]
  <2>1. 1 \in 1..Len(toS) /\ toS[1].frame.t \in Replies
    <3>1. toS \in Seq(Piece)
      BY DEF TypeInv, TypeOK, WireTypeOK
    <3> QED
      BY <1>5, <3>1 DEF IsReply
  <2>2. \A i \in 1..Len(toS') : IsReply(i)' => i + 1 \in 1..Len(toS) /\ IsReply(i + 1) /\ i # 0
    BY <1>3, <1>5 DEF IsReply
  <2>3. spc \in {"accept", "cack"} => /\ NoRequest(toR)
                                      /\ \A i \in 1..Len(toS') : ~IsReply(i)'
    <3>1. spc \in {"accept", "cack"} => /\ NoRequest(toR)
                                        /\ \A i \in 1..Len(toS) : IsReply(i) => i = 1
      BY <1>5, <2>1 DEF Talk, OneReply, NoRequest
    <3>2. \A i \in 1..Len(toS') : i + 1 = 1 => i = 0
      OBVIOUS
    <3> QED
      BY <2>2, <3>1, <3>2
  <2>4. RequestFirst'
    BY <1>2 DEF Talk, RequestFirst
  <2>5. InPhase'
    <3>1. ~Sending'
      BY <1>2, <1>5, <2>1 DEF Talk, InPhase, Sending
    <3>2. \A i \in 1..Len(toR') : toR'[i].t \in Requests =>
            /\ spc' = "accept" => toR'[i].t = "FILE_OFFER"
            /\ spc' = "cack" => toR'[i].t = "COMPLETE"
      BY <1>2 DEF Talk, InPhase
    <3>3. \A i \in 1..Len(toS') : IsReply(i)' => spc' \notin {"accept", "cack"}
      BY <1>2, <2>3
    <3> QED
      BY <3>1, <3>2, <3>3 DEF InPhase
  <2>6. OneReply'
    BY <1>2, <2>3 DEF OneReply, NoRequest
  <2>7. CountsAgree'
    <3>1. spc = "cack" => /\ \A i \in 1..Len(toS') : ~IsReply(i)'
                          /\ rd'[0].frame.ok => verified = cur
      BY <1>5, <2>1, <2>3 DEF Talk, CountsAgree
    <3> QED
      BY <1>2, <3>1 DEF Talk, CountsAgree
  <2> QED
    BY <2>4, <2>5, <2>6, <2>7 DEF Talk
<1>6. CASE ~(/\ r = 0 /\ rd[0].at = "header" /\ d = 1 /\ toS # <<>> /\ IsReply(1)
             /\ rd'[0] = [at |-> "payload", frame |-> toS[1].frame])
  <2>1. ReplyHeld' => /\ ReplyHeld /\ rd'[0].frame.t = rd[0].frame.t
                      /\ rd'[0].frame.ok => rd[0].frame.ok
    <3>1. CASE r = 0
      <4>1. CASE Held(0)' => /\ Held(0) /\ rd'[0].frame.t = rd[0].frame.t
                             /\ rd'[0].frame.ok => rd[0].frame.ok
        BY <4>1 DEF ReplyHeld
      <4>2. CASE /\ rd[0].at = "header" /\ d = 1 /\ toS # <<>> /\ toS[1].part = "header"
                 /\ rd'[0] = [at |-> "payload", frame |-> toS[1].frame]
        BY <1>6, <3>1, <4>2 DEF ReplyHeld, IsReply
      <4> QED
        BY <1>1, <3>1, <4>1, <4>2
    <3>2. CASE r # 0
      BY <1>1, <1>2, <3>2 DEF ReplyHeld, Held
    <3> QED
      BY <3>1, <3>2
  <2> QED
    BY <1>2, <1>3, <1>4, <2>1, LessTalk
<1> QED
  BY <1>5, <1>6

(* An offer or a COMPLETE is sent when nothing has to be read before it. *)
LEMMA RequestTalk ==
  ASSUME TypeInv, Talk, Flow, SendOffer \/ SendComplete, UNCHANGED receiverVars
  PROVE  Talk'
<1>1. /\ UNCHANGED <<cur, verified, rpc, toS>> /\ cur \in File /\ cur \in Nat /\ NFiles \in Nat
      /\ spc \in {"offer", "complete"}
      /\ rd' = [rd EXCEPT ![0] = [at |-> "header", frame |-> ErrorFrame]]
      /\ rd \in [Reader -> ReaderState] /\ 0 \in Reader /\ toR \in Seq(Message)
  BY WireAssumption DEF SendOffer, SendComplete, SendToReceiver, receiverVars, StartReading, TypeInv,
     TypeOK, WireTypeOK, SenderTypeOK, SenderBusy, Busy, File, Reader
<1>2. PICK m : /\ SendToReceiver(m) /\ m.id = cur
               /\ \/ m.t = "FILE_OFFER" /\ spc' = "accept"
                  \/ m.t = "COMPLETE" /\ spc' = "cack"
  BY DEF SendOffer, SendComplete, Goto, FileOffer, Complete, Msg
<1>3. /\ NoRequest(toR) /\ \A i \in 1..Len(toS) : ~IsReply(i)
      /\ verified = cur - 1 /\ \A i \in 1..Len(toR) : toR[i].t # "SESSION_DONE"
      /\ rpc # "done"
  BY <1>1 DEF Talk, InPhase, CountsAgree, NoRequest, Sending, Busy
<1>4. ~ReplyHeld'
  BY <1>1 DEF ReplyHeld, Held
<1>5. \A i \in 1..Len(toS') : ~IsReply(i)'
  BY <1>1, <1>3 DEF IsReply
<1>6. \/ NoRequest(toR') /\ \A i \in 1..Len(toR') : toR'[i].t # "SESSION_DONE"
      \/ Len(toR') = 1 /\ toR'[1] = m
  <2>1. CASE up
    <3>1. Len(toR) = 0
      BY <1>1, <2>1, CountTypes DEF Flow, FramesCounted, UnderWay, Counted
    <3>2. toR' = Append(toR, m)
      BY <1>2, <2>1 DEF SendToReceiver
    <3> QED
      BY <1>1, <3>1, <3>2
  <2>2. CASE ~up
    BY <1>2, <1>3, <2>2 DEF SendToReceiver
  <2> QED
    BY <2>1, <2>2
<1>7. \A i \in 1..Len(toR') : /\ toR'[i].t # "SESSION_DONE"
                              /\ toR'[i].t \in Requests =>
                                   /\ i = 1 /\ toR'[i] = m /\ Len(toR') = 1
  BY <1>2, <1>6 DEF NoRequest
<1>8. RequestFirst'
  BY <1>1, <1>2, <1>7 DEF RequestFirst
<1>9. InPhase'
  BY <1>2, <1>5, <1>7 DEF InPhase, Sending
<1>10. OneReply'
  BY <1>4, <1>5 DEF OneReply
<1>11. CountsAgree'
  <2>1. verified' \in {cur' - 1, cur'} /\ verified' <= NFiles /\ verified' = cur' - 1
    BY <1>1, <1>3 DEF File
  <2>2. spc' # "done" /\ rpc' # "done"
    BY <1>1, <1>2, <1>3
  <2> QED
    BY <1>4, <1>5, <1>7, <2>1, <2>2 DEF CountsAgree
<1> QED
  BY <1>8, <1>9, <1>10, <1>11 DEF Talk

(* A reply taken: it was the only one, and what it answered is read. *)
LEMMA RepliedTalk ==
  ASSUME TypeInv, Talk, StartChunks \/ FileSent, UNCHANGED receiverVars
  PROVE  Talk'
<1>1. /\ UNCHANGED <<toR, toS, verified, rpc>> /\ cur \in File /\ cur \in Nat
      /\ rd \in [Reader -> ReaderState] /\ 0 \in Reader /\ cur # 0
      /\ spc \in {"accept", "cack"} /\ spc' \in {"pump", "offer"}
  BY WireAssumption DEF StartChunks, FileSent, wireVars, receiverVars, Goto, TypeInv, TypeOK,
     SenderTypeOK, SenderBusy, Busy, File, Reader
<1>2. ReplyHeld /\ rd[0].frame.t \in Replies
  BY DEF StartChunks, FileSent, Acknowledged, ReplyHeld, Held, Replies
<1>3. NoRequest(toR) /\ \A i \in 1..Len(toS) : ~IsReply(i)
  BY <1>1, <1>2 DEF Talk, OneReply, NoRequest
<1>4. ~Held(0)'
  <2>1. rd'[0] = NoReader
    BY <1>1 DEF StartChunks, FileSent
  <2> QED
    BY <2>1 DEF Held, NoReader
<1>5. verified' = cur' - 1
  <2>1. CASE StartChunks
    BY <1>1, <2>1 DEF StartChunks, Talk, CountsAgree, Busy
  <2>2. CASE FileSent
    <3>1. verified = cur
      BY <1>2, <2>2 DEF FileSent, Acknowledged, Talk, CountsAgree
    <3> QED
      BY <1>1, <2>2, <3>1 DEF FileSent
  <2> QED
    BY <2>1, <2>2
<1>6. /\ \A i \in 1..Len(toS') : ~IsReply(i)'
      /\ NoRequest(toR') /\ ~ReplyHeld'
      /\ \A i \in 1..Len(toR') : toR'[i].t # "SESSION_DONE"
      /\ rpc' # "done" /\ verified' <= NFiles
  BY <1>1, <1>3, <1>4 DEF IsReply, NoRequest, ReplyHeld, Talk, CountsAgree
<1>7. RequestFirst' /\ InPhase' /\ OneReply'
  BY <1>6 DEF NoRequest, RequestFirst, InPhase, OneReply
<1>8. CountsAgree'
  BY <1>1, <1>5, <1>6 DEF CountsAgree, NoRequest
<1> QED
  BY <1>7, <1>8 DEF Talk

(* The last frame of a session, then Close. *)
LEMMA FarewellTalk ==
  ASSUME TypeInv, Talk, SendSessionDone \/ SenderAborts \/ SenderKilled, UNCHANGED receiverVars
  PROVE  Talk'
<1>1. /\ UNCHANGED <<cur, verified, rpc>> /\ toR \in Seq(Message)
      /\ rd \in [Reader -> ReaderState] /\ 0 \in Reader /\ cur \in 1..(NFiles + 1) /\ NFiles \in Nat
  BY WireAssumption DEF SendSessionDone, SenderAborts, SenderKilled, receiverVars, TypeInv, TypeOK,
     WireTypeOK, SenderTypeOK, Reader
<1>2. PICK last \in {<<SessionDone>>, <<ErrorFrame>>, <<>>} :
        /\ SenderCloses(last)
        /\ \/ last = <<SessionDone>> /\ spc = "offer" /\ spc' = "done" /\ cur = NFiles + 1
           \/ last # <<SessionDone>> /\ spc' = "ended" /\ spc # "done"
        /\ ReplyHeld' => ReplyHeld /\ rd'[0] = rd[0]
  <2>1. CASE SendSessionDone
    BY <1>1, <2>1 DEF SendSessionDone, Goto, File, ReplyHeld, Held
  <2>2. CASE SenderAborts
    <3>1. <<ErrorFrame>> # <<SessionDone>>
      BY DEF ErrorFrame, SessionDone, Msg
    <3> QED
      BY <2>2, <3>1 DEF SenderAborts, Goto, ReplyHeld, Held
  <2>3. CASE SenderKilled
    <3>1. ~ReplyHeld'
      BY <1>1, <2>3 DEF SenderKilled, NoReader, ReplyHeld, Held
    <3> QED
      BY <2>3, <3>1 DEF SenderKilled, Goto, SenderOver
  <2> QED
    BY <2>1, <2>2, <2>3
<1>3. \A i \in 1..Len(toR') : \/ i \in 1..Len(toR) /\ toR'[i] = toR[i]
                              \/ last # <<>> /\ toR'[i] = last[1]
  <2> DEFINE q == IF up THEN toR \o last ELSE toR
  <2>1. SessionDone \in Message /\ ErrorFrame \in Message
    BY ErrorFrameType DEF SessionDone, Msg, Message, FrameType, Content
  <2>2. last \in Seq(Message) /\ (last = <<>> \/ Len(last) = 1)
    <3>1. /\ \A m \in Message : <<m>> \in Seq(Message) /\ Len(<<m>>) = 1
          /\ <<>> \in Seq(Message)
      OBVIOUS
    <3> QED
      BY <2>1, <3>1
  <2>3. q \in Seq(Message) /\ \A i \in 1..Len(q) : \/ i \in 1..Len(toR) /\ q[i] = toR[i]
                                                   \/ last # <<>> /\ q[i] = last[1]
    <3>1. CASE last = <<>>
      BY <1>1, <3>1
    <3>2. CASE Len(last) = 1
      BY <1>1, <2>2, <3>2
    <3> QED
      BY <2>2, <3>1, <3>2
  <2>4. toR' \in Survives(q, toS)
    BY <1>2 DEF SenderCloses
  <2> HIDE DEF q
  <2>5. /\ Len(toR') <= Len(q) /\ Len(toR') \in Nat /\ Len(q) \in Nat
        /\ \A i \in 1..Len(toR') : toR'[i] = q[i]
    <3>1. toR' \in Seq(Message) /\ Len(toR') <= Len(q) /\ \A i \in 1..Len(toR') : toR'[i] = q[i]
      BY <2>3, <2>4, SurvivesType
    <3> QED
      BY <2>3, <3>1
  <2> QED
    BY <2>3, <2>5
<1>4. toS' = <<>> /\ \A i \in 1..Len(toS') : ~IsReply(i)'
  BY <1>2 DEF SenderCloses
<1>5. last # <<>> => last[1].t \in {"SESSION_DONE", "ERROR"}
                     /\ (last[1].t = "SESSION_DONE" => last = <<SessionDone>>)
  BY DEF SessionDone, ErrorFrame, Msg
<1>6. CASE spc' = "ended"
  <2>1. last # <<SessionDone>>
    BY <1>2, <1>6
  <2>2. AsksLess(toR, toR')
    BY <1>3, <1>5 DEF AsksLess, Requests
  <2>3. \A i \in 1..Len(toR') : toR'[i].t = "SESSION_DONE" =>
          \E k \in 1..Len(toR) : toR[k].t = "SESSION_DONE"
    BY <1>3, <1>5, <2>1
  <2>4. spc = "done" => spc' = "done"
    BY <1>2, <1>6
  <2>5. \A i \in 1..Len(toS') : IsReply(i)' => i + 0 \in 1..Len(toS) /\ toS'[i] = toS[i + 0]
    BY <1>4
  <2>6. ReplyHeld' => /\ ReplyHeld /\ rd'[0].frame.t = rd[0].frame.t
                      /\ rd'[0].frame.ok => rd[0].frame.ok
    BY <1>2
  <2> QED
    BY <1>1, <1>6, <2>2, <2>3, <2>4, <2>5, <2>6, LessTalk
<1>7. CASE spc = "offer" /\ spc' = "done" /\ cur = NFiles + 1
  <2>1. NoRequest(toR) /\ verified = cur - 1
    BY <1>7 DEF Talk, InPhase, NoRequest, Sending, CountsAgree
  <2>2. NoRequest(toR')
    BY <1>3, <1>5, <2>1 DEF NoRequest, Requests
  <2>3. RequestFirst' /\ InPhase' /\ OneReply'
    BY <1>4, <1>7, <2>2 DEF NoRequest, RequestFirst, InPhase, OneReply
  <2>4. CountsAgree'
    BY <1>1, <1>7, <2>1, <2>2 DEF CountsAgree, NoRequest
  <2> QED
    BY <2>3, <2>4 DEF Talk
<1> QED
  BY <1>2, <1>6, <1>7

(* A step that leaves what is on its way alone, or loses some of it. *)
LEMMA QuietTalk ==
  ASSUME Talk, UNCHANGED <<cur, verified, rpc>>,
         \A i \in 1..Len(toR') : /\ i \in 1..Len(toR)
                                 /\ toR'[i].t = toR[i].t /\ toR'[i].id = toR[i].id,
         \A i \in 1..Len(toS') : i \in 1..Len(toS) /\ toS'[i] = toS[i],
         rd'[0] = rd[0] \/ ~ReplyHeld',
         spc' = spc \/ (Sending /\ Sending') \/ spc' = "fail",
         spc = "done" => spc' = "done"
  PROVE  Talk'
<1>1. AsksLess(toR, toR')
  BY DEF AsksLess
<1>2. ReplyHeld' => /\ ReplyHeld /\ rd'[0].frame.t = rd[0].frame.t
                    /\ rd'[0].frame.ok => rd[0].frame.ok
  BY DEF ReplyHeld, Held
<1>3. \A i \in 1..Len(toS') : IsReply(i)' => i + 0 \in 1..Len(toS) /\ toS'[i] = toS[i + 0]
  OBVIOUS
<1> QED
  BY <1>1, <1>2, <1>3, LessTalk

(* The sender's main goroutine. *)
LEMMA SenderMainTalk ==
  ASSUME TypeInv, Talk, Flow, SenderMain, UNCHANGED receiverVars
  PROVE  Talk'
<1>1. /\ UNCHANGED <<verified, rpc>> /\ toR \in Seq(Message) /\ toS \in Seq(Piece)
      /\ rd \in [Reader -> ReaderState] /\ 0 \in Reader
  BY WireAssumption DEF receiverVars, TypeInv, TypeOK, WireTypeOK, SenderTypeOK, Reader
<1>2. CASE SendOffer \/ SendComplete
  BY <1>2, RequestTalk
<1>3. CASE StartChunks \/ FileSent
  BY <1>3, RepliedTalk
<1>4. CASE SendSessionDone \/ SenderAborts
  BY <1>4, FarewellTalk
<1>5. CASE ReadFrame(0)
  BY <1>1, <1>5, ReadTalk
<1>6. CASE SendChunk
  <2>1. /\ UNCHANGED <<cur, rd, toS>> /\ spc = "pump" /\ spc' \in {"pump", "full"}
        /\ SendToReceiver(Data(cur, idx, NextChunk))
    BY <1>6 DEF SendChunk, SendToReceiver, Goto
  <2>2. Sending /\ Sending'
    BY <2>1 DEF Sending
  <2>3. \A i \in 1..Len(toR') : toR'[i].t = "DATA" \/ (i \in 1..Len(toR) /\ toR'[i] = toR[i])
    BY <1>1, <2>1 DEF SendToReceiver, Data, Msg
  <2>4. NoRequest(toR')
    BY <2>2, <2>3 DEF Talk, InPhase, NoRequest, Requests
  <2>5. \A i \in 1..Len(toR') : toR'[i].t = "SESSION_DONE" =>
          \E k \in 1..Len(toR) : toR[k].t = "SESSION_DONE"
    BY <2>3
  <2>6. \A i \in 1..Len(toS') : IsReply(i)' => i + 0 \in 1..Len(toS) /\ toS'[i] = toS[i + 0]
    BY <1>1, <2>1
  <2> QED
    BY <1>1, <2>1, <2>2, <2>4, <2>5, <2>6, LessTalk DEF ReplyHeld, Held
<1>7. CASE \/ SendChunkFails \/ EndOfFile \/ FullTakesAck \/ FullTakesErr
           \/ DrainTakesAck \/ DrainTakesErr \/ Drained \/ WriteFails
           \/ OfferRefused \/ FileNotSent
  <2>1. /\ UNCHANGED <<toR, toS, cur>> /\ spc # "done"
        /\ rd' = rd \/ rd' = [rd EXCEPT ![0] = NoReader]
    BY <1>7 DEF SendChunkFails, EndOfFile, FullTakesAck, FullTakesErr, DrainTakesAck,
       DrainTakesErr, Drained, WriteFails, OfferRefused, FileNotSent, Taken, wireVars
  <2>2. spc' = spc \/ (Sending /\ Sending') \/ spc' = "fail"
    BY <1>7 DEF SendChunkFails, EndOfFile, FullTakesAck, FullTakesErr, DrainTakesAck,
       DrainTakesErr, Drained, WriteFails, OfferRefused, FileNotSent, Goto, Sending
  <2>3. rd'[0] = rd[0] \/ ~ReplyHeld'
    BY <1>1, <2>1 DEF ReplyHeld, Held, NoReader
  <2> QED
    BY <1>1, <2>1, <2>2, <2>3, QuietTalk
<1> QED
  BY <1>2, <1>3, <1>4, <1>5, <1>6, <1>7 DEF SenderMain

(* The ackReaders, and what may happen to the sender and the connection. *)
LEMMA SenderRestTalk ==
  ASSUME TypeInv, Talk, UNCHANGED receiverVars,
         \/ \E f \in File : AckReader(f) \/ EditFile(f)
         \/ SourceUnreadable \/ SenderKilled
         \/ (BreakConn \/ CorruptChunk) /\ UNCHANGED senderVars
  PROVE  Talk'
<1>1. /\ UNCHANGED <<verified, rpc>> /\ toR \in Seq(Message) /\ toS \in Seq(Piece)
      /\ rd \in [Reader -> ReaderState] /\ 0 \in Reader /\ 0 \notin File /\ File \subseteq Reader
  BY WireAssumption DEF receiverVars, TypeInv, TypeOK, WireTypeOK, SenderTypeOK, Reader, File
<1>2. ASSUME NEW f \in File, AckReader(f) PROVE Talk'
  <2>1. CASE ReadFrame(f)
    BY <1>1, <2>1, ReadTalk
  <2>2. CASE PushAck(f) \/ PushErr(f)
    <3>1. UNCHANGED <<toR, toS, spc, cur>>
      BY <2>2 DEF PushAck, PushErr, Push, wireVars
    <3>2. rd'[0] = rd[0]
      BY <1>1, <2>2 DEF PushAck, PushErr, StartReading
    <3> QED
      BY <1>1, <3>1, <3>2, QuietTalk
  <2> QED
    BY <1>2, <2>1, <2>2 DEF AckReader
<1>3. CASE \E f \in File : EditFile(f)
  <2>1. UNCHANGED <<toR, toS, spc, cur, rd>>
    BY <1>3 DEF EditFile
  <2> QED
    BY <1>1, <2>1, QuietTalk
<1>4. CASE SourceUnreadable
  <2>1. /\ UNCHANGED <<toR, toS, cur>> /\ spc # "done" /\ spc' = "fail"
        /\ rd' = rd \/ rd' = [rd EXCEPT ![0] = NoReader]
    BY <1>4 DEF SourceUnreadable, Goto
  <2>2. rd'[0] = rd[0] \/ ~ReplyHeld'
    BY <1>1, <2>1 DEF ReplyHeld, Held, NoReader
  <2> QED
    BY <1>1, <2>1, <2>2, QuietTalk
<1>5. CASE SenderKilled
  BY <1>5, FarewellTalk
<1>6. CASE BreakConn /\ UNCHANGED senderVars
  <2>1. toR' \in Prefixes(toR) /\ toS' \in Prefixes(toS) /\ UNCHANGED <<spc, cur, rd>>
    BY <1>6 DEF BreakConn, senderVars
  <2>2. /\ toR' \in Seq(Message) /\ Len(toR') <= Len(toR) /\ \A i \in 1..Len(toR') : toR'[i] = toR[i]
        /\ toS' \in Seq(Piece) /\ Len(toS') <= Len(toS) /\ \A i \in 1..Len(toS') : toS'[i] = toS[i]
    BY <1>1, <2>1, PrefixType
  <2>3. /\ \A i \in 1..Len(toR') : i \in 1..Len(toR) /\ toR'[i] = toR[i]
        /\ \A i \in 1..Len(toS') : i \in 1..Len(toS) /\ toS'[i] = toS[i]
    BY <1>1, <2>2
  <2> QED
    BY <1>1, <2>1, <2>3, QuietTalk
<1>7. CASE CorruptChunk /\ UNCHANGED senderVars
  <2>1. UNCHANGED <<toS, spc, cur, rd>>
    BY <1>7 DEF CorruptChunk, senderVars
  <2>2. PICK i \in 1..Len(toR) :
          toR' = [toR EXCEPT ![i].body = [j \in DOMAIN @ |-> Junk], ![i].ok = FALSE]
    BY <1>7 DEF CorruptChunk
  <2>3. toR[i] \in Message
    BY <1>1
  <2>4. \A k \in 1..Len(toR') : k \in 1..Len(toR) /\ toR'[k].t = toR[k].t /\ toR'[k].id = toR[k].id
    BY <1>1, <2>2, <2>3 DEF Message
  <2> QED
    BY <1>1, <2>1, <2>4, QuietTalk
<1> QED
  BY <1>2, <1>3, <1>4, <1>5, <1>6, <1>7
-----------------------------------------------------------------------------
(* The steps of the receiver. *)

(* What is in toS after a frame was written, or a beginning of it. *)
LEMMA WrittenPieces ==
  ASSUME toS \in Seq(Piece), NEW m \in Message,
         toS' \in Prefixes(IF up THEN toS \o Pieces(m) ELSE toS)
  PROVE  \A i \in 1..Len(toS') : \/ i \in 1..Len(toS) /\ toS'[i] = toS[i]
                                 \/ i = Len(toS) + 1 /\ toS'[i].frame = m
                                 \/ toS'[i].part # "header"
<1> DEFINE q == IF up THEN toS \o Pieces(m) ELSE toS
<1>1. q \in Seq(Piece) /\ \A i \in 1..Len(q) : \/ i \in 1..Len(toS) /\ q[i] = toS[i]
                                               \/ i = Len(toS) + 1 /\ q[i].frame = m
                                               \/ q[i].part # "header"
  <2>1. CASE up
    <3> DEFINE n == Len(toS)
    <3>1. /\ q \in Seq(Piece) /\ n \in Nat /\ Len(q) = n + 2
          /\ \A i \in 1..n : q[i] = toS[i]
          /\ q[n + 1].frame = m /\ q[n + 2].part = "payload"
      BY <2>1, PiecesType DEF Pieces
    <3> HIDE DEF q, n
    <3>2. \A i \in 1..Len(q) : i \in 1..n \/ i = n + 1 \/ i = n + 2
      BY <3>1
    <3>3. \A i \in 1..Len(q) : \/ i \in 1..n /\ q[i] = toS[i]
                               \/ i = n + 1 /\ q[i].frame = m
                               \/ q[i].part # "header"
      BY <3>1, <3>2
    <3> QED
      BY <3>1, <3>3 DEF n
  <2>2. CASE ~up
    BY <2>2
  <2> QED
    BY <2>1, <2>2
<1> HIDE DEF q
<1>2. toS' \in Seq(Piece) /\ Len(toS') <= Len(q) /\ \A i \in 1..Len(toS') : toS'[i] = q[i]
  BY <1>1, PrefixType DEF q
<1>3. \A i \in 1..Len(toS') : i \in 1..Len(q)
  BY <1>1, <1>2
<1> QED
  BY <1>1, <1>2, <1>3

(* All of it is a beginning. *)
LEMMA WholeIsPrefix ==
  ASSUME NEW S, NEW q \in Seq(S)
  PROVE  q \in Prefixes(q)
BY DEF Prefixes

(* What Close lets through is a beginning, too. *)
LEMMA SurvivorIsPrefix ==
  ASSUME NEW S, NEW q \in Seq(S), NEW u, NEW p \in Survives(q, u)
  PROVE  p \in Prefixes(q)
BY WholeIsPrefix DEF Survives

(* A Close that writes nothing. *)
LEMMA SilentClose ==
  ASSUME toS \in Seq(Piece), NEW u, ReceiverCloses(<<>>, u)
  PROVE  toR' = <<>> /\ toS' \in Prefixes(toS)
<1>1. toS \o <<>> = toS
  OBVIOUS
<1> QED
  BY <1>1, SurvivorIsPrefix DEF ReceiverCloses

(* A Close after a last frame. *)
LEMMA LastFrameClose ==
  ASSUME toS \in Seq(Piece), NEW u, NEW m \in Message, ReceiverCloses(Pieces(m), u)
  PROVE  toR' = <<>> /\ toS' \in Prefixes(IF up THEN toS \o Pieces(m) ELSE toS)
<1>1. (IF up THEN toS \o Pieces(m) ELSE toS) \in Seq(Piece)
  BY PiecesType
<1> QED
  BY <1>1, SurvivorIsPrefix DEF ReceiverCloses

(* The receiver reads a frame, or not, and writes no reply. *)
LEMMA UnansweredTalk ==
  ASSUME TypeInv, Talk, UNCHANGED senderVars, verified' = verified,
         toR' \in {toR, <<>>} \/ (toR # <<>> /\ toR' = Tail(toR)),
         \/ toS' \in Prefixes(toS)
         \/ \E m \in Message : /\ m.t = "DATA_ACK"
                               /\ toS' \in Prefixes(IF up THEN toS \o Pieces(m) ELSE toS),
         rpc' = "done" => rpc = "done" \/ spc = "done"
  PROVE  Talk'
<1>1. toR \in Seq(Message) /\ toS \in Seq(Piece) /\ UNCHANGED <<spc, cur, rd>>
  BY DEF TypeInv, TypeOK, WireTypeOK, senderVars
<1>2. /\ NoRequest(toR') \/ AsksLess(toR, toR')
      /\ \A i \in 1..Len(toR') : toR'[i].t = "SESSION_DONE" =>
           \E k \in 1..Len(toR) : toR[k].t = "SESSION_DONE"
  <2>1. CASE toR' = toR
    BY <2>1 DEF AsksLess
  <2>2. CASE toR' = <<>>
    BY <2>2 DEF NoRequest
  <2>3. CASE toR # <<>> /\ toR' = Tail(toR)
    <3> DEFINE n == Len(toR)
               k == Len(toR')
    <3>1. n \in Nat /\ k = n - 1 /\ \A i \in 1..(n - 1) : toR'[i] = toR[i + 1]
      BY <1>1, <2>3, QueueType
    <3> HIDE DEF n, k
    <3>2. \A i \in 1..k : i + 1 \in 1..n /\ toR'[i] = toR[i + 1] /\ i + 1 # 1
      BY <3>1
    <3>3. \A i \in 1..k : toR'[i].t \notin Requests
      BY <3>2 DEF Talk, RequestFirst, n
    <3> QED
      BY <3>2, <3>3 DEF NoRequest, n, k
  <2> QED
    BY <2>1, <2>2, <2>3
<1>3. \A i \in 1..Len(toS') : IsReply(i)' => i + 0 \in 1..Len(toS) /\ toS'[i] = toS[i + 0]
  <2>1. CASE toS' \in Prefixes(toS)
    <3>1. toS' \in Seq(Piece) /\ Len(toS') <= Len(toS) /\ \A i \in 1..Len(toS') : toS'[i] = toS[i]
      BY <1>1, <2>1, PrefixType
    <3> QED
      BY <1>1, <3>1
  <2>2. CASE \E m \in Message : /\ m.t = "DATA_ACK"
                                /\ toS' \in Prefixes(IF up THEN toS \o Pieces(m) ELSE toS)
    <3>1. PICK m \in Message : /\ m.t = "DATA_ACK"
                               /\ toS' \in Prefixes(IF up THEN toS \o Pieces(m) ELSE toS)
      BY <2>2
    <3>2. \A i \in 1..Len(toS') : \/ i \in 1..Len(toS) /\ toS'[i] = toS[i]
                                  \/ i = Len(toS) + 1 /\ toS'[i].frame = m
                                  \/ toS'[i].part # "header"
      BY <1>1, <3>1, WrittenPieces
    <3> QED
      BY <3>1, <3>2 DEF IsReply, Replies
  <2> QED
    BY <2>1, <2>2
<1> QED
  BY <1>1, <1>2, <1>3, LessTalk DEF ReplyHeld, Held

(* The receiver answers an offer or a COMPLETE. *)
LEMMA AnswersTalk ==
  ASSUME TypeInv, Talk, UNCHANGED senderVars,
         AcceptOffer \/ DeclineOffer \/ VerifyOK \/ OfferFails \/ Mismatch
  PROVE  Talk'
<1>1. toR \in Seq(Message) /\ toS \in Seq(Piece) /\ WireTypeOK /\ ReceiverTypeOK
  BY DEF TypeInv, TypeOK, WireTypeOK
<1>2. toR # <<>> /\ Head(toR) = toR[1] /\ rpc' # "done"
      /\ \/ toR[1].t = "FILE_OFFER" /\ ~VerifyOK /\ ~Mismatch
         \/ toR[1].t = "COMPLETE" /\ ~AcceptOffer /\ ~DeclineOffer /\ ~OfferFails
  <2>1. toR # <<>> => Head(toR) = toR[1]
    BY <1>1, QueueType
  <2>2. \/ rpc = "idle" /\ Next1("FILE_OFFER") /\ rpc' \in {"recv", "idle", "ended"}
        \/ rpc = "verify" /\ Next1("COMPLETE") /\ rpc' \in {"remove", "ended"}
    BY DEF AcceptOffer, DeclineOffer, VerifyOK, OfferFails, Mismatch, EndWith
  <2> QED
    BY <2>1, <2>2 DEF Next1, AcceptOffer, DeclineOffer, VerifyOK, OfferFails, Mismatch
<1>3. PICK m \in Message :
        /\ IF toR[1].t = "FILE_OFFER" THEN m.t \in {"FILE_ACCEPT", "FILE_REJECT"}
                                      ELSE m.t = "COMPLETE_ACK"
        /\ verified' = IF toR[1].t = "COMPLETE" /\ m.ok THEN verified + 1 ELSE verified
        /\ toR' \in {Tail(toR), <<>>}
        /\ toS' \in Prefixes(IF up THEN toS \o Pieces(m) ELSE toS)
  <2>1. \A m \in Message : Delivered(m) \in Prefixes(IF up THEN toS \o Pieces(m) ELSE toS)
    <3> SUFFICES ASSUME NEW m \in Message
                 PROVE  Delivered(m) \in Prefixes(IF up THEN toS \o Pieces(m) ELSE toS)
      OBVIOUS
    <3>1. Delivered(m) \in Seq(Piece)
      BY <1>1, DeliveredType
    <3> QED
      BY <3>1, WholeIsPrefix DEF Delivered
  <2>2. /\ CompleteAck(rfile, TRUE) \in Message /\ CompleteAck(rfile, FALSE) \in Message
        /\ Head(toR).t = "FILE_OFFER" =>
             /\ FileReject(Head(toR).id) \in Message
             /\ FileAccept(Head(toR).id, ResumeChunk(NameOf[Head(toR).id])) \in Message
    <3>1. rfile \in Nat /\ 0 \in Nat
      BY <1>1, WireAssumption DEF ReceiverTypeOK
    <3>2. CompleteAck(rfile, FALSE) \in Message
      BY <1>1, <3>1, ReplyType
    <3> QED
      BY <1>2, <3>2, RepliesAreMessages
  <2>3. /\ \A f, n : FileAccept(f, n).t = "FILE_ACCEPT" /\ FileReject(f).t = "FILE_REJECT"
        /\ \A f, ok : CompleteAck(f, ok).t = "COMPLETE_ACK" /\ CompleteAck(f, ok).ok = ok
    BY DEF FileAccept, FileReject, CompleteAck, Msg
  <2>4. CASE AcceptOffer
    BY <1>2, <2>1, <2>2, <2>3, <2>4 DEF AcceptOffer, Reply, ReadOne
  <2>5. CASE DeclineOffer
    BY <1>2, <2>1, <2>2, <2>3, <2>5 DEF DeclineOffer, Reply
  <2>6. CASE VerifyOK
    BY <1>2, <2>1, <2>2, <2>3, <2>6 DEF VerifyOK, Reply, ReadOne
  <2>7. CASE OfferFails
    <3>1. PICK last \in {FileReject(Head(toR).id),
                         FileAccept(Head(toR).id, ResumeChunk(NameOf[Head(toR).id]))} :
            ReceiverCloses(Pieces(last), Tail(toR))
      BY <2>7 DEF OfferFails
    <3>2. /\ last \in Message /\ last.t \in {"FILE_ACCEPT", "FILE_REJECT"}
          /\ toR[1].t = "FILE_OFFER" /\ verified' = verified
      BY <1>2, <2>2, <2>3, <2>7 DEF OfferFails
    <3>3. toR' = <<>> /\ toS' \in Prefixes(IF up THEN toS \o Pieces(last) ELSE toS)
      BY <1>1, <3>1, <3>2, LastFrameClose
    <3> QED
      BY <3>2, <3>3
  <2>8. CASE Mismatch
    <3>1. ReceiverCloses(Pieces(CompleteAck(rfile, FALSE)), Tail(toR)) /\ verified' = verified
      BY <2>8 DEF Mismatch, EndWith
    <3>2. toR' = <<>> /\ toS' \in Prefixes(IF up THEN toS \o Pieces(CompleteAck(rfile, FALSE)) ELSE toS)
      BY <1>1, <2>2, <3>1, LastFrameClose
    <3> QED
      BY <1>2, <2>2, <2>3, <2>8, <3>1, <3>2
  <2> QED
    BY <2>4, <2>5, <2>6, <2>7, <2>8
<1>4. \A i \in 1..Len(toS') : \/ i \in 1..Len(toS) /\ toS'[i] = toS[i]
                              \/ i = Len(toS) + 1 /\ toS'[i].frame = m
                              \/ toS'[i].part # "header"
  BY <1>1, <1>3, WrittenPieces
<1> QED
  BY <1>2, <1>3, <1>4, AnswerTalk DEF Requests

(* The receiver. *)
LEMMA ReceiverTalk ==
  ASSUME TypeInv, Talk, ReceiverStep \/ ReceiverFault
  PROVE  Talk'
<1>1. UNCHANGED senderVars /\ toR \in Seq(Message) /\ toS \in Seq(Piece) /\ ReceiverTypeOK /\ WireTypeOK
  BY DEF TypeInv, TypeOK, WireTypeOK, ReceiverStep, ReceiverFault
<1>2. \A ok \in BOOLEAN : DataAck(rfile, expected, ok) \in Message
                          /\ DataAck(rfile, expected, ok).t = "DATA_ACK"
  <2>1. rfile \in Nat /\ expected \in Nat
    BY <1>1, WireAssumption DEF ReceiverTypeOK
  <2> QED
    BY <1>1, <2>1, ReplyType DEF DataAck, Msg
<1>3. toS \in Prefixes(toS)
  BY <1>1, WholeIsPrefix
<1>4. CASE AcceptOffer \/ DeclineOffer \/ VerifyOK \/ OfferFails \/ Mismatch
  BY <1>1, <1>4, AnswersTalk
<1>5. CASE SyncPart \/ RemoveOld \/ RenamePart
  BY <1>1, <1>3, <1>5, UnansweredTalk DEF SyncPart, RemoveOld, RenamePart, wireVars
<1>6. CASE ReceiveChunk
  <2>1. /\ toR # <<>> /\ toR' = Tail(toR) /\ verified' = verified /\ rpc' = rpc
        /\ toS' = Delivered(DataAck(rfile, expected, TRUE))
    BY <1>6 DEF ReceiveChunk, Reply, ReadOne
  <2>2. Delivered(DataAck(rfile, expected, TRUE)) \in Seq(Piece)
    BY <1>1, <1>2, DeliveredType
  <2>3. toS' \in Prefixes(IF up THEN toS \o Pieces(DataAck(rfile, expected, TRUE)) ELSE toS)
    BY <2>1, <2>2, WholeIsPrefix DEF Delivered
  <2> QED
    BY <1>1, <1>2, <2>1, <2>3, UnansweredTalk
<1>7. CASE OfferUnanswered \/ SessionFails \/ AckFails \/ VerifyFails \/ DiskFails \/ ReceiverCrashes
  <2>1. \E u : ReceiverCloses(<<>>, u)
    BY <1>7 DEF OfferUnanswered, SessionFails, AckFails, VerifyFails, DiskFails, ReceiverCrashes,
       EndWith
  <2>2. toR' = <<>> /\ toS' \in Prefixes(toS)
    BY <1>1, <2>1, SilentClose
  <2>3. verified' = verified /\ (rpc' = "done" => rpc = "done")
    BY <1>7 DEF OfferUnanswered, SessionFails, AckFails, VerifyFails, DiskFails, ReceiverCrashes,
       EndWith
  <2> QED
    BY <1>1, <2>2, <2>3, UnansweredTalk
<1>8. CASE RejectChunk \/ ShortWrite \/ ReadError
  <2>1. /\ verified' = verified /\ rpc' = "ended"
        /\ \E u : ReceiverCloses(<<>>, u) \/ ReceiverCloses(Nack, u)
    BY <1>8 DEF RejectChunk, ShortWrite, ReadError, EndWith
  <2>2. PICK u : ReceiverCloses(<<>>, u) \/ ReceiverCloses(Nack, u)
    BY <2>1
  <2>3. CASE ReceiverCloses(<<>>, u)
    <3>1. toR' = <<>> /\ toS' \in Prefixes(toS)
      BY <1>1, <2>3, SilentClose
    <3> QED
      BY <1>1, <2>1, <3>1, UnansweredTalk
  <2>4. CASE ReceiverCloses(Nack, u)
    <3> DEFINE m == DataAck(rfile, expected, FALSE)
    <3>1. m \in Message /\ m.t = "DATA_ACK"
      BY <1>2
    <3>2. ReceiverCloses(Pieces(m), u)
      BY <2>4 DEF Nack
    <3> HIDE DEF m
    <3>3. toR' = <<>> /\ toS' \in Prefixes(IF up THEN toS \o Pieces(m) ELSE toS)
      BY <1>1, <3>1, <3>2, LastFrameClose
    <3> QED
      BY <1>1, <2>1, <3>1, <3>3, UnansweredTalk
  <2> QED
    BY <2>2, <2>3, <2>4
<1>9. CASE ReceiveSessionDone
  <2>1. Head(toR) = toR[1] /\ 1 \in 1..Len(toR)
    BY <1>1, <1>9, QueueType DEF ReceiveSessionDone, Next1
  <2>2. spc = "done" /\ verified' = verified
    BY <1>9, <2>1 DEF ReceiveSessionDone, Next1, Talk, CountsAgree
  <2>3. toR' = <<>> /\ toS' \in Prefixes(toS)
    BY <1>1, <1>9, SilentClose DEF ReceiveSessionDone
  <2> QED
    BY <1>1, <2>2, <2>3, UnansweredTalk
<1> QED
  BY <1>4, <1>5, <1>6, <1>7, <1>8, <1>9
     DEF ReceiverStep, ReceiverMain, ReceiverFault, ReceiverFaults

(* Nothing has been asked when a session starts. *)
LEMMA FreshTalk ==
  /\ toR = <<>> /\ toS = <<>> /\ spc = "offer" /\ cur = 1 /\ verified = 0 /\ rpc = "idle"
     /\ rd = [r \in Reader |-> NoReader]
  => Talk
<1> SUFFICES ASSUME toR = <<>>, toS = <<>>, spc = "offer", cur = 1, verified = 0, rpc = "idle",
                    rd = [r \in Reader |-> NoReader]
             PROVE  Talk
  OBVIOUS
<1>1. RequestFirst /\ InPhase /\ OneReply
  BY DEF RequestFirst, InPhase, OneReply
<1>2. CountsAgree
  BY WireAssumption DEF CountsAgree
<1> QED
  BY <1>1, <1>2 DEF Talk

(* The same, of the state after a step. *)
LEMMA FreshTalkNext ==
  (/\ toR = <<>> /\ toS = <<>> /\ spc = "offer" /\ cur = 1 /\ verified = 0 /\ rpc = "idle"
      /\ rd = [r \in Reader |-> NoReader])'
  => Talk'
BY FreshTalk, PTL

(* All together. *)
LEMMA NextTalk ==
  ASSUME TypeInv, Flow, Talk, [Next]_vars
  PROVE  Talk'
<1>1. CASE SenderStep \/ SenderFault
  BY <1>1, SenderMainTalk, SenderRestTalk DEF SenderStep, SenderFault
<1>2. CASE ReceiverStep \/ ReceiverFault
  BY <1>2, ReceiverTalk
<1>3. CASE NetworkFault
  BY <1>3, SenderRestTalk DEF NetworkFault
<1>4. CASE NewSession
  BY <1>4, FreshTalkNext DEF NewSession, SenderRestarts, ReceiverRestarts
<1>5. CASE UNCHANGED vars
  BY <1>5 DEF vars, wireVars, senderVars, receiverVars, Talk, RequestFirst, InPhase, OneReply,
     CountsAgree, IsReply, ReplyHeld, Held, Sending
<1> QED
  BY <1>1, <1>2, <1>3, <1>4, <1>5 DEF Next
-----------------------------------------------------------------------------
(* What the receiver shows. *)

Shown == RightFile /\ ShownUpTo

(* A step of the sender or the network shows nothing new. *)
LEMMA QuietShown == ASSUME Shown, UNCHANGED receiverVars PROVE Shown'
BY DEF Shown, RightFile, ShownUpTo, receiverVars, rname

(* A return leaves the final files alone. *)
LEMMA ReturnsShown ==
  ASSUME TypeInv, DiskInv, Shown, Returns
  PROVE  Shown'
<1>1. dest' = dest /\ verified' = verified
  BY ReturnsKeepDest DEF Returns, OfferFails, OfferUnanswered, ReceiveSessionDone, SessionFails,
     AckFails, RejectChunk, ShortWrite, ReadError, Mismatch, VerifyFails, DiskFails,
     ReceiverCrashes, EndWith
<1>2. \/ rpc' = "ended"
      \/ rpc' = "done" /\ rpc \in {"idle", "done"}
  BY DEF Returns, OfferFails, OfferUnanswered, ReceiveSessionDone, SessionFails,
     AckFails, RejectChunk, ShortWrite, ReadError, Mismatch, VerifyFails, DiskFails,
     ReceiverCrashes, EndWith, ReceiverOver
<1> QED
  BY <1>1, <1>2 DEF Shown, RightFile, ShownUpTo

(* The receiver: the file it receives is the next to be verified. *)
LEMMA ReceiverShown ==
  ASSUME TypeInv, DiskInv, Talk, Shown, ReceiverStep \/ ReceiverFault
  PROVE  Shown'
<1>1. /\ part \in [Name -> DiskFile \cup {NoFile}] /\ dest \in [Name -> DiskFile \cup {NoFile}]
      /\ toR \in Seq(Message) /\ verified \in Nat
      /\ rpc \in {"recv", "verify", "remove", "rename"} =>
           rfile \in File /\ rname \in Name /\ part[rname] # NoFile
      /\ \A f \in File : NameOf[f] \in Name
  BY NameAssumption DEF TypeInv, TypeOK, WireTypeOK, ReceiverTypeOK, PartOpen, rname
<1>2. CASE Returns
  BY <1>2, ReturnsShown
<1>3. CASE AcceptOffer
  <2>1. /\ rpc = "idle" /\ rpc' = "recv" /\ rfile' = Head(toR).id
        /\ UNCHANGED <<dest, verified>> /\ toR # <<>> /\ Head(toR).t = "FILE_OFFER"
    BY <1>3 DEF AcceptOffer, Next1
  <2>2. Head(toR) = toR[1] /\ 1 \in 1..Len(toR)
    BY <1>1, <2>1, QueueType
  <2>3. toR[1].id = cur /\ verified = cur - 1
    BY <2>1, <2>2 DEF Talk, RequestFirst, CountsAgree, Requests
  <2>4. cur \in Nat
    BY WireAssumption DEF TypeInv, TypeOK, SenderTypeOK
  <2> QED
    BY <2>1, <2>2, <2>3, <2>4 DEF Shown, RightFile, ShownUpTo
<1>4. CASE DeclineOffer
  <2>1. rpc = "idle" /\ rpc' = "idle" /\ UNCHANGED <<dest, verified>>
    BY <1>4 DEF DeclineOffer, disk
  <2> QED
    BY <2>1 DEF Shown, RightFile, ShownUpTo
<1>5. CASE ReceiveChunk \/ SyncPart
  <2>1. /\ rpc = "recv" /\ rpc' \in {"recv", "verify"}
        /\ UNCHANGED <<rfile, dest, verified>>
    BY <1>5 DEF ReceiveChunk, SyncPart, Wanting
  <2> QED
    BY <2>1 DEF Shown, RightFile, ShownUpTo
<1>6. CASE VerifyOK
  <2>1. /\ rpc = "verify" /\ rpc' = "remove" /\ verified' = verified + 1
        /\ UNCHANGED <<rfile, dest>>
    BY <1>6 DEF VerifyOK, disk
  <2>2. rfile = verified + 1 /\ rname' = rname
    BY <2>1 DEF Shown, RightFile, rname
  <2>3. \A f \in File : f <= verified' => f <= verified \/ NameOf[f] = rname
    BY <1>1, <2>1, <2>2 DEF rname, File
  <2> QED
    BY <2>1, <2>2, <2>3 DEF Shown, RightFile, ShownUpTo
<1>7. CASE RemoveOld
  <2>1. /\ rpc = "remove" /\ rpc' = "rename" /\ UNCHANGED <<rfile, verified>>
        /\ \E old : dest' = [dest EXCEPT ![rname] = old]
    BY <1>7 DEF RemoveOld
  <2>2. rname' = rname
        /\ \A n \in Name : n # rname => dest'[n] = dest[n]
    BY <1>1, <2>1 DEF rname
  <2> QED
    BY <1>1, <2>1, <2>2 DEF Shown, RightFile, ShownUpTo
<1>8. CASE RenamePart
  <2>1. /\ rpc = "rename" /\ rpc' = "idle" /\ verified' = verified
        /\ dest' = [dest EXCEPT ![rname] = part[rname]]
    BY <1>8 DEF RenamePart
  <2>2. dest'[rname] # NoFile /\ \A n \in Name : n # rname => dest'[n] = dest[n]
    BY <1>1, <2>1
  <2> QED
    BY <1>1, <2>1, <2>2 DEF Shown, RightFile, ShownUpTo
<1> QED
  BY <1>2, <1>3, <1>4, <1>5, <1>6, <1>7, <1>8
     DEF ReceiverStep, ReceiverMain, ReceiverFault, ReceiverFaults, Returns

(* All together. *)
LEMMA NextShown ==
  ASSUME TypeInv, DiskInv, Talk, Shown, [Next]_vars
  PROVE  Shown'
<1>1. CASE ReceiverStep \/ ReceiverFault
  BY <1>1, ReceiverShown
<1>2. CASE SenderStep \/ SenderFault \/ NetworkFault \/ UNCHANGED vars
  <2>1. UNCHANGED receiverVars
    BY <1>2 DEF SenderStep, SenderFault, NetworkFault, vars
  <2> QED
    BY <2>1, QuietShown
<1>3. CASE NewSession
  <2>1. rpc' = "idle" /\ verified' = 0
    BY <1>3 DEF NewSession, ReceiverRestarts
  <2> QED
    BY <2>1 DEF Shown, RightFile, ShownUpTo, File
<1> QED
  BY <1>1, <1>2, <1>3 DEF Next
-----------------------------------------------------------------------------
(* DeliveryInv, in the parts the lemmas speak of. *)
LEMMA DeliveryParts == DeliveryInv <=> TypeInv /\ WireInv /\ DiskInv /\ Flow /\ Talk /\ Shown
BY WireInvMeans DEF DeliveryInv, IntegrityInv, DiskInv, FlowInv, Flow, Talk, Shown

(* The same, of the state after a step. *)
LEMMA DeliveryPartsNext ==
  DeliveryInv' <=> TypeInv' /\ WireInv' /\ DiskInv' /\ Flow' /\ Talk' /\ Shown'
BY DeliveryParts, PTL

(* The program starts in a state of the invariant. *)
LEMMA InitDelivery == Init => DeliveryInv
<1> SUFFICES ASSUME Init PROVE DeliveryInv
  OBVIOUS
<1>1. IntegrityInv
  BY InitIntegrity
<1>2. Flow
  BY FreshFlow DEF Init, WireInit, SenderInit, SenderStart
<1>3. Talk
  BY FreshTalk DEF Init, WireInit, SenderInit, SenderStart, ReceiverInit, ReceiverStart
<1>4. Shown
  BY DEF Init, ReceiverInit, ReceiverStart, Shown, RightFile, ShownUpTo, File
<1> QED
  BY <1>1, <1>2, <1>3, <1>4, WireInvMeans, DeliveryParts DEF IntegrityInv, DiskInv

(* One step. *)
LEMMA NextDelivery ==
  ASSUME DeliveryInv, [Next]_vars
  PROVE  DeliveryInv'
<1>1. TypeInv /\ WireInv /\ DiskInv /\ Flow /\ Talk /\ Shown
  BY DeliveryParts
<1>2. TypeInv' /\ WireInv' /\ DiskInv'
  BY <1>1, NextTypeInv, NextFrames, NextDisk
<1>3. Flow' /\ Talk' /\ Shown'
  BY <1>1, <1>2, NextFlow, NextTalk, NextShown
<1> QED
  BY <1>2, <1>3, DeliveryPartsNext

(* DeliveryInv is inductive: a file is verified in its turn, and while one  *)
(* of its frames is under way the receiver is where the sender takes it for.*)
THEOREM DeliveryIsInvariant == Spec => []DeliveryInv
<1>1. Init => DeliveryInv
  BY InitDelivery
<1>2. DeliveryInv /\ [Next]_vars => DeliveryInv'
  BY NextDelivery
<1> QED
  BY <1>1, <1>2, PTL DEF Spec

(* COMPLETE is never sent ahead of a chunk that is not acknowledged, whoever *)
(* took the acknowledgements.                                                *)
THEOREM CompleteComesLast == Spec => []CompleteAfterChunks
<1>1. DeliveryInv => CompleteAfterChunks
  BY DEF DeliveryInv, RequestFirst, Requests, CompleteAfterChunks
<1> QED
  BY <1>1, DeliveryIsInvariant, PTL

(* Only a session in which every file was verified and is under its final   *)
(* name ends with SESSION_DONE.                                             *)
THEOREM DoneMeansAllStored == Spec => []DoneMeansStored
<1>1. DeliveryInv => DoneMeansStored
  <2> SUFFICES ASSUME DeliveryInv, rpc = "done"
               PROVE  verified = NFiles /\ \A f \in File : dest[NameOf[f]] # NoFile
    BY DEF DoneMeansStored
  <2>1. verified = NFiles
    <3>1. cur = NFiles + 1 /\ verified = cur - 1 /\ NFiles \in Nat
      BY WireAssumption DEF DeliveryInv, CountsAgree
    <3> QED
      BY <3>1
  <2>2. \A f \in File : f <= verified
    BY <2>1, WireAssumption DEF File
  <2> QED
    BY <2>1, <2>2 DEF DeliveryInv, ShownUpTo
<1> QED
  BY <1>1, DeliveryIsInvariant, PTL
-----------------------------------------------------------------------------
(* GTPTransfer implements FileDelivery: VerifyOK stores, FileSent reports,  *)
(* RemoveOld withdraws or fails, RenamePart shows, every other step         *)
(* stutters.                                                                *)

ShownIn(d) == [n \in Name |-> IF d[n] = NoFile THEN NoFile ELSE d[n].data]

(* A step that verifies, reports and shows nothing. *)
LEMMA Stutters ==
  ASSUME UNCHANGED <<verified, cur, dest>>
  PROVE  UNCHANGED Delivery!deliveryVars
BY DEF Delivery!deliveryVars

(* The sender reports a file only after the receiver has verified it. *)
LEMMA SenderDelivers ==
  ASSUME DeliveryInv, SenderStep
  PROVE  [Delivery!Next]_(Delivery!deliveryVars)
<1>1. UNCHANGED <<verified, dest>>
  BY DEF SenderStep, receiverVars
<1>2. CASE FileSent
  <2>1. /\ spc = "cack" /\ rd[0].at = "got" /\ rd[0].frame.t = "COMPLETE_ACK" /\ rd[0].frame.ok
        /\ cur' = cur + 1
    BY <1>2 DEF FileSent, Acknowledged
  <2>2. ReplyHeld
    BY <2>1 DEF ReplyHeld, Held, Replies
  <2>3. verified = cur /\ cur \in Nat
    BY <2>1, <2>2, WireAssumption DEF DeliveryInv, CountsAgree, FlowInv, TypeInv, TypeOK, SenderTypeOK
  <2>4. cur - 1 < verified /\ cur' - 1 = cur - 1 + 1
    BY <2>1, <2>3
  <2>5. Delivery!Report
    BY <1>1, <2>4 DEF Delivery!Report
  <2> QED
    BY <2>5 DEF Delivery!Next
<1>3. CASE ~FileSent
  <2>1. cur' = cur
    BY <1>3 DEF SenderStep, SenderMain, AckReader, SendOffer, SendSessionDone, StartChunks,
       OfferRefused, SendChunk, SendChunkFails, EndOfFile, FullTakesAck, FullTakesErr,
       DrainTakesAck, DrainTakesErr, Drained, SendComplete, FileNotSent, WriteFails,
       SenderAborts, ReadFrame, PushAck, PushErr, Push, Taken
  <2> QED
    BY <1>1, <2>1, Stutters
<1> QED
  BY <1>2, <1>3

(* The receiver stores the next file, takes away the old copy, shows the    *)
(* new one.                                                                 *)
LEMMA ReceiverDelivers ==
  ASSUME DeliveryInv, ReceiverStep \/ ReceiverFault
  PROVE  [Delivery!Next]_(Delivery!deliveryVars)
<1>1. /\ TypeInv /\ DiskInv /\ Talk /\ Shown /\ cur' = cur
      /\ toR \in Seq(Message) /\ cur \in Nat /\ NFiles \in Nat
      /\ dest \in [Name -> DiskFile \cup {NoFile}]
  <2>1. TypeInv /\ DiskInv /\ Talk /\ Shown
    BY DeliveryParts
  <2> QED
    BY <2>1, WireAssumption DEF TypeInv, TypeOK, WireTypeOK, SenderTypeOK, ReceiverTypeOK,
       ReceiverStep, ReceiverFault, senderVars
<1>2. rpc \in {"recv", "verify", "remove", "rename"} =>
        rfile \in File /\ rname \in Name /\ part[rname] # NoFile
  BY <1>1, NameAssumption DEF TypeInv, PartOpen, rname
<1>3. CASE Returns
  <2>1. dest' = dest /\ verified' = verified
    BY <1>1, <1>3, ReturnsKeepDest DEF Returns, OfferFails, OfferUnanswered, ReceiveSessionDone,
       SessionFails, AckFails, RejectChunk, ShortWrite, ReadError, Mismatch, VerifyFails,
       DiskFails, ReceiverCrashes, EndWith
  <2> QED
    BY <1>1, <2>1, Stutters
<1>4. CASE AcceptOffer \/ DeclineOffer \/ ReceiveChunk \/ SyncPart
  <2>1. dest' = dest /\ verified' = verified
    BY <1>4 DEF AcceptOffer, DeclineOffer, ReceiveChunk, SyncPart, disk
  <2> QED
    BY <1>1, <2>1, Stutters
<1>5. CASE VerifyOK
  <2>1. /\ toR # <<>> /\ Head(toR).t = "COMPLETE"
        /\ verified' = verified + 1 /\ dest' = dest
    BY <1>5 DEF VerifyOK, Next1, disk
  <2>2. Head(toR) = toR[1] /\ 1 \in 1..Len(toR)
    BY <1>1, <2>1, QueueType
  <2>3. cur \in File /\ verified = cur - 1
    BY <1>1, <2>1, <2>2 DEF Talk, RequestFirst, CountsAgree, Requests
  <2>4. verified < NFiles
    BY <1>1, <2>3 DEF File
  <2>5. Delivery!Store
    BY <1>1, <2>1, <2>3, <2>4 DEF Delivery!Store
  <2> QED
    BY <2>5 DEF Delivery!Next
<1>6. CASE RemoveOld
  <2>1. /\ rpc = "remove" /\ verified' = verified
        /\ dest' = [dest EXCEPT ![rname] = NoFile] \/ dest' = [dest EXCEPT ![rname] = dest[rname]]
    BY <1>6 DEF RemoveOld
  <2>2. rname = NameOf[verified] /\ verified > 0 /\ rname \in Name
    BY <1>1, <1>2, <2>1 DEF Shown, RightFile, rname, File
  <2>3. CASE dest' = [dest EXCEPT ![rname] = NoFile]
    <3>1. ShownIn(dest') = [ShownIn(dest) EXCEPT ![rname] = NoFile]
      BY <1>1, <2>2, <2>3 DEF ShownIn
    <3>2. Delivery!Withdraw
      BY <1>1, <2>1, <2>2, <3>1 DEF Delivery!Withdraw, ShownIn
    <3> QED
      BY <3>2 DEF Delivery!Next
  <2>4. CASE dest' = [dest EXCEPT ![rname] = dest[rname]]
    <3>1. dest' = dest
      BY <1>1, <2>4
    <3> QED
      BY <1>1, <2>1, <3>1, Stutters
  <2> QED
    BY <2>1, <2>3, <2>4
<1>7. CASE RenamePart
  <2>1. /\ rpc = "rename" /\ verified' = verified
        /\ dest' = [dest EXCEPT ![rname] = part[rname]]
    BY <1>7 DEF RenamePart
  <2>2. /\ rname = NameOf[verified] /\ verified > 0 /\ rname \in Name
        /\ part[rname] # NoFile
    BY <1>1, <1>2, <2>1 DEF Shown, RightFile, rname, File
  <2>3. part[rname].data \in Versions[verified]
    BY <1>1, <2>1 DEF DiskInv, PromotedIsVersion, Shown, RightFile
  <2>4. ShownIn(dest') = [ShownIn(dest) EXCEPT ![rname] = part[rname].data]
    BY <1>1, <2>1, <2>2 DEF ShownIn
  <2>5. Delivery!Show
    BY <1>1, <2>1, <2>2, <2>3, <2>4 DEF Delivery!Show, ShownIn
  <2> QED
    BY <2>5 DEF Delivery!Next
<1> QED
  BY <1>3, <1>4, <1>5, <1>6, <1>7
     DEF ReceiverStep, ReceiverMain, ReceiverFault, ReceiverFaults, Returns

(* All together. *)
LEMMA NextDelivers ==
  ASSUME DeliveryInv, [Next]_vars
  PROVE  [Delivery!Next]_(Delivery!deliveryVars)
<1>1. CASE SenderStep
  BY <1>1, SenderDelivers
<1>2. CASE ReceiverStep \/ ReceiverFault
  BY <1>2, ReceiverDelivers
<1>3. CASE SenderFault \/ NetworkFault \/ UNCHANGED vars
  <2>1. UNCHANGED <<verified, dest, cur>>
    BY <1>3 DEF SenderFault, SenderKilled, SourceUnreadable, EditFile, NetworkFault, vars,
       receiverVars, senderVars
  <2> QED
    BY <2>1, Stutters
<1>4. CASE NewSession
  <2>1. verified' = 0 /\ cur' = 1 /\ dest' = dest
    BY <1>4 DEF NewSession, ReceiverRestarts, SenderRestarts, disk
  <2>2. cur' - 1 = 0
    BY <2>1
  <2>3. Delivery!NewSession
    BY <2>1, <2>2 DEF Delivery!NewSession
  <2> QED
    BY <2>3 DEF Delivery!Next
<1> QED
  BY <1>1, <1>2, <1>3, <1>4 DEF Next

(* Seen from outside, a transfer is a FileDelivery: files are stored one    *)
(* after the other, each is reported only once it is stored, and under its  *)
(* name the receiver shows nothing or a complete copy.  It holds with any   *)
(* number of leftover ackReaders, faults, edits and sessions.               *)
THEOREM TransferDelivers == Spec => DeliversFiles
<1>1. Init => Delivery!Init
  <2> SUFFICES ASSUME Init PROVE Delivery!Init
    OBVIOUS
  <2>1. verified = 0 /\ cur = 1 /\ dest = [n \in Name |-> NoFile]
    BY DEF Init, SenderInit, SenderStart, ReceiverInit, ReceiverStart
  <2>2. cur - 1 = 0 /\ ShownIn(dest) = [n \in Name |-> NoFile]
    BY <2>1 DEF ShownIn
  <2> QED
    BY <2>1, <2>2 DEF Delivery!Init, ShownIn
<1>2. DeliveryInv /\ [Next]_vars => [Delivery!Next]_(Delivery!deliveryVars)
  BY NextDelivers
<1> QED
  BY <1>1, <1>2, DeliveryIsInvariant, PTL DEF Spec, DeliversFiles, Delivery!Spec
=============================================================================
