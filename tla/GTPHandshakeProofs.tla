------------------------- MODULE GTPHandshakeProofs -------------------------
(***************************************************************************)
(* Proofs about GTPHandshake for any number of callers, whatever their     *)
(* HELLO says, any limits, and any number of tries, starts and faults.     *)
(***************************************************************************)
EXTENDS GTPHandshake, SequenceTheorems, TLAPS

(* The window of serverHandshake is within its limits for every wish. *)
LEMMA NegotiatedInLimits ==
  ASSUME NEW w \in Int
  PROVE  /\ Negotiated(w) \in Int
         /\ Negotiated(w) \in DefaultWindow..MaxWindow
BY HandshakeAssumption DEF Negotiated, Larger, Smaller

(* A call belongs to one caller, and is not a probe. *)
LEMMA CallsDiffer ==
  ASSUME NEW c \in Caller, NEW d \in Caller
  PROVE  /\ Call(c) \in Link /\ Probe(c) \in Link
         /\ Call(c)[2] = c
         /\ Call(c) = Call(d) => c = d
         /\ Call(c) # Probe(d)
BY DEF Link, Call, Probe

(* What serverHandshake replies has the shape of a HELLO_ACK. *)
LEMMA AnswerType ==
  ASSUME NEW m, m.window \in Int
  PROVE  /\ Answer(m) \in Ack
         /\ Answer(m).reason = Refusal(m)
         /\ Refusal(m) = "" => Answer(m).window = Negotiated(m.window)
BY NegotiatedInLimits DEF Answer, Ack, Refusal

(* No HELLO_ACK is not an acceptance. *)
LEMMA NoAckType == NoAck \in Ack /\ NoAck.reason # ""
BY DEF NoAck, Ack

(* Close keeps links links. *)
LEMMA ClosedType ==
  ASSUME NEW ls, link \in [Link -> {"none", "up", "silent", "down"}]
  PROVE  Closed(ls) \in [Link -> {"none", "up", "silent", "down"}]
BY DEF Closed

LEMMA InitHolds == Init => SettledInv
<1> SUFFICES ASSUME Init PROVE SettledInv
  OBVIOUS
<1>1. TypeOK
  <2>1. 0 \in 0..MaxListens /\ 0 \in 0..MaxTries /\ 0 \in 0..MaxFaults /\ 0 \in Int
    BY HandshakeAssumption
  <2>2. /\ backlog \in Seq(Link)
        /\ link \in [Link -> {"none", "up", "silent", "down"}]
        /\ hello \in [Link -> BOOLEAN] /\ ack \in [Link -> Ack]
    BY NoAckType, EmptySeq DEF Init
  <2>3. cpc \in [Caller -> {"scan", "ask", "dial", "hello", "wait"} \cup Returned]
    BY DEF Init
  <2>4. tries \in [Caller -> 0..MaxTries] /\ cwindow \in [Caller -> Int]
    BY <2>1 DEF Init
  <2>5. QED
    BY <2>1, <2>2, <2>3, <2>4 DEF Init, TypeOK
<1>2. AgreementInv
  BY NoAckType, CallsDiffer DEF Init, AgreementInv
<1>3. QED
  BY <1>1, <1>2, HandshakeAssumption DEF Init, SettledInv

-----------------------------------------------------------------------------
(* The listener's steps.  Before it is ready nobody has been accepted. *)

LEMMA NobodyYet ==
  ASSUME SettledInv, lpc # "ready", NEW c \in Caller
  PROVE  cpc[c] # "ready" /\ ack[Call(c)].reason # ""
BY DEF SettledInv, AgreementInv, Settled

LEMMA ListenerWaits ==
  ASSUME SettledInv, ListenAll \/ Accept
  PROVE  SettledInv'
<1>1. TypeOK' /\ (lpc = "hello" => served \in Link)'
  <2>1. CASE ListenAll
    BY <2>1, HandshakeAssumption
    DEF SettledInv, TypeOK, ListenAll, callerVars, linkVars
  <2>2. CASE Accept
    <3>1. Head(backlog) \in Link /\ Tail(backlog) \in Seq(Link)
      BY <2>2, HeadTailProperties DEF SettledInv, TypeOK, Accept
    <3>2. QED
      BY <2>2, <3>1 DEF SettledInv, TypeOK, Accept, callerVars
  <2>3. QED
    BY <2>1, <2>2
<1>2. UNCHANGED <<says, cpc, tries, cwindow, hello, ack>>
  BY DEF ListenAll, Accept, callerVars, linkVars
<1>3. lpc # "ready"
  BY DEF ListenAll, Accept
<1>4. AgreementInv'
  BY <1>2, <1>3, NobodyYet DEF SettledInv, AgreementInv
<1>5. QED
  BY <1>1, <1>2, <1>4 DEF SettledInv

LEMMA ListenerGivesUp ==
  ASSUME SettledInv, AcceptExpires \/ HelloMissing \/ HelloExpires \/ AnswerFails
  PROVE  SettledInv'
<1>1. /\ lpc # "ready" /\ lpc' = "failed" /\ backlog' = <<>>
      /\ link' \in [Link -> {"none", "up", "silent", "down"}]
      /\ UNCHANGED <<served, listens, lwindow, says, cpc, tries, cwindow, ack, faults>>
  BY ClosedType
  DEF SettledInv, TypeOK, AcceptExpires, HelloMissing, HelloExpires, AnswerFails,
      ReadHello, ListenReturns, callerVars
<1>2. /\ hello' \in [Link -> BOOLEAN]
      /\ \A l \in Link : hello'[l] => hello[l]
  BY DEF SettledInv, TypeOK, AcceptExpires, HelloMissing, HelloExpires, AnswerFails
<1>3. TypeOK'
  BY <1>1, <1>2, EmptySeq DEF SettledInv, TypeOK
<1>4. AgreementInv'
  BY <1>1, <1>2, NobodyYet DEF SettledInv, AgreementInv
<1>5. QED
  BY <1>1, <1>3, <1>4 DEF SettledInv

(* The answer goes to the link that carried the HELLO, and nobody else has one. *)
LEMMA ListenerAnswers ==
  ASSUME SettledInv, AcceptHello \/ RefuseHello
  PROVE  SettledInv'
<1> DEFINE m == says[served[2]]
<1>1. PICK d \in Caller : served = Call(d)
  BY DEF SettledInv, AgreementInv, AcceptHello, RefuseHello, ReadHello
<1>2. m = says[d] /\ m.window \in Int /\ served \in Link
  BY <1>1, CallsDiffer, HandshakeAssumption DEF SettledInv, TypeOK
<1>3. /\ lpc = "hello" /\ backlog' = <<>> /\ Reply(Answer(m))
      /\ link' \in [Link -> {"none", "up", "silent", "down"}]
      /\ UNCHANGED <<served, listens, says, cpc, tries, cwindow, faults>>
  <2>1. lpc = "hello" /\ Reply(Answer(m))
    BY DEF AcceptHello, RefuseHello, ReadHello
  <2>2. PICK pc, ls : ListenReturns(pc, ls)
    BY DEF AcceptHello, RefuseHello
  <2>3. link' \in [Link -> {"none", "up", "silent", "down"}]
    BY <2>2, ClosedType DEF SettledInv, TypeOK, ListenReturns
  <2>4. QED
    BY <2>1, <2>2, <2>3 DEF ListenReturns, callerVars
<1>4. /\ hello' \in [Link -> BOOLEAN]
      /\ \A l \in Link : hello'[l] => hello[l]
      /\ ack' \in [Link -> Ack]
      /\ \A l \in Link : l # served => ack'[l] = ack[l]
      /\ ack'[served] \in {ack[served], Answer(m)}
  BY <1>2, <1>3, AnswerType DEF SettledInv, TypeOK, Reply
<1>5. \A c \in Caller : cpc[c] # "ready" /\ ack[Call(c)].reason # ""
  BY <1>3, NobodyYet
<1>6. CASE AcceptHello
  <2>1. /\ lpc' = "ready" /\ lwindow' = Negotiated(m.window) /\ Refusal(m) = ""
    BY <1>6 DEF AcceptHello, ListenReturns
  <2>2. lwindow' \in Int /\ lwindow' \in DefaultWindow..MaxWindow
    BY <1>2, <2>1, NegotiatedInLimits
  <2>3. TypeOK'
    BY <1>3, <1>4, <2>1, <2>2, EmptySeq DEF SettledInv, TypeOK
  <2>4. Answer(m).window = Negotiated(m.window)
    BY <1>2, <2>1, AnswerType
  <2>5. ASSUME NEW c \in Caller, ack'[Call(c)].reason = ""
        PROVE  Settled(c, ack[Call(c)].window)'
    <3>1. Call(c) = served /\ ack'[Call(c)] = Answer(m)
      BY <1>4, <1>5, <2>5, CallsDiffer
    <3>2. c = d
      BY <1>1, <3>1, CallsDiffer
    <3>3. says'[c] = m /\ served' = Call(c)
      BY <1>1, <1>2, <1>3, <3>2
    <3>4. QED
      BY <2>1, <2>2, <2>4, <3>1, <3>3 DEF Settled
  <2>6. AgreementInv'
    BY <1>3, <1>4, <1>5, <2>5 DEF SettledInv, AgreementInv
  <2>7. QED
    BY <1>3, <2>1, <2>3, <2>6 DEF SettledInv
<1>7. CASE RefuseHello
  <2>1. lpc' = "failed" /\ lwindow' = lwindow /\ Refusal(m) # ""
    BY <1>7 DEF RefuseHello, ListenReturns
  <2>2. TypeOK'
    BY <1>3, <1>4, <2>1, EmptySeq DEF SettledInv, TypeOK
  <2>3. \A c \in Caller : ack'[Call(c)].reason # ""
    <3>1. Answer(m).reason # ""
      BY <1>2, <2>1, AnswerType
    <3>2. ack'[served].reason # ""
      BY <1>1, <1>4, <1>5, <3>1
    <3>3. QED
      BY <1>4, <1>5, <3>2, CallsDiffer
  <2>4. AgreementInv'
    BY <1>3, <1>4, <1>5, <2>3 DEF SettledInv, AgreementInv
  <2>5. QED
    BY <1>3, <2>1, <2>2, <2>4 DEF SettledInv
<1>8. QED
  BY <1>6, <1>7

-----------------------------------------------------------------------------
(* The callers' steps. *)

(* A step that leaves the listener, HELLO_ACKs and windows alone, and lets  *)
(* nobody become ready.                                                     *)
LEMMA CallerDials ==
  ASSUME SettledInv, NEW c \in Caller,
         \/ ProbeAnswered(c) \/ ProbeRefused(c) \/ AddressGiven(c)
         \/ Dial(c) \/ DialRefused(c) \/ SendHello(c)
  PROVE  SettledInv'
<1>1. UNCHANGED <<lpc, served, lwindow, listens, says, cwindow, ack, faults>>
  BY DEF ProbeAnswered, ProbeRefused, AddressGiven, Dial, DialRefused, SendHello,
         Connected, listenerVars, linkVars
<1>2. PICK pc \in {"scan", "ask", "dial", "hello", "wait", "failed"} :
        cpc' = [cpc EXCEPT ![c] = pc]
  BY DEF ProbeAnswered, ProbeRefused, AddressGiven, Dial, DialRefused, SendHello, Goto
<1>3. /\ tries' \in [Caller -> 0..MaxTries]
      /\ \A d \in Caller : cpc'[d] \in {"scan", "ask", "dial"} => tries'[d] < MaxTries
  <2>1. CASE DialRefused(c)
    <3>1. tries[c] \in Nat /\ tries[c] < MaxTries
      BY <2>1, HandshakeAssumption DEF SettledInv, TypeOK, DialRefused
    <3>2. tries' = [tries EXCEPT ![c] = tries[c] + 1]
      BY <2>1 DEF DialRefused
    <3>3. cpc' = [cpc EXCEPT ![c] = IF tries[c] + 1 = MaxTries THEN "failed" ELSE "dial"]
      BY <2>1 DEF DialRefused, Goto
    <3>4. QED
      BY <3>1, <3>2, <3>3, HandshakeAssumption DEF SettledInv, TypeOK
  <2>2. CASE ~DialRefused(c)
    <3>1. tries' = tries
      BY <2>2 DEF ProbeAnswered, ProbeRefused, AddressGiven, Dial, SendHello
    <3>2. cpc'[c] \in {"scan", "ask", "dial"} => cpc[c] \in {"scan", "ask", "dial"}
      BY <2>2 DEF SettledInv, TypeOK, ProbeAnswered, ProbeRefused, AddressGiven,
                  Dial, SendHello, Goto
    <3>3. \A d \in Caller : d # c => cpc'[d] = cpc[d]
      BY <1>2 DEF SettledInv, TypeOK
    <3>4. QED
      BY <3>1, <3>2, <3>3 DEF SettledInv, TypeOK
  <2>3. QED
    BY <2>1, <2>2
<1>4. /\ hello' \in [Link -> BOOLEAN]
      /\ \A l \in Link : hello'[l] => \E d \in Caller : l = Call(d)
  BY CallsDiffer
  DEF SettledInv, TypeOK, AgreementInv, ProbeAnswered, ProbeRefused, AddressGiven,
      Dial, DialRefused, SendHello, Connected, linkVars
<1>5. backlog' \in Seq(Link) /\ link' \in [Link -> {"none", "up", "silent", "down"}]
  <2>1. CASE ProbeAnswered(c)
    BY <2>1, CallsDiffer, AppendProperties
    DEF SettledInv, TypeOK, ProbeAnswered, Connected
  <2>2. CASE Dial(c)
    BY <2>2, CallsDiffer, AppendProperties DEF SettledInv, TypeOK, Dial, Connected
  <2>3. CASE ~ProbeAnswered(c) /\ ~Dial(c)
    BY <2>3 DEF SettledInv, TypeOK, ProbeRefused, AddressGiven, DialRefused, SendHello,
                linkVars
  <2>4. QED
    BY <2>1, <2>2, <2>3
<1>6. TypeOK'
  BY <1>1, <1>2, <1>3, <1>4, <1>5 DEF SettledInv, TypeOK, Returned
<1>7. AgreementInv'
  <2>1. \A d \in Caller : cpc'[d] = "ready" => cpc[d] = "ready"
    BY <1>2 DEF SettledInv, TypeOK
  <2>2. QED
    BY <1>1, <1>4, <2>1 DEF SettledInv, AgreementInv, Settled
<1>8. QED
  BY <1>1, <1>3, <1>6, <1>7 DEF SettledInv

(* A caller that fails or is refused takes the HELLO_ACK away, or leaves it. *)
LEMMA CallerFails ==
  ASSUME SettledInv, NEW c \in Caller,
         SendHelloFails(c) \/ CallRefused(c) \/ AckMissing(c) \/ AckExpires(c)
  PROVE  SettledInv'
<1>1. /\ UNCHANGED <<lpc, served, lwindow, listens, says, tries, cwindow, backlog, hello, faults>>
      /\ link' \in [Link -> {"none", "up", "silent", "down"}]
  BY ClosedType
  DEF SettledInv, TypeOK, SendHelloFails, CallRefused, AckMissing, AckExpires, CallFails,
      listenerVars
<1>2. PICK pc \in {"failed", "refused"} : cpc' = [cpc EXCEPT ![c] = pc]
  BY DEF SendHelloFails, CallRefused, AckMissing, AckExpires, CallFails, Goto
<1>3. ack' \in {ack, [ack EXCEPT ![Call(c)] = NoAck]}
  BY DEF SendHelloFails, CallRefused, AckMissing, AckExpires, TakeAck
<1>4. /\ ack' \in [Link -> Ack]
      /\ \A d \in Caller : ack'[Call(d)].reason = "" => ack'[Call(d)] = ack[Call(d)]
  <2>1. CASE ack' = ack
    BY <2>1 DEF SettledInv, TypeOK
  <2>2. CASE ack' = [ack EXCEPT ![Call(c)] = NoAck]
    BY <2>2, NoAckType, CallsDiffer DEF SettledInv, TypeOK
  <2>3. QED
    BY <1>3, <2>1, <2>2
<1>5. \A d \in Caller : cpc'[d] = cpc[d] \/ cpc'[d] \in {"failed", "refused"}
  BY <1>2 DEF SettledInv, TypeOK
<1>6. TypeOK'
  BY <1>1, <1>2, <1>4 DEF SettledInv, TypeOK, Returned
<1>7. AgreementInv'
  BY <1>1, <1>4, <1>5 DEF SettledInv, AgreementInv, Settled
<1>8. QED
  BY <1>1, <1>5, <1>6, <1>7 DEF SettledInv

(* The caller takes the window the acceptance carries. *)
LEMMA CallerIsAccepted ==
  ASSUME SettledInv, NEW c \in Caller, CallAccepted(c)
  PROVE  SettledInv'
<1>1. UNCHANGED <<lpc, served, lwindow, listens, says, tries, backlog, link, hello, faults>>
  BY DEF CallAccepted, listenerVars
<1>2. /\ cpc' = [cpc EXCEPT ![c] = "ready"]
      /\ cwindow' = [cwindow EXCEPT ![c] = ack[Call(c)].window]
      /\ ack' = [ack EXCEPT ![Call(c)] = NoAck]
  BY DEF CallAccepted, Goto, TakeAck
<1>3. ack[Call(c)] \in Ack /\ Settled(c, ack[Call(c)].window)
  BY CallsDiffer DEF SettledInv, TypeOK, AgreementInv, CallAccepted
<1>4. TypeOK'
  <2>1. ack[Call(c)].window \in Int
    BY <1>3 DEF Ack
  <2>2. QED
    BY <1>1, <1>2, <2>1, NoAckType DEF SettledInv, TypeOK, Returned
<1>5. \A d \in Caller : ack'[Call(d)].reason = "" => ack'[Call(d)] = ack[Call(d)]
  BY <1>2, NoAckType, CallsDiffer DEF SettledInv, TypeOK
<1>6. \A d \in Caller : d # c => cpc'[d] = cpc[d] /\ cwindow'[d] = cwindow[d]
  BY <1>2 DEF SettledInv, TypeOK
<1>7. cpc'[c] = "ready" /\ cwindow'[c] = ack[Call(c)].window
  BY <1>2 DEF SettledInv, TypeOK
<1>8. AgreementInv'
  BY <1>1, <1>3, <1>5, <1>6, <1>7 DEF SettledInv, AgreementInv, Settled
<1>9. QED
  BY <1>1, <1>4, <1>6, <1>7, <1>8 DEF SettledInv

(* What a disturbance loses was not needed for anything settled. *)
LEMMA LinkIsDisturbed ==
  ASSUME SettledInv, NEW l \in Link, Disturb(l)
  PROVE  SettledInv'
<1>1. /\ UNCHANGED <<lpc, served, lwindow, listens, says, cpc, tries, cwindow, backlog>>
      /\ link' \in [Link -> {"none", "up", "silent", "down"}]
      /\ faults' \in 0..MaxFaults
  <2>1. UNCHANGED <<lpc, served, lwindow, listens, says, cpc, tries, cwindow, backlog>>
    BY DEF Disturb, listenerVars, callerVars
  <2>2. link' \in [Link -> {"none", "up", "silent", "down"}]
    BY DEF SettledInv, TypeOK, Disturb
  <2>3. faults' \in 0..MaxFaults
    BY HandshakeAssumption DEF SettledInv, TypeOK, Disturb
  <2>4. QED
    BY <2>1, <2>2, <2>3
<1>2. /\ hello' \in {hello, [hello EXCEPT ![l] = FALSE]}
      /\ ack' \in {ack, [ack EXCEPT ![l] = NoAck]}
  BY DEF Disturb
<1>3. /\ hello' \in [Link -> BOOLEAN]
      /\ \A k \in Link : hello'[k] => hello[k]
  BY <1>2 DEF SettledInv, TypeOK
<1>4. /\ ack' \in [Link -> Ack]
      /\ \A k \in Link : ack'[k].reason = "" => ack'[k] = ack[k]
  BY <1>2, NoAckType DEF SettledInv, TypeOK
<1>5. TypeOK'
  BY <1>1, <1>3, <1>4 DEF SettledInv, TypeOK
<1>6. AgreementInv'
  <2>1. \A d \in Caller : ack'[Call(d)].reason = "" => ack'[Call(d)] = ack[Call(d)]
    BY <1>4, CallsDiffer
  <2>2. \A d \in Caller : \A w : Settled(d, w) => Settled(d, w)'
    BY <1>1 DEF Settled
  <2>3. QED
    BY <1>1, <1>3, <2>1, <2>2 DEF SettledInv, AgreementInv, Settled
<1>7. QED
  BY <1>1, <1>5, <1>6 DEF SettledInv

(* Nothing moves, nothing is settled anew. *)
LEMMA NothingHappens ==
  ASSUME SettledInv, UNCHANGED vars
  PROVE  SettledInv'
BY DEF SettledInv, TypeOK, AgreementInv, Settled, vars, listenerVars, callerVars, linkVars

-----------------------------------------------------------------------------
(* Types, limits and what has been settled. *)
LEMMA SettledStays ==
  ASSUME SettledInv, [Next]_vars
  PROVE  SettledInv'
<1>1. CASE ListenAll \/ Listener
  BY <1>1, ListenerWaits, ListenerGivesUp, ListenerAnswers DEF Listener
<1>2. CASE \E c \in Caller : CallerStep(c)
  BY <1>2, CallerDials, CallerFails, CallerIsAccepted DEF CallerStep
<1>3. CASE \E l \in Link : Disturb(l)
  BY <1>3, LinkIsDisturbed
<1>4. CASE UNCHANGED vars
  BY <1>4, NothingHappens
<1>5. QED
  BY <1>1, <1>2, <1>3, <1>4 DEF Next

-----------------------------------------------------------------------------
(* Refusals. *)

(* What the listener answers is about the HELLO of the caller it served.    *)
LEMMA AnswersTheCaller ==
  ASSUME SettledInv, AcceptHello \/ RefuseHello
  PROVE  /\ \A c \in Caller : served = Call(c) => says[served[2]] = says[c]
         /\ \A c \in Caller : \/ ack'[Call(c)] = ack[Call(c)]
                             \/ ack'[Call(c)].reason = Refusal(says[c])
         /\ UNCHANGED <<says, cpc>>
<1>1. \A c \in Caller : served = Call(c) => says[served[2]] = says[c]
  BY CallsDiffer
<1>2. PICK pc, ls : ListenReturns(pc, ls)
  BY DEF AcceptHello, RefuseHello
<1>3. Reply(Answer(says[served[2]]))
  BY DEF AcceptHello, RefuseHello
<1>4. ASSUME NEW c \in Caller
      PROVE  \/ ack'[Call(c)] = ack[Call(c)]
             \/ ack'[Call(c)].reason = Refusal(says[c])
  <2>1. CASE served = Call(c)
    <3>1. ack'[Call(c)] \in {ack[Call(c)], Answer(says[c])}
      BY <1>1, <1>3, <2>1, CallsDiffer DEF SettledInv, TypeOK, Reply
    <3>2. says[c].window \in Int
      BY HandshakeAssumption DEF SettledInv, TypeOK
    <3>3. QED
      BY <3>1, <3>2, AnswerType
  <2>2. CASE served # Call(c)
    BY <1>3, <2>2, CallsDiffer DEF SettledInv, TypeOK, Reply
  <2>3. QED
    BY <2>1, <2>2
<1>5. QED
  BY <1>1, <1>2, <1>4 DEF ListenReturns, callerVars

(* Other steps bring nobody a HELLO_ACK; only CallRefused refuses. *)
LEMMA OthersBringNone ==
  ASSUME SettledInv, [Next]_vars, ~AcceptHello, ~RefuseHello, NEW c \in Caller
  PROVE  /\ says' = says
         /\ ack'[Call(c)] = ack[Call(c)] \/ ack'[Call(c)] = NoAck
         /\ cpc'[c] = "refused" => cpc[c] = "refused" \/ CallRefused(c)
<1>1. CASE \/ ListenAll \/ Accept \/ AcceptExpires \/ HelloMissing \/ HelloExpires
           \/ AnswerFails
  BY <1>1 DEF ListenAll, Accept, AcceptExpires, HelloMissing, HelloExpires, AnswerFails,
              ListenReturns, callerVars, linkVars
<1>2. ASSUME NEW d \in Caller, CallerStep(d)
      PROVE  /\ says' = says
             /\ ack'[Call(c)] = ack[Call(c)] \/ ack'[Call(c)] = NoAck
             /\ cpc'[c] = "refused" => cpc[c] = "refused" \/ CallRefused(c)
  <2>1. says' = says
    BY <1>2 DEF CallerStep, ProbeAnswered, ProbeRefused, AddressGiven, Dial, DialRefused,
                SendHello, SendHelloFails, CallAccepted, CallRefused, AckMissing, AckExpires,
                CallFails
  <2>2. ack' = ack \/ ack' = [ack EXCEPT ![Call(d)] = NoAck]
    BY <1>2 DEF CallerStep, ProbeAnswered, ProbeRefused, AddressGiven, Dial, DialRefused,
                SendHello, SendHelloFails, CallAccepted, CallRefused, AckMissing, AckExpires,
                Connected, TakeAck, linkVars
  <2>3. ack'[Call(c)] = ack[Call(c)] \/ ack'[Call(c)] = NoAck
    BY <2>2, CallsDiffer DEF SettledInv, TypeOK
  <2>4. PICK pc : cpc' = [cpc EXCEPT ![d] = pc] /\ (pc = "refused" => CallRefused(d))
    BY <1>2 DEF CallerStep, ProbeAnswered, ProbeRefused, AddressGiven, Dial, DialRefused,
                SendHello, SendHelloFails, CallAccepted, AckMissing, AckExpires, CallFails,
                CallRefused, Goto
  <2>5. QED
    BY <2>1, <2>3, <2>4 DEF SettledInv, TypeOK
<1>3. ASSUME NEW l \in Link, Disturb(l)
      PROVE  /\ says' = says /\ cpc' = cpc
             /\ ack'[Call(c)] = ack[Call(c)] \/ ack'[Call(c)] = NoAck
  BY <1>3, CallsDiffer DEF SettledInv, TypeOK, Disturb, callerVars
<1>4. CASE UNCHANGED vars
  BY <1>4 DEF vars, callerVars, linkVars
<1>5. QED
  BY <1>1, <1>2, <1>3, <1>4 DEF Next, Listener

(* A refusal that is sent has its cause, and so has one that is heard. *)
LEMMA CauseStays ==
  ASSUME SettledInv, CauseKnown, RefusedForCause, [Next]_vars
  PROVE  CauseKnown' /\ RefusedForCause'
<1>1. CASE AcceptHello \/ RefuseHello
  <2>1. \A c \in Caller : Refusal(says'[c]) = Refusal(says[c]) /\ cpc'[c] = cpc[c]
    BY <1>1, AnswersTheCaller
  <2>2. CauseKnown'
    BY <1>1, <2>1, AnswersTheCaller DEF CauseKnown
  <2>3. QED
    BY <2>1, <2>2 DEF RefusedForCause
<1>2. CASE ~AcceptHello /\ ~RefuseHello
  <2>2. CauseKnown'
    BY <1>2, OthersBringNone DEF CauseKnown
  <2>3. ASSUME NEW c \in Caller, cpc'[c] = "refused"
        PROVE  Refusal(says'[c]) # ""
    <3>1. says'[c] = says[c]
      BY <1>2, OthersBringNone
    <3>2. CASE cpc[c] = "refused"
      BY <3>1, <3>2 DEF RefusedForCause
    <3>3. CASE CallRefused(c)
      BY <3>1, <3>3 DEF CauseKnown, CallRefused, Answered
    <3>4. QED
      BY <1>2, <2>3, <3>2, <3>3, OthersBringNone
  <2>4. QED
    BY <2>2, <2>3 DEF RefusedForCause
<1>3. QED
  BY <1>1, <1>2

-----------------------------------------------------------------------------
(* Which callers an open link belongs to. *)

(* A step by which no caller moves, no link opens and no HELLO is sent. *)
LEMMA NothingOpens ==
  ASSUME OpenKnown, cpc' = cpc,
         \A l \in Link : hello'[l] => hello[l],
         \A l \in Link : link'[l] = "up" => link[l] = "up",
         lpc' = "ready" => lpc = "ready" /\ served' = served
  PROVE  OpenKnown'
BY CallsDiffer DEF OpenKnown

LEMMA ListenerLeavesOpen ==
  ASSUME SettledInv, OpenKnown, ListenAll \/ Listener
  PROVE  OpenKnown'
<1>1. CASE ListenAll \/ Accept
  BY <1>1, NothingOpens DEF ListenAll, Accept, callerVars, linkVars
<1>2. CASE AcceptExpires \/ HelloMissing \/ HelloExpires \/ AnswerFails \/ RefuseHello
  <2>1. PICK ls : ListenReturns("failed", ls)
    BY <1>2 DEF AcceptExpires, HelloMissing, HelloExpires, AnswerFails, RefuseHello
  <2>2. \A l \in Link : hello'[l] => hello[l]
    BY <1>2 DEF SettledInv, TypeOK, AcceptExpires, HelloMissing, HelloExpires, AnswerFails,
                RefuseHello, Reply
  <2>3. QED
    BY <2>1, <2>2, NothingOpens DEF ListenReturns, Closed, callerVars
<1>3. CASE AcceptHello
  <2>1. PICK d \in Caller : served = Call(d)
    BY <1>3 DEF SettledInv, AgreementInv, AcceptHello, ReadHello
  <2>2. hello[served] /\ served' = served /\ cpc' = cpc
    BY <1>3 DEF AcceptHello, ReadHello, ListenReturns, callerVars
  <2>3. \A l \in Link : hello'[l] => hello[l]
    BY <1>3 DEF SettledInv, TypeOK, AcceptHello, Reply
  <2>4. \A l \in Link : link'[l] = "up" => link[l] = "up"
    BY <1>3 DEF AcceptHello, ListenReturns, Closed
  <2>5. QED
    BY <2>1, <2>2, <2>3, <2>4, CallsDiffer DEF OpenKnown
<1>4. QED
  BY <1>1, <1>2, <1>3 DEF Listener

(* A caller that has not sent its HELLO is not the one an open link is for. *)
LEMMA NotYetCalling ==
  ASSUME OpenKnown, NEW c \in Caller, cpc[c] \in {"scan", "ask", "dial", "hello"}
  PROVE  /\ ~hello[Call(c)]
         /\ ~(lpc = "ready" /\ served = Call(c) /\ link[Call(c)] = "up")
BY DEF OpenKnown, Returned

LEMMA CallerLeavesOpen ==
  ASSUME SettledInv, OpenKnown, NEW c \in Caller, CallerStep(c)
  PROVE  OpenKnown'
<1> DEFINE Mine == hello'[Call(c)] \/ (lpc' = "ready" /\ served' = Call(c))
<1>1. lpc' = lpc /\ served' = served
  BY DEF CallerStep, ProbeAnswered, ProbeRefused, AddressGiven, Dial, DialRefused, SendHello,
         SendHelloFails, CallAccepted, CallRefused, AckMissing, AckExpires, CallFails,
         listenerVars
<1>2. \A d \in Caller : d # c => /\ cpc'[d] = cpc[d]
                                /\ hello'[Call(d)] = hello[Call(d)]
                                /\ link'[Call(d)] = link[Call(d)]
  <2>1. PICK pc : cpc' = [cpc EXCEPT ![c] = pc]
    BY DEF CallerStep, ProbeAnswered, ProbeRefused, AddressGiven, Dial, DialRefused,
           SendHello, SendHelloFails, CallAccepted, CallRefused, AckMissing, AckExpires,
           CallFails, Goto
  <2>2. hello' = hello \/ \E b : hello' = [hello EXCEPT ![Call(c)] = b]
    BY DEF CallerStep, ProbeAnswered, ProbeRefused, AddressGiven, Dial, DialRefused,
           SendHello, SendHelloFails, CallAccepted, CallRefused, AckMissing, AckExpires,
           CallFails, Connected, linkVars
  <2>3. \/ link' = link
        \/ \E s : link' = [link EXCEPT ![Call(c)] = s]
        \/ \E s : link' = [link EXCEPT ![Probe(c)] = s]
        \/ link' = Closed({Call(c)})
    BY DEF CallerStep, ProbeAnswered, ProbeRefused, AddressGiven, Dial, DialRefused,
           SendHello, SendHelloFails, CallAccepted, CallRefused, AckMissing, AckExpires,
           CallFails, Connected, linkVars
  <2>4. ASSUME NEW d \in Caller, d # c
        PROVE  /\ cpc'[d] = cpc[d]
               /\ hello'[Call(d)] = hello[Call(d)]
               /\ link'[Call(d)] = link[Call(d)]
    <3>1. Call(d) # Call(c) /\ Call(d) # Probe(c) /\ Call(d) \in Link
      BY <2>4, CallsDiffer
    <3>2. cpc'[d] = cpc[d]
      BY <2>1, <2>4 DEF SettledInv, TypeOK
    <3>3. hello'[Call(d)] = hello[Call(d)]
      BY <2>2, <3>1 DEF SettledInv, TypeOK
    <3>4. link'[Call(d)] = link[Call(d)]
      BY <2>3, <3>1 DEF SettledInv, TypeOK, Closed
    <3>5. QED
      BY <3>2, <3>3, <3>4
  <2>5. QED
    BY <2>4
<1>3. /\ hello'[Call(c)] => cpc'[c] \in {"wait"} \cup Returned
      /\ Mine /\ link'[Call(c)] = "up" => cpc'[c] \in {"wait", "ready"}
  <2>1. CASE ProbeAnswered(c) \/ ProbeRefused(c) \/ AddressGiven(c) \/ DialRefused(c)
    <3>1. cpc[c] \in {"scan", "ask", "dial", "hello"} /\ hello' = hello
      BY <2>1 DEF ProbeAnswered, ProbeRefused, AddressGiven, DialRefused, Connected, linkVars
    <3>2. link'[Call(c)] = link[Call(c)]
      BY <2>1, CallsDiffer DEF SettledInv, TypeOK, ProbeAnswered, ProbeRefused, AddressGiven,
                               DialRefused, Connected, linkVars
    <3>3. QED
      BY <1>1, <3>1, <3>2, NotYetCalling
  <2>2. CASE Dial(c)
    <3>1. cpc[c] = "dial" /\ hello' = hello /\ lpc # "ready"
      BY <2>2 DEF Dial, Connected, Listening
    <3>2. QED
      BY <1>1, <3>1, NotYetCalling
  <2>3. CASE SendHello(c)
    BY <2>3 DEF SettledInv, TypeOK, SendHello, Goto
  <2>4. CASE SendHelloFails(c) \/ CallRefused(c) \/ AckMissing(c) \/ AckExpires(c)
    <3>1. PICK pc \in {"failed", "refused"} : CallFails(c, pc)
      BY <2>4 DEF SendHelloFails, CallRefused, AckMissing, AckExpires
    <3>2. cpc'[c] \in Returned
      BY <3>1 DEF SettledInv, TypeOK, CallFails, Goto, Returned
    <3>3. link'[Call(c)] # "up"
      BY <3>1, CallsDiffer DEF CallFails, Closed
    <3>4. QED
      BY <3>2, <3>3
  <2>5. CASE CallAccepted(c)
    BY <2>5 DEF SettledInv, TypeOK, CallAccepted, Goto, Returned
  <2>6. QED
    BY <2>1, <2>2, <2>3, <2>4, <2>5 DEF CallerStep
<1>4. QED
  <2>1. ASSUME NEW d \in Caller
        PROVE  /\ hello'[Call(d)] => cpc'[d] \in {"wait"} \cup Returned
               /\ /\ hello'[Call(d)] \/ (lpc' = "ready" /\ served' = Call(d))
                  /\ link'[Call(d)] = "up"
                  => cpc'[d] \in {"wait", "ready"}
    <3>1. CASE d = c
      BY <1>3, <3>1
    <3>2. CASE d # c
      BY <1>1, <1>2, <3>2 DEF OpenKnown
    <3>3. QED
      BY <3>1, <3>2
  <2>2. lpc' = "ready" => \E d \in Caller : served' = Call(d)
    BY <1>1 DEF OpenKnown
  <2>3. QED
    BY <2>1, <2>2 DEF OpenKnown

(* An open link whose HELLO is unread, or was accepted, has its caller waiting. *)
LEMMA OpenStays ==
  ASSUME SettledInv, OpenKnown, [Next]_vars
  PROVE  OpenKnown'
<1>1. CASE ListenAll \/ Listener
  BY <1>1, ListenerLeavesOpen
<1>2. CASE \E c \in Caller : CallerStep(c)
  BY <1>2, CallerLeavesOpen
<1>3. ASSUME NEW l \in Link, Disturb(l)
      PROVE  OpenKnown'
  <2>1. cpc' = cpc /\ lpc' = lpc /\ served' = served
    BY <1>3 DEF Disturb, callerVars, listenerVars
  <2>2. \A k \in Link : hello'[k] => hello[k]
    BY <1>3 DEF SettledInv, TypeOK, Disturb
  <2>3. \A k \in Link : link'[k] = "up" => link[k] = "up"
    BY <1>3 DEF SettledInv, TypeOK, Disturb
  <2>4. QED
    BY <2>1, <2>2, <2>3, NothingOpens
<1>4. CASE UNCHANGED vars
  BY <1>4, NothingOpens DEF vars, callerVars, linkVars, listenerVars
<1>5. QED
  BY <1>1, <1>2, <1>3, <1>4 DEF Next

LEMMA NobodyKnown == Init => CauseKnown /\ RefusedForCause /\ OpenKnown
BY CallsDiffer DEF Init, CauseKnown, RefusedForCause, OpenKnown

-----------------------------------------------------------------------------
(* The inductive invariant of the handshake. *)
THEOREM HandshakeIsInvariant == Spec => []HandshakeInv
<1>1. Init => HandshakeInv
  BY InitHolds, NobodyKnown DEF HandshakeInv
<1>2. HandshakeInv /\ [Next]_vars => HandshakeInv'
  BY SettledStays, CauseStays, OpenStays DEF HandshakeInv
<1>3. QED
  BY <1>1, <1>2, PTL DEF Spec

(* Every variable keeps to its type; no caller dials more than maxRetries   *)
(* times, and ListenAll is not called more often than it may be.            *)
THEOREM TypesHold == Spec => []TypeOK
<1>1. HandshakeInv => TypeOK
  BY DEF HandshakeInv, SettledInv
<1>2. QED
  BY HandshakeIsInvariant, <1>1, PTL

(* Connect and ListenAll return the same connection, with one window within *)
(* the limits, to peers whose versions and roles go together, however many  *)
(* callers there are and whatever they ask for.                             *)
THEOREM EndsAgree == Spec => []Agreement
<1>1. HandshakeInv => Agreement
  BY DEF HandshakeInv, SettledInv, AgreementInv, Settled, Agreement
<1>2. QED
  BY HandshakeIsInvariant, <1>1, PTL

(* Connect reports a version or role that does not fit only to a caller     *)
(* whose version or role does not fit, whatever became of its call.         *)
THEOREM RefusalHasCause == Spec => []RefusedForCause
<1>1. HandshakeInv => RefusedForCause
  BY DEF HandshakeInv
<1>2. QED
  BY HandshakeIsInvariant, <1>1, PTL

(* ListenAll never keeps a link that looks alive after its caller has given *)
(* up, in whatever order the deadlines expire and the links fail.           *)
THEOREM GivingUpCloses == Spec => []HalfOpenIsClosed
<1>1. HandshakeInv => HalfOpenIsClosed
  <2> SUFFICES ASSUME HandshakeInv, lpc = "ready", link[served] = "up"
               PROVE  cpc[served[2]] \in {"wait", "ready"}
    BY DEF HalfOpenIsClosed
  <2>1. PICK c \in Caller : served = Call(c)
    BY DEF HandshakeInv, OpenKnown
  <2>2. cpc[c] \in {"wait", "ready"}
    BY <2>1 DEF HandshakeInv, OpenKnown
  <2>3. QED
    BY <2>1, <2>2, CallsDiffer
<1>2. QED
  BY HandshakeIsInvariant, <1>1, PTL
=============================================================================
