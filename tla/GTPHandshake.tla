---------------------------- MODULE GTPHandshake ----------------------------
(***************************************************************************)
(* How two ends come to share a connection: Connect and clientHandshake on *)
(* the sender's side, ListenAll and serverHandshake on the receiver's      *)
(* (backend/gtp/handshake.go), and in network mode the LAN scan that looks *)
(* for the receiver first (backend/fallback/scanner.go).                   *)
(*                                                                         *)
(* One port, any number of callers.  A caller has at most two links to the *)
(* port: the probe of its scan, and the call, because Connect tries again  *)
(* only when the dial itself fails.  ListenAll accepts ONE link; when it   *)
(* returns, it closes its listener, and links not yet accepted are reset.  *)
(***************************************************************************)
EXTENDS Integers, Sequences, SequencesExt

CONSTANTS
  Caller,         \* the programs that call the port
  Scanning,       \* those in network mode, which scan before they call
  Hellos,         \* Hellos[c]: what c's HELLO may say (another build may say other things)
  Version, Role,  \* the listener's own
  DefaultWindow,  \* defaultWindow
  MaxWindow,      \* maxWindow
  MaxTries,       \* maxRetries
  MaxListens,     \* bound: how often a receiver is started
  Faults,         \* kinds of disturbance: "cut", "silence"
  MaxFaults,      \* bound: how many of them occur
  Timers          \* the deadlines that may expire: "accept", "hello", "ack"

ASSUME HandshakeAssumption ==
  /\ Scanning \subseteq Caller
  /\ \A c \in Caller : \A m \in Hellos[c] : m.window \in Int
  /\ DefaultWindow \in Nat \ {0} /\ MaxWindow \in Nat \ {0}
  /\ DefaultWindow <= MaxWindow
  /\ MaxTries \in Nat \ {0} /\ MaxListens \in Nat /\ MaxFaults \in Nat

VARIABLES
  lpc,      \* where ListenAll is
  served,   \* the link it accepted
  lwindow,  \* conn.Window at the listener
  backlog,  \* links the system has completed, not yet accepted
  listens,  \* ListenAll calls so far
  says,     \* what each caller's HELLO says; it never changes
  cpc,      \* where each caller is
  tries,    \* failed dials
  cwindow,  \* conn.Window at the caller
  link,     \* state of each link
  hello,    \* the link carries a HELLO not yet read
  ack,      \* the HELLO_ACK not yet read
  faults

listenerVars == <<lpc, served, lwindow, listens>>
callerVars == <<says, cpc, tries, cwindow>>
linkVars == <<backlog, link, hello, ack>>
vars == <<listenerVars, callerVars, linkVars, faults>>

Link == {"probe", "call"} \X Caller
Probe(c) == <<"probe", c>>
Call(c) == <<"call", c>>

NoLink == <<>>
NoAck == [window |-> 0, reason |-> "none"]
Ack == [window : Int, reason : {"none", "", "version", "role"}]

Listening == lpc \in {"accept", "hello"}
Returned == {"ready", "refused", "failed"}

TypeOK == /\ lpc \in {"off", "accept", "hello", "ready", "failed"}
          /\ served \in Link \cup {NoLink}
          /\ lwindow \in Int
          /\ backlog \in Seq(Link)
          /\ listens \in 0..MaxListens
          /\ \A c \in Caller : says[c] \in Hellos[c]
          /\ cpc \in [Caller -> {"scan", "ask", "dial", "hello", "wait"} \cup Returned]
          /\ tries \in [Caller -> 0..MaxTries]
          /\ cwindow \in [Caller -> Int]
          /\ link \in [Link -> {"none", "up", "silent", "down"}]
          /\ hello \in [Link -> BOOLEAN]
          /\ ack \in [Link -> Ack]
          /\ faults \in 0..MaxFaults

Init == /\ lpc = "off" /\ served = NoLink /\ lwindow = 0 /\ listens = 0
        /\ backlog = <<>>
        /\ says \in [Caller -> UNION {Hellos[c] : c \in Caller}]
        /\ \A c \in Caller : says[c] \in Hellos[c]
        /\ cpc = [c \in Caller |-> IF c \in Scanning THEN "scan" ELSE "dial"]
        /\ tries = [c \in Caller |-> 0]
        /\ cwindow = [c \in Caller |-> 0]
        /\ link = [l \in Link |-> "none"]
        /\ hello = [l \in Link |-> FALSE]
        /\ ack = [l \in Link |-> NoAck]
        /\ faults = 0

(* A Close by either end.  A silent link stays silent for the other. *)
Closed(links) == [l \in Link |-> IF l \in links /\ link[l] = "up" THEN "down" ELSE link[l]]
-----------------------------------------------------------------------------
(* ListenAll. *)

ListenAll == /\ lpc \in {"off", "failed"} /\ listens < MaxListens
             /\ lpc' = "accept" /\ served' = NoLink
             /\ listens' = listens + 1
             /\ UNCHANGED <<lwindow, callerVars, linkVars, faults>>

Accept == /\ lpc = "accept" /\ backlog # <<>>
          /\ served' = Head(backlog) /\ backlog' = Tail(backlog)
          /\ lpc' = "hello"
          /\ UNCHANGED <<lwindow, listens, callerVars, link, hello, ack, faults>>

(* A return: the deferred ln.Close, and raw.Close of the links given. *)
ListenReturns(pc, closing) == /\ lpc' = pc
                              /\ link' = Closed(ToSet(backlog) \cup closing)
                              /\ backlog' = <<>>
                              /\ UNCHANGED <<served, listens, callerVars, faults>>

AcceptExpires == /\ "accept" \in Timers
                 /\ lpc = "accept" /\ backlog = <<>>
                 /\ ListenReturns("failed", {})
                 /\ UNCHANGED <<lwindow, hello, ack>>

(* ReadFrame fails: the other end is gone without a HELLO. *)
HelloMissing == /\ lpc = "hello" /\ ~hello[served] /\ link[served] = "down"
                /\ ListenReturns("failed", {served})
                /\ UNCHANGED <<lwindow, hello, ack>>

\* Mutant of HelloExpires: no deadline while HELLO is read.
HelloNeverExpires == FALSE

HelloExpires == /\ "hello" \in Timers
                /\ lpc = "hello" /\ ~hello[served]
                /\ ListenReturns("failed", {served})
                /\ UNCHANGED <<lwindow, hello, ack>>

Refusal(m) == IF m.version # Version THEN "version"
              ELSE IF m.role = Role THEN "role"
              ELSE ""

Larger(a, b) == IF a > b THEN a ELSE b
Smaller(a, b) == IF a < b THEN a ELSE b

Negotiated(wanted) == Smaller(Larger(DefaultWindow, wanted), MaxWindow)

\* Mutant of Answer: HELLO_ACK repeats the window that was asked for.
AnswerAsAsked(m) == [window |-> m.window, reason |-> Refusal(m)]

\* Mutant of Answer: the roles are compared the wrong way round.
AnswerToOwnRole(m) == [window |-> IF Refusal(m) = "" THEN Negotiated(m.window) ELSE 0,
                       reason |-> IF m.role # Role THEN "role" ELSE ""]

Answer(m) == [window |-> IF Refusal(m) = "" THEN Negotiated(m.window) ELSE 0,
              reason |-> Refusal(m)]

(* The caller's HELLO is taken; what is written to a link that is not up is lost. *)
Reply(m) == /\ hello' = [hello EXCEPT ![served] = FALSE]
            /\ ack' = IF link[served] = "up" THEN [ack EXCEPT ![served] = m] ELSE ack

ReadHello == lpc = "hello" /\ hello[served]

AcceptHello == /\ ReadHello /\ Refusal(says[served[2]]) = ""
               /\ Reply(Answer(says[served[2]]))
               /\ lwindow' = Negotiated(says[served[2]].window)
               /\ ListenReturns("ready", {})

RefuseHello == /\ ReadHello /\ Refusal(says[served[2]]) # ""
               /\ Reply(Answer(says[served[2]]))
               /\ ListenReturns("failed", {served})
               /\ UNCHANGED lwindow

AnswerFails == /\ ReadHello /\ link[served] = "down"
               /\ hello' = [hello EXCEPT ![served] = FALSE]
               /\ ListenReturns("failed", {served})
               /\ UNCHANGED <<lwindow, ack>>

Listener == \/ Accept \/ AcceptExpires \/ HelloMissing \/ HelloExpires
            \/ AcceptHello \/ RefuseHello \/ AnswerFails
-----------------------------------------------------------------------------
(* Scan, one host: the probe is a full TCP connection, closed at once. *)

Goto(c, pc) == cpc' = [cpc EXCEPT ![c] = pc]

Connected(l, state) == /\ backlog' = Append(backlog, l)
                       /\ link' = [link EXCEPT ![l] = state]
                       /\ UNCHANGED <<hello, ack>>

ProbeAnswered(c) == /\ cpc[c] = "scan" /\ Listening
                    /\ Connected(Probe(c), "down")
                    /\ Goto(c, "dial")
                    /\ UNCHANGED <<says, tries, cwindow, listenerVars, faults>>

(* Nobody there: the user is asked for an address, and may give none. *)
ProbeRefused(c) == /\ cpc[c] = "scan" /\ ~Listening
                   /\ Goto(c, "ask")
                   /\ UNCHANGED <<says, tries, cwindow, listenerVars, linkVars, faults>>

AddressGiven(c) == /\ cpc[c] = "ask"
                   /\ Goto(c, "dial") \/ Goto(c, "failed")
                   /\ UNCHANGED <<says, tries, cwindow, listenerVars, linkVars, faults>>

(* Connect: dial, up to MaxTries times; then clientHandshake, once. *)

Dial(c) == /\ cpc[c] = "dial" /\ Listening
           /\ Connected(Call(c), "up")
           /\ Goto(c, "hello")
           /\ UNCHANGED <<says, tries, cwindow, listenerVars, faults>>

\* Mutant of DialRefused: the attempts are not limited.
DialAgain(c) == /\ cpc[c] = "dial" /\ ~Listening
                /\ tries' = [tries EXCEPT ![c] = @ + 1]
                /\ UNCHANGED <<says, cpc, cwindow, listenerVars, linkVars, faults>>

DialRefused(c) == /\ cpc[c] = "dial" /\ ~Listening
                  /\ tries' = [tries EXCEPT ![c] = @ + 1]
                  /\ Goto(c, IF tries[c] + 1 = MaxTries THEN "failed" ELSE "dial")
                  /\ UNCHANGED <<says, cwindow, listenerVars, linkVars, faults>>

SendHello(c) == /\ cpc[c] = "hello"
                /\ hello' = [hello EXCEPT ![Call(c)] = link[Call(c)] = "up"]
                /\ Goto(c, "wait")
                /\ UNCHANGED <<says, tries, cwindow, listenerVars, backlog, link, ack, faults>>

\* Mutant of CallFails: the connection is left open.
CallFailsOpen(c, pc) == /\ Goto(c, pc)
                        /\ UNCHANGED <<says, tries, listenerVars, backlog, link, hello, faults>>

(* The caller gives up: raw.Close. *)
CallFails(c, pc) == /\ Goto(c, pc)
                    /\ link' = Closed({Call(c)})
                    /\ UNCHANGED <<says, tries, listenerVars, backlog, hello, faults>>

SendHelloFails(c) == /\ cpc[c] = "hello" /\ link[Call(c)] = "down"
                     /\ CallFails(c, "failed")
                     /\ UNCHANGED <<cwindow, ack>>

Answered(c) == cpc[c] = "wait" /\ ack[Call(c)] # NoAck
TakeAck(c) == ack' = [ack EXCEPT ![Call(c)] = NoAck]

CallAccepted(c) == /\ Answered(c) /\ ack[Call(c)].reason = ""
                   /\ TakeAck(c)
                   /\ cwindow' = [cwindow EXCEPT ![c] = ack[Call(c)].window]
                   /\ Goto(c, "ready")
                   /\ UNCHANGED <<says, tries, listenerVars, backlog, link, hello, faults>>

CallRefused(c) == /\ Answered(c) /\ ack[Call(c)].reason # ""
                  /\ TakeAck(c)
                  /\ CallFails(c, "refused")
                  /\ UNCHANGED cwindow

AckMissing(c) == /\ cpc[c] = "wait" /\ ack[Call(c)] = NoAck /\ link[Call(c)] = "down"
                 /\ CallFails(c, "failed")
                 /\ UNCHANGED <<cwindow, ack>>

\* Mutant of AckExpires: no deadline while HELLO_ACK is read.
AckNeverExpires(c) == FALSE

AckExpires(c) == /\ "ack" \in Timers
                 /\ cpc[c] = "wait" /\ ack[Call(c)] = NoAck
                 /\ CallFails(c, "failed")
                 /\ UNCHANGED <<cwindow, ack>>

CallerStep(c) == \/ ProbeAnswered(c) \/ ProbeRefused(c) \/ AddressGiven(c)
                 \/ Dial(c) \/ DialRefused(c) \/ SendHello(c) \/ SendHelloFails(c)
                 \/ CallAccepted(c) \/ CallRefused(c) \/ AckMissing(c) \/ AckExpires(c)
-----------------------------------------------------------------------------
(* A link is cut, and its ends are told; or it goes silent, and they are    *)
(* not (a cable is pulled).  What was on its way may be lost.               *)
Disturb(l) == /\ faults < MaxFaults /\ faults' = faults + 1
              /\ link[l] = "up"
              /\ \/ "cut" \in Faults /\ link' = [link EXCEPT ![l] = "down"]
                 \/ "silence" \in Faults /\ link' = [link EXCEPT ![l] = "silent"]
              /\ \/ UNCHANGED <<hello, ack>>
                 \/ /\ hello' = [hello EXCEPT ![l] = FALSE]
                    /\ ack' = [ack EXCEPT ![l] = NoAck]
              /\ UNCHANGED <<backlog, listenerVars, callerVars>>

Next == \/ ListenAll \/ Listener
        \/ \E c \in Caller : CallerStep(c)
        \/ \E l \in Link : Disturb(l)

Spec == Init /\ [][Next]_vars

(* Both programs are scheduled, and their deadlines expire at last. *)
Fairness == WF_vars(Listener) /\ \A c \in Caller : WF_vars(CallerStep(c))

FairSpec == Spec /\ Fairness
-----------------------------------------------------------------------------
(* The two ends of a connection that Connect returns agree: it is the one   *)
(* ListenAll returns, they use the same window, within the limits whatever  *)
(* HELLO asked for, and neither version nor role conflicts.                 *)
Agreement == \A c \in Caller : cpc[c] = "ready" =>
               /\ lpc = "ready" /\ served = Call(c)
               /\ cwindow[c] = lwindow /\ lwindow \in DefaultWindow..MaxWindow
               /\ Refusal(says[c]) = ""

(* Why Agreement holds: an acceptance that is still on its way already says  *)
(* what the listener has settled, and only a call carries a HELLO.          *)
Settled(c, window) == /\ lpc = "ready" /\ served = Call(c)
                      /\ window = lwindow /\ lwindow \in DefaultWindow..MaxWindow
                      /\ Refusal(says[c]) = ""

AgreementInv ==
  /\ \A l \in Link : hello[l] => \E c \in Caller : l = Call(c)
  /\ \A c \in Caller : ack[Call(c)].reason = "" => Settled(c, ack[Call(c)].window)
  /\ \A c \in Caller : cpc[c] = "ready" => Settled(c, cwindow[c])

(* Only a caller that does not fit is told so; one that comes second, or    *)
(* loses its link, is not mistaken for one.                                 *)
RefusedForCause == \A c \in Caller : cpc[c] = "refused" => Refusal(says[c]) # ""

(* A receiver whose caller has given up is not left with a link that looks  *)
(* alive: Receive will be told.  (A silent link never tells.)               *)
HalfOpenIsClosed == lpc = "ready" => \/ cpc[served[2]] \in {"wait", "ready"}
                                     \/ link[served] # "up"

(* What GTPHandshakeProofs proves Agreement from. *)
SettledInv == /\ TypeOK
              /\ lpc = "hello" => served \in Link
              /\ \A c \in Caller : cpc[c] \in {"scan", "ask", "dial"} => tries[c] < MaxTries
              /\ AgreementInv

(* Why RefusedForCause holds: a HELLO_ACK on its way answers the HELLO of    *)
(* the caller it goes to.                                                   *)
CauseKnown == \A c \in Caller : \/ ack[Call(c)] = NoAck
                               \/ ack[Call(c)].reason = Refusal(says[c])

(* Why HalfOpenIsClosed holds: a HELLO is of a caller past its sending; and  *)
(* as long as the call that carries it, or was accepted with it, looks      *)
(* alive, the caller waits for the answer or has it.                        *)
OpenKnown ==
  /\ lpc = "ready" => \E c \in Caller : served = Call(c)
  /\ \A c \in Caller : hello[Call(c)] => cpc[c] \in {"wait"} \cup Returned
  /\ \A c \in Caller : /\ hello[Call(c)] \/ (lpc = "ready" /\ served = Call(c))
                       /\ link[Call(c)] = "up"
                       => cpc[c] \in {"wait", "ready"}

(* The inductive invariant of the handshake. *)
HandshakeInv == SettledInv /\ CauseKnown /\ RefusedForCause /\ OpenKnown

(* The deadlines do their work: no handshake lasts for ever. *)
ListenAllReturns == lpc = "hello" ~> lpc \in {"ready", "failed"}
ConnectReturns == \A c \in Caller : cpc[c] \in {"hello", "wait"} ~> cpc[c] \in Returned

(* "Sender connects - scan LAN automatically" (README.md:193): a receiver   *)
(* the scan has found is one the sender can connect to.                     *)
FoundIsReached == \A c \in Scanning : link[Probe(c)] # "none" ~> cpc[c] = "ready"
=============================================================================
