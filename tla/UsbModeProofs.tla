--------------------------- MODULE UsbModeProofs ---------------------------
(***************************************************************************)
(* Proofs about UsbMode for any interfaces, any build of the detector, any *)
(* capacity of its channel, and any number of cables and failures.         *)
(***************************************************************************)
EXTENDS UsbMode, FiniteSetTheorems, SequenceTheorems, TLAPS

-----------------------------------------------------------------------------
(* The loop wakes. *)

LEMMA TimerIsSet ==
  ASSUME ResetTimer
  PROVE  timer'
BY DEF ResetTimer

(* What is not the loop's own leaves its place and its timer alone. *)
LEMMA OthersKeepTimer ==
  ASSUME Cable \/ Detect \/ Interrupt \/ UNCHANGED vars
  PROVE  UNCHANGED <<upc, timer, tick>>
BY DEF Cable, Detect, Around, Interrupt, loopVars, usbVars, vars

(* The loop never waits without its timer, from any state in which it does *)
(* not: the invariant is inductive.                                        *)
THEOREM LoopWakes == Spec => []AlwaysWakes
<1>1. Init => AlwaysWakes
  BY DEF Init, AlwaysWakes
<1>2. AlwaysWakes /\ [Next]_vars => AlwaysWakes'
  <2> SUFFICES ASSUME AlwaysWakes, [Next]_vars, upc' = "select"
               PROVE  timer' \/ tick'
    BY DEF AlwaysWakes
  <2>1. CASE Cable \/ Detect \/ Interrupt \/ UNCHANGED vars
    BY <2>1, OthersKeepTimer DEF AlwaysWakes
  <2>2. CASE TimerFires
    BY <2>2 DEF TimerFires
  <2>3. CASE Loop
    <3>1. CASE SelectDone \/ SelectClosed
      BY <3>1 DEF SelectDone, SelectClosed, Return
    <3>2. CASE SelectAdded \/ SelectTick
      BY <3>2 DEF SelectAdded, SelectTick
    <3>3. CASE SelectRemoved
      BY <3>3 DEF SelectRemoved, TakeEvent, loopVars, AlwaysWakes
    <3>4. CASE HandleInterface
      BY <3>4, TimerIsSet DEF HandleInterface
    <3>5. CASE SessionEnds \/ NetworkEnds
      BY <3>5, TimerIsSet DEF SessionEnds, NetworkEnds
    <3>6. CASE Confirm
      BY <3>6, TimerIsSet DEF Confirm
    <3>7. QED
      BY <2>3, <3>1, <3>2, <3>3, <3>4, <3>5, <3>6 DEF Loop
  <2>4. QED
    BY <2>1, <2>2, <2>3 DEF Next, Running
<1>3. QED
  BY <1>1, <1>2, PTL DEF Spec

-----------------------------------------------------------------------------
(* Reports alternate.  What is found and not sent yet agrees with the last *)
(* snapshot and is news; what is not waiting to be sent was reported as    *)
(* the snapshot has it.  The Linux detector finds nothing but what is up   *)
(* at the start, and lists it once.                                        *)

News == \A e \in todo : IF e.added THEN e.name \in known /\ last[e.name] # "added"
                        ELSE e.name \notin known /\ last[e.name] # "removed"

Told == \A i \in Iface : (\A e \in todo : e.name # i) =>
                           /\ last[i] = "added" => i \in known
                           /\ last[i] = "removed" => i \notin known

ReportInv ==
  /\ todo \subseteq InterfaceEvent /\ known \subseteq Iface /\ listed \subseteq Iface /\ up \subseteq Iface
  /\ last \in [Iface -> {"unknown", "added", "removed"}]
  /\ events \in Seq(InterfaceEvent)
  /\ dpc # "emit" => todo = {}
  /\ platform # "linux" => /\ spc = "done" /\ News /\ Told
                           /\ dpc = "start" => /\ known = {}
                                               /\ \A i \in Iface : last[i] = "unknown"
                           /\ dpc \in {"start", "emit", "wait", "closed"}
  /\ platform = "linux" => /\ todo = {} /\ dpc \in {"top", "recv", "emit", "closed"}
                           /\ spc = "list" => \A i \in Iface : last[i] = "unknown"
                           /\ spc = "send" => \A i \in listed : last[i] = "unknown"

(* The state ReportInv speaks of. *)
reportVars == <<platform, up, dpc, known, todo, spc, listed, events, last>>

LEMMA ReportKept ==
  ASSUME ReportInv, UNCHANGED reportVars
  PROVE  ReportInv'
BY DEF ReportInv, News, Told, reportVars

LEMMA ReportStarts == Init => ReportInv
BY DetectorAssumption, EmptySeq DEF Init, DetectorInit, ReportInv, News, Told, InterfaceEvent,
  AllPlatforms

(* A snapshot lists interfaces. *)
LEMMA SnapshotLists ==
  ASSUME ReportInv, NEW S \in SUBSET up
  PROVE  S \subseteq Iface
BY DEF ReportInv

(* An event names an interface. *)
LEMMA EventNames ==
  ASSUME NEW S, S \subseteq Iface
  PROVE  /\ Added(S) \subseteq InterfaceEvent /\ Removed(S) \subseteq InterfaceEvent
         /\ \A e \in Added(S) : e.added /\ e.name \in S
         /\ \A e \in Removed(S) : ~e.added /\ e.name \in S
         /\ \A i \in S : \E e \in Added(S) : e.name = i
         /\ \A i \in S : \E e \in Removed(S) : e.name = i
<1> DEFINE event(i, a) == [name |-> i, added |-> a]
<1>1. \A i \in S, a \in BOOLEAN :
        event(i, a) \in InterfaceEvent /\ event(i, a).name = i /\ event(i, a).added = a
  BY DEF InterfaceEvent
<1>2. /\ \A e \in Added(S) : \E i \in S : e = event(i, TRUE)
      /\ \A e \in Removed(S) : \E i \in S : e = event(i, FALSE)
      /\ \A i \in S : event(i, TRUE) \in Added(S) /\ event(i, FALSE) \in Removed(S)
  BY DEF Added, Removed
<1> HIDE DEF event
<1>3. QED
  <2>1. ASSUME NEW e \in Added(S) PROVE e \in InterfaceEvent /\ e.added /\ e.name \in S
    <3>1. PICK i \in S : e = event(i, TRUE)
      BY <1>2
    <3>2. event(i, TRUE) \in InterfaceEvent /\ event(i, TRUE).name = i /\ event(i, TRUE).added = TRUE
      BY <1>1
    <3>3. QED
      BY <3>1, <3>2
  <2>2. ASSUME NEW e \in Removed(S) PROVE e \in InterfaceEvent /\ ~e.added /\ e.name \in S
    <3>1. PICK i \in S : e = event(i, FALSE)
      BY <1>2
    <3>2. event(i, FALSE) \in InterfaceEvent /\ event(i, FALSE).name = i /\ event(i, FALSE).added = FALSE
      BY <1>1
    <3>3. QED
      BY <3>1, <3>2
  <2>3. ASSUME NEW i \in S
        PROVE (\E e \in Added(S) : e.name = i) /\ (\E e \in Removed(S) : e.name = i)
    <3>1. event(i, TRUE).name = i /\ event(i, FALSE).name = i
      BY <1>1
    <3>2. QED
      BY <1>2, <3>1
  <2>4. QED
    BY <2>1, <2>2, <2>3

(* Nothing but Emit and SendAtStartup appends to the channel; what a       *)
(* detector's step does not append it does not remember.                   *)
LEMMA QuietSteps ==
  ASSUME ReportInv,
         Remember,
         PollStart \/ Poll \/ Emitted \/ PollStop \/ ListAtStartup
         \/ NetlinkStop \/ NetlinkCall \/ NetlinkReceive \/ NetlinkError
  PROVE  events' = events /\ last' = last
<1>1. events' = events
  BY DEF PollStart, Poll, Emitted, PollStop, ListAtStartup,
         NetlinkStop, NetlinkCall, NetlinkReceive, NetlinkError
<1>2. ~(Len(events') > Len(events))
  BY <1>1, LenProperties DEF ReportInv
<1>3. QED
  BY <1>1, <1>2 DEF Remember

LEMMA ReportOfSnapshot ==
  ASSUME ReportInv, Remember, PollStart \/ Poll
  PROVE  ReportInv'
<1>1. PICK S \in SUBSET up :
        /\ Snapshot(S) /\ known' = S
        /\ \/ /\ dpc = "start" /\ dpc' = "emit"
              /\ todo' = IF platform = "windows" THEN Added(S) ELSE {}
           \/ /\ dpc = "wait" /\ dpc' = IF S = known THEN "wait" ELSE "emit"
              /\ todo' = Added(S \ known) \cup Removed(known \ S)
  BY DEF PollStart, Poll
<1>2. /\ UNCHANGED <<platform, up, spc, listed>>
      /\ platform # "linux" /\ todo = {}
      /\ last' = last /\ events' = events
  BY QuietSteps DEF PollStart, Poll, ReportInv
<1>3. S \subseteq Iface /\ known \subseteq Iface
  BY <1>1, SnapshotLists DEF ReportInv
<1>4. \A i \in Iface : (last[i] = "added" => i \in known) /\ (last[i] = "removed" => i \notin known)
  BY <1>2 DEF ReportInv, Told
<1>5. CASE dpc = "start"
  <2>1. \A i \in Iface : last[i] = "unknown"
    BY <1>2, <1>5 DEF ReportInv
  <2>2. todo' \subseteq InterfaceEvent /\ \A e \in todo' : e.added /\ e.name \in S
    BY <1>1, <1>3, <1>5, EventNames
  <2>3. News' /\ Told'
    BY <1>1, <1>2, <1>3, <2>1, <2>2 DEF News, Told
  <2>4. QED
    BY <1>1, <1>2, <1>3, <1>5, <2>2, <2>3 DEF ReportInv
<1>6. CASE dpc = "wait"
  <2>1. todo' = Added(S \ known) \cup Removed(known \ S)
    BY <1>1, <1>6
  <2>2. /\ todo' \subseteq InterfaceEvent
        /\ \A e \in todo' : IF e.added THEN e.name \in S \ known ELSE e.name \in known \ S
        /\ \A i \in (S \ known) \cup (known \ S) : \E e \in todo' : e.name = i
    <3>1. S \ known \subseteq Iface /\ known \ S \subseteq Iface
      BY <1>3
    <3>2. /\ \A e \in Added(S \ known) : e.added /\ e.name \in S \ known
          /\ \A e \in Removed(known \ S) : ~e.added /\ e.name \in known \ S
          /\ Added(S \ known) \subseteq InterfaceEvent /\ Removed(known \ S) \subseteq InterfaceEvent
      BY <3>1, EventNames
    <3>3. /\ \A i \in S \ known : \E e \in Added(S \ known) : e.name = i
          /\ \A i \in known \ S : \E e \in Removed(known \ S) : e.name = i
      BY <3>1, EventNames
    <3>4. QED
      BY <2>1, <3>2, <3>3
  <2>3. News'
    <3> SUFFICES ASSUME NEW e \in todo'
                 PROVE IF e.added THEN e.name \in known' /\ last'[e.name] # "added"
                       ELSE e.name \notin known' /\ last'[e.name] # "removed"
      BY DEF News
    <3>1. e.name \in Iface
      BY <2>2, <1>3
    <3>2. QED
      BY <1>1, <1>2, <1>4, <2>2, <3>1
  <2>4. Told'
    BY <1>1, <1>2, <1>4, <2>2 DEF Told
  <2>5. S = known => todo' = {}
    BY <2>2
  <2>6. QED
    BY <1>1, <1>2, <1>3, <1>6, <2>2, <2>3, <2>4, <2>5 DEF ReportInv
<1>7. QED
  BY <1>1, <1>5, <1>6

LEMMA ReportOfQuietSteps ==
  ASSUME ReportInv, Remember,
         Emitted \/ PollStop \/ ListAtStartup
         \/ NetlinkStop \/ NetlinkCall \/ NetlinkReceive \/ NetlinkError
  PROVE  ReportInv'
<1>1. /\ UNCHANGED <<platform, up, known, events, last>>
      /\ listed' \subseteq Iface
  BY QuietSteps
  DEF Emitted, PollStop, ListAtStartup, NetlinkStop, NetlinkCall, NetlinkReceive,
      NetlinkError, ReportInv
<1>2. todo' = {}
  <2>1. CASE NetlinkReceive
    BY <2>1 DEF NetlinkReceive, ParseMessage, HeaderPassed
  <2>2. CASE Emitted \/ PollStop \/ NetlinkCall \/ NetlinkError \/ NetlinkStop
    BY <2>2 DEF Emitted, PollStop, NetlinkCall, NetlinkError, NetlinkStop, ReportInv
  <2>3. CASE ListAtStartup
    BY <2>3 DEF ListAtStartup, ReportInv
  <2>4. QED
    BY <2>1, <2>2, <2>3
<1>3. CASE platform = "linux"
  <2>1. todo = {}
    BY <1>3 DEF ReportInv
  <2>2. dpc' \in {"top", "recv", "emit", "closed"}
    BY <1>3 DEF Emitted, PollStop, ListAtStartup, NetlinkStop, NetlinkCall, NetlinkReceive,
                NetlinkError, ReportInv
  <2>3. /\ spc' = "list" => spc = "list"
        /\ spc' = "send" => spc = "list" \/ (spc = "send" /\ listed' = listed)
    BY DEF Emitted, PollStop, ListAtStartup, NetlinkStop, NetlinkCall, NetlinkReceive,
           NetlinkError
  <2>4. QED
    BY <1>1, <1>2, <1>3, <2>2, <2>3 DEF ReportInv
<1>4. CASE platform # "linux"
  <2>1. dpc' \in {"wait", "closed"} /\ spc' = "done" /\ todo' = todo
    BY <1>2, <1>4 DEF Emitted, PollStop, ListAtStartup, NetlinkStop, NetlinkCall, NetlinkReceive,
                NetlinkError, ReportInv
  <2>2. News' /\ Told'
    BY <1>1, <1>4, <2>1 DEF ReportInv, News, Told
  <2>3. QED
    BY <1>1, <1>2, <1>4, <2>1, <2>2 DEF ReportInv
<1>5. QED
  BY <1>3, <1>4

(* What is appended is what is remembered. *)
LEMMA AppendIsRemembered ==
  ASSUME ReportInv, Remember, NEW e \in InterfaceEvent, events' = Append(events, e)
  PROVE  /\ events' \in Seq(InterfaceEvent) /\ events'[Len(events')] = e
         /\ last' = [last EXCEPT ![e.name] = IF e.added THEN "added" ELSE "removed"]
<1>1. /\ events' \in Seq(InterfaceEvent) /\ Len(events') = Len(events) + 1
      /\ events'[Len(events')] = e /\ Len(events) \in Nat
  BY AppendProperties, LenProperties DEF ReportInv
<1>2. QED
  BY <1>1 DEF Remember

LEMMA EmitReports ==
  ASSUME ReportInv, Remember, Emit
  PROVE  /\ ReportInv'
         /\ last[events'[Len(events')].name] # last'[events'[Len(events')].name]
         /\ events'[Len(events')].name \in Iface
<1>1. PICK e \in todo : events' = Append(events, e) /\ todo' = todo \ {e}
  BY DEF Emit
<1>2. e \in InterfaceEvent /\ e.name \in Iface /\ e.added \in BOOLEAN
  BY DEF ReportInv, InterfaceEvent
<1>3. /\ events' \in Seq(InterfaceEvent) /\ events'[Len(events')] = e
      /\ last' = [last EXCEPT ![e.name] = IF e.added THEN "added" ELSE "removed"]
  BY <1>1, <1>2, AppendIsRemembered
<1>4. platform # "linux" /\ dpc = "emit" /\ News /\ Told
  BY DEF Emit, ReportInv
<1>5. UNCHANGED <<platform, up, dpc, known, spc, listed>>
  BY DEF Emit
<1>6. last \in [Iface -> {"unknown", "added", "removed"}]
  BY DEF ReportInv
<1>7. \A d \in todo' : d.name # e.name
  <2> SUFFICES ASSUME NEW d \in todo', d.name = e.name PROVE FALSE
    OBVIOUS
  <2>1. d \in InterfaceEvent /\ d # e /\ d \in todo
    BY <1>1 DEF ReportInv
  <2>2. d.added = e.added
    BY <1>2, <1>4, <2>1 DEF News, InterfaceEvent
  <2>3. QED
    BY <1>2, <2>1, <2>2 DEF InterfaceEvent
<1>8. News'
  <2> SUFFICES ASSUME NEW d \in todo'
               PROVE IF d.added THEN d.name \in known /\ last'[d.name] # "added"
                     ELSE d.name \notin known /\ last'[d.name] # "removed"
    BY <1>5 DEF News
  <2>1. d \in todo /\ d.name \in Iface
    BY <1>1 DEF ReportInv, InterfaceEvent
  <2>2. last'[d.name] = last[d.name]
    BY <1>3, <1>6, <1>7, <2>1
  <2>3. QED
    BY <1>4, <2>1, <2>2 DEF News
<1>9. Told'
  <2> SUFFICES ASSUME NEW i \in Iface, \A d \in todo' : d.name # i
               PROVE (last'[i] = "added" => i \in known) /\ (last'[i] = "removed" => i \notin known)
    BY <1>5 DEF Told
  <2>1. CASE i = e.name
    <3>1. last'[i] = IF e.added THEN "added" ELSE "removed"
      BY <1>2, <1>3, <1>6, <2>1
    <3>2. QED
      BY <1>2, <1>4, <2>1, <3>1 DEF News
  <2>2. CASE i # e.name
    <3>1. last'[i] = last[i] /\ \A d \in todo : d.name # i
      BY <1>1, <1>3, <1>6, <2>2
    <3>2. QED
      BY <1>4, <3>1 DEF Told
  <2>3. QED
    BY <2>1, <2>2
<1>10. last' \in [Iface -> {"unknown", "added", "removed"}]
  BY <1>2, <1>3, <1>6
<1>11. ReportInv'
  BY <1>1, <1>3, <1>4, <1>5, <1>8, <1>9, <1>10 DEF ReportInv
<1>12. last[e.name] # last'[e.name]
  BY <1>2, <1>3, <1>4, <1>6 DEF News
<1>13. QED
  BY <1>2, <1>3, <1>11, <1>12

(* A step of the detector: an event that is appended is news of its        *)
(* interface.                                                              *)
Alternates(i) == Len(events') > Len(events) /\ events'[Len(events')].name = i
                   => last'[i] # last[i]

LEMMA StartupReports ==
  ASSUME ReportInv, Remember, SendAtStartup
  PROVE  ReportInv' /\ \A i \in Iface : Alternates(i)
<1>1. UNCHANGED <<platform, up, dpc, known, todo>> /\ spc = "send" /\ platform = "linux"
  BY DEF SendAtStartup, ReportInv
<1>2. todo = {} /\ dpc \in {"top", "recv", "emit", "closed"}
  BY <1>1 DEF ReportInv
<1>3. CASE UNCHANGED events
  <2>1. ~(Len(events') > Len(events))
    BY <1>3, LenProperties DEF ReportInv
  <2>2. last' = last
    BY <2>1 DEF Remember
  <2>3. listed' = listed /\ spc' = "done"
    <3>1. ASSUME NEW e \in InterfaceEvent PROVE events' # Append(events, e)
      <4>1. Len(Append(events, e)) = Len(events) + 1 /\ Len(events) \in Nat
        BY AppendProperties, LenProperties DEF ReportInv
      <4>2. QED
        BY <1>3, <4>1
    <3>2. \A i \in listed : [name |-> i, added |-> TRUE] \in InterfaceEvent
      BY DEF InterfaceEvent, ReportInv
    <3>3. ~\E i \in listed : events' = Append(events, [name |-> i, added |-> TRUE])
      BY <3>1, <3>2
    <3>4. QED
      BY <1>1, <3>3 DEF SendAtStartup
  <2>4. QED
    BY <1>1, <1>2, <1>3, <2>1, <2>2, <2>3 DEF ReportInv, Alternates
<1>4. CASE ~UNCHANGED events
  <2>1. PICK i \in listed : /\ events' = Append(events, [name |-> i, added |-> TRUE])
                            /\ listed' = listed \ {i} /\ spc' = spc
    BY <1>4 DEF SendAtStartup
  <2> DEFINE e == [name |-> i, added |-> TRUE]
  <2>2. e \in InterfaceEvent /\ e.name = i /\ e.added /\ i \in Iface
    BY DEF InterfaceEvent, ReportInv
  <2> HIDE DEF e
  <2>3. events' = Append(events, e)
    BY <2>1 DEF e
  <2>4. /\ events' \in Seq(InterfaceEvent) /\ events'[Len(events')] = e
        /\ last' = [last EXCEPT ![i] = "added"]
    BY <2>2, <2>3, AppendIsRemembered
  <2>5. last[i] = "unknown" /\ \A j \in listed : last[j] = "unknown"
    BY <1>1 DEF ReportInv
  <2>6. last \in [Iface -> {"unknown", "added", "removed"}]
    BY DEF ReportInv
  <2>7. last'[i] = "added" /\ \A j \in Iface \ {i} : last'[j] = last[j]
    BY <2>2, <2>4, <2>6
  <2>8. \A j \in listed' : last'[j] = "unknown"
    BY <2>1, <2>5, <2>7 DEF ReportInv
  <2>9. last' \in [Iface -> {"unknown", "added", "removed"}]
    BY <2>2, <2>4, <2>6
  <2>10. ReportInv'
    BY <1>1, <1>2, <2>1, <2>4, <2>8, <2>9 DEF ReportInv
  <2>11. \A j \in Iface : Alternates(j)
    BY <2>2, <2>4, <2>5, <2>7 DEF Alternates
  <2>12. QED
    BY <2>10, <2>11
<1>5. QED
  BY <1>3, <1>4

(* Cables do not touch the channel; the loop takes from it. *)
LEMMA ReportOfOthers ==
  ASSUME ReportInv, Cable \/ Loop \/ TimerFires \/ Interrupt \/ UNCHANGED vars
  PROVE  ReportInv' /\ Len(events') <= Len(events)
<1>1. CASE Cable
  <2>1. UNCHANGED <<platform, dpc, known, todo, spc, listed, events, last>> /\ up' \subseteq Iface
    BY <1>1 DEF Cable, CableIn, CableOut, Plug, Unplug, Change, ReportInv
  <2>2. QED
    BY <2>1, LenProperties DEF ReportInv, News, Told
<1>2. CASE SelectAdded \/ SelectRemoved
  <2>1. /\ events # <<>> /\ events' = Tail(events)
        /\ UNCHANGED <<platform, up, dpc, known, todo, spc, listed, last>>
    BY <1>2 DEF SelectAdded, SelectRemoved, TakeEvent
  <2>2. events' \in Seq(InterfaceEvent) /\ Len(events') = Len(events) - 1 /\ Len(events) \in Nat
    BY <2>1, HeadTailProperties, LenProperties DEF ReportInv
  <2>3. QED
    BY <2>1, <2>2 DEF ReportInv, News, Told
<1>3. CASE \/ SelectDone \/ SelectClosed \/ SelectTick \/ HandleInterface
           \/ SessionEnds \/ Confirm \/ NetworkEnds \/ TimerFires \/ Interrupt \/ UNCHANGED vars
  <2>1. UNCHANGED reportVars
    BY <1>3
    DEF SelectDone, SelectClosed, Return, SelectTick, HandleInterface, SessionEnds, Confirm,
        NetworkEnds, TimerFires, Interrupt, vars, usbVars, detVars, reportVars
  <2>2. QED
    BY <2>1, ReportKept, LenProperties DEF reportVars, ReportInv
<1>4. QED
  BY <1>1, <1>2, <1>3 DEF Loop

LEMMA ReportStep ==
  ASSUME ReportInv, [Next]_vars
  PROVE  ReportInv' /\ \A i \in Iface : Alternates(i)
<1>1. CASE Detect
  <2>1. DetectorStep /\ Remember
    BY <1>1 DEF Detect, Around
  <2>2. CASE PollStart \/ Poll
    <3>1. ReportInv'
      BY <2>1, <2>2, ReportOfSnapshot
    <3>2. events' = events /\ Len(events) \in Nat
      BY <2>1, <2>2, QuietSteps, LenProperties DEF ReportInv
    <3>3. QED
      BY <3>1, <3>2 DEF Alternates
  <2>3. CASE Emitted \/ PollStop \/ ListAtStartup
             \/ NetlinkStop \/ NetlinkCall \/ NetlinkReceive \/ NetlinkError
    <3>1. ReportInv'
      BY <2>1, <2>3, ReportOfQuietSteps
    <3>2. events' = events /\ Len(events) \in Nat
      BY <2>1, <2>3, QuietSteps, LenProperties DEF ReportInv
    <3>3. QED
      BY <3>1, <3>2 DEF Alternates
  <2>4. CASE Emit
    BY <2>1, <2>4, EmitReports DEF Alternates
  <2>5. CASE SendAtStartup
    BY <2>1, <2>5, StartupReports
  <2>6. QED
    BY <2>1, <2>2, <2>3, <2>4, <2>5 DEF DetectorStep
<1>2. CASE Cable \/ Loop \/ TimerFires \/ Interrupt \/ UNCHANGED vars
  <2>1. Len(events) \in Nat /\ Len(events') \in Nat
    BY <1>2, ReportOfOthers, LenProperties DEF ReportInv
  <2>2. QED
    BY <1>2, <2>1, ReportOfOthers DEF Alternates
<1>3. QED
  BY <1>1, <1>2 DEF Next, Running

(* What is found, and not reported yet, is news: the inductive invariant   *)
(* of the detector, for each of its builds.                                *)
THEOREM ReportsAreNews == Spec => []ReportInv
<1>1. ReportInv /\ [Next]_vars => ReportInv'
  BY ReportStep
<1>2. QED
  BY <1>1, ReportStarts, PTL DEF Spec

(* For one interface, additions and removals are sent in turn: across any  *)
(* number of cables, failing snapshots and a channel of any capacity.      *)
THEOREM Alternation == Spec => EventsAlternate
<1>1. ReportInv /\ [Next]_vars =>
        [\A i \in Iface : Len(events') > Len(events) /\ events'[Len(events')].name = i
                          => last'[i] # last[i]]_vars
  BY ReportStep DEF Alternates
<1>2. QED
  BY <1>1, ReportsAreNews, PTL DEF Spec, EventsAlternate

-----------------------------------------------------------------------------
(* Types, and the channel is never over its capacity. *)

(* An event sent while there is room. *)
LEMMA RoomIsEnough ==
  ASSUME DetectorTypeOK, Room, NEW e \in InterfaceEvent
  PROVE  Append(events, e) \in Seq(InterfaceEvent) /\ Len(Append(events, e)) <= ChanCap
<1>1. Len(Append(events, e)) = Len(events) + 1 /\ Len(events) \in Nat
      /\ Append(events, e) \in Seq(InterfaceEvent)
  BY AppendProperties, LenProperties DEF DetectorTypeOK
<1>2. QED
  BY <1>1, DetectorAssumption DEF Room

LEMMA PollTyped ==
  ASSUME DetectorTypeOK, PollStart \/ Poll
  PROVE  DetectorTypeOK'
<1>1. PICK S \in SUBSET up :
        /\ Snapshot(S) /\ known' = S
        /\ \/ todo' = Added(S) \/ todo' = {}
           \/ todo' = Added(S \ known) \cup Removed(known \ S)
        /\ dpc' \in {"emit", "wait"}
  BY DEF PollStart, Poll
<1>2. S \subseteq Iface /\ failures' \in 0..MaxFailures
  BY <1>1, DetectorAssumption DEF DetectorTypeOK, Snapshot
<1>3. todo' \subseteq InterfaceEvent
  <2>1. S \ known \subseteq Iface /\ known \ S \subseteq Iface
    BY <1>2 DEF DetectorTypeOK
  <2>2. QED
    BY <1>1, <1>2, <2>1, EventNames
<1>4. UNCHANGED <<platform, up, changes, spc, listed, netlink, events, open, stop, panicked>>
  BY DEF PollStart, Poll
<1>5. QED
  BY <1>1, <1>2, <1>3, <1>4 DEF DetectorTypeOK

LEMMA SendTyped ==
  ASSUME DetectorTypeOK, Emit \/ SendAtStartup
  PROVE  DetectorTypeOK'
<1>1. CASE Emit
  <2>1. PICK e \in todo : events' = Append(events, e) /\ todo' = todo \ {e}
    BY <1>1 DEF Emit
  <2>2. events' \in Seq(InterfaceEvent) /\ Len(events') <= ChanCap
    BY <1>1, <2>1, RoomIsEnough DEF Emit, DetectorTypeOK
  <2>3. QED
    BY <1>1, <2>1, <2>2 DEF Emit, DetectorTypeOK
<1>2. CASE SendAtStartup
  <2>1. /\ events' \in Seq(InterfaceEvent) /\ Len(events') <= ChanCap
        /\ listed' \subseteq Iface /\ spc' \in {"send", "done"} /\ panicked' \in BOOLEAN
    <3>1. CASE UNCHANGED events /\ UNCHANGED listed
      BY <1>2, <3>1 DEF SendAtStartup, DetectorTypeOK
    <3>2. CASE ~(UNCHANGED events /\ UNCHANGED listed)
      <4>1. Room /\ UNCHANGED <<spc, panicked>> /\ spc = "send"
        BY <1>2, <3>2 DEF SendAtStartup
      <4>2. PICK i \in listed : /\ events' = Append(events, [name |-> i, added |-> TRUE])
                                /\ listed' = listed \ {i}
        BY <1>2, <3>2 DEF SendAtStartup
      <4>3. [name |-> i, added |-> TRUE] \in InterfaceEvent
        BY DEF DetectorTypeOK, InterfaceEvent
      <4>4. QED
        BY <4>1, <4>2, <4>3, RoomIsEnough DEF DetectorTypeOK
    <3>3. QED
      BY <3>1, <3>2
  <2>2. UNCHANGED <<platform, up, changes, failures, dpc, known, todo, netlink, open, stop>>
    BY <1>2 DEF SendAtStartup
  <2>3. QED
    BY <2>1, <2>2 DEF DetectorTypeOK
<1>3. QED
  BY <1>1, <1>2

LEMMA OtherStepsTyped ==
  ASSUME DetectorTypeOK,
         Emitted \/ PollStop \/ ListAtStartup
         \/ NetlinkStop \/ NetlinkCall \/ NetlinkReceive \/ NetlinkError
  PROVE  DetectorTypeOK'
<1>1. CASE Emitted \/ PollStop \/ NetlinkStop \/ NetlinkCall
  BY <1>1 DEF Emitted, PollStop, NetlinkStop, NetlinkCall, DetectorTypeOK
<1>2. CASE NetlinkReceive
  <2>1. netlink' \in Seq(InterfaceEvent) /\ todo' = {}
    BY <1>2, HeadTailProperties DEF NetlinkReceive, ParseMessage, HeaderPassed, DetectorTypeOK
  <2>2. QED
    BY <1>2, <2>1 DEF NetlinkReceive, DetectorTypeOK
<1>3. CASE NetlinkError
  <2>1. failures' \in 0..MaxFailures
    BY <1>3, DetectorAssumption DEF NetlinkError, DetectorTypeOK
  <2>2. QED
    BY <1>3, <2>1 DEF NetlinkError, DetectorTypeOK
<1>4. CASE ListAtStartup
  <2>1. PICK S \in {up, {}} : Snapshot(S) /\ listed' = S
    BY <1>4 DEF ListAtStartup
  <2>2. listed' \subseteq Iface /\ failures' \in 0..MaxFailures
    BY <2>1, DetectorAssumption DEF DetectorTypeOK, Snapshot
  <2>3. QED
    BY <1>4, <2>2 DEF ListAtStartup, DetectorTypeOK
<1>5. QED
  BY <1>1, <1>2, <1>3, <1>4

LEMMA DetectTyped ==
  ASSUME TypeOK, Detect
  PROVE  TypeOK'
<1>1. DetectorTypeOK'
  BY PollTyped, SendTyped, OtherStepsTyped DEF Detect, DetectorStep, TypeOK
<1>2. up' = up
  BY DEF Detect, DetectorStep, PollStart, Poll, Emit, Emitted, PollStop, ListAtStartup,
         SendAtStartup, NetlinkStop, NetlinkCall, NetlinkReceive, NetlinkError
<1>3. last' \in [Iface -> {"unknown", "added", "removed"}]
  <2>1. \A e \in InterfaceEvent :
          [last EXCEPT ![e.name] = IF e.added THEN "added" ELSE "removed"]
            \in [Iface -> {"unknown", "added", "removed"}]
    BY DEF TypeOK, InterfaceEvent
  <2>2. CASE Len(events') > Len(events)
    <3>1. events'[Len(events')] \in InterfaceEvent
      BY <1>1, <2>2, LenProperties, ElementOfSeq DEF TypeOK, DetectorTypeOK
    <3>2. QED
      BY <2>1, <2>2, <3>1 DEF Detect, Around, Remember
  <2>3. CASE ~(Len(events') > Len(events))
    BY <2>3 DEF Detect, Around, Remember, TypeOK
  <2>4. QED
    BY <2>2, <2>3
<1>4. UNCHANGED <<upc, iface, timer, tick, peerIP, saved, addr, ctx, view>>
  BY DEF Detect, Around, loopVars
<1>5. QED
  BY <1>1, <1>2, <1>3, <1>4 DEF TypeOK

LEMMA CableTyped ==
  ASSUME TypeOK, Cable
  PROVE  TypeOK'
<1>1. PICK i \in Iface, a \in {"none", "other", "alike"} :
        /\ Change(i) /\ addr' = [addr EXCEPT ![i] = a]
        /\ \/ up' = up \cup {i}
           \/ up' = up \ {i} /\ a = "none"
  BY DEF Cable, CableIn, CableOut, Plug, Unplug
<1>2. changes' \in 0..MaxChanges
  BY <1>1, DetectorAssumption DEF Change, TypeOK, DetectorTypeOK
<1>3. netlink' \in Seq(InterfaceEvent)
  <2>1. [name |-> i, added |-> i \in up'] \in InterfaceEvent
    BY DEF InterfaceEvent
  <2>2. QED
    BY <1>1, <2>1, AppendProperties DEF Change, TypeOK, DetectorTypeOK
<1>4. UNCHANGED <<platform, failures, dpc, known, todo, spc, listed, events, open, stop, panicked,
                  upc, iface, timer, tick, peerIP, saved, ctx, view, last>>
  BY <1>1 DEF Change, Cable, loopVars
<1>5. up' \subseteq Iface
  BY <1>1 DEF TypeOK, DetectorTypeOK
<1>6. addr' \in [Iface -> Address] /\ \A j \in Iface : j \notin up' => addr'[j] = "none"
  BY <1>1 DEF TypeOK, Address
<1>7. QED
  BY <1>2, <1>3, <1>4, <1>5, <1>6 DEF TypeOK, DetectorTypeOK

(* Addresses stay addresses, of interfaces that are up. *)
LEMMA AddressTyped ==
  ASSUME TypeOK, NEW i \in Iface,
         RemoveIP(i) \/ AssignIP(i, TRUE) \/ AssignIP(i, FALSE) \/ UNCHANGED addr
  PROVE  addr' \in [Iface -> Address] /\ \A j \in Iface : j \notin up => addr'[j] = "none"
<1>1. CASE RemoveIP(i)
  BY <1>1 DEF RemoveIP, TypeOK, Address
<1>2. CASE AssignIP(i, TRUE)
  BY <1>2 DEF AssignIP, TypeOK, Address
<1>3. CASE AssignIP(i, FALSE) \/ UNCHANGED addr
  BY <1>3 DEF AssignIP, TypeOK, Address
<1>4. QED
  BY <1>1, <1>2, <1>3

LEMMA TakeTyped ==
  ASSUME TypeOK, SelectAdded \/ SelectRemoved
  PROVE  TypeOK'
<1>1. /\ events # <<>> /\ events' = Tail(events)
      /\ UNCHANGED <<platform, up, changes, failures, dpc, known, todo, spc, listed,
                     netlink, open, stop, panicked, ctx, last, peerIP, saved, tick>>
  BY DEF SelectAdded, SelectRemoved, TakeEvent, loopVars
<1>2. Head(events).name \in Iface
  <2>1. Head(events) \in InterfaceEvent
    BY <1>1, HeadTailProperties DEF TypeOK, DetectorTypeOK
  <2>2. QED
    BY <2>1 DEF InterfaceEvent
<1>3. events' \in Seq(InterfaceEvent) /\ Len(events') <= ChanCap
  <2>1. events' \in Seq(InterfaceEvent) /\ Len(events') = Len(events) - 1 /\ Len(events) \in Nat
    BY <1>1, HeadTailProperties, LenProperties DEF TypeOK, DetectorTypeOK
  <2>2. QED
    BY <2>1, DetectorAssumption DEF TypeOK, DetectorTypeOK
<1>4. addr' \in [Iface -> Address] /\ \A j \in Iface : j \notin up => addr'[j] = "none"
  BY <1>2, AddressTyped DEF SelectAdded, SelectRemoved
<1>5. Cardinality({Head(events).name}) = 1
  BY FS_Singleton
<1>6. /\ iface' \subseteq Iface /\ Cardinality(iface') <= 1
      /\ upc' \in {"select", "handle"} /\ timer' \in BOOLEAN
  <2>1. CASE SelectAdded
    <3>1. iface' = {Head(events).name} /\ upc' = "handle" /\ timer' = FALSE
      BY <2>1 DEF SelectAdded
    <3>2. Cardinality(iface') = 1
      BY <1>5, <3>1
    <3>3. Cardinality(iface') <= 1
      BY <3>2
    <3>4. iface' \subseteq Iface /\ upc' \in {"select", "handle"} /\ timer' \in BOOLEAN
      BY <1>2, <3>1
    <3>5. QED
      BY <3>3, <3>4
  <2>2. CASE SelectRemoved
    <3>1. upc = "select" /\ UNCHANGED <<upc, iface, timer>>
      BY <2>2 DEF SelectRemoved, TakeEvent, loopVars
    <3>2. QED
      BY <3>1 DEF TypeOK
  <2>3. QED
    BY <2>1, <2>2
<1>7. view' \subseteq Iface
  BY <1>2 DEF SelectAdded, SelectRemoved, TypeOK
<1>8. QED
  BY <1>1, <1>3, <1>4, <1>6, <1>7 DEF TypeOK, DetectorTypeOK

LEMMA LoopTyped ==
  ASSUME TypeOK,
         \/ SelectDone \/ SelectClosed \/ SelectTick \/ HandleInterface \/ SessionEnds
         \/ Confirm \/ NetworkEnds \/ TimerFires \/ Interrupt
  PROVE  TypeOK'
<1>1. Cardinality({}) = 0
  BY FS_EmptySet
<1>2. /\ stop' \in BOOLEAN
      /\ UNCHANGED <<platform, up, changes, failures, dpc, known, todo, spc, listed,
                     netlink, events, open, panicked, view, last>>
  BY DEF SelectDone, SelectClosed, Return, SelectTick, HandleInterface, SessionEnds, Confirm,
         NetworkEnds, TimerFires, Interrupt, detVars, TypeOK, DetectorTypeOK
<1>3. addr' \in [Iface -> Address] /\ \A j \in Iface : j \notin up => addr'[j] = "none"
  <2>1. CASE HandleInterface
    BY <2>1, AddressTyped DEF HandleInterface, TypeOK
  <2>2. CASE ~HandleInterface
    <3>1. addr' = addr
      BY <2>2 DEF SelectDone, SelectClosed, Return, SelectTick, SessionEnds, Confirm,
                  NetworkEnds, TimerFires, Interrupt
    <3>2. QED
      BY <3>1 DEF TypeOK
  <2>3. QED
    BY <2>1, <2>2
<1>4. /\ iface' \subseteq Iface /\ Cardinality(iface') <= 1
      /\ upc' \in {"select", "handle", "session", "confirm", "scan", "network", "returned"}
  <2>1. CASE UNCHANGED iface
    <3>1. upc' = upc \/ upc' \in {"select", "session", "confirm", "network", "returned"}
      BY DEF SelectDone, SelectClosed, Return, SelectTick, HandleInterface, SessionEnds,
             Confirm, NetworkEnds, TimerFires, Interrupt, ResetTimer, loopVars
    <3>2. QED
      BY <2>1, <3>1 DEF TypeOK
  <2>2. CASE ~UNCHANGED iface
    <3>1. ResetTimer
      BY <2>2 DEF SelectDone, SelectClosed, Return, SelectTick, HandleInterface, SessionEnds,
                  Confirm, NetworkEnds, TimerFires, Interrupt, loopVars
    <3>2. QED
      BY <1>1, <3>1 DEF ResetTimer
  <2>3. QED
    BY <2>1, <2>2
<1>5. {timer', tick', ctx'} \subseteq BOOLEAN
  BY DEF SelectDone, SelectClosed, Return, SelectTick, HandleInterface, SessionEnds,
         Confirm, NetworkEnds, TimerFires, Interrupt, ResetTimer, loopVars, TypeOK
<1>6. {peerIP', saved'} \subseteq Peer \cup {NoPeer}
  <2>1. CASE Confirm \/ NetworkEnds
    BY <2>1 DEF Confirm, NetworkEnds, TypeOK
  <2>2. CASE ~(Confirm \/ NetworkEnds)
    BY <2>2 DEF SelectDone, SelectClosed, Return, SelectTick, HandleInterface, SessionEnds,
                TimerFires, Interrupt, loopVars, TypeOK
  <2>3. QED
    BY <2>1, <2>2
<1>7. QED
  BY <1>2, <1>3, <1>4, <1>5, <1>6 DEF TypeOK, DetectorTypeOK

(* Every variable keeps to its type, an address belongs to an interface    *)
(* that is up, and the channel holds no more than its capacity.            *)
THEOREM TypesHold == Spec => []TypeOK
<1>1. Init => TypeOK
  <2> SUFFICES ASSUME Init PROVE TypeOK
    OBVIOUS
  <2>1. 0 \in 0..MaxChanges /\ 0 \in 0..MaxFailures /\ Len(<<>>) = 0 /\ 0 <= ChanCap
    BY DetectorAssumption
  <2>2. Cardinality({}) = 0 /\ <<>> \in Seq(InterfaceEvent)
    BY FS_EmptySet, EmptySeq
  <2>3. addr \in [Iface -> Address] /\ \A i \in Iface : i \notin up => addr[i] = "none"
    BY DEF Init, Address
  <2>4. DetectorTypeOK
    BY <2>1, <2>2 DEF Init, DetectorInit, DetectorTypeOK
  <2>5. /\ iface \subseteq Iface /\ Cardinality(iface) <= 1
        /\ view \subseteq Iface /\ last \in [Iface -> {"unknown", "added", "removed"}]
    BY <2>2 DEF Init
  <2>6. QED
    BY <2>3, <2>4, <2>5 DEF Init, TypeOK
<1>2. TypeOK /\ [Next]_vars => TypeOK'
  <2> SUFFICES ASSUME TypeOK, [Next]_vars PROVE TypeOK'
    OBVIOUS
  <2>1. CASE UNCHANGED vars
    BY <2>1 DEF vars, usbVars, detVars, TypeOK, DetectorTypeOK
  <2>2. CASE Next
    BY <2>2, CableTyped, DetectTyped, TakeTyped, LoopTyped DEF Next, Running, Loop
  <2>3. QED
    BY <2>1, <2>2
<1>3. QED
  BY <1>1, <1>2, PTL DEF Spec
=============================================================================
