---------------------------- MODULE FileDelivery ----------------------------
(***************************************************************************)
(* What a transfer promises, with nothing of how it is done.  A session    *)
(* goes through the files in order.  A file is first STORED: a complete    *)
(* copy of it is safe at the receiver.  Only then may it be REPORTED sent, *)
(* and only when it has been reported may the next one be stored.  Under   *)
(* its name the receiver shows either nothing or a complete copy.          *)
(* A session may stop anywhere; a new one starts the count again and keeps *)
(* the copies.                                                             *)
(***************************************************************************)
EXTENDS Naturals

CONSTANTS
  N,          \* files in a session
  Path,       \* names at the receiver
  PathOf,     \* PathOf[f]: the name file f is stored under
  Copies,     \* Copies[f]: what counts as a complete copy of file f
  Nothing     \* no copy

VARIABLES stored, reported, copy

deliveryVars == <<stored, reported, copy>>

Init == /\ stored = 0 /\ reported = 0
        /\ copy = [p \in Path |-> Nothing]

Store == /\ stored = reported /\ stored < N
         /\ stored' = stored + 1
         /\ UNCHANGED <<reported, copy>>

Report == /\ reported < stored
          /\ reported' = reported + 1
          /\ UNCHANGED <<stored, copy>>

(* The stored file replaces what was under its name, in two moments or at  *)
(* once.                                                                   *)
Withdraw == /\ stored > 0
            /\ copy' = [copy EXCEPT ![PathOf[stored]] = Nothing]
            /\ UNCHANGED <<stored, reported>>

Show == /\ stored > 0
        /\ \E c \in Copies[stored] : copy' = [copy EXCEPT ![PathOf[stored]] = c]
        /\ UNCHANGED <<stored, reported>>

NewSession == /\ stored' = 0 /\ reported' = 0
              /\ UNCHANGED copy

Next == Store \/ Report \/ Withdraw \/ Show \/ NewSession

Spec == Init /\ [][Next]_deliveryVars
=============================================================================
