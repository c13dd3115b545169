--------------------------- MODULE MCGTPHandshake ---------------------------
(* Constant values of the GTPHandshake runs. *)
EXTENDS GTPHandshake

CONSTANTS scanner, direct     \* callers

MCVersion == "1"
MCRole == "receiver"
Fits(window) == [version |-> MCVersion, role |-> "sender", window |-> window]

(* The scanner asks for too much, is of another version or has the same     *)
(* role; the direct caller asks for less than the default.                  *)
MCHellos == [c \in Caller |->
               IF c = direct THEN {Fits(0)}
               ELSE {Fits(100), [Fits(6) EXCEPT !.version = "2"],
                     [Fits(6) EXCEPT !.role = MCRole]}]

FitsOnly == [c \in Caller |-> {Fits(6)}]

AllFaults == {"cut", "silence"}
AllTimers == {"accept", "hello", "ack"}
None == {}
OnlyScanner == {scanner}
Both == {scanner, direct}
=============================================================================
