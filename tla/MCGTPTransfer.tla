--------------------------- MODULE MCGTPTransfer ---------------------------
(* Constant values of the GTPTransfer runs. *)
EXTENDS GTPTransfer

MCUnit == {"a", "b", "c", "x"}
MCJunk == "x"

(* One file of three chunks, the last one short.  An edit changes the first *)
(* chunk and the length.                                                    *)
OneFile == [f \in {1} |-> {<<"a", "b", "a", "c", "b">>, <<"b", "b">>}]
OneName == [f \in {1} |-> "one"]
OneNames == {"one"}

(* Two files, offered under names of their own; an edit shortens the second. *)
TwoFiles == [f \in {1, 2} |-> IF f = 1 THEN {<<"a", "b", "a">>} ELSE {<<"c", "a", "b">>, <<"a">>}]
TwoNames == {"one", "two"}
OwnName == [f \in {1, 2} |-> IF f = 1 THEN "one" ELSE "two"]

AllFaults == {"break", "corrupt", "edit", "ioerr", "skill", "decline", "short", "rcrash"}
LinkBreaks == {"break"}
NoFaults == {}
=============================================================================
