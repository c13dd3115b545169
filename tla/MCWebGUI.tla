------------------------------ MODULE MCWebGUI ------------------------------
(* Constant values of the WebGUI run: an upload, and a file chosen by path  *)
(* from a folder, which is offered under a name of its own but has the      *)
(* upload's last part.                                                      *)
EXTENDS WebGUI

MCRel == [f \in {"upload", "native"} |-> IF f = "upload" THEN "photo" ELSE "trip/photo"]
MCBase == [f \in {"upload", "native"} |-> "photo"]
MCIncoming == <<"letter">>
=============================================================================
