------------------------------ MODULE GTPWire ------------------------------
(***************************************************************************)
(* One GTP connection: the frames of messages.go, the two directions of    *)
(* the TCP stream behind conn.go, and what the network may do to them.     *)
(*                                                                         *)
(* The receiver has one goroutine, so what it reads is a queue of frames.  *)
(* The sender may have several goroutines inside ReadFrame at once, and    *)
(* ReadFrame reads the 9-byte header and the payload with two calls of     *)
(* io.ReadFull; what it reads is therefore a queue of PIECES.              *)
(*                                                                         *)
(* A file's bytes are abstracted to a sequence of units, a hash to the     *)
(* content it is the hash of, a CRC to a flag that says whether it matches.*)
(***************************************************************************)
EXTENDS Naturals, FiniteSets, Sequences, SequencesExt

CONSTANTS
  NFiles,      \* files the sender was given
  Unit,        \* the smallest piece of content, ChunkSize of them to a chunk
  Junk,        \* a unit that is in no file: what corruption leaves behind
  ChunkSize,   \* units per DATA frame
  Window,      \* conn.Window, chunks in flight
  NetCap,      \* frames the sockets hold towards the receiver before a write blocks
  Faults,      \* the kinds of fault that may occur
  MaxFaults    \* bound: how many of them occur

ASSUME WireAssumption ==
  /\ NFiles \in Nat \ {0}
  /\ ChunkSize \in Nat \ {0}
  /\ Window \in Nat \ {0}
  /\ NetCap \in Nat \ {0}
  /\ MaxFaults \in Nat
  /\ Junk \in Unit

VARIABLES
  toR,    \* sender to receiver, frames not yet read
  toS,    \* receiver to sender, pieces not yet read
  up,     \* the connection still carries what is written to it
  faults  \* faults that have happened, at most MaxFaults

wireVars == <<toR, toS, up, faults>>

File == 1..NFiles
Content == Seq(Unit)
-----------------------------------------------------------------------------
(* Frames.  One record shape for every type; the fields a type does not    *)
(* carry, or that no code reads, are 0, <<>> and TRUE.                     *)

FrameType == {"FILE_OFFER", "FILE_ACCEPT", "FILE_REJECT", "DATA", "DATA_ACK",
              "COMPLETE", "COMPLETE_ACK", "SESSION_DONE", "ERROR"}

Message == [t : FrameType, id : Nat, num : Nat, body : Content, ok : BOOLEAN]

Msg(t, id, num, body, ok) == [t |-> t, id |-> id, num |-> num, body |-> body, ok |-> ok]

FileOffer(f, size)     == Msg("FILE_OFFER", f, size, <<>>, TRUE)
FileAccept(f, resume)  == Msg("FILE_ACCEPT", f, resume, <<>>, TRUE)
FileReject(f)          == Msg("FILE_REJECT", f, 0, <<>>, TRUE)
Data(f, chunk, bytes)  == Msg("DATA", f, chunk, bytes, TRUE)
DataAck(f, chunk, ok)  == Msg("DATA_ACK", f, chunk, <<>>, ok)
Complete(f, hash)      == Msg("COMPLETE", f, 0, hash, TRUE)
CompleteAck(f, ok)     == Msg("COMPLETE_ACK", f, 0, <<>>, ok)
SessionDone            == Msg("SESSION_DONE", 0, 0, <<>>, TRUE)
ErrorFrame             == Msg("ERROR", 0, 0, <<>>, TRUE)

(* What json.Unmarshal leaves in the message when the payload read is not   *)
(* the one that was written: the zero value, the type being the header's.   *)
Garbled(m) == Msg(m.t, 0, 0, <<>>, FALSE)

(* "rest" is a payload whose first 9 bytes somebody took for a header. *)
Piece == [part : {"header", "payload", "rest"}, frame : Message]

Pieces(m) == << [part |-> "header",  frame |-> m],
                [part |-> "payload", frame |-> m] >>

(* Nine bytes read off the front of the stream, whatever they are. *)
Nibble(s) == IF Head(s).part = "header" THEN Tail(s)
                                        ELSE [s EXCEPT ![1].part = "rest"]
-----------------------------------------------------------------------------
(* A write to a connection that has gone down may still succeed locally    *)
(* (the bytes are lost) or fail; the callers model the failure.            *)
SendToReceiver(m) == /\ \/ up /\ Len(toR) < NetCap /\ toR' = Append(toR, m)
                        \/ ~up /\ toR' = toR
                     /\ UNCHANGED <<toS, up, faults>>

Delivered(m) == IF up THEN toS \o Pieces(m) ELSE toS

(* The last write of an endpoint and the Close after it.  Its own unread    *)
(* input is gone; closing over unread input resets the connection, and then *)
(* the peer may lose the end of what was on its way.                        *)
Survives(q, unread) == IF unread = <<>> THEN {q} ELSE Prefixes(q)

SenderCloses(last) ==
  /\ toR' \in Survives(IF up THEN toR \o last ELSE toR, toS)
  /\ toS' = <<>>
  /\ up' = FALSE

ReceiverCloses(last, unread) ==
  /\ toS' \in Survives(IF up THEN toS \o last ELSE toS, unread)
  /\ toR' = <<>>
  /\ up' = FALSE
-----------------------------------------------------------------------------
Spend(kind) == /\ kind \in Faults
               /\ faults < MaxFaults
               /\ faults' = faults + 1

(* The link breaks: both directions keep only a beginning of what was sent. *)
BreakConn == /\ Spend("break")
             /\ up
             /\ up' = FALSE
             /\ toR' \in Prefixes(toR)
             /\ toS' \in Prefixes(toS)

(* The bytes of a chunk change on their way, the CRC no longer matches. *)
CorruptChunk == /\ Spend("corrupt")
                /\ \E i \in 1..Len(toR) :
                     /\ toR[i].t = "DATA"
                     /\ toR' = [toR EXCEPT ![i].body = [j \in DOMAIN @ |-> Junk],
                                           ![i].ok = FALSE]
                /\ UNCHANGED <<toS, up>>

WireTypeOK == /\ toR \in Seq(Message)
              /\ toS \in Seq(Piece)
              /\ up \in BOOLEAN
              /\ faults \in 0..MaxFaults

WireInit == toR = <<>> /\ toS = <<>> /\ up = TRUE /\ faults = 0
=============================================================================
