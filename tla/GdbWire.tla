------------------------------ MODULE GdbWire -------------------------------
(***************************************************************************)
(* The connection of the GDB server: the client's bytes, the stream that   *)
(* gdb_server.py makes of the socket, and the loop of GdbStub.serve around *)
(* read_packet_from_stream (cli/gdb/rsp.py).  A packet is handled as in    *)
(* GdbStub; here it is only answered.                                      *)
(***************************************************************************)
EXTENDS Integers, Sequences, SequencesExt

CONSTANT MaxPackets  \* bound: packets of the client

VARIABLES
  sent,     \* packets the client has sent
  wire,     \* bytes sent and not yet read
  eof,      \* the client has closed its side
  reader,   \* where read_packet_from_stream is, or "ended" when serve is left
  payload,  \* what it has collected
  answered  \* packets acknowledged and answered

vars == <<sent, wire, eof, reader, payload, answered>>

\* $, a payload, # and the two digits of its checksum.
Packet == <<"$", "x", "#", "d", "d">>
Eof == << >>

Init ==
  /\ sent = 0
  /\ wire = << >>
  /\ eof = FALSE
  /\ reader = "hunting"
  /\ payload = << >>
  /\ answered = 0

-----------------------------------------------------------------------------
(* The client. *)

Send ==
  /\ ~eof /\ sent < MaxPackets
  /\ sent' = sent + 1
  /\ wire' = wire \o Packet
  /\ UNCHANGED <<eof, reader, payload, answered>>

Shutdown ==
  /\ ~eof
  /\ eof' = TRUE
  /\ UNCHANGED <<sent, wire, reader, payload, answered>>

-----------------------------------------------------------------------------
(* The server.  serve passes stream.read itself as read_byte, and the stream *)
(* is unbuffered: called without a size, it reads until the end of the       *)
(* stream and returns all of it as one piece.                                *)

Piece == wire
PieceIsReady == eof

ReadPiece(next, collected) ==
  /\ reader' = IF Piece = Eof THEN "ended" ELSE next
  /\ payload' = IF Piece = Eof THEN payload ELSE collected
  /\ wire' = << >>
  /\ UNCHANGED <<sent, eof>>

\* Bytes before a packet are skipped.
Hunt ==
  /\ reader = "hunting"
  /\ ReadPiece(IF Piece = <<"$">> THEN "payload" ELSE "hunting", << >>)
  /\ UNCHANGED answered

Collect ==
  /\ reader = "payload"
  /\ ReadPiece(IF Piece = <<"#">> THEN "high" ELSE "payload", payload \o Piece)
  /\ UNCHANGED answered

High == reader = "high" /\ ReadPiece("low", payload) /\ UNCHANGED answered

\* The checksum is compared, the packet acknowledged, handled and answered.
Low ==
  /\ reader = "low"
  /\ ReadPiece("hunting", << >>)
  /\ answered' = IF Piece = Eof THEN answered ELSE answered + 1

Server == PieceIsReady /\ (Hunt \/ Collect \/ High \/ Low)
Next == Send \/ Shutdown \/ Server

\* The server reads when there is something to read.
Spec == Init /\ [][Next]_vars /\ WF_vars(Server)

-----------------------------------------------------------------------------
\* Every packet is acknowledged and answered while the client keeps the connection
\* open, as read_packet_from_stream promises for a read_byte() that returns one
\* byte (rsp.py).
PacketsAnswered == \A n \in 1 .. MaxPackets : sent >= n ~> (answered >= n \/ eof)
=============================================================================
