--------------------------- MODULE MCPacketTable ---------------------------
(* Instances of PacketTable for TLC. *)
EXTENDS PacketTable, TLC

=============================================================================
