------------------------- MODULE MCSessionStreams -------------------------
(* Instances of SessionStreams for TLC. *)
EXTENDS SessionStreams
=============================================================================
