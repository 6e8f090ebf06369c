------------------------- MODULE MCChannelDelivery -------------------------
(* ChannelDelivery for TLC. *)
EXTENDS ChannelDelivery
============================================================================
