-------------------------- MODULE MCApprovalQueue --------------------------
(* ApprovalQueue for TLC. *)
EXTENDS ApprovalQueue
============================================================================
