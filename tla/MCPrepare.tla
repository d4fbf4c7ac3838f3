----------------------------- MODULE MCPrepare -----------------------------
(* A small instance of Prepare for TLC. *)
EXTENDS Prepare
=============================================================================
