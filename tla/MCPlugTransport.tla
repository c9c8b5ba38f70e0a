--------------------------- MODULE MCPlugTransport ---------------------------
(***************************************************************************)
(* PlugTransport for TLC: enough commands for one to be in progress, one   *)
(* drained and one queued behind it.                                       *)
(***************************************************************************)
EXTENDS PlugTransport
==============================================================================
