--------------------------- MODULE MCLightTransport ---------------------------
(***************************************************************************)
(* LightTransport for TLC: two commands so that one waits while the other  *)
(* is retried, two attempts instead of three.                              *)
(***************************************************************************)
EXTENDS LightTransport
==============================================================================
