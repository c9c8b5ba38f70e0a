---------------------------- MODULE MCCoordinator ----------------------------
(***************************************************************************)
(* Coordinator for TLC: fewer startup ticks and attempts than the code's 12 *)
(* and 5; four failures already reach the maximal backoff.                  *)
(***************************************************************************)
EXTENDS Coordinator
==============================================================================
