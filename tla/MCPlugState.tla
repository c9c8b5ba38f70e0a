----------------------------- MODULE MCPlugState -----------------------------
(***************************************************************************)
(* PlugState for TLC: every model, polled, with two commands that may      *)
(* contradict each other, or a command and a press of a button.  Without   *)
(* polling there are only fewer behaviours.                                *)
(***************************************************************************)
EXTENDS PlugState
==============================================================================
