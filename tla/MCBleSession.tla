---------------------------- MODULE MCBleSession -----------------------------
(***************************************************************************)
(* BleSession for TLC: two commands are enough for an ack to be late, a    *)
(* third for it to be later still; token requests likewise.                *)
(***************************************************************************)
EXTENDS BleSession
==============================================================================
