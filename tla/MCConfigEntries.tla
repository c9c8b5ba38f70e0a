--------------------------- MODULE MCConfigEntries ---------------------------
(***************************************************************************)
(* ConfigEntries for TLC: one device of each kind; two entries of the old   *)
(* domain, for the plug and for the same plug again.                        *)
(***************************************************************************)
EXTENDS ConfigEntries

CONSTANTS plug, strip, light, other, first, second

MCOldAddress == [o \in {first, second} |-> plug]
==============================================================================
