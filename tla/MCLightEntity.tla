----------------------------- MODULE MCLightEntity -----------------------------
(***************************************************************************)
(* LightEntity for TLC: a colour and a brightness besides white and full,  *)
(* a strip whose two segments lie on both sides of the mask's byte         *)
(* boundary, and segment calls that paint one, or both in two steps with   *)
(* an index out of range.                                                  *)
(***************************************************************************)
EXTENDS LightEntity

Red == <<255, 0, 0>>
Blue == <<0, 0, 255>>
MCWarm == <<255, 177, 110>>
MCColors == {Red}
Group(segments, color) == [segments |-> segments, rgb |-> color]
MCGroups == {<<Group({8}, Blue)>>, <<Group({7, 8}, Blue), Group({7, 15}, Red)>>}
================================================================================
