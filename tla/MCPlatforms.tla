----------------------------- MODULE MCPlatforms -----------------------------
(***************************************************************************)
(* Platforms for TLC: every model; readings at the gates of the decoder    *)
(* and with every byte of the frames in use.                               *)
(***************************************************************************)
EXTENDS Platforms

Climate(t, h, b) == [temperature |-> t, humidity |-> h, battery |-> b]
MCClimates == {Climate(213, 387, 100), Climate(-50, 500, 90),
               Climate(-400, 0, 0), Climate(1000, 999, 1)}
MCLoads == {[time_on |-> 70000, energy |-> 16777215, voltage |-> 12093,
             current |-> 145, power |-> 17509, power_factor |-> 100],
            [time_on |-> 255, energy |-> 256, voltage |-> 10201,
             current |-> 27, power |-> 2626, power_factor |-> 97]}

\* The flags byte of the H5075 and its relatives.
MCFlags == {<<0>>}
===============================================================================
