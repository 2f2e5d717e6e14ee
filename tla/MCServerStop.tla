----------------------------- MODULE MCServerStop -----------------------------
(* ServerStop on two fixtures with the same channels. *)
EXTENDS ServerStop

MCNumChannels == [l \in 0 .. NumLights - 1 |-> 2]
=============================================================================
