----------------------------- MODULE MCServerApp -----------------------------
(* ServerApp on a small set of fixtures; two of them have the same channels. *)
EXTENDS ServerApp

MCNumChannels == [l \in 0 .. NumLights - 1 |-> IF l < 2 THEN 2 ELSE 3]
=============================================================================
