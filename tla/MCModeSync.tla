------------------------------ MODULE MCModeSync ------------------------------
(* ModeSync with a few packets in flight and one power cycle. *)
EXTENDS ModeSync
=============================================================================
