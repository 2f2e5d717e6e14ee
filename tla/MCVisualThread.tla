---------------------------- MODULE MCVisualThread ----------------------------
(* VisualThread with a few lights or scenes in a pass. *)
EXTENDS VisualThread
=============================================================================
