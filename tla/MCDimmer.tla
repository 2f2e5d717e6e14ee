------------------------------ MODULE MCDimmer ------------------------------
(* Dimmer with one light more than every preview is safe for. *)
EXTENDS Dimmer
=============================================================================
