----------------------------- MODULE MCServerLife -----------------------------
(* ServerLife with a packet or two at a time. *)
EXTENDS ServerLife
=============================================================================
