----------------------------- MODULE MCDmxWrite -----------------------------
(* DmxWrite with every call and every bulk load of a small array. *)
EXTENDS DmxWrite

AllCalls == Request
AllLoads == [1 .. N -> Byte]
=============================================================================
