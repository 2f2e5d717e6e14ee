----------------------------- MODULE MCController -----------------------------
(* Controller with a few modes. *)
EXTENDS Controller
=============================================================================
