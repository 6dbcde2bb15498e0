----------------------------- MODULE MCCheckTool -----------------------------
(* Model checking of CheckTool. *)
EXTENDS CheckTool
=============================================================================
