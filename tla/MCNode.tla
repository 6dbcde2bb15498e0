------------------------------- MODULE MCNode -------------------------------
(* Model checking of Node. *)
EXTENDS Node
=============================================================================
