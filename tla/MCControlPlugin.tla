--------------------------- MODULE MCControlPlugin ---------------------------
(* Model checking of ControlPlugin. *)
EXTENDS ControlPlugin, TLC

\* The model treats the axes alike.
AxisSymmetry == Permutations(Axes)
=============================================================================
