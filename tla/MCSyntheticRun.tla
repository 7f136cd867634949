---------------------------- MODULE MCSyntheticRun ----------------------------
(* An instance of SyntheticRun for TLC. *)
EXTENDS SyntheticRun, TLC

CONSTANTS e1, e2

\* Two variations of one checkout, the second with a script of its own.
TwoVariations == 1 :> {e1} @@ 2 :> {e1, e2}
=============================================================================
