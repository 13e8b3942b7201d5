------------------------------- MODULE MCRobot -------------------------------
(* Two console requests, so that one save meets the reconcile of another;   *)
(* the generations are as many as can ever be started.                      *)
EXTENDS Robot, TLC

CONSTANTS s1, s2

OneSaver == {s1}
TwoSavers == {s1, s2}
Symmetric == Permutations(TwoSavers)
=============================================================================
