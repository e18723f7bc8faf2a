------------------------------- MODULE MCFiles -------------------------------
(***************************************************************************)
(* Three calls at once over four keys: two files with a preview each, or   *)
(* one file that two calls convert while a third fails.                    *)
(***************************************************************************)
EXTENDS Files, TLC

CONSTANTS p1, p2, p3, k1, k2, k3, k4

MCProc == {p1, p2, p3}
MCKey == {k1, k2, k3, k4}
Symmetry == Permutations(MCProc) \cup Permutations(MCKey)
=============================================================================
