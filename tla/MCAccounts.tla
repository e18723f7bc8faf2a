----------------------------- MODULE MCAccounts -----------------------------
(***************************************************************************)
(* One address in two writings, three calls at once, two requests that may *)
(* each be checked twice.                                                  *)
(***************************************************************************)
EXTENDS Accounts, TLC

CONSTANTS p1, p2, p3, r1, r2

MCProc == {p1, p2, p3}
MCEmail == {"ann", "Ann"}
MCLower == [e \in MCEmail |-> "ann"]
MCRequest == {r1, r2}
Symmetry == Permutations(MCProc) \cup Permutations(MCRequest)
=============================================================================
