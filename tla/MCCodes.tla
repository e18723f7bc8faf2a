------------------------------- MODULE MCCodes -------------------------------
(***************************************************************************)
(* Three calls at once on one phone, three codes, a lifetime of two resend *)
(* windows and two wrong answers.                                          *)
(***************************************************************************)
EXTENDS Codes, TLC

CONSTANTS p1, p2, p3, c1, c2, c3

MCProc == {p1, p2, p3}
MCCode == {c1, c2, c3}
Symmetry == Permutations(MCProc) \cup Permutations(MCCode)
=============================================================================
