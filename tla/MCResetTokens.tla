---------------------------- MODULE MCResetTokens ----------------------------
(***************************************************************************)
(* Three requests and two tokens of one account.                           *)
(***************************************************************************)
EXTENDS ResetTokens, TLC

CONSTANTS r1, r2, r3, t1, t2

Symmetry == Permutations({r1, r2, r3}) \cup Permutations({t1, t2})
=============================================================================
