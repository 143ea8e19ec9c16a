------------------------- MODULE MCSessionLifecycle -------------------------
(***************************************************************************)
(* SessionLifecycle for TLC.                                               *)
(***************************************************************************)
EXTENDS SessionLifecycle, TLC

CONSTANTS r1, r2, r3, r4, s1, s2

Symmetry == Permutations({r1, r2, r3, r4}) \cup Permutations({s1, s2})
=============================================================================
