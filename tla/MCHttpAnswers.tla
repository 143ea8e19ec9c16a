---------------------------- MODULE MCHttpAnswers ----------------------------
(***************************************************************************)
(* Two tabs of a browser that may have a session, or a cookie that is none.*)
(***************************************************************************)
EXTENDS HttpAnswers, TLC

CONSTANTS r1, r2, s1

Tabs == Permutations({r1, r2})
=============================================================================
