-------------------------- MODULE MCAccountService --------------------------
(***************************************************************************)
(* Instances of AccountService for TLC: an account "u1" with a session, a  *)
(* password token and an email token, all older than the first request,    *)
(* and a users.id no row has yet.                                          *)
(***************************************************************************)
EXTENDS AccountRefinement, TLC

CONSTANTS r1, r2, r3, s1, t1, t2, u1, u2, e1, e2, p1, p2

MCInitialDB ==
    [users    |-> {[id |-> u1, email |-> e1, hash |-> p1, active |-> TRUE]},
     sessions |-> {[id |-> s1, user |-> u1, via |-> p1, raced |-> FALSE]},
     pwReqs   |-> {[id |-> t1, user |-> u1, addr |-> e1, raced |-> FALSE]},
     emReqs   |-> {[id |-> t2, user |-> u1, newEmail |-> e2, via |-> p1, raced |-> FALSE]}]

\* Requests are interchangeable: they differ by what they choose to do.
Pairs   == Permutations({r1, r2})
Triples == Permutations({r1, r2, r3})

ResetOps   == {"change_password", "password_token", "email_token"}
LockOps    == ResetOps \cup {"login", "forgot_password"}
AskingOps  == ResetOps \cup {"forgot_password", "change_email"}
SessionOps == ResetOps \cup {"login", "logout"}
=============================================================================
