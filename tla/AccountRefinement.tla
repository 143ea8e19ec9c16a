-------------------------- MODULE AccountRefinement --------------------------
(***************************************************************************)
(* AccountService implements AccountPromise.  The accounts are the         *)
(* committed users; the grants are the rows of the three other tables; a   *)
(* token is spent when the reset that consumed it has committed.  What     *)
(* open transactions hold maps to nothing: a reset happens at its commit.  *)
(***************************************************************************)
EXTENDS AccountService

Wrap(kind, rows) == {[kind |-> kind, row |-> x] : x \in rows}

AllGrants(ss, ps, es) == Wrap("session", ss) \cup Wrap("pw", ps) \cup Wrap("em", es)

SpentTokens == UNION {token[r] : r \in committed}

Promise == INSTANCE AccountPromise WITH
    accounts <- users,
    grants <- AllGrants(sessions, pwReqs, emReqs),
    spent <- SpentTokens

\* Whatever requests interleave, fail or deadlock, a reset is one step: it
\* spends its token, changes one account and ends every grant of it but those
\* of requests it overlapped; a token ends by a reset only; and no other step
\* touches the credentials of an account.
KeepsPromise == Promise!Spec
=============================================================================
