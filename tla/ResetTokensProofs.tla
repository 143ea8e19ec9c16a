-------------------------- MODULE ResetTokensProofs --------------------------
(***************************************************************************)
(* What the age of a token means, for any lifetime, any difference of the  *)
(* clocks and any number of requests and tokens.                           *)
(*                                                                         *)
(* A request judges the row of its token while it holds that row, so no    *)
(* two of them judge one token at a time (Locks); what one has refused is  *)
(* expired for every later one (Judged); and a row is gone only by a       *)
(* commit.                                                                 *)
(***************************************************************************)
EXTENDS ResetTokens, TLAPS

Deciding == {"check", "hash", "delete", "commit"}
Accepted == {"hash", "delete", "commit"}

\* A request presents a token that was asked for, and has done so by now.
Sent == \A r \in Requests :
    /\ sentAt[r] <= now
    /\ pc[r] # "idle" => presented[r] \in Tokens /\ created[presented[r]] # -1

\* Tokens exist once they have been asked for.
Asked == \A t \in rows \cup spent \cup refused : created[t] # -1

\* A row has one holder, and the token under decision is held.
Locks ==
    /\ \A r \in Requests : /\ lock[r] \subseteq rows
                           /\ pc[r] \in Deciding => presented[r] \in lock[r]
    /\ \A r, o \in Requests : r # o => lock[r] \cap lock[o] = {}

\* Refused tokens are expired, accepted ones are not refused.
Judged ==
    /\ \A t \in refused : Expired(t)
    /\ \A r \in Requests : pc[r] \in Accepted => presented[r] \notin refused

SpentGone == spent \cap rows = {}

TokensInv ==
    /\ TypeOK /\ Sent /\ Asked /\ Locks /\ Judged /\ SpentGone
    /\ LateNeverSpent /\ ExpiredForGood /\ KeptForRetry

\* Numbers are numbers.
LEMMA Numbers ==
    ASSUME TokensInv
    PROVE  /\ now \in Int /\ skew \in Int /\ skew <= MaxSkew /\ -MaxSkew <= skew
           /\ Life \in Int /\ MaxSkew \in Int
           /\ \A t \in Tokens : created[t] \in Int
           /\ \A r \in Requests : sentAt[r] \in Int
<1> QED BY TokensAssumption DEF TokensInv, TypeOK

LEMMA InitTokensInv == Init => TokensInv
<1> SUFFICES ASSUME Init PROVE TokensInv
  OBVIOUS
<1> USE TokensAssumption DEF Init
<1>1. TypeOK
  BY DEF TypeOK
<1>2. Sent /\ Asked /\ Locks /\ Judged /\ SpentGone
  BY DEF Sent, Asked, Locks, Judged, SpentGone, Deciding, Accepted
<1>3. LateNeverSpent /\ ExpiredForGood /\ KeptForRetry
  BY DEF LateNeverSpent, ExpiredForGood, KeptForRetry
<1> QED BY <1>1, <1>2, <1>3 DEF TokensInv

\* A later clock expires no fewer tokens.
LEMMA TickKeeps == ASSUME TokensInv, Tick PROVE TokensInv'
<1>1. /\ now' = now + 1 /\ now' \in 0..MaxTime
      /\ UNCHANGED <<skew, created, rows, lock, pc, presented, sentAt, spent, refused>>
  BY TokensAssumption DEF Tick, TokensInv, TypeOK
<1>2. TypeOK'
  BY <1>1 DEF TokensInv, TypeOK
<1>3. Sent'
  BY <1>1, Numbers DEF TokensInv, Sent
<1>4. Judged'
  <2>1. \A t \in refused : t \in Tokens
    BY DEF TokensInv, TypeOK
  <2> QED BY <1>1, <2>1, Numbers DEF TokensInv, Judged, Expired
<1>5. Asked' /\ Locks' /\ SpentGone'
  BY <1>1 DEF TokensInv, Asked, Locks, SpentGone
<1>6. LateNeverSpent' /\ ExpiredForGood' /\ KeptForRetry'
  BY <1>1 DEF TokensInv, LateNeverSpent, ExpiredForGood, KeptForRetry
<1> QED BY <1>2, <1>3, <1>4, <1>5, <1>6 DEF TokensInv

\* A new token disturbs no older one.
LEMMA AskKeeps == ASSUME TokensInv, NEW t \in Tokens, Ask(t) PROVE TokensInv'
<1>1. /\ created[t] = -1 /\ created' = [created EXCEPT ![t] = now]
      /\ rows' = rows \cup {t}
      /\ UNCHANGED <<now, skew, lock, pc, presented, sentAt, spent, refused>>
  BY DEF Ask
<1>2. TypeOK'
  BY <1>1 DEF TokensInv, TypeOK
<1>3. /\ created'[t] = now /\ now # -1
      /\ \A u \in Tokens : created[u] # -1 => created'[u] = created[u]
      /\ \A u \in Tokens \ {t} : created'[u] = created[u]
  BY <1>1 DEF TokensInv, TypeOK
<1>4. Sent'
  BY <1>1, <1>3 DEF TokensInv, Sent
<1>5. Asked'
  BY <1>1, <1>3 DEF TokensInv, Asked, TypeOK
<1>6. Locks'
  BY <1>1 DEF TokensInv, Locks
<1>7. Judged'
  BY <1>1, <1>3 DEF TokensInv, TypeOK, Asked, Judged, Expired
<1>8. SpentGone'
  BY <1>1 DEF TokensInv, Asked, SpentGone
<1>9. LateNeverSpent'
  BY <1>1, <1>3 DEF TokensInv, Sent, LateNeverSpent
<1>10. ExpiredForGood' /\ KeptForRetry'
  BY <1>1, <1>3 DEF TokensInv, ExpiredForGood, KeptForRetry
<1> QED BY <1>2, <1>4, <1>5, <1>6, <1>7, <1>8, <1>9, <1>10 DEF TokensInv

\* A request before its decision.
LEMMA PresentKeeps == ASSUME TokensInv, NEW r \in Requests, Present(r) PROVE TokensInv'
<1>1. PICK t \in Tokens : created[t] # -1 /\ presented' = [presented EXCEPT ![r] = t]
  BY DEF Present
<1>2. /\ sentAt' = [sentAt EXCEPT ![r] = now] /\ pc' = [pc EXCEPT ![r] = "consume"]
      /\ UNCHANGED <<now, skew, created, rows, lock, spent, refused>>
  BY DEF Present, Goto
<1>3. TypeOK'
  BY <1>1, <1>2 DEF TokensInv, TypeOK
<1>4. Sent'
  BY <1>1, <1>2, Numbers DEF TokensInv, TypeOK, Sent
<1>5. Asked' /\ SpentGone' /\ ExpiredForGood' /\ KeptForRetry'
  BY <1>2 DEF TokensInv, Asked, SpentGone, ExpiredForGood, KeptForRetry
<1>6. Locks' /\ Judged' /\ LateNeverSpent'
  BY <1>1, <1>2 DEF TokensInv, TypeOK, Locks, Judged, Expired, LateNeverSpent, Deciding, Accepted
<1> QED BY <1>3, <1>4, <1>5, <1>6 DEF TokensInv

\* A step of r on its way, with the rows it holds after it.
LEMMA AdvanceKeeps ==
    ASSUME TokensInv, NEW r \in Requests, pc[r] # "idle",
           NEW step \in {"check", "hash", "delete", "commit", "end"}, Goto(r, step),
           NEW mine \in SUBSET rows, lock' = [lock EXCEPT ![r] = mine],
           \A o \in Requests \ {r} : mine \cap lock[o] = {},
           step \in Deciding => presented[r] \in mine,
           step \in Accepted => pc[r] \in Accepted \/ (pc[r] = "check" /\ ~Expired(presented[r])),
           UNCHANGED <<now, skew, created, rows, presented, sentAt, spent, refused>>
    PROVE  TokensInv'
<1>1. /\ pc' \in [Requests -> {"idle", "consume", "check", "hash", "delete", "commit", "end"}]
      /\ pc'[r] = step /\ \A o \in Requests \ {r} : pc'[o] = pc[o]
      /\ lock' \in [Requests -> SUBSET Tokens]
      /\ lock'[r] = mine /\ \A o \in Requests \ {r} : lock'[o] = lock[o]
  BY DEF TokensInv, TypeOK, Goto
<1>2. TypeOK'
  BY <1>1 DEF TokensInv, TypeOK
<1>3. Sent'
  BY <1>1 DEF TokensInv, Sent
<1>4. Locks'
  BY <1>1 DEF TokensInv, Locks
<1>5. Asked' /\ SpentGone' /\ ExpiredForGood' /\ KeptForRetry'
  BY DEF TokensInv, Asked, SpentGone, ExpiredForGood, KeptForRetry
<1>6. Judged'
  BY <1>1 DEF TokensInv, Judged, Expired
<1>7. LateNeverSpent'
  <2>1. SUFFICES ASSUME step \in Accepted
                 PROVE  sentAt[r] <= created[presented[r]] + Life + MaxSkew
    BY <1>1 DEF TokensInv, LateNeverSpent, Accepted
  <2>2. CASE pc[r] \in Accepted
    BY <2>2 DEF TokensInv, LateNeverSpent, Accepted
  <2>3. CASE ~Expired(presented[r])
    <3>1. presented[r] \in Tokens /\ sentAt[r] <= now
      BY DEF TokensInv, Sent
    <3> QED BY <2>3, <3>1, Numbers DEF Expired
  <2> QED BY <2>1, <2>2, <2>3
<1> QED BY <1>2, <1>3, <1>4, <1>5, <1>6, <1>7 DEF TokensInv

\* DELETE .. RETURNING takes a row nobody holds.
LEMMA ConsumeKeeps == ASSUME TokensInv, NEW r \in Requests, Consume(r) PROVE TokensInv'
<1>1. /\ pc[r] = "consume" /\ \A o \in Requests \ {r} : presented[r] \notin lock[o]
      /\ UNCHANGED <<now, skew, created, rows, presented, sentAt, spent, refused>>
  BY DEF Consume, At, LockedByOther
<1>2. CASE presented[r] \in rows
  <2>1. lock' = [lock EXCEPT ![r] = {presented[r]}] /\ Goto(r, "check")
    BY <1>2 DEF Consume
  <2>2. /\ {presented[r]} \in SUBSET rows
        /\ \A o \in Requests \ {r} : {presented[r]} \cap lock[o] = {}
        /\ pc[r] # "idle" /\ "check" \notin Accepted
    BY <1>1, <1>2 DEF Accepted
  <2> QED BY <1>1, <2>1, <2>2, AdvanceKeeps
<1>3. CASE presented[r] \notin rows
  <2>1. lock' = [lock EXCEPT ![r] = lock[r]] /\ Goto(r, "end")
    BY <1>3 DEF Consume, TokensInv, TypeOK
  <2>2. lock[r] \in SUBSET rows /\ \A o \in Requests \ {r} : lock[r] \cap lock[o] = {}
    BY DEF TokensInv, Locks
  <2>3. pc[r] # "idle" /\ "end" \notin Deciding /\ "end" \notin Accepted
    BY <1>1 DEF Deciding, Accepted
  <2> QED BY <1>1, <2>1, <2>2, <2>3, AdvanceKeeps
<1> QED BY <1>2, <1>3

\* A refusal: nobody else is about to accept the token, since r holds its row,
\* and nobody has.
LEMMA RefuseKeeps ==
    ASSUME TokensInv, NEW r \in Requests, Check(r), Expired(presented[r])
    PROVE  TokensInv'
<1> DEFINE t == presented[r]
<1>1. /\ pc[r] = "check"
      /\ UNCHANGED <<now, skew, created, rows, presented, sentAt, spent>>
      /\ refused' = refused \cup {t}
      /\ lock' = [lock EXCEPT ![r] = {}] /\ pc' = [pc EXCEPT ![r] = "end"]
  BY DEF Check, Rollback, Goto, At
<1>2. t \in Tokens /\ t \in lock[r] /\ t \in rows /\ created[t] # -1
  BY <1>1 DEF TokensInv, Sent, Locks, Deciding
<1>3. \A o \in Requests : o # r /\ pc[o] \in Accepted => presented[o] # t
  BY <1>2 DEF TokensInv, Locks, Deciding, Accepted
<1>4. TypeOK'
  BY <1>1, <1>2 DEF TokensInv, TypeOK
<1>5. Sent' /\ Asked'
  BY <1>1, <1>2 DEF TokensInv, TypeOK, Sent, Asked
<1>6. Locks'
  BY <1>1 DEF TokensInv, TypeOK, Locks, Deciding
<1>7. Judged'
  <2>1. \A u \in refused' : Expired(u)'
    BY <1>1 DEF TokensInv, Judged, Expired
  <2>2. \A o \in Requests : pc'[o] \in Accepted => presented'[o] \notin refused'
    BY <1>1, <1>3 DEF TokensInv, TypeOK, Judged, Accepted
  <2> QED BY <2>1, <2>2 DEF Judged
<1>8. SpentGone' /\ KeptForRetry'
  BY <1>1 DEF TokensInv, SpentGone, KeptForRetry
<1>9. LateNeverSpent'
  BY <1>1 DEF TokensInv, TypeOK, LateNeverSpent
<1>10. ExpiredForGood'
  BY <1>1, <1>2 DEF TokensInv, SpentGone, ExpiredForGood
<1> QED BY <1>4, <1>5, <1>6, <1>7, <1>8, <1>9, <1>10 DEF TokensInv

\* A commit spends a token nobody was refused, and takes its row.
LEMMA CommitKeeps == ASSUME TokensInv, NEW r \in Requests, Commit(r) PROVE TokensInv'
<1> DEFINE t == presented[r]
<1>1. /\ pc[r] = "commit"
      /\ rows' = rows \ lock[r] /\ spent' = spent \cup {t}
      /\ lock' = [lock EXCEPT ![r] = {}] /\ pc' = [pc EXCEPT ![r] = "end"]
      /\ UNCHANGED <<now, skew, created, presented, sentAt, refused>>
  BY DEF Commit, Rollback, Goto, At
<1>2. t \in Tokens /\ t \in lock[r] /\ created[t] # -1 /\ t \notin refused
  BY <1>1 DEF TokensInv, Sent, Locks, Judged, Deciding, Accepted
<1>3. TypeOK'
  BY <1>1, <1>2 DEF TokensInv, TypeOK
<1>4. Sent' /\ Asked'
  BY <1>1, <1>2 DEF TokensInv, TypeOK, Sent, Asked
<1>5. Locks'
  BY <1>1 DEF TokensInv, TypeOK, Locks, Deciding
<1>6. Judged' /\ LateNeverSpent'
  BY <1>1 DEF TokensInv, TypeOK, Judged, Expired, LateNeverSpent, Accepted
<1>7. SpentGone' /\ ExpiredForGood' /\ KeptForRetry'
  BY <1>1, <1>2 DEF TokensInv, SpentGone, ExpiredForGood, KeptForRetry
<1> QED BY <1>3, <1>4, <1>5, <1>6, <1>7 DEF TokensInv

\* Every step keeps the invariant.
LEMMA StepKeepsTokensInv == TokensInv /\ [Next]_vars => TokensInv'
<1> SUFFICES ASSUME TokensInv, [Next]_vars PROVE TokensInv'
  OBVIOUS
<1>1. ASSUME NEW r \in Requests, Check(r), ~Expired(presented[r]) PROVE TokensInv'
  <2>1. /\ pc[r] = "check" /\ Goto(r, "hash") /\ lock' = [lock EXCEPT ![r] = lock[r]]
        /\ UNCHANGED <<now, skew, created, rows, presented, sentAt, spent, refused>>
    BY <1>1 DEF Check, At, TokensInv, TypeOK
  <2>2. /\ lock[r] \in SUBSET rows /\ presented[r] \in lock[r]
        /\ \A o \in Requests \ {r} : lock[r] \cap lock[o] = {}
    BY <2>1 DEF TokensInv, Locks, Deciding
  <2>3. pc[r] # "idle"
    BY <2>1
  <2> QED BY <1>1, <2>1, <2>2, <2>3, AdvanceKeeps
<1>2. ASSUME NEW r \in Requests, Hash(r) PROVE TokensInv'
  <2>1. /\ pc[r] = "hash" /\ Goto(r, "delete") /\ lock' = [lock EXCEPT ![r] = lock[r]]
        /\ UNCHANGED <<now, skew, created, rows, presented, sentAt, spent, refused>>
    BY <1>2 DEF Hash, At, TokensInv, TypeOK
  <2>2. /\ lock[r] \in SUBSET rows /\ presented[r] \in lock[r]
        /\ \A o \in Requests \ {r} : lock[r] \cap lock[o] = {}
    BY <2>1 DEF TokensInv, Locks, Deciding
  <2>3. /\ pc[r] # "idle"
        /\ pc[r] \in Accepted \/ (pc[r] = "check" /\ ~Expired(presented[r]))
    BY <2>1 DEF Accepted
  <2> QED BY <2>1, <2>2, <2>3, AdvanceKeeps
<1>3. ASSUME NEW r \in Requests, Delete(r) PROVE TokensInv'
  <2>1. /\ pc[r] = "delete" /\ Goto(r, "commit") /\ lock' = [lock EXCEPT ![r] = rows]
        /\ \A o \in Requests \ {r} : rows \cap lock[o] = {}
        /\ UNCHANGED <<now, skew, created, rows, presented, sentAt, spent, refused>>
    BY <1>3 DEF Delete, At, LockedByOther
  <2>2. presented[r] \in rows
    BY <2>1 DEF TokensInv, Locks, Deciding
  <2>3. /\ pc[r] # "idle" /\ rows \in SUBSET rows
        /\ pc[r] \in Accepted \/ (pc[r] = "check" /\ ~Expired(presented[r]))
    BY <2>1 DEF Accepted
  <2> QED BY <2>1, <2>2, <2>3, AdvanceKeeps
<1>4. ASSUME NEW r \in Requests, Fail(r) PROVE TokensInv'
  <2>1. /\ pc[r] # "idle" /\ Goto(r, "end") /\ lock' = [lock EXCEPT ![r] = {}]
        /\ UNCHANGED <<now, skew, created, rows, presented, sentAt, spent, refused>>
    BY <1>4 DEF Fail, Rollback
  <2>2. /\ {} \in SUBSET rows /\ \A o \in Requests \ {r} : {} \cap lock[o] = {}
        /\ "end" \notin Deciding /\ "end" \notin Accepted
    BY DEF Deciding, Accepted
  <2> QED BY <2>1, <2>2, AdvanceKeeps
<1>5. CASE UNCHANGED vars
  BY <1>5 DEF vars, TokensInv, TypeOK, Sent, Asked, Locks, Judged, Expired, SpentGone,
     LateNeverSpent, ExpiredForGood, KeptForRetry
<1> QED
  BY <1>1, <1>2, <1>3, <1>4, <1>5, TickKeeps, AskKeeps, PresentKeeps, ConsumeKeeps,
     RefuseKeeps, CommitKeeps DEF Next, Quiesced

\* Who holds which token and what was decided about it, in every reachable state.
THEOREM AlwaysTokensInv == Spec => []TokensInv
<1> QED BY InitTokensInv, StepKeepsTokensInv, PTL DEF Spec

\* Every variable keeps its type.
THEOREM TokensTypeCorrect == Spec => []TypeOK
<1>1. TokensInv => TypeOK
  BY DEF TokensInv
<1> QED BY <1>1, AlwaysTokensInv, PTL

\* No token sent too late by more than the clocks differ is spent.
THEOREM LateNeverSpentHolds == Spec => []LateNeverSpent
<1>1. TokensInv => LateNeverSpent
  BY DEF TokensInv
<1> QED BY <1>1, AlwaysTokensInv, PTL

\* No token is both refused as expired and spent.
THEOREM ExpiredForGoodHolds == Spec => []ExpiredForGood
<1>1. TokensInv => ExpiredForGood
  BY DEF TokensInv
<1> QED BY <1>1, AlwaysTokensInv, PTL

\* Until a reset commits every token that was asked for is in the table.
THEOREM KeptForRetryHolds == Spec => []KeptForRetry
<1>1. TokensInv => KeptForRetry
  BY DEF TokensInv
<1> QED BY <1>1, AlwaysTokensInv, PTL
=============================================================================
