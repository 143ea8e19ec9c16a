--------------------------- MODULE MCSignInLimits ---------------------------
(***************************************************************************)
(* Two addresses, one of them in two spellings, over a stretch in which a  *)
(* bucket of POST /user/login regains a token.                             *)
(***************************************************************************)
EXTENDS SignInLimits, TLC

MCChars == Marks \cup {"a", "A", "b", "B", "c", "d"}
MCSmall == [c \in MCChars |-> CASE c = "A" -> "a" [] c = "B" -> "b" [] OTHER -> c]

MCTexts == {
    <<"a", "@", "b", ".", "c">>,
    <<" ", "A", "@", "B", ".", "c", " ">>,
    <<"d", "@", "b", ".", "c">> }

MCLimit   == "POST /user/login" :> 1 @@ "POST /password-reset" :> 1 @@
             "PUT /user/password" :> 1 @@ "POST /email-reset" :> 1
MCRefills == "POST /user/login" :> 1 @@ "POST /password-reset" :> 0 @@
             "PUT /user/password" :> 0 @@ "POST /email-reset" :> 0
=============================================================================
