--------------------------- MODULE EmailAddresses ---------------------------
(***************************************************************************)
(* Three views of an email address a client has typed: the address the user*)
(* service makes of it (normalizeAndValidateEmail), the column it is       *)
(* compared with (CITEXT) and the key the rate limiter counts it under     *)
(* (limitByField).  A text is a sequence of characters of a byte each, and *)
(* strings.ToLower and PostgreSQL's lower are taken to agree on them.      *)
(***************************************************************************)
EXTENDS Integers, Sequences, FiniteSets

CONSTANTS
    Chars,       \* what texts are made of
    Small,       \* Small[c]: c in lower case
    MaxEmailLen  \* len(email) > 254

Marks == {" ", "@", ".", "<", ">"}

ASSUME EmailAssumption ==
    /\ Small \in [Chars -> Chars] /\ Marks \subseteq Chars
    /\ \A c \in Chars : Small[Small[c]] = Small[c]
    /\ \A c \in Chars, m \in Marks : Small[c] = m <=> c = m
    /\ MaxEmailLen \in Nat

Lower(s) == [i \in DOMAIN s |-> Small[s[i]]]

\* strings.TrimSpace
TrimSpace(s) ==
    LET solid == {i \in DOMAIN s : s[i] # " "}
        ends  == {p \in solid \X solid : solid \subseteq p[1]..p[2]}
        e     == CHOOSE p \in ends : TRUE
    IN  IF ends = {} THEN <<>> ELSE SubSeq(s, e[1], e[2])

\* Where c stands in s (strings.Count, strings.Split, strings.Contains).
Places(s, c) == {i \in DOMAIN s : s[i] = c}
Before(s, i) == SubSeq(s, 1, i - 1)
After(s, i)  == SubSeq(s, i + 1, Len(s))

(***************************************************************************)
(* mail.ParseAddress, as far as the checks after it can see: the address of*)
(* a bare local@domain or of one in angle brackets, or an error.           *)
(***************************************************************************)
DotAtom(s) ==
    /\ s # <<>> /\ \A c \in {" ", "@", "<", ">"} : Places(s, c) = {}
    /\ \A i \in Places(s, ".") : i \notin {1, Len(s)} /\ s[i + 1] # "."
AddrSpec(s) == \E i \in Places(s, "@") : DotAtom(Before(s, i)) /\ DotAtom(After(s, i))
ParseAddress(s) ==
    {a \in {s} \cup {SubSeq(s, i + 1, Len(s) - 1) : i \in Places(s, "<")} :
        AddrSpec(a) /\ (a # s => s[Len(s)] = ">")}

\* normalizeAndValidateEmail: the address, or none.
Acceptable(email) ==
    /\ email # <<>> /\ Len(email) <= MaxEmailLen
    /\ ParseAddress(email) = {email}
    /\ Cardinality(Places(email, "@")) = 1
    /\ \A i \in Places(email, "@") :
         LET domain == After(email, i)
         IN  /\ Before(email, i) # <<>> /\ domain # <<>>
             /\ domain[1] # "." /\ domain[Len(domain)] # "."
             /\ Places(domain, ".") # {}
NormalizeAcceptable(email) ==
    {Before(email, i) \o <<"@">> \o Lower(After(email, i)) :
        i \in {j \in Places(email, "@") : Acceptable(email)}}
NormalizeUntrimmed(text) == NormalizeAcceptable(text)
Normalize(text) == NormalizeAcceptable(TrimSpace(text))

\* CITEXT: equal when their lower cases are.
SameBytes(a, b)   == a = b
SameAddress(a, b) == Lower(a) = Lower(b)

\* The value part of limitByField's key (each variant is for a mutant).
KeyCased(text) == TrimSpace(text)
KeyAny(text)   == <<>>
Key(text)      == Lower(TrimSpace(text))
=============================================================================
