------------------------- MODULE SignInLimitsProofs -------------------------
(***************************************************************************)
(* The limits per address, for any texts, alphabet, policies and accounts. *)
(* The argument: of every text the service accepts, the key of its bucket  *)
(* is the lower case of the address it is read as; and a text with the key *)
(* of an accepted one is accepted too.  So a bucket counts the requests    *)
(* about one address, all of them and no others.  What several buckets     *)
(* allow together is then the size of a set of numbered tokens.            *)
(***************************************************************************)
EXTENDS SignInLimits, SequenceTheorems, FiniteSetTheorems, TLAPS

LEMMA LowerSeq ==
    ASSUME NEW s \in Seq(Chars)
    PROVE  /\ Lower(s) \in Seq(Chars) /\ Len(Lower(s)) = Len(s)
           /\ \A i \in 1..Len(s) : Lower(s)[i] = Small[s[i]]
  BY EmailAssumption DEF Lower

LEMMA TrimSeq ==
    ASSUME NEW s \in Seq(Chars)
    PROVE  TrimSpace(s) \in Seq(Chars)
  <1> DEFINE solid == {i \in DOMAIN s : s[i] # " "}
             ends  == {p \in solid \X solid : solid \subseteq p[1]..p[2]}
             e     == CHOOSE p \in ends : TRUE
  <1>1. TrimSpace(s) = IF ends = {} THEN <<>> ELSE SubSeq(s, e[1], e[2])
    BY Zenon DEF TrimSpace
  <1>2. ASSUME ends # {} PROVE e[1] \in 1..Len(s) /\ e[2] \in 1..Len(s)
    <2>1. e \in ends
      BY <1>2, Zenon
    <2>2. e \in solid \X solid
      BY <2>1, Zenon
    <2>3. solid \subseteq 1..Len(s)
      <3>1. DOMAIN s = 1..Len(s)
        OBVIOUS
      <3> QED BY <3>1, Zenon
    <2> HIDE DEF e, solid
    <2> QED BY <2>2, <2>3
  <1> HIDE DEF ends, e
  <1> QED BY <1>1, <1>2

\* The two sides of a character of a text.
LEMMA SidesSeq ==
    ASSUME NEW s \in Seq(Chars), NEW i \in 1..Len(s)
    PROVE  /\ Before(s, i) \in Seq(Chars) /\ Len(Before(s, i)) = i - 1
           /\ DOMAIN Before(s, i) = 1..(i - 1) /\ DOMAIN After(s, i) = 1..(Len(s) - i)
           /\ \A j \in 1..(i - 1) : Before(s, i)[j] = s[j]
           /\ After(s, i) \in Seq(Chars) /\ Len(After(s, i)) = Len(s) - i
           /\ \A j \in 1..(Len(s) - i) : After(s, i)[j] = s[i + j]
  BY DEF Before, After

LEMMA PlacesIn ==
    ASSUME NEW s \in Seq(Chars), NEW m, NEW i \in Places(s, m)
    PROVE  i \in 1..Len(s) /\ s[i] = m
  BY DEF Places

LEMMA EmptyIsShort ==
    ASSUME NEW s \in Seq(Chars)
    PROVE  Len(s) \in Nat /\ (s = <<>> <=> Len(s) = 0)
  OBVIOUS

LEMMA MarksAre == {"@", ".", " ", "<", ">"} = Marks
  BY DEF Marks

\* Normalising changes nothing but case.
LEMMA NormalizeKeepsLower ==
    ASSUME NEW s \in Seq(Chars), NEW a \in NormalizeAcceptable(s)
    PROVE  a \in Seq(Chars) /\ Lower(a) = Lower(s) /\ Acceptable(s)
  <1>1. PICK i \in Places(s, "@") :
            Acceptable(s) /\ a = Before(s, i) \o <<"@">> \o Lower(After(s, i))
    BY DEF NormalizeAcceptable
  <1>2. i \in 1..Len(s) /\ s[i] = "@"
    BY DEF Places
  <1> DEFINE l == Before(s, i)  d == Lower(After(s, i))
  <1>3. /\ l \in Seq(Chars) /\ Len(l) = i - 1 /\ \A j \in 1..(i - 1) : l[j] = s[j]
        /\ d \in Seq(Chars) /\ Len(d) = Len(s) - i
        /\ \A j \in 1..(Len(s) - i) : d[j] = Small[s[i + j]]
    <2>1. /\ l \in Seq(Chars) /\ Len(l) = i - 1 /\ \A j \in 1..(i - 1) : l[j] = s[j]
          /\ After(s, i) \in Seq(Chars) /\ Len(After(s, i)) = Len(s) - i
          /\ \A j \in 1..(Len(s) - i) : After(s, i)[j] = s[i + j]
      BY <1>2, SidesSeq
    <2>2. /\ d \in Seq(Chars) /\ Len(d) = Len(After(s, i))
          /\ \A j \in 1..Len(After(s, i)) : d[j] = Small[After(s, i)[j]]
      BY <2>1, LowerSeq
    <2> HIDE DEF l, d
    <2> QED BY <2>1, <2>2
  <1>4. "@" \in Chars /\ <<"@">> \in Seq(Chars) /\ Len(<<"@">>) = 1 /\ <<"@">>[1] = "@"
    <2>1. "@" \in Chars
      BY EmailAssumption DEF Marks
    <2> QED BY <2>1
  <1> HIDE DEF l, d
  <1>5. /\ a \in Seq(Chars) /\ Len(a) = Len(s)
        /\ \A j \in 1..Len(s) : a[j] = IF j < i THEN s[j] ELSE
                                         IF j = i THEN "@" ELSE Small[s[j]]
    <2>1. a = (l \o <<"@">>) \o d
      BY <1>1 DEF l, d
    <2>2. /\ l \o <<"@">> \in Seq(Chars) /\ Len(l \o <<"@">>) = i
          /\ \A j \in 1..i : (l \o <<"@">>)[j] = IF j < i THEN s[j] ELSE "@"
      BY <1>2, <1>3, <1>4
    <2> DEFINE h == l \o <<"@">>
    <2> HIDE DEF h
    <2>3. /\ h \in Seq(Chars) /\ Len(h) = i
          /\ \A j \in 1..i : h[j] = IF j < i THEN s[j] ELSE "@"
      BY <2>2 DEF h
    <2>4. h \o d \in Seq(Chars) /\ Len(h \o d) = Len(s)
      <3>1. h \in Seq(Chars) /\ d \in Seq(Chars)
        BY <1>3, <2>3
      <3>2. h \o d \in Seq(Chars) /\ Len(h \o d) = Len(h) + Len(d)
        BY <3>1, ConcatProperties, Zenon
      <3>3. Len(h) = i /\ Len(d) = Len(s) - i /\ i \in Nat /\ Len(s) \in Nat
        BY <1>2, <1>3, <2>3
      <3>4. Len(h) + Len(d) = Len(s)
        BY <3>3
      <3> QED BY <3>2, <3>4, Zenon
    <2>5. \A j \in 1..(Len(h) + Len(d)) : (h \o d)[j] = IF j <= Len(h) THEN h[j] ELSE d[j - Len(h)]
      <3>1. h \in Seq(Chars) /\ d \in Seq(Chars)
        BY <1>3, <2>3
      <3> QED BY <3>1
    <2>6. \A j \in 1..Len(s) : j > i => d[j - i] = Small[s[j]]
      <3> TAKE j \in 1..Len(s)
      <3> HAVE j > i
      <3>1. j - i \in 1..(Len(s) - i) /\ i + (j - i) = j
        BY <1>2
      <3> QED BY <1>3, <3>1
    <2>7. Len(h) = i /\ Len(d) = Len(s) - i /\ i \in Nat /\ Len(s) \in Nat
      BY <1>2, <1>3, <2>3
    <2>8. \A j \in 1..Len(s) : (h \o d)[j] = IF j <= i THEN h[j] ELSE Small[s[j]]
      BY <2>5, <2>6, <2>7
    <2>9. ASSUME NEW j \in 1..Len(s), j <= i PROVE h[j] = IF j < i THEN s[j] ELSE "@"
      BY <2>3, <2>7, <2>9
    <2>10. a = h \o d
      BY <2>1 DEF h
    <2> HIDE DEF d
    <2> QED BY <2>4, <2>7, <2>8, <2>9, <2>10
  <1>6. \A j \in 1..Len(s) : Small[a[j]] = Small[s[j]]
    <2> TAKE j \in 1..Len(s)
    <2>1. s[j] \in Chars
      OBVIOUS
    <2>2. Small[Small[s[j]]] = Small[s[j]]
      BY <2>1, EmailAssumption
    <2>3. a[j] = s[j] \/ a[j] = Small[s[j]]
      <3>1. CASE j = i
        BY <3>1, <1>2, <1>5
      <3> QED BY <3>1, <1>2, <1>5
    <2> QED BY <2>2, <2>3
  <1>7. Lower(a) = Lower(s)
    BY <1>5, <1>6 DEF Lower
  <1> QED BY <1>1, <1>5, <1>7

-----------------------------------------------------------------------------
\* Texts that differ in case only.

LEMMA AlikePlaces ==
    ASSUME NEW s \in Seq(Chars), NEW t \in Seq(Chars), Lower(s) = Lower(t)
    PROVE  /\ Len(s) = Len(t)
           /\ \A i \in 1..Len(s) : Small[s[i]] = Small[t[i]]
           /\ \A i \in 1..Len(s), m \in Marks : s[i] = m <=> t[i] = m
           /\ \A m \in Marks : Places(s, m) = Places(t, m)
  <1>1. Len(s) = Len(t) /\ \A i \in 1..Len(s) : Small[s[i]] = Small[t[i]]
    <2>1. Len(s) = Len(t)
      BY LowerSeq
    <2>2. \A i \in 1..Len(s) : Lower(s)[i] = Small[s[i]] /\ Lower(t)[i] = Small[t[i]]
      BY <2>1, LowerSeq
    <2> QED BY <2>1, <2>2
  <1>2. ASSUME NEW i \in 1..Len(s), NEW m \in Marks
        PROVE  s[i] = m <=> t[i] = m
    <2>1. s[i] \in Chars /\ t[i] \in Chars
      BY <1>1
    <2> QED BY <1>1, <2>1, EmailAssumption
  <1>3. ASSUME NEW m \in Marks PROVE Places(s, m) = Places(t, m)
    <2>1. DOMAIN s = 1..Len(s) /\ DOMAIN t = 1..Len(s)
      BY <1>1
    <2> QED BY <1>2, <2>1 DEF Places
  <1> QED BY <1>1, <1>2, <1>3

LEMMA AlikeSides ==
    ASSUME NEW s \in Seq(Chars), NEW t \in Seq(Chars), Lower(s) = Lower(t),
           NEW i \in 1..Len(s)
    PROVE  Lower(Before(s, i)) = Lower(Before(t, i)) /\ Lower(After(s, i)) = Lower(After(t, i))
  <1>1. i \in 1..Len(t) /\ Len(s) = Len(t) /\ \A j \in 1..Len(s) : Small[s[j]] = Small[t[j]]
    BY AlikePlaces
  <1>2. /\ DOMAIN Before(s, i) = 1..(i - 1) /\ DOMAIN After(s, i) = 1..(Len(s) - i)
        /\ \A j \in 1..(i - 1) : Before(s, i)[j] = s[j]
        /\ \A j \in 1..(Len(s) - i) : After(s, i)[j] = s[i + j]
    BY SidesSeq
  <1>3. /\ DOMAIN Before(t, i) = 1..(i - 1) /\ DOMAIN After(t, i) = 1..(Len(s) - i)
        /\ \A j \in 1..(i - 1) : Before(t, i)[j] = t[j]
        /\ \A j \in 1..(Len(s) - i) : After(t, i)[j] = t[i + j]
    <2>1. /\ DOMAIN Before(t, i) = 1..(i - 1) /\ DOMAIN After(t, i) = 1..(Len(t) - i)
          /\ \A j \in 1..(i - 1) : Before(t, i)[j] = t[j]
          /\ \A j \in 1..(Len(t) - i) : After(t, i)[j] = t[i + j]
      BY <1>1, SidesSeq
    <2> QED BY <1>1, <2>1
  <1>4. \A j \in 1..(i - 1) : Small[Before(s, i)[j]] = Small[Before(t, i)[j]]
    <2> TAKE j \in 1..(i - 1)
    <2>1. j \in 1..Len(s)
      OBVIOUS
    <2> QED BY <1>1, <1>2, <1>3, <2>1
  <1>5. \A j \in 1..(Len(s) - i) : Small[After(s, i)[j]] = Small[After(t, i)[j]]
    <2> TAKE j \in 1..(Len(s) - i)
    <2>1. i + j \in 1..Len(s)
      OBVIOUS
    <2> QED BY <1>1, <1>2, <1>3, <2>1
  <1> QED BY <1>2, <1>3, <1>4, <1>5 DEF Lower

LEMMA AlikeDotAtom ==
    ASSUME NEW s \in Seq(Chars), NEW t \in Seq(Chars), Lower(s) = Lower(t), DotAtom(s)
    PROVE  DotAtom(t)
  <1>1. Len(s) = Len(t) /\ \A m \in Marks : Places(s, m) = Places(t, m)
    BY AlikePlaces
  <1>2. t # <<>> /\ \A c \in {" ", "@", "<", ">"} : Places(t, c) = {}
    <2>1. s # <<>> /\ \A c \in {" ", "@", "<", ">"} : Places(s, c) = {}
      BY DEF DotAtom
    <2>2. t # <<>>
      BY <1>1, <2>1, EmptyIsShort
    <2>3. \A c \in {" ", "@", "<", ">"} : c \in Marks
      BY DEF Marks
    <2> QED BY <1>1, <2>1, <2>2, <2>3, Zenon
  <1>3. ASSUME NEW i \in Places(t, ".") PROVE i \notin {1, Len(t)} /\ t[i + 1] # "."
    <2>1. i \in Places(s, ".")
      BY <1>1 DEF Marks
    <2>2. i \in 1..Len(s) /\ i \notin {1, Len(s)} /\ s[i + 1] # "."
      <3>1. i \notin {1, Len(s)} /\ s[i + 1] # "."
        BY <2>1, Zenon DEF DotAtom
      <3> QED BY <2>1, <3>1, PlacesIn
    <2>3. i + 1 \in 1..Len(s)
      BY <2>2
    <2>4. t[i + 1] # "."
      BY <2>2, <2>3, AlikePlaces DEF Marks
    <2> QED BY <1>1, <2>2, <2>4
  <1> QED BY <1>2, <1>3 DEF DotAtom

\* Only a bare address is read as itself.
LEMMA ParseBare ==
    ASSUME NEW s \in Seq(Chars)
    PROVE  ParseAddress(s) = {s} <=> AddrSpec(s)
  <1>1. ASSUME ParseAddress(s) = {s} PROVE AddrSpec(s)
    BY <1>1 DEF ParseAddress
  <1>2. ASSUME AddrSpec(s) PROVE Places(s, "<") = {}
    <2>1. PICK i \in Places(s, "@") : DotAtom(Before(s, i)) /\ DotAtom(After(s, i))
      BY <1>2 DEF AddrSpec
    <2>2. i \in 1..Len(s) /\ s[i] = "@"
      BY <2>1 DEF Places
    <2>3. SUFFICES ASSUME NEW j \in 1..Len(s), s[j] = "<" PROVE FALSE
      BY DEF Places
    <2>4. CASE j < i
      <3>1. j \in 1..(i - 1) /\ Before(s, i)[j] = "<" /\ DOMAIN Before(s, i) = 1..(i - 1)
        <4>1. j \in 1..(i - 1)
          BY <2>2, <2>4
        <4> QED BY <2>2, <2>3, <4>1, SidesSeq
      <3>2. Places(Before(s, i), "<") = {}
        BY <2>1, Zenon DEF DotAtom
      <3> QED BY <3>1, <3>2 DEF Places
    <2>5. CASE j > i
      <3>1. j - i \in 1..(Len(s) - i) /\ i + (j - i) = j
        BY <2>2, <2>5
      <3> DEFINE w == After(s, i)  m == j - i
      <3>2. DOMAIN w = 1..(Len(s) - i) /\ \A n \in 1..(Len(s) - i) : w[n] = s[i + n]
        BY <2>2, SidesSeq
      <3>3. Places(w, "<") = {}
        BY <2>1, Zenon DEF DotAtom
      <3> HIDE DEF w, m
      <3>4. m \in DOMAIN w /\ w[m] = "<"
        BY <2>3, <3>1, <3>2 DEF m
      <3> QED BY <3>3, <3>4 DEF Places
    <2> QED BY <2>2, <2>3, <2>4, <2>5
  <1>3. ASSUME AddrSpec(s) PROVE ParseAddress(s) = {s}
    BY <1>2, <1>3 DEF ParseAddress
  <1> QED BY <1>1, <1>3

LEMMA AlikeAcceptable ==
    ASSUME NEW s \in Seq(Chars), NEW t \in Seq(Chars), Lower(s) = Lower(t), Acceptable(s)
    PROVE  Acceptable(t)
  <1>1. /\ Len(s) = Len(t) /\ \A m \in Marks : Places(s, m) = Places(t, m)
        /\ \A m \in Marks, i \in 1..Len(s) : s[i] = m <=> t[i] = m
    BY AlikePlaces
  <1>2. AddrSpec(s)
    BY ParseBare DEF Acceptable
  <1>3. AddrSpec(t)
    <2>1. PICK i \in Places(s, "@") : DotAtom(Before(s, i)) /\ DotAtom(After(s, i))
      BY <1>2 DEF AddrSpec
    <2>2. i \in Places(t, "@") /\ i \in 1..Len(s) /\ i \in 1..Len(t)
      <3>1. i \in Places(t, "@")
        BY <1>1, <2>1, MarksAre, Zenon
      <3> QED BY <2>1, <3>1, PlacesIn
    <2>3. DotAtom(Before(t, i)) /\ DotAtom(After(t, i))
      BY <2>1, <2>2, AlikeSides, AlikeDotAtom, SidesSeq
    <2> QED BY <2>2, <2>3 DEF AddrSpec
  <1>4. ParseAddress(t) = {t}
    BY <1>3, ParseBare
  <1>5. t # <<>> /\ Len(t) <= MaxEmailLen /\ Cardinality(Places(t, "@")) = 1
    <2>1. s # <<>> /\ Len(s) <= MaxEmailLen /\ Cardinality(Places(s, "@")) = 1
      BY DEF Acceptable
    <2>2. Places(t, "@") = Places(s, "@")
      BY <1>1, MarksAre, Zenon
    <2> QED BY <1>1, <2>1, <2>2, EmptyIsShort
  <1>6. ASSUME NEW i \in Places(t, "@")
        PROVE  LET domain == After(t, i)
               IN  /\ Before(t, i) # <<>> /\ domain # <<>>
                   /\ domain[1] # "." /\ domain[Len(domain)] # "."
                   /\ Places(domain, ".") # {}
    <2>1. i \in Places(s, "@") /\ i \in 1..Len(s) /\ i \in 1..Len(t)
      <3>1. i \in Places(s, "@")
        BY <1>1, <1>6, MarksAre, Zenon
      <3> QED BY <1>6, <3>1, PlacesIn
    <2> DEFINE d == After(s, i)  e == After(t, i)
    <2>2. /\ Before(s, i) # <<>> /\ d # <<>> /\ d[1] # "." /\ d[Len(d)] # "."
          /\ Places(d, ".") # {}
      BY <2>1 DEF Acceptable
    <2>3. /\ d \in Seq(Chars) /\ e \in Seq(Chars) /\ Lower(d) = Lower(e)
          /\ Before(s, i) \in Seq(Chars) /\ Before(t, i) \in Seq(Chars)
          /\ Len(Before(s, i)) = i - 1 /\ Len(Before(t, i)) = i - 1
      BY <2>1, AlikeSides, SidesSeq
    <2> HIDE DEF d, e
    <2>4. Len(d) = Len(e) /\ Len(d) \in Nat /\ Len(d) # 0
      BY <2>2, <2>3, AlikePlaces
    <2>5. 1 \in 1..Len(d) /\ Len(d) \in 1..Len(d)
      BY <2>4
    <2>6. e[1] # "." /\ e[Len(e)] # "." /\ Places(e, ".") # {}
      <3>1. /\ \A j \in 1..Len(d), m \in Marks : d[j] = m <=> e[j] = m
            /\ \A m \in Marks : Places(d, m) = Places(e, m)
        BY <2>3, AlikePlaces
      <3>2. (d[1] = "." <=> e[1] = ".") /\ (d[Len(d)] = "." <=> e[Len(d)] = ".")
        BY <2>5, <3>1, MarksAre, Zenon
      <3>3. Places(d, ".") = Places(e, ".")
        BY <3>1, MarksAre, Zenon
      <3> QED BY <2>2, <2>4, <3>2, <3>3
    <2>7. Before(t, i) # <<>> /\ e # <<>>
      BY <2>2, <2>3, <2>4
    <2> QED BY <2>6, <2>7 DEF e
  <1> QED BY <1>4, <1>5, <1>6 DEF Acceptable
-----------------------------------------------------------------------------
\* Keys and addresses of the texts that are sent.

LEMMA TextsRead ==
    ASSUME NEW x \in Texts
    PROVE  /\ TrimSpace(x) \in Seq(Chars)
           /\ Read[x] = NormalizeAcceptable(TrimSpace(x))
           /\ KeyOf[x] = Lower(TrimSpace(x))
           /\ InboxOf[x] = {Lower(a) : a \in Read[x]}
  BY TrimSeq, LimitAssumption DEF Read, KeyOf, InboxOf, Normalize, Key

\* The key of an accepted text is the lower case of its address.
LEMMA KeyIsAddress ==
    ASSUME NEW x \in Texts, NEW a \in Read[x]
    PROVE  Lower(a) = KeyOf[x]
  BY TextsRead, NormalizeKeepsLower

\* A text with the key of an accepted text is accepted.
LEMMA SameKeyAccepted ==
    ASSUME NEW x \in Texts, NEW y \in Texts, KeyOf[x] = KeyOf[y], Read[x] # {}
    PROVE  Read[y] # {}
  <1> DEFINE s == TrimSpace(x)  t == TrimSpace(y)
  <1>1. /\ s \in Seq(Chars) /\ t \in Seq(Chars) /\ Lower(s) = Lower(t)
        /\ Read[x] = NormalizeAcceptable(s) /\ Read[y] = NormalizeAcceptable(t)
    BY TextsRead
  <1> HIDE DEF s, t
  <1>2. Acceptable(s)
    BY <1>1 DEF NormalizeAcceptable
  <1>3. Acceptable(t)
    BY <1>1, <1>2, AlikeAcceptable
  <1>4. AddrSpec(t)
    BY <1>1, <1>3, ParseBare DEF Acceptable
  <1>5. PICK i \in Places(t, "@") : TRUE
    BY <1>4 DEF AddrSpec
  <1>6. Before(t, i) \o <<"@">> \o Lower(After(t, i)) \in NormalizeAcceptable(t)
    BY <1>3, <1>5, Zenon DEF NormalizeAcceptable
  <1> QED BY <1>1, <1>6, Zenon

\* So an address is in a text's inboxes when it is the text's key.
LEMMA InboxIsKey ==
    /\ \A x \in Texts, b \in Inboxes : b \in InboxOf[x] <=> b = KeyOf[x]
    /\ \A x \in Texts : InboxOf[x] \subseteq Inboxes
    /\ Inboxes \subseteq {KeyOf[x] : x \in Texts}
    /\ \A a \in Addresses : Lower(a) \in Inboxes /\ \E x \in Texts : a \in Read[x]
  <1>1. ASSUME NEW b \in Inboxes
        PROVE  \E y \in Texts : Read[y] # {} /\ b = KeyOf[y]
    <2>1. PICK a \in Addresses : b = Lower(a)
      BY DEF Inboxes
    <2>2. PICK y \in Texts : a \in Read[y]
      BY <2>1 DEF Addresses
    <2> QED BY <2>1, <2>2, KeyIsAddress
  <1>2. ASSUME NEW x \in Texts, NEW b \in Inboxes
        PROVE  b \in InboxOf[x] <=> b = KeyOf[x]
    <2>1. ASSUME b \in InboxOf[x] PROVE b = KeyOf[x]
      BY <2>1, TextsRead, KeyIsAddress
    <2>2. ASSUME b = KeyOf[x] PROVE b \in InboxOf[x]
      <3>1. Read[x] # {}
        BY <1>1, <2>2, SameKeyAccepted
      <3>2. PICK a \in Read[x] : TRUE
        BY <3>1
      <3> QED BY <2>2, <3>2, TextsRead, KeyIsAddress
    <2> QED BY <2>1, <2>2
  <1>3. ASSUME NEW x \in Texts PROVE InboxOf[x] \subseteq Inboxes
    BY TextsRead DEF Inboxes, Addresses
  <1>4. ASSUME NEW a \in Addresses PROVE Lower(a) \in Inboxes /\ \E x \in Texts : a \in Read[x]
    BY DEF Inboxes, Addresses
  <1> QED BY <1>1, <1>2, <1>3, <1>4

-----------------------------------------------------------------------------
(***************************************************************************)
(* The bucket of an address has lost a token for every request about it.   *)
(***************************************************************************)
Asked == FieldRoutes \X Inboxes

LimitInv ==
    /\ spent \in [Keys -> Nat] /\ \A k \in Keys : spent[k] <= Limit[k[1]] + refilled[k]
    /\ refilled \in [Keys -> Nat] /\ \A k \in Keys : refilled[k] <= Refills[k[1]]
    /\ asked \in [Asked -> Nat] /\ \A q \in Asked : asked[q] = spent[q]
    /\ refused \subseteq Asked /\ \A q \in refused : asked[q] >= Limit[q[1]]

LEMMA AskedHasKey == Asked \subseteq Keys
  BY InboxIsKey DEF Asked, Keys

LEMMA PoliciesAre ==
    /\ \A r \in FieldRoutes \cup UserRoutes :
         Limit[r] \in Nat /\ Refills[r] \in Nat /\ Most(r) \in Nat
    /\ \A k \in Keys : k[1] \in FieldRoutes \cup UserRoutes
  <1>1. \A r \in FieldRoutes \cup UserRoutes :
          Limit[r] \in Nat /\ Refills[r] \in Nat /\ Most(r) = Limit[r] + Refills[r]
    BY LimitAssumption DEF Most
  <1> QED BY <1>1 DEF Keys

\* The Count of a bucket and what it regained is all it gives.
LEMMA SpentAtMost ==
    ASSUME LimitInv, NEW k \in Keys
    PROVE  spent[k] \in Nat /\ spent[k] <= Most(k[1]) /\ Most(k[1]) \in Nat
  <1>1. Limit[k[1]] \in Nat /\ Refills[k[1]] \in Nat /\ Most(k[1]) = Limit[k[1]] + Refills[k[1]]
    BY PoliciesAre DEF Most
  <1> QED BY <1>1 DEF LimitInv

LEMMA LimitInit == Init => LimitInv
  <1>1. \A k \in Keys : Limit[k[1]] \in Nat /\ Refills[k[1]] \in Nat
    BY PoliciesAre
  <1> QED BY <1>1, AskedHasKey DEF Init, LimitInv, Asked

LEMMA LimitByFieldKeeps ==
    ASSUME LimitInv, NEW route \in FieldRoutes, NEW x \in Texts, LimitByField(route, x)
    PROVE  LimitInv'
  <1> DEFINE key == <<route, KeyOf[x]>>
  <1>1. key \in Keys /\ spent[key] < Limit[key[1]] + refilled[key] /\ Limit[key[1]] \in Nat
    <2>1. key \in Keys
      BY DEF Keys
    <2> QED BY <2>1, PoliciesAre DEF LimitByField, Allowed
  <1>2. spent' = [spent EXCEPT ![key] = spent[key] + 1] /\ refilled' = refilled /\ refused' = {}
    BY DEF LimitByField, Spend
  <1>3. asked' = [q \in Asked |-> asked[q] +
                     IF q[1] = route /\ q[2] \in InboxOf[x] THEN 1 ELSE 0]
    BY DEF LimitByField, LimitInv
  <1>4. ASSUME NEW q \in Asked
        PROVE  (q[1] = route /\ q[2] \in InboxOf[x]) <=> q = key
    BY InboxIsKey DEF Asked
  <1> HIDE DEF key
  <1>5. spent' \in [Keys -> Nat] /\ \A k \in Keys : spent'[k] <= Limit[k[1]] + refilled[k]
    BY <1>1, <1>2 DEF LimitInv
  <1>6. asked' \in [Asked -> Nat] /\ \A q \in Asked : asked'[q] = spent'[q]
    BY <1>1, <1>2, <1>3, <1>4, AskedHasKey DEF LimitInv
  <1> QED BY <1>2, <1>5, <1>6 DEF LimitInv

LEMMA LimitByUserKeeps ==
    ASSUME LimitInv, NEW route \in UserRoutes, NEW i \in Ids, LimitByUser(route, i)
    PROVE  LimitInv'
  <1> DEFINE key == <<route, <<i>>>>
  <1>1. key \in Keys /\ spent[key] < Limit[key[1]] + refilled[key] /\ Limit[key[1]] \in Nat
    <2>1. key \in Keys
      BY DEF Keys
    <2> QED BY <2>1, PoliciesAre DEF LimitByUser, Allowed
  <1>2. /\ spent' = [spent EXCEPT ![key] = spent[key] + 1] /\ refilled' = refilled
        /\ refused' = {} /\ asked' = asked
    BY DEF LimitByUser, Spend
  <1>3. ASSUME NEW q \in Asked PROVE q # key
    <2>1. q[1] \in FieldRoutes /\ key[1] = route
      BY DEF Asked
    <2>2. FieldRoutes \cap UserRoutes = {}
      BY DEF FieldRoutes, UserRoutes
    <2> QED BY <2>1, <2>2
  <1> HIDE DEF key
  <1>4. spent' \in [Keys -> Nat] /\ \A k \in Keys : spent'[k] <= Limit[k[1]] + refilled[k]
    BY <1>1, <1>2 DEF LimitInv
  <1> QED BY <1>2, <1>3, <1>4, AskedHasKey DEF LimitInv

LEMMA TooManyKeeps ==
    ASSUME LimitInv, NEW route \in FieldRoutes, NEW x \in Texts, TooManyRequests(route, x)
    PROVE  LimitInv'
  <1>1. UNCHANGED <<spent, refilled, asked>> /\ refused' = {route} \X InboxOf[x]
    BY DEF TooManyRequests
  <1>2. refused' \subseteq Asked
    BY <1>1, InboxIsKey DEF Asked
  <1>3. ASSUME NEW q \in refused' PROVE asked[q] >= Limit[q[1]]
    <2>1. q = <<route, KeyOf[x]>> /\ q \in Asked /\ q \in Keys
      BY <1>1, <1>2, InboxIsKey, AskedHasKey DEF Asked
    <2>2. ~(spent[q] < Limit[q[1]] + refilled[q]) /\ Limit[q[1]] \in Nat
      BY <2>1, PoliciesAre DEF TooManyRequests, Allowed
    <2>3. spent[q] \in Nat /\ refilled[q] \in Nat /\ asked[q] = spent[q]
      BY <2>1 DEF LimitInv
    <2> QED BY <2>2, <2>3
  <1> QED BY <1>1, <1>2, <1>3 DEF LimitInv

LEMMA RefillKeeps ==
    ASSUME LimitInv, NEW key \in Keys, Refill(key)
    PROVE  LimitInv'
  <1>1. /\ UNCHANGED <<spent, asked>> /\ refused' = {}
        /\ refilled[key] < Refills[key[1]] /\ refilled' = [refilled EXCEPT ![key] = refilled[key] + 1]
    BY DEF Refill
  <1>2. \A k \in Keys : Limit[k[1]] \in Nat /\ Refills[k[1]] \in Nat
    BY PoliciesAre
  <1>3. refilled' \in [Keys -> Nat] /\ \A k \in Keys : refilled'[k] <= Refills[k[1]]
    BY <1>1, <1>2 DEF LimitInv
  <1>4. \A k \in Keys : spent[k] <= Limit[k[1]] + refilled'[k]
    BY <1>1, <1>2 DEF LimitInv
  <1> QED BY <1>1, <1>3, <1>4 DEF LimitInv

\* One user per address.
UserInv ==
    /\ users \in Seq(Addresses) /\ Len(users) <= MaxUsers
    /\ pending \subseteq [user : 1..Len(users), new : Addresses]
    /\ \A i, j \in 1..Len(users) : SameAddress(users[i], users[j]) => i = j

LEMMA LimitStep == UserInv /\ LimitInv /\ [Next]_vars => LimitInv'
  <1> SUFFICES ASSUME UserInv, LimitInv, [Next]_vars PROVE LimitInv'
    OBVIOUS
  <1>1. ASSUME NEW x \in Texts, LogIn(x) PROVE LimitInv'
    BY <1>1, LimitByFieldKeeps DEF LogIn, FieldRoutes
  <1>2. ASSUME NEW x \in Texts, Forgot(x) PROVE LimitInv'
    BY <1>2, LimitByFieldKeeps DEF Forgot, FieldRoutes
  <1>3. ASSUME NEW x \in Texts, NEW route \in FieldRoutes, TooManyRequests(route, x)
        PROVE  LimitInv'
    BY <1>3, TooManyKeeps
  <1>4. DOMAIN users \subseteq Ids
    BY LimitAssumption DEF UserInv, Ids
  <1>5. ASSUME NEW i \in DOMAIN users, Reauthenticate(i) PROVE LimitInv'
    BY <1>4, <1>5, LimitByUserKeeps DEF Reauthenticate, UserRoutes
  <1>6. ASSUME NEW i \in DOMAIN users, NEW x \in Texts, AskEmail(i, x) PROVE LimitInv'
    BY <1>4, <1>6, LimitByUserKeeps DEF AskEmail, UserRoutes
  <1>7. ASSUME UNCHANGED <<spent, refilled, asked>>, refused' = {} \/ refused' = refused
        PROVE  LimitInv'
    BY <1>7 DEF LimitInv
  <1>8. ASSUME NEW x \in Texts, SignUp(x) PROVE LimitInv'
    BY <1>7, <1>8 DEF SignUp
  <1>9. ASSUME NEW p \in pending, ConfirmEmail(p) PROVE LimitInv'
    BY <1>7, <1>9 DEF ConfirmEmail
  <1>10. CASE UNCHANGED vars
    BY <1>7, <1>10 DEF vars
  <1>11. ASSUME NEW k \in Keys, Refill(k) PROVE LimitInv'
    BY <1>11, RefillKeeps
  <1> QED BY <1>1, <1>2, <1>3, <1>5, <1>6, <1>8, <1>9, <1>10, <1>11 DEF Next

LEMMA UserStep == UserInv /\ [Next]_vars => UserInv'
  <1> SUFFICES ASSUME UserInv, [Next]_vars PROVE UserInv'
    OBVIOUS
  <1>1. ASSUME UNCHANGED users, pending' \subseteq pending PROVE UserInv'
    BY <1>1 DEF UserInv
  <1>2. ASSUME NEW x \in Texts, SignUp(x) PROVE UserInv'
    <2>1. PICK a \in Read[x] : Found(a) = {} /\ users' = Append(users, a)
      BY <1>2 DEF SignUp
    <2>2. a \in Addresses /\ Len(users) < MaxUsers /\ pending' = pending
      BY <1>2, <2>1 DEF SignUp, Addresses
    <2>3. /\ users \in Seq(Addresses) /\ users' \in Seq(Addresses)
          /\ Len(users) \in Nat /\ Len(users') = Len(users) + 1
          /\ \A i \in 1..Len(users') : users'[i] = IF i <= Len(users) THEN users[i] ELSE a
      BY <2>1, <2>2 DEF UserInv
    <2>4. ASSUME NEW i \in 1..Len(users) PROVE ~SameAddress(users[i], a)
      BY <2>1, <2>3 DEF Found
    <2>5. \A i, j \in 1..Len(users') : SameAddress(users'[i], users'[j]) => i = j
      BY <2>3, <2>4 DEF UserInv, SameAddress
    <2>6. Len(users') <= MaxUsers
      BY <2>2, <2>3, LimitAssumption
    <2>7. 1..Len(users) \subseteq 1..Len(users')
      BY <2>3
    <2> QED BY <2>2, <2>3, <2>5, <2>6, <2>7 DEF UserInv
  <1>3. ASSUME NEW i \in DOMAIN users, NEW x \in Texts, AskEmail(i, x) PROVE UserInv'
    <2>1. users' = users
      BY <1>3 DEF AskEmail
    <2>2. CASE pending' = pending
      BY <1>1, <2>1, <2>2
    <2>3. CASE \E a \in Read[x] : pending' = pending \cup {[user |-> i, new |-> a]}
      <3>1. PICK a \in Read[x] : pending' = pending \cup {[user |-> i, new |-> a]}
        BY <2>3
      <3>2. a \in Addresses /\ i \in 1..Len(users)
        BY <3>1 DEF Addresses, UserInv
      <3> QED BY <2>1, <3>1, <3>2 DEF UserInv
    <2> QED BY <1>3, <2>2, <2>3 DEF AskEmail
  <1>4. ASSUME NEW p \in pending, ConfirmEmail(p) PROVE UserInv'
    <2>1. p.user \in 1..Len(users) /\ p.new \in Addresses
      BY DEF UserInv
    <2>2. /\ users' = [users EXCEPT ![p.user] = p.new] /\ pending' \subseteq pending
          /\ Found(p.new) \ {p.user} = {}
      BY <1>4 DEF ConfirmEmail
    <2>3. /\ users \in Seq(Addresses) /\ users' \in Seq(Addresses) /\ Len(users') = Len(users)
          /\ \A j \in 1..Len(users) : users'[j] = IF j = p.user THEN p.new ELSE users[j]
      BY <2>1, <2>2 DEF UserInv
    <2>4. ASSUME NEW j \in 1..Len(users), j # p.user PROVE ~SameAddress(users[j], p.new)
      <3>1. j \in DOMAIN users
        BY <2>3
      <3> QED BY <2>2, <2>4, <3>1 DEF Found
    <2>5. \A j, k \in 1..Len(users) : SameAddress(users'[j], users'[k]) => j = k
      BY <2>3, <2>4 DEF UserInv, SameAddress
    <2> QED BY <2>2, <2>3, <2>5 DEF UserInv
  <1>5. ASSUME NEW x \in Texts, LogIn(x) PROVE UserInv'
    BY <1>1, <1>5 DEF LogIn
  <1>6. ASSUME NEW x \in Texts, Forgot(x) PROVE UserInv'
    BY <1>1, <1>6 DEF Forgot
  <1>7. ASSUME NEW x \in Texts, NEW route \in FieldRoutes, TooManyRequests(route, x)
        PROVE  UserInv'
    BY <1>1, <1>7 DEF TooManyRequests
  <1>8. ASSUME NEW i \in DOMAIN users, Reauthenticate(i) PROVE UserInv'
    BY <1>1, <1>8 DEF Reauthenticate
  <1>9. CASE UNCHANGED vars
    BY <1>1, <1>9 DEF vars
  <1>10. ASSUME NEW k \in Keys, Refill(k) PROVE UserInv'
    BY <1>1, <1>10 DEF Refill
  <1> QED BY <1>2, <1>3, <1>4, <1>5, <1>6, <1>7, <1>8, <1>9, <1>10 DEF Next

\* Addresses and buckets of every reachable state, for any texts and policies.
THEOREM AlwaysLimitInv == Spec => [](UserInv /\ LimitInv)
  <1>1. Init => UserInv
    BY LimitAssumption DEF Init, UserInv
  <1> QED BY <1>1, LimitInit, LimitStep, UserStep, PTL DEF Spec

\* limitByField: no spelling of an address gets past the Count of its bucket and what
\* refills of it.
THEOREM TriesPerAddressHolds == Spec => []TriesPerAddress
  <1>1. LimitInv => TriesPerAddress
    <2> SUFFICES ASSUME LimitInv, NEW q \in DOMAIN asked PROVE asked[q] <= Most(q[1])
      BY DEF TriesPerAddress
    <2>1. q \in Asked /\ q \in Keys
      BY AskedHasKey DEF LimitInv
    <2> QED BY <2>1, SpentAtMost DEF LimitInv
  <1> QED BY <1>1, AlwaysLimitInv, PTL

\* limitByField: requests about other addresses cannot exhaust a bucket.
THEOREM RefusalsEarnedHolds == Spec => []RefusalsEarned
  <1>1. LimitInv => RefusalsEarned
    BY DEF LimitInv, RefusalsEarned
  <1> QED BY <1>1, AlwaysLimitInv, PTL

\* A text that spends the bucket of an account's address is read as that address
\* by normalizeAndValidateEmail and finds the one account by CITEXT equality.
THEOREM SpellingsReachAccountHolds == Spec => []SpellingsReachAccount
  <1>1. UserInv => SpellingsReachAccount
    <2> SUFFICES ASSUME UserInv, NEW i \in DOMAIN users, NEW x \in Texts,
                        KeyOf[x] = Lower(users[i])
                 PROVE  \E a \in Read[x] : Found(a) = {i}
      BY DEF SpellingsReachAccount
    <2>1. i \in 1..Len(users) /\ users[i] \in Addresses /\ DOMAIN users = 1..Len(users)
      BY DEF UserInv
    <2>2. PICK y \in Texts : users[i] \in Read[y]
      BY <2>1, InboxIsKey
    <2>3. Read[x] # {}
      BY <2>2, KeyIsAddress, SameKeyAccepted
    <2>4. PICK a \in Read[x] : TRUE
      BY <2>3
    <2>5. Lower(a) = Lower(users[i])
      BY <2>4, KeyIsAddress
    <2>6. Found(a) = {i}
      BY <2>1, <2>5 DEF Found, SameAddress, UserInv
    <2> QED BY <2>4, <2>6
  <1> QED BY <1>1, AlwaysLimitInv, PTL
-----------------------------------------------------------------------------
(***************************************************************************)
(* Sums over addresses and accounts, as sizes of sets of numbered tokens.  *)
(***************************************************************************)

\* The addresses an account has had are finitely many and include its own.
HistInv ==
    /\ tries \in [Ids -> Nat] /\ mailed \in [Inboxes -> Nat]
    /\ held \in [Ids -> SUBSET Inboxes] /\ \A i \in Ids : IsFiniteSet(held[i])
    /\ \A i \in Ids : i > Len(users) => held[i] = {}
    /\ \A i \in 1..Len(users) : Lower(users[i]) \in held[i]

LEMMA InitHistInv == Init => HistInv
  <1> SUFFICES ASSUME Init PROVE HistInv
    OBVIOUS
  <1>1. IsFiniteSet({})
    BY FS_EmptySet
  <1>2. Len(users) = 0
    BY DEF Init
  <1> QED BY <1>1, <1>2 DEF Init, HistInv

LEMMA UsersAreIds == UserInv => DOMAIN users = 1..Len(users) /\ 1..Len(users) \subseteq Ids
  BY LimitAssumption DEF UserInv, Ids

\* A step that gives no account an address.
LEMMA HistUnmoved ==
    ASSUME HistInv, UNCHANGED <<users, held>>, tries' \in [Ids -> Nat],
           mailed' \in [Inboxes -> Nat]
    PROVE  HistInv'
  BY DEF HistInv

\* Passwords are verified one at a time, mails are sent at most two.
LEMMA VerifiedTypes ==
    ASSUME HistInv, NEW ids, Verified(ids)
    PROVE  tries' \in [Ids -> Nat]
           /\ \A i \in Ids : tries'[i] = tries[i] + IF i \in ids THEN 1 ELSE 0
  BY DEF HistInv, Verified

LEMMA MailTypes ==
    ASSUME HistInv, NEW boxes, Mail(boxes)
    PROVE  mailed' \in [Inboxes -> Nat]
           /\ \A a \in Inboxes : mailed'[a] = mailed[a] + IF a \in boxes THEN 1 ELSE 0
  BY DEF HistInv, Mail

\* A link to a free address and a warning to the account's own are for two inboxes.
LEMMA AskEmailMails ==
    ASSUME HistInv, UserInv, NEW i \in DOMAIN users, NEW x \in Texts, AskEmail(i, x)
    PROVE  /\ mailed' \in [Inboxes -> Nat]
           /\ \A b \in Inboxes : mailed'[b] <= mailed[b] + 1
  <1>1. CASE mailed' = mailed
    BY <1>1 DEF HistInv
  <1>2. CASE \E a \in Read[x] :
               /\ a # users[i] /\ ~InUse(i, a)
               /\ mailed' = [b \in Inboxes |-> mailed[b] +
                               Cardinality({n \in {1, 2} : b = Lower(<<a, users[i]>>[n])})]
    <2>1. PICK a \in Read[x] :
               /\ ~InUse(i, a)
               /\ mailed' = [b \in Inboxes |-> mailed[b] +
                               Cardinality({n \in {1, 2} : b = Lower(<<a, users[i]>>[n])})]
      BY <1>2
    <2>2. Lower(users[i]) # Lower(a)
      BY <2>1 DEF InUse, Found, SameAddress
    <2> DEFINE hits(b) == {n \in {1, 2} : b = Lower(<<a, users[i]>>[n])}
    <2>3. ASSUME NEW b \in Inboxes PROVE Cardinality(hits(b)) \in {0, 1}
      <3>1. <<a, users[i]>>[1] = a /\ <<a, users[i]>>[2] = users[i]
        OBVIOUS
      <3>2. hits(b) = {} \/ hits(b) = {1} \/ hits(b) = {2}
        BY <2>2, <3>1
      <3> QED BY <3>2, FS_EmptySet, FS_Singleton
    <2>4. mailed' = [b \in Inboxes |-> mailed[b] + Cardinality(hits(b))]
      BY <2>1
    <2> DEFINE count(b) == Cardinality(hits(b))
    <2>5. /\ \A b \in Inboxes : count(b) = 0 \/ count(b) = 1
          /\ mailed' = [b \in Inboxes |-> mailed[b] + count(b)]
      BY <2>3, <2>4
    <2> HIDE DEF count
    <2>6. ASSUME NEW b \in Inboxes
          PROVE  mailed'[b] \in Nat /\ mailed'[b] <= mailed[b] + 1
      <3>1. mailed[b] \in Nat
        BY DEF HistInv
      <3>2. mailed'[b] = mailed[b] + count(b)
        BY <2>5
      <3>3. count(b) = 0 \/ count(b) = 1
        BY <2>5
      <3> QED BY <3>1, <3>2, <3>3
    <2>7. DOMAIN mailed' = Inboxes /\ mailed' = [b \in Inboxes |-> mailed'[b]]
      BY <2>5
    <2> QED BY <2>6, <2>7
  <1> QED BY <1>1, <1>2 DEF AskEmail

LEMMA HistStep == UserInv /\ HistInv /\ [Next]_vars => HistInv'
  <1> SUFFICES ASSUME UserInv, HistInv, [Next]_vars PROVE HistInv'
    OBVIOUS
  <1>1. ASSUME NEW x \in Texts, SignUp(x) PROVE HistInv'
    <2>1. PICK a \in Read[x] :
            /\ Len(users) < MaxUsers /\ users' = Append(users, a)
            /\ held' = [held EXCEPT ![Len(users')] = {Lower(a)}]
      BY <1>1 DEF SignUp
    <2> DEFINE new == Len(users')
    <2>2. a \in Addresses /\ Lower(a) \in Inboxes
      BY <2>1, InboxIsKey DEF Addresses
    <2>3. /\ Len(users) \in Nat /\ new = Len(users) + 1 /\ new \in Ids
          /\ users'[new] = a /\ \A i \in 1..Len(users) : users'[i] = users[i]
      BY <2>1, <2>2, LimitAssumption DEF UserInv, Ids
    <2>4. IsFiniteSet({Lower(a)})
      BY FS_Singleton
    <2>5. /\ held'[new] = {Lower(a)} /\ \A i \in Ids : i # new => held'[i] = held[i]
          /\ held' \in [Ids -> SUBSET Inboxes]
      BY <2>1, <2>2, <2>3 DEF HistInv
    <2>6. tries' = tries /\ mailed' = mailed
      BY <1>1 DEF SignUp
    <2> HIDE DEF new
    <2>7. \A i \in Ids : i \in Int
      BY DEF Ids
    <2>8. \A i \in Ids : i > new => i > Len(users) /\ i # new
      BY <2>3, <2>7
    <2>9. \A i \in 1..new : i = new \/ (i \in 1..Len(users) /\ i \in Ids /\ i # new)
      BY <2>3, LimitAssumption DEF Ids
    <2>10. \A i \in Ids : IsFiniteSet(held'[i])
      BY <2>4, <2>5 DEF HistInv
    <2>11. \A i \in Ids : i > new => held'[i] = {}
      BY <2>5, <2>8 DEF HistInv
    <2>12. \A i \in 1..new : Lower(users'[i]) \in held'[i]
      BY <2>3, <2>5, <2>9 DEF HistInv
    <2> QED BY <2>5, <2>6, <2>10, <2>11, <2>12 DEF HistInv, new
  <1>2. ASSUME NEW p \in pending, ConfirmEmail(p) PROVE HistInv'
    <2>1. p.user \in 1..Len(users) /\ p.new \in Addresses /\ p.user \in Ids
      BY UsersAreIds DEF UserInv
    <2>2. Lower(p.new) \in Inboxes
      BY <2>1, InboxIsKey
    <2>3. /\ users' = [users EXCEPT ![p.user] = p.new]
          /\ held' = [held EXCEPT ![p.user] = held[p.user] \cup {Lower(p.new)}]
          /\ tries' = tries /\ mailed' = mailed
      BY <1>2 DEF ConfirmEmail
    <2>4. Len(users') = Len(users)
          /\ \A j \in 1..Len(users) : users'[j] = IF j = p.user THEN p.new ELSE users[j]
      BY <2>1, <2>3 DEF UserInv
    <2>5. IsFiniteSet(held[p.user] \cup {Lower(p.new)})
      BY <2>1, FS_AddElement DEF HistInv
    <2>6. /\ held'[p.user] = held[p.user] \cup {Lower(p.new)}
          /\ \A i \in Ids \ {p.user} : held'[i] = held[i]
          /\ held' \in [Ids -> SUBSET Inboxes]
      BY <2>1, <2>2, <2>3 DEF HistInv
    <2>7. \A i \in Ids : IsFiniteSet(held'[i])
      BY <2>5, <2>6 DEF HistInv
    <2>8. \A i \in Ids : i > Len(users) => held'[i] = {}
      BY <2>1, <2>6 DEF HistInv, UserInv
    <2>9. \A i \in 1..Len(users) : Lower(users'[i]) \in held'[i]
      BY <2>4, <2>6, UsersAreIds DEF HistInv
    <2> QED BY <2>3, <2>4, <2>6, <2>7, <2>8, <2>9 DEF HistInv
  <1>3. ASSUME NEW x \in Texts, LogIn(x) PROVE HistInv'
    BY <1>3, VerifiedTypes, HistUnmoved DEF LogIn, HistInv
  <1>4. ASSUME NEW x \in Texts, Forgot(x) PROVE HistInv'
    BY <1>4, MailTypes, HistUnmoved DEF Forgot, HistInv
  <1>5. ASSUME NEW i \in DOMAIN users, Reauthenticate(i) PROVE HistInv'
    BY <1>5, VerifiedTypes, HistUnmoved DEF Reauthenticate, HistInv
  <1>6. ASSUME NEW i \in DOMAIN users, NEW x \in Texts, AskEmail(i, x) PROVE HistInv'
    <2>1. UNCHANGED <<users, held>> /\ tries' \in [Ids -> Nat]
      BY <1>6, VerifiedTypes DEF AskEmail
    <2> QED BY <1>6, <2>1, AskEmailMails, HistUnmoved
  <1>7. ASSUME NEW x \in Texts, NEW route \in FieldRoutes, TooManyRequests(route, x)
        PROVE  HistInv'
    BY <1>7, HistUnmoved DEF TooManyRequests, HistInv
  <1>8. CASE UNCHANGED vars
    BY <1>8, HistUnmoved DEF vars, HistInv
  <1>9. ASSUME NEW k \in Keys, Refill(k) PROVE HistInv'
    BY <1>9, HistUnmoved DEF Refill, HistInv
  <1> QED BY <1>1, <1>2, <1>3, <1>4, <1>5, <1>6, <1>7, <1>8, <1>9 DEF Next

-----------------------------------------------------------------------------
\* Spent tokens and requests asked are never taken back.
LEMMA NeverTakenBack ==
    ASSUME UserInv, LimitInv, [Next]_vars
    PROVE  /\ \A k \in Keys : spent[k] \in Nat /\ spent'[k] \in Nat /\ spent[k] <= spent'[k]
           /\ \A q \in Asked : asked[q] \in Nat /\ asked'[q] \in Nat /\ asked[q] <= asked'[q]
  <1>1. LimitInv'
    BY LimitStep
  <1>2. UNCHANGED spent \/ \E k \in Keys : spent' = [spent EXCEPT ![k] = spent[k] + 1]
    <2>1. ASSUME NEW route \in FieldRoutes, NEW x \in Texts, LimitByField(route, x)
          PROVE  \E k \in Keys : spent' = [spent EXCEPT ![k] = spent[k] + 1]
      BY <2>1 DEF LimitByField, Spend, Keys
    <2>2. ASSUME NEW route \in UserRoutes, NEW i \in DOMAIN users, LimitByUser(route, i)
          PROVE  \E k \in Keys : spent' = [spent EXCEPT ![k] = spent[k] + 1]
      BY <2>2, UsersAreIds DEF LimitByUser, Spend, Keys
    <2>3. "POST /user/login" \in FieldRoutes /\ "POST /password-reset" \in FieldRoutes
          /\ "PUT /user/password" \in UserRoutes /\ "POST /email-reset" \in UserRoutes
      BY DEF FieldRoutes, UserRoutes
    <2> QED
      BY <2>1, <2>2, <2>3 DEF Next, vars, SignUp, LogIn, Forgot, TooManyRequests,
         Reauthenticate, AskEmail, ConfirmEmail, Refill
  <1>3. \A k \in Keys : spent[k] \in Nat /\ spent'[k] \in Nat /\ spent[k] <= spent'[k]
    BY <1>1, <1>2 DEF LimitInv
  <1>4. \A q \in Asked : asked[q] = spent[q] /\ asked'[q] = spent'[q]
    BY <1>1 DEF LimitInv
  <1> QED BY <1>3, <1>4, AskedHasKey

\* A number of tokens is the size of the set of their numbers.
LEMMA Grows ==
    ASSUME NEW S, NEW T, IsFiniteSet(T), S \subseteq T
    PROVE  /\ IsFiniteSet(S) /\ Cardinality(S) \in Nat /\ Cardinality(T) \in Nat
           /\ Cardinality(S) <= Cardinality(T)
  BY FS_Subset, FS_CardinalityType

LEMMA GrowsByOne ==
    ASSUME NEW S, NEW T, IsFiniteSet(T), S \subseteq T, NEW e \in T, e \notin S
    PROVE  Cardinality(S) + 1 <= Cardinality(T)
  <1>1. IsFiniteSet(S) /\ Cardinality(S) \in Nat
    BY Grows
  <1>2. Cardinality(S \cup {e}) = Cardinality(S) + 1
    BY <1>1, FS_AddElement
  <1>3. Cardinality(S \cup {e}) <= Cardinality(T)
    BY Grows
  <1> QED BY <1>2, <1>3

\* Tokens numbered from 1 for each thing of S, c[a] of the m of a.
Tokens(S, m, c) == {g \in S \X (1..m) : g[2] <= c[g[1]]}

LEMMA TokensFinite ==
    ASSUME NEW S, IsFiniteSet(S), NEW m \in Nat, NEW c
    PROVE  /\ IsFiniteSet(Tokens(S, m, c)) /\ Cardinality(Tokens(S, m, c)) \in Nat
           /\ Cardinality(S) \in Nat /\ Cardinality(Tokens(S, m, c)) <= Cardinality(S) * m
  <1>1. IsFiniteSet(1..m) /\ Cardinality(1..m) = m
    BY FS_Interval
  <1>2. IsFiniteSet(S \X (1..m)) /\ Cardinality(S \X (1..m)) = Cardinality(S) * m
    BY <1>1, FS_Product
  <1>3. Tokens(S, m, c) \subseteq S \X (1..m)
    BY DEF Tokens
  <1> QED BY <1>2, <1>3, Grows, FS_CardinalityType

\* More things and more tokens of each, and one more of a thing that was there.
LEMMA TokensGrow ==
    ASSUME NEW S, NEW T, IsFiniteSet(T), S \subseteq T, NEW m \in Nat, NEW c, NEW d,
           \A a \in S : c[a] \in Nat /\ d[a] \in Nat /\ c[a] <= d[a]
    PROVE  /\ Cardinality(Tokens(S, m, c)) <= Cardinality(Tokens(T, m, d))
           /\ \A a \in S : d[a] = c[a] + 1 /\ d[a] <= m =>
                Cardinality(Tokens(S, m, c)) + 1 <= Cardinality(Tokens(T, m, d))
  <1>1. Tokens(S, m, c) \subseteq Tokens(T, m, d)
    <2> SUFFICES ASSUME NEW a \in S, NEW n \in 1..m, n <= c[a]
                 PROVE  <<a, n>> \in Tokens(T, m, d)
      BY DEF Tokens
    <2>1. n <= d[a]
      OBVIOUS
    <2> QED BY <2>1 DEF Tokens
  <1>2. ASSUME NEW a \in S, d[a] = c[a] + 1, d[a] <= m
        PROVE  <<a, d[a]>> \in Tokens(T, m, d) /\ <<a, d[a]>> \notin Tokens(S, m, c)
    <2>1. d[a] \in 1..m /\ ~(d[a] <= c[a])
      BY <1>2
    <2> QED BY <2>1 DEF Tokens
  <1>3. IsFiniteSet(Tokens(T, m, d))
    BY TokensFinite
  <1> HIDE DEF Tokens
  <1>4. Cardinality(Tokens(S, m, c)) <= Cardinality(Tokens(T, m, d))
    BY <1>1, <1>3, Grows
  <1>5. ASSUME NEW a \in S, d[a] = c[a] + 1, d[a] <= m
        PROVE  Cardinality(Tokens(S, m, c)) + 1 <= Cardinality(Tokens(T, m, d))
    BY <1>1, <1>2, <1>3, <1>5, GrowsByOne
  <1> QED BY <1>4, <1>5

-----------------------------------------------------------------------------
(***************************************************************************)
(* The passwords tried against an account: a login of one of its addresses *)
(* each, or a token of one of its own two buckets.                         *)
(***************************************************************************)
LoginLimit    == Most("POST /user/login")
LoginsAsked   == [a \in Inboxes |-> asked[<<"POST /user/login", a>>]]
Logins(i)     == Tokens(held[i], LoginLimit, LoginsAsked)
ByUser(r, i)  == spent[<<r, <<i>>>>]

GuessInv == \A i \in Ids :
    tries[i] <= Cardinality(Logins(i)) + ByUser("PUT /user/password", i)
                                       + ByUser("POST /email-reset", i)

LEMMA LimitsAre ==
    /\ \A r \in FieldRoutes \cup UserRoutes : Most(r) \in Nat
    /\ LoginLimit \in Nat
    /\ "POST /user/login" \in FieldRoutes /\ "POST /password-reset" \in FieldRoutes
    /\ "PUT /user/password" \in UserRoutes /\ "POST /email-reset" \in UserRoutes
    /\ \A r \in UserRoutes, i \in Ids : <<r, <<i>>>> \in Keys
  BY PoliciesAre DEF FieldRoutes, UserRoutes, LoginLimit, Keys

LEMMA SpentAfter ==
    ASSUME UserInv, LimitInv, [Next]_vars, NEW k \in Keys
    PROVE  spent'[k] <= Most(k[1])
  <1>1. LimitInv'
    BY LimitStep
  <1>2. Limit[k[1]] \in Nat /\ Refills[k[1]] \in Nat /\ Most(k[1]) = Limit[k[1]] + Refills[k[1]]
    BY PoliciesAre DEF Most
  <1> QED BY <1>1, <1>2 DEF LimitInv

LEMMA ByUserGrows ==
    ASSUME UserInv, LimitInv, [Next]_vars, NEW i \in Ids, NEW r \in UserRoutes
    PROVE  /\ ByUser(r, i) \in Nat /\ ByUser(r, i)' \in Nat /\ ByUser(r, i) <= ByUser(r, i)'
           /\ ByUser(r, i) <= Most(r) /\ ByUser(r, i)' <= Most(r)
  <1>1. LimitInv' /\ <<r, <<i>>>> \in Keys
    BY LimitStep, LimitsAre
  <1> DEFINE k == <<r, <<i>>>>
  <1>2. k[1] = r
    OBVIOUS
  <1> HIDE DEF k
  <1>3. k \in Keys /\ ByUser(r, i) = spent[k] /\ ByUser(r, i)' = spent'[k]
    BY <1>1 DEF ByUser, k
  <1>4. spent[k] <= Most(r) /\ spent'[k] <= Most(r)
    BY <1>1, <1>2, <1>3, SpentAtMost, SpentAfter
  <1> QED BY <1>3, <1>4, NeverTakenBack

LEMMA ByUserSpends ==
    ASSUME LimitInv, NEW i \in Ids, NEW r \in UserRoutes, LimitByUser(r, i)
    PROVE  ByUser(r, i)' = ByUser(r, i) + 1
  <1>1. <<r, <<i>>>> \in Keys /\ spent \in [Keys -> Nat]
    BY LimitsAre DEF LimitInv
  <1> QED BY <1>1 DEF LimitByUser, Spend, ByUser

LEMMA AskedOneMore ==
    ASSUME LimitInv, NEW r \in FieldRoutes, NEW x \in Texts, LimitByField(r, x),
           NEW a \in InboxOf[x]
    PROVE  a \in Inboxes /\ asked'[<<r, a>>] = asked[<<r, a>>] + 1
  <1>1. a \in Inboxes /\ <<r, a>> \in Asked
    BY InboxIsKey DEF Asked
  <1>2. asked' = [q \in Asked |->
                     asked[q] + IF q[1] = r /\ q[2] \in InboxOf[x] THEN 1 ELSE 0]
    BY DEF LimitByField, LimitInv
  <1>3. <<r, a>>[1] = r /\ <<r, a>>[2] = a
    OBVIOUS
  <1> QED BY <1>1, <1>2, <1>3

\* What is asked about an address, and how far that may go.
LEMMA AskedNumbers ==
    ASSUME UserInv, LimitInv, [Next]_vars, NEW r \in FieldRoutes, NEW a \in Inboxes
    PROVE  /\ asked[<<r, a>>] \in Nat /\ asked'[<<r, a>>] \in Nat
           /\ asked[<<r, a>>] <= asked'[<<r, a>>] /\ asked'[<<r, a>>] <= Most(r)
           /\ asked[<<r, a>>] <= Most(r)
  <1> DEFINE q == <<r, a>>
  <1>1. q \in Asked /\ q[1] = r
    BY DEF Asked
  <1> HIDE DEF q
  <1>2. q \in Keys /\ LimitInv'
    BY <1>1, AskedHasKey, LimitStep
  <1>3. /\ asked[q] \in Nat /\ asked'[q] \in Nat /\ asked[q] <= asked'[q]
        /\ asked'[q] <= Most(r) /\ asked[q] <= Most(r)
    BY <1>1, <1>2, NeverTakenBack, SpentAtMost, SpentAfter DEF LimitInv
  <1> QED BY <1>3 DEF q

\* An account keeps its addresses and gets new ones.
LEMMA HeldGrows ==
    ASSUME UserInv, HistInv, [Next]_vars, NEW i \in Ids
    PROVE  held[i] \subseteq held'[i]
  <1>1. ASSUME NEW x \in Texts, SignUp(x) PROVE held[i] \subseteq held'[i]
    <2>1. PICK a : held' = [held EXCEPT ![Len(users')] = {Lower(a)}]
                   /\ users' = Append(users, a)
      BY <1>1 DEF SignUp
    <2>2. Len(users') = Len(users) + 1 /\ Len(users) \in Nat
      BY <2>1 DEF UserInv
    <2>3. i = Len(users') => held[i] = {}
      BY <2>2 DEF HistInv
    <2> QED BY <2>1, <2>3 DEF HistInv
  <1>2. ASSUME NEW p \in pending, ConfirmEmail(p) PROVE held[i] \subseteq held'[i]
    BY <1>2 DEF ConfirmEmail, HistInv
  <1> QED BY <1>1, <1>2 DEF Next, vars, LogIn, Forgot, TooManyRequests, Reauthenticate, AskEmail,
                            Refill

LEMMA LoginsGrow ==
    ASSUME UserInv, LimitInv, HistInv, [Next]_vars, NEW i \in Ids
    PROVE  /\ Cardinality(Logins(i)) \in Nat /\ Cardinality(Logins(i)') \in Nat
           /\ Cardinality(Logins(i)) <= Cardinality(Logins(i)')
           /\ \A a \in held[i] :
                asked'[<<"POST /user/login", a>>] = asked[<<"POST /user/login", a>>] + 1 =>
                  Cardinality(Logins(i)) + 1 <= Cardinality(Logins(i)')
  <1>1. HistInv' /\ held[i] \subseteq held'[i] /\ held[i] \subseteq Inboxes
    BY HistStep, HeldGrows DEF HistInv
  <1>2. IsFiniteSet(held[i]) /\ IsFiniteSet(held'[i]) /\ LoginLimit \in Nat
    BY <1>1, LimitsAre DEF HistInv
  <1>3. \A a \in held[i] : /\ LoginsAsked[a] = asked[<<"POST /user/login", a>>]
                           /\ LoginsAsked'[a] = asked'[<<"POST /user/login", a>>]
    BY <1>1 DEF LoginsAsked
  <1>4. \A a \in held[i] : /\ LoginsAsked[a] \in Nat /\ LoginsAsked'[a] \in Nat
                           /\ LoginsAsked[a] <= LoginsAsked'[a] /\ LoginsAsked'[a] <= LoginLimit
    BY <1>1, <1>3, AskedNumbers, LimitsAre DEF LoginLimit
  <1>5. /\ Logins(i) = Tokens(held[i], LoginLimit, LoginsAsked)
        /\ Logins(i)' = Tokens(held'[i], LoginLimit, LoginsAsked')
    BY DEF Logins, Tokens, LoginLimit
  <1>6. Cardinality(Logins(i)) \in Nat /\ Cardinality(Logins(i)') \in Nat
    BY <1>2, <1>5, TokensFinite
  <1>7. /\ Cardinality(Logins(i)) <= Cardinality(Logins(i)')
        /\ \A a \in held[i] : LoginsAsked'[a] = LoginsAsked[a] + 1 /\ LoginsAsked'[a] <= LoginLimit
               => Cardinality(Logins(i)) + 1 <= Cardinality(Logins(i)')
    BY <1>1, <1>2, <1>4, <1>5, TokensGrow
  <1> QED BY <1>3, <1>4, <1>6, <1>7

\* A try at an account is one try, and the account is named.
LEMMA VerifiedMoves ==
    ASSUME HistInv, NEW ids, Verified(ids), NEW i \in Ids, tries'[i] # tries[i]
    PROVE  tries'[i] = tries[i] + 1 /\ i \in ids
  BY VerifiedTypes DEF HistInv

LEMMA GuessStep == UserInv /\ LimitInv /\ HistInv /\ GuessInv /\ [Next]_vars => GuessInv'
  <1> SUFFICES ASSUME UserInv, LimitInv, HistInv, GuessInv, [Next]_vars, NEW i \in Ids
               PROVE  tries'[i] <= Cardinality(Logins(i)') + ByUser("PUT /user/password", i)'
                                                           + ByUser("POST /email-reset", i)'
    BY DEF GuessInv
  <1> DEFINE l == Cardinality(Logins(i))          ln == Cardinality(Logins(i)')
             p == ByUser("PUT /user/password", i) pn == ByUser("PUT /user/password", i)'
             e == ByUser("POST /email-reset", i)  en == ByUser("POST /email-reset", i)'
  <1>1. /\ l \in Nat /\ ln \in Nat /\ l <= ln /\ p \in Nat /\ pn \in Nat /\ p <= pn
        /\ e \in Nat /\ en \in Nat /\ e <= en
        /\ tries[i] \in Nat /\ tries[i] <= l + p + e
    BY LoginsGrow, ByUserGrows, LimitsAre DEF HistInv, GuessInv
  <1>2. ASSUME NEW x \in Texts, LogIn(x), tries'[i] # tries[i]
        PROVE  tries'[i] = tries[i] + 1 /\ l + 1 <= ln
    <2>1. Verified(UNION {Found(a) : a \in Read[x]}) /\ LimitByField("POST /user/login", x)
      BY <1>2 DEF LogIn
    <2> DEFINE ids == UNION {Found(a) : a \in Read[x]}
    <2>2. tries'[i] = tries[i] + 1 /\ i \in ids
      <3>1. Verified(ids)
        BY <2>1
      <3> HIDE DEF ids
      <3> QED BY <1>2, <3>1, VerifiedMoves
    <2>3. PICK a \in Read[x] : i \in Found(a)
      BY <2>2
    <2>4. Lower(a) \in InboxOf[x] /\ Lower(users[i]) = Lower(a) /\ i \in 1..Len(users)
      BY <2>3, TextsRead DEF Found, SameAddress, UserInv
    <2>5. Lower(a) \in held[i]
      BY <2>4 DEF HistInv
    <2>6. asked'[<<"POST /user/login", Lower(a)>>] = asked[<<"POST /user/login", Lower(a)>>] + 1
      BY <2>1, <2>4, AskedOneMore, LimitsAre
    <2> QED BY <2>2, <2>5, <2>6, LoginsGrow
  <1>3. ASSUME NEW j \in DOMAIN users, Reauthenticate(j), tries'[i] # tries[i]
        PROVE  tries'[i] = tries[i] + 1 /\ pn = p + 1
    <2>1. Verified({j}) /\ LimitByUser("PUT /user/password", j)
      BY <1>3 DEF Reauthenticate
    <2> DEFINE ids == {j}
    <2>2. tries'[i] = tries[i] + 1 /\ i \in ids
      <3>1. Verified(ids)
        BY <2>1
      <3> HIDE DEF ids
      <3> QED BY <1>3, <3>1, VerifiedMoves
    <2> QED BY <2>1, <2>2, ByUserSpends, LimitsAre
  <1>4. ASSUME NEW j \in DOMAIN users, NEW x \in Texts, AskEmail(j, x), tries'[i] # tries[i]
        PROVE  tries'[i] = tries[i] + 1 /\ en = e + 1
    <2>1. Verified(IF Read[x] = {} THEN {} ELSE {j}) /\ LimitByUser("POST /email-reset", j)
      BY <1>4 DEF AskEmail
    <2> DEFINE ids == IF Read[x] = {} THEN {} ELSE {j}
    <2>2. tries'[i] = tries[i] + 1 /\ i \in ids
      <3>1. Verified(ids)
        BY <2>1
      <3> HIDE DEF ids
      <3> QED BY <1>4, <3>1, VerifiedMoves
    <2> QED BY <2>1, <2>2, ByUserSpends, LimitsAre
  <1>5. \/ tries'[i] = tries[i]
        \/ tries'[i] = tries[i] + 1 /\ (l + 1 <= ln \/ pn = p + 1 \/ en = e + 1)
    BY <1>2, <1>3, <1>4 DEF Next, vars, SignUp, Forgot, TooManyRequests, ConfirmEmail, Refill
  <1>6. tries'[i] <= ln + pn + en
    <2> HIDE DEF l, ln, p, pn, e, en
    <2> QED BY <1>1, <1>5
  <1> QED BY <1>6

\* What the handlers of login, password change and email change together bound: the
\* passwords tried against one account, whatever spellings and addresses it has had.
THEOREM GuessesPerAccountHolds == Spec => []GuessesPerAccount
  <1>1. Init => GuessInv
    <2> SUFFICES ASSUME Init, NEW i \in Ids
                 PROVE  tries[i] <= Cardinality(Logins(i)) + ByUser("PUT /user/password", i)
                                                           + ByUser("POST /email-reset", i)
      BY DEF GuessInv
    <2>1. IsFiniteSet(held[i])
      BY InitHistInv DEF HistInv
    <2>2. Cardinality(Logins(i)) \in Nat
      BY <2>1, TokensFinite, LimitsAre DEF Logins
    <2>3. /\ ByUser("PUT /user/password", i) = 0 /\ ByUser("POST /email-reset", i) = 0
          /\ tries[i] = 0
      BY LimitsAre DEF Init, ByUser
    <2> DEFINE l == Cardinality(Logins(i))
    <2>4. l \in Nat => 0 <= l + 0 + 0
      <3> HIDE DEF l
      <3> QED OBVIOUS
    <2> QED BY <2>2, <2>3, <2>4
  <1>2. UserInv /\ LimitInv /\ HistInv /\ GuessInv => GuessesPerAccount
    <2> SUFFICES ASSUME UserInv, LimitInv, HistInv, GuessInv, NEW i \in Ids
                 PROVE  tries[i] <= LoginLimit * Cardinality(held[i])
                                    + Most("PUT /user/password") + Most("POST /email-reset")
      BY DEF GuessesPerAccount, LoginLimit
    <2>1. /\ Cardinality(Logins(i)) \in Nat /\ Cardinality(held[i]) \in Nat
          /\ Cardinality(Logins(i)) <= Cardinality(held[i]) * LoginLimit
      BY TokensFinite, LimitsAre DEF HistInv, Logins
    <2>2. ASSUME NEW r \in UserRoutes PROVE ByUser(r, i) \in Nat /\ ByUser(r, i) <= Most(r)
      <3> DEFINE k == <<r, <<i>>>>
      <3>1. k \in Keys /\ k[1] = r
        BY LimitsAre
      <3> HIDE DEF k
      <3>2. spent[k] \in Nat /\ spent[k] <= Most(r)
        BY <3>1, SpentAtMost
      <3> QED BY <3>2 DEF k, ByUser
    <2> DEFINE l == Cardinality(Logins(i))  h == Cardinality(held[i])  m == LoginLimit
               p == ByUser("PUT /user/password", i)  e == ByUser("POST /email-reset", i)
               pl == Most("PUT /user/password")     el == Most("POST /email-reset")
    <2>3. /\ p \in Nat /\ e \in Nat /\ p <= pl /\ e <= el /\ pl \in Nat /\ el \in Nat
          /\ m \in Nat /\ tries[i] \in Nat /\ tries[i] <= l + p + e
      BY <2>2, LimitsAre DEF HistInv, GuessInv
    <2>4. tries[i] <= m * h + pl + el
      <3>1. l \in Nat /\ h \in Nat /\ l <= h * m
        BY <2>1
      <3> HIDE DEF l, h, m, p, e, pl, el
      <3>2. h * m = m * h /\ m * h \in Nat
        BY <2>3, <3>1
      <3> QED BY <2>3, <3>1, <3>2
    <2> QED BY <2>4
  <1> QED BY <1>1, <1>2, AlwaysLimitInv, InitHistInv, HistStep, GuessStep, PTL DEF Spec

-----------------------------------------------------------------------------
(***************************************************************************)
(* The mails of an inbox: a password reset asked for its address each, or a*)
(* token of the bucket that counts an account's email changes.             *)
(***************************************************************************)
ChangeLimit  == Most("POST /email-reset")
ChangesAsked == [i \in Ids |-> ByUser("POST /email-reset", i)]
Changes      == Tokens(1..Len(users), ChangeLimit, ChangesAsked)
Resets(a)    == asked[<<"POST /password-reset", a>>]

MailInv == \A a \in Inboxes : mailed[a] <= Resets(a) + Cardinality(Changes)

LEMMA UsersGrow ==
    ASSUME UserInv, [Next]_vars
    PROVE  Len(users) \in Nat /\ Len(users') \in Nat /\ 1..Len(users) \subseteq 1..Len(users')
  <1>1. /\ users \in Seq(Addresses) /\ users' \in Seq(Addresses)
        /\ pending \subseteq [user : 1..Len(users), new : Addresses]
    BY UserStep DEF UserInv
  <1>2. \/ users' = users \/ \E a : users' = Append(users, a)
        \/ \E p \in pending : users' = [users EXCEPT ![p.user] = p.new]
    BY DEF Next, vars, SignUp, LogIn, Forgot, TooManyRequests, Reauthenticate, AskEmail,
           ConfirmEmail, Refill
  <1>3. Len(users) <= Len(users')
    BY <1>1, <1>2
  <1> QED BY <1>1, <1>3

LEMMA FirstNumbers ==
    ASSUME NEW n \in Nat
    PROVE  IsFiniteSet(1..n) /\ Cardinality(1..n) = n
  BY FS_Interval

LEMMA MailMoves ==
    ASSUME HistInv, NEW boxes, Mail(boxes), NEW a \in Inboxes, mailed'[a] # mailed[a]
    PROVE  mailed'[a] = mailed[a] + 1 /\ a \in boxes
  BY MailTypes DEF HistInv

LEMMA ChangesGrow ==
    ASSUME UserInv, LimitInv, [Next]_vars
    PROVE  /\ Cardinality(Changes) \in Nat /\ Cardinality(Changes') \in Nat
           /\ Cardinality(Changes) <= Cardinality(Changes')
           /\ \A i \in 1..Len(users) :
                ByUser("POST /email-reset", i)' = ByUser("POST /email-reset", i) + 1 =>
                  Cardinality(Changes) + 1 <= Cardinality(Changes')
  <1> DEFINE S == 1..Len(users)  T == 1..Len(users')
  <1>1. S \subseteq T /\ IsFiniteSet(S) /\ IsFiniteSet(T) /\ ChangeLimit \in Nat /\ S \subseteq Ids
    <2>1. \A n \in Nat : IsFiniteSet(1..n)
      BY FS_Interval
    <2> QED BY <2>1, UsersGrow, UsersAreIds, LimitsAre DEF ChangeLimit
  <1>2. \A i \in S : /\ ChangesAsked[i] = ByUser("POST /email-reset", i)
                     /\ ChangesAsked'[i] = ByUser("POST /email-reset", i)'
    BY <1>1 DEF ChangesAsked
  <1>3. \A i \in S : /\ ChangesAsked[i] \in Nat /\ ChangesAsked'[i] \in Nat
                     /\ ChangesAsked[i] <= ChangesAsked'[i] /\ ChangesAsked'[i] <= ChangeLimit
    BY <1>1, <1>2, ByUserGrows, LimitsAre DEF ChangeLimit
  <1>4. /\ Changes = Tokens(S, ChangeLimit, ChangesAsked)
        /\ Changes' = Tokens(T, ChangeLimit, ChangesAsked')
    BY DEF Changes, Tokens, ChangeLimit
  <1> HIDE DEF S, T
  <1>5. Cardinality(Changes) \in Nat /\ Cardinality(Changes') \in Nat
    BY <1>1, <1>4, TokensFinite
  <1>6. /\ Cardinality(Changes) <= Cardinality(Changes')
        /\ \A i \in S : ChangesAsked'[i] = ChangesAsked[i] + 1 /\ ChangesAsked'[i] <= ChangeLimit
               => Cardinality(Changes) + 1 <= Cardinality(Changes')
    BY <1>1, <1>3, <1>4, TokensGrow
  <1> QED BY <1>2, <1>3, <1>5, <1>6 DEF S

LEMMA MailStep == UserInv /\ LimitInv /\ HistInv /\ MailInv /\ [Next]_vars => MailInv'
  <1> SUFFICES ASSUME UserInv, LimitInv, HistInv, MailInv, [Next]_vars, NEW a \in Inboxes
               PROVE  mailed'[a] <= Resets(a)' + Cardinality(Changes')
    BY DEF MailInv
  <1> DEFINE r == Resets(a)             rn == Resets(a)'
             c == Cardinality(Changes)  cn == Cardinality(Changes')
  <1>1. /\ r \in Nat /\ rn \in Nat /\ r <= rn /\ c \in Nat /\ cn \in Nat /\ c <= cn
        /\ mailed[a] \in Nat /\ mailed[a] <= r + c
    BY AskedNumbers, ChangesGrow, LimitsAre DEF HistInv, MailInv, Resets
  <1>2. HistInv'
    BY HistStep
  <1>3. ASSUME NEW x \in Texts, Forgot(x), mailed'[a] # mailed[a]
        PROVE  mailed'[a] = mailed[a] + 1 /\ rn = r + 1
    <2> DEFINE boxes == {Lower(b) : b \in {n \in Read[x] : Found(n) # {}}}
    <2>1. Mail(boxes) /\ LimitByField("POST /password-reset", x)
      BY <1>3 DEF Forgot
    <2>2. boxes \subseteq InboxOf[x]
      BY TextsRead
    <2> HIDE DEF boxes
    <2>3. mailed'[a] = mailed[a] + 1 /\ a \in boxes
      BY <1>1, <1>3, <2>1, MailMoves
    <2> QED BY <2>1, <2>2, <2>3, AskedOneMore, LimitsAre DEF Resets
  <1>4. ASSUME NEW j \in DOMAIN users, NEW x \in Texts, AskEmail(j, x)
        PROVE  mailed'[a] <= mailed[a] + 1 /\ c + 1 <= cn
    <2>1. LimitByUser("POST /email-reset", j) /\ j \in 1..Len(users) /\ j \in Ids
      BY <1>4, UsersAreIds DEF AskEmail
    <2>2. ByUser("POST /email-reset", j)' = ByUser("POST /email-reset", j) + 1
      BY <2>1, ByUserSpends, LimitsAre
    <2> QED BY <1>4, <2>1, <2>2, AskEmailMails, ChangesGrow
  <1>5. \/ mailed'[a] = mailed[a]
        \/ mailed'[a] <= mailed[a] + 1 /\ (rn = r + 1 \/ c + 1 <= cn)
    <2>1. mailed[a] + 1 <= mailed[a] + 1
      BY <1>1
    <2> QED BY <1>3, <1>4, <2>1
        DEF Next, vars, SignUp, LogIn, Reauthenticate, TooManyRequests, ConfirmEmail, Refill
  <1>6. mailed'[a] <= rn + cn
    <2>1. mailed'[a] \in Nat
      BY <1>2 DEF HistInv
    <2> HIDE DEF r, rn, c, cn
    <2> QED BY <1>1, <1>5, <2>1
  <1> QED BY <1>6

\* What POST /password-reset and POST /email-reset together can put in one inbox: the
\* links asked for its address, and one mail for each change its askers may ask.
THEOREM MailsPerInboxHolds == Spec => []MailsPerInbox
  <1>1. Init => MailInv
    <2> SUFFICES ASSUME Init, NEW a \in Inboxes
                 PROVE  mailed[a] <= Resets(a) + Cardinality(Changes)
      BY DEF MailInv
    <2>1. <<"POST /password-reset", a>> \in FieldRoutes \X Inboxes
      BY LimitsAre
    <2>2. mailed[a] = 0 /\ Resets(a) = 0 /\ Len(users) = 0
      BY <2>1 DEF Init, Resets
    <2>3. IsFiniteSet(1..Len(users))
      BY <2>2, FS_Interval
    <2> DEFINE c == Cardinality(Changes)
    <2>4. c \in Nat
      BY <2>3, TokensFinite, LimitsAre DEF Changes, ChangeLimit
    <2>5. 0 <= 0 + c
      <3> HIDE DEF c
      <3> QED BY <2>4
    <2> QED BY <2>2, <2>5
  <1>2. UserInv /\ LimitInv /\ HistInv /\ MailInv => MailsPerInbox
    <2> SUFFICES ASSUME UserInv, LimitInv, HistInv, MailInv, NEW a \in Inboxes
                 PROVE  mailed[a] <= Most("POST /password-reset") + Len(users) * ChangeLimit
      BY DEF MailsPerInbox, ChangeLimit
    <2> DEFINE q == <<"POST /password-reset", a>>
               c == Cardinality(Changes)  n == Len(users)  m == ChangeLimit
               pl == Most("POST /password-reset")
    <2>1. q \in Asked /\ q[1] = "POST /password-reset" /\ Resets(a) = asked[q]
      BY LimitsAre DEF Asked, Resets
    <2>2. IsFiniteSet(1..n) /\ Cardinality(1..n) = n /\ n \in Nat /\ m \in Nat /\ pl \in Nat
      <3>1. n \in Nat
        BY DEF UserInv
      <3>2. m \in Nat /\ pl \in Nat
        BY LimitsAre DEF ChangeLimit
      <3>3. IsFiniteSet(1..n) /\ Cardinality(1..n) = n
        BY <3>1, FirstNumbers
      <3> QED BY <3>1, <3>2, <3>3
    <2>3. c \in Nat /\ c <= n * m
      BY <2>2, TokensFinite DEF Changes
    <2> HIDE DEF q
    <2>4. Resets(a) \in Nat /\ Resets(a) <= pl
      BY <2>1, AskedHasKey, SpentAtMost DEF LimitInv
    <2>5. mailed[a] \in Nat /\ mailed[a] <= Resets(a) + c
      BY DEF HistInv, MailInv
    <2>6. mailed[a] <= pl + n * m
      <3> DEFINE r == Resets(a)  nm == n * m
      <3>1. nm \in Nat
        <4>1. n \in Nat /\ m \in Nat
          BY <2>2
        <4> HIDE DEF n, m
        <4> QED BY <4>1
      <3> HIDE DEF r, c, pl, nm
      <3> QED BY <2>2, <2>3, <2>4, <2>5, <3>1 DEF r, nm
    <2> QED BY <2>6
  <1> QED BY <1>1, <1>2, AlwaysLimitInv, InitHistInv, HistStep, MailStep, PTL DEF Spec

\* Accounts, requests, buckets and histories keep their types, whatever is typed.
THEOREM LimitsTypeCorrect == Spec => []TypeOK
  <1>1. UserInv /\ LimitInv /\ HistInv => TypeOK
    <2> SUFFICES ASSUME UserInv, LimitInv, HistInv PROVE TypeOK
      OBVIOUS
    <2>1. \A k \in Keys : spent[k] \in 0..Most(k[1]) /\ refilled[k] \in 0..Refills[k[1]]
      <3> SUFFICES ASSUME NEW k \in Keys
                   PROVE  spent[k] \in 0..Most(k[1]) /\ refilled[k] \in 0..Refills[k[1]]
        OBVIOUS
      <3>1. /\ Refills[k[1]] \in Nat /\ Most(k[1]) \in Nat
            /\ spent[k] \in Nat /\ spent[k] <= Most(k[1])
            /\ refilled[k] \in Nat /\ refilled[k] <= Refills[k[1]]
        BY PoliciesAre, SpentAtMost DEF LimitInv
      <3> QED BY <3>1
    <2> QED BY <2>1 DEF TypeOK, UserInv, LimitInv, HistInv, Asked
  <1> QED BY <1>1, AlwaysLimitInv, InitHistInv, HistStep, PTL DEF Spec
=============================================================================
