------------------------------- MODULE JidProofs -------------------------------
(* Parsing and printing agree, and the bare form keeps the parts, for Jids of *)
(* any length and for every alphabet.                                       *)
EXTENDS Jid, Integers, FiniteSetTheorems, WellFoundedInduction, TLAPS

Words == Seq(Characters)
Has(s, c) == c \in ToSet(s)

(* What a Jid is made of, and of a parsed one, that its parts are without the *)
(* separators that end them.                                                *)
Valid(j) ==
  /\ j \in [local : Words, domain : Words, resource : Words]
  /\ j.domain = <<>> => j = Malformed
  /\ Lowered(j.local) /\ Lowered(j.domain)
  /\ \A part \in {"local", "domain", "resource"} :
       Trimmed(j[part]) /\ CodePoints(j[part]) <= MaxPart
Separated(j) == ~Has(j.local, "@") /\ ~Has(j.local, "/") /\ ~Has(j.domain, "/")
JidInv == parsed \in BOOLEAN /\ Valid(jid) /\ (parsed => Separated(jid))

-----------------------------------------------------------------------------
(* The first and the last of some positions.                                *)

LEMMA LeastExists ==
  ASSUME NEW S \in SUBSET Nat, S # {}
  PROVE  \E i \in S : \A j \in S : i <= j
<1>1. \E x \in S : \A y \in S : ~(<<y, x>> \in OpToRel(<, Nat))
  BY NatLessThanWellFounded, WFMin, Zenon
<1>2. PICK x \in S : \A y \in S : ~(<<y, x>> \in OpToRel(<, Nat))
  BY <1>1, Zenon
<1>3. \A y \in S : ~(y < x)
  BY <1>2, Zenon DEF OpToRel
<1> QED
  BY <1>3

LEMMA MinIsLeast ==
  ASSUME NEW S \in SUBSET Nat, S # {}
  PROVE  Min(S) \in S /\ \A j \in S : Min(S) <= j
BY LeastExists DEF Min

LEMMA MaxIsGreatest ==
  ASSUME NEW n \in Nat, NEW S \in SUBSET (1 .. n), S # {}
  PROVE  Max(S) \in S /\ \A j \in S : j <= Max(S)
<1> DEFINE FromEnd == {n - i : i \in S}
<1>1. FromEnd \in SUBSET Nat /\ FromEnd # {}
  <2>1. ASSUME NEW i \in S PROVE n - i \in Nat
    <3>1. i \in 1 .. n
      BY <2>1
    <3> QED
      BY <3>1
  <2>2. PICK i \in S : TRUE
    OBVIOUS
  <2>3. n - i \in FromEnd
    OBVIOUS
  <2> QED
    BY <2>1, <2>3
<1>2. PICK x \in FromEnd : \A y \in FromEnd : x <= y
  <2> HIDE DEF FromEnd
  <2> QED
    BY <1>1, LeastExists
<1>3. PICK i \in S : x = n - i
  BY <1>2
<1>4. ASSUME NEW j \in S PROVE i >= j
  <2>1. n - j \in FromEnd
    BY <1>4
  <2>2. n - i <= n - j
    BY <1>2, <1>3, <2>1
  <2> QED
    BY <2>2
<1>5. \E x1 \in S : \A y \in S : x1 >= y
  BY <1>4
<1>6. Max(S) \in S /\ \A j \in S : Max(S) >= j
  BY <1>5 DEF Max
<1> QED
  BY <1>6

-----------------------------------------------------------------------------
(* Words: their equality, their parts and their elements.                   *)

LEMMA WordsEqual ==
  ASSUME NEW s \in Words, NEW t \in Words, Len(s) = Len(t), \A i \in 1 .. Len(s) : s[i] = t[i]
  PROVE  s = t
BY DEF Words

LEMMA WordFacts ==
  ASSUME NEW s \in Words
  PROVE  /\ Len(s) \in Nat /\ DOMAIN s = 1 .. Len(s)
         /\ \A i \in 1 .. Len(s) : s[i] \in Characters
         /\ s = <<>> <=> Len(s) = 0
         /\ <<>> \in Words
BY DEF Words

LEMMA Within ==
  ASSUME NEW n \in Nat, NEW a \in 1 .. n, NEW b \in 1 .. n, a <= b
  PROVE  /\ a \in Nat \ {0} /\ b \in Nat /\ b <= n /\ a <= b + 1
         /\ b + 1 - a \in Nat \ {0} /\ 1 \in 1 .. b + 1 - a /\ b + 1 - a \in 1 .. b + 1 - a
         /\ a .. b \subseteq 1 .. n /\ a + 1 - 1 = a /\ a + (b + 1 - a) - 1 = b
OBVIOUS

LEMMA PartOfWord ==
  ASSUME NEW s \in Words, NEW a \in Nat \ {0}, NEW b \in Nat, b <= Len(s), a <= b + 1
  PROVE  /\ SubSeq(s, a, b) \in Words /\ Len(SubSeq(s, a, b)) = b + 1 - a
         /\ \A i \in 1 .. b + 1 - a : SubSeq(s, a, b)[i] = s[a + i - 1]
BY DEF Words

LEMMA PartHasLess ==
  ASSUME NEW s \in Words, NEW a \in Nat \ {0}, NEW b \in Nat, b <= Len(s), a <= b + 1, NEW c
  PROVE  Has(SubSeq(s, a, b), c) <=> \E i \in a .. b : s[i] = c
<1> DEFINE t == SubSeq(s, a, b)
<1>1. /\ t \in Words /\ Len(t) = b + 1 - a /\ DOMAIN t = 1 .. b + 1 - a
      /\ \A i \in 1 .. b + 1 - a : t[i] = s[a + i - 1]
  BY PartOfWord, WordFacts
<1> HIDE DEF t
<1>2. ASSUME Has(t, c) PROVE \E i \in a .. b : s[i] = c
  <2>1. PICK i \in 1 .. b + 1 - a : t[i] = c
    BY <1>1, <1>2 DEF Has, ToSet
  <2>2. a + i - 1 \in a .. b /\ s[a + i - 1] = c
    BY <1>1, <2>1
  <2> QED
    BY <2>2
<1>3. ASSUME NEW i \in a .. b, s[i] = c PROVE Has(t, c)
  <2>1. i - a + 1 \in 1 .. b + 1 - a /\ a + (i - a + 1) - 1 = i
    OBVIOUS
  <2>2. t[i - a + 1] = c
    BY <1>1, <1>3, <2>1
  <2> QED
    BY <1>1, <2>1, <2>2 DEF Has, ToSet
<1> QED
  BY <1>2, <1>3 DEF t

LEMMA HasMeans ==
  ASSUME NEW s \in Words, NEW c
  PROVE  Has(s, c) <=> \E i \in 1 .. Len(s) : s[i] = c
BY WordFacts DEF Has, ToSet

-----------------------------------------------------------------------------
(* trim and toLowerCase.                                                    *)

LEMMA TrimOf ==
  ASSUME NEW s \in Words
  PROVE  /\ Trim(s) \in Words /\ Trimmed(Trim(s))
         /\ \A c : Has(Trim(s), c) => Has(s, c)
<1> DEFINE kept == {i \in DOMAIN s : s[i] # " "}
<1>1. Len(s) \in Nat /\ DOMAIN s = 1 .. Len(s) /\ <<>> \in Words
  BY WordFacts
<1> DEFINE n == Len(s)
<1>2. CASE kept = {}
  <2>1. Trim(s) = <<>>
    BY <1>2 DEF Trim
  <2>2. \A c : ~Has(<<>>, c)
    BY DEF Has, ToSet
  <2> QED
    BY <1>1, <2>1, <2>2 DEF Trimmed
<1>3. CASE kept # {}
  <2> DEFINE a == Min(kept)
             b == Max(kept)
  <2>1. n \in Nat /\ kept \in SUBSET (1 .. n)
    BY <1>1
  <2>2. Trim(s) = SubSeq(s, a, b)
    BY <1>3 DEF Trim
  <2>3. \A i \in kept : s[i] # " "
    OBVIOUS
  <2> HIDE DEF n, kept
  <2>4. kept \in SUBSET Nat
    BY <2>1
  <2>5. a \in kept /\ b \in kept /\ a <= b
    <3>1. a \in kept /\ \A j \in kept : a <= j
      BY <1>3, <2>4, MinIsLeast
    <3>2. b \in kept
      BY <1>3, <2>1, MaxIsGreatest
    <3> QED
      BY <3>1, <3>2
  <2> HIDE DEF a, b
  <2>6. /\ a \in Nat \ {0} /\ b \in Nat /\ b <= n /\ a <= b + 1
        /\ b + 1 - a \in Nat \ {0} /\ 1 \in 1 .. b + 1 - a /\ b + 1 - a \in 1 .. b + 1 - a
        /\ a .. b \subseteq 1 .. n /\ a + 1 - 1 = a /\ a + (b + 1 - a) - 1 = b
    <3>1. n \in Nat
      BY <2>1
    <3>2. a \in 1 .. n /\ b \in 1 .. n
      BY <2>1, <2>5
    <3> QED
      BY <2>5, <3>1, <3>2, Within
  <2>10. s[a] # " " /\ s[b] # " "
    BY <2>3, <2>5
  <2>7. /\ Trim(s) \in Words /\ Len(Trim(s)) = b + 1 - a
        /\ \A i \in 1 .. b + 1 - a : Trim(s)[i] = s[a + i - 1]
    <3>1. b <= Len(s)
      BY <2>6 DEF n
    <3>2. /\ SubSeq(s, a, b) \in Words /\ Len(SubSeq(s, a, b)) = b + 1 - a
          /\ \A i \in 1 .. b + 1 - a : SubSeq(s, a, b)[i] = s[a + i - 1]
      BY <2>6, <3>1, PartOfWord, Zenon
    <3> QED
      BY <2>2, <3>2, Zenon
  <2>8. Trim(s)[1] = s[a] /\ Trim(s)[Len(Trim(s))] = s[b]
    <3>1. Trim(s)[1] = s[a + 1 - 1] /\ Trim(s)[b + 1 - a] = s[a + (b + 1 - a) - 1]
      BY <2>6, <2>7, Zenon
    <3> QED
      BY <2>6, <2>7, <3>1, Zenon
  <2>9. \A c : Has(Trim(s), c) => Has(s, c)
    <3>1. \A c : Has(Trim(s), c) <=> \E i \in a .. b : s[i] = c
      <4>1. b <= Len(s)
        BY <2>6 DEF n
      <4> SUFFICES ASSUME NEW c PROVE Has(SubSeq(s, a, b), c) <=> \E i \in a .. b : s[i] = c
        BY <2>2, Zenon
      <4> QED
        <5>1. a \in Nat \ {0} /\ b \in Nat /\ a <= b + 1
          BY <2>6
        <5> HIDE DEF a, b
        <5> QED
          BY <4>1, <5>1, PartHasLess
    <3>2. \A c : Has(s, c) <=> \E i \in 1 .. n : s[i] = c
      BY HasMeans DEF n
    <3> QED
      BY <2>6, <3>1, <3>2, Zenon
  <2> QED
    BY <2>7, <2>8, <2>9, <2>10 DEF Trimmed
<1> QED
  BY <1>2, <1>3

LEMMA TrimKeeps ==
  ASSUME NEW s \in Words, Trimmed(s)
  PROVE  Trim(s) = s
<1> DEFINE kept == {i \in DOMAIN s : s[i] # " "}
<1>1. Len(s) \in Nat /\ DOMAIN s = 1 .. Len(s) /\ (s = <<>> <=> Len(s) = 0)
  BY WordFacts
<1>2. CASE s = <<>>
  BY <1>1, <1>2 DEF Trim
<1>3. CASE s # <<>>
  <2> DEFINE n == Len(s)
  <2>0. n \in Nat /\ n # 0
    BY <1>1, <1>3
  <2>1. kept \in SUBSET (1 .. n)
    BY <1>1
  <2>6. kept # {} => Trim(s) = SubSeq(s, Min(kept), Max(kept))
    BY DEF Trim
  <2>2. 1 \in kept /\ n \in kept
    <3>1. 1 \in 1 .. n /\ n \in 1 .. n
      <4> HIDE DEF n
      <4> QED
        BY <2>0
    <3> QED
      BY <1>1, <1>3, <3>1 DEF Trimmed
  <2> HIDE DEF kept, n
  <2>3. Min(kept) = 1
    <3>1. kept \in SUBSET Nat
      BY <2>0, <2>1
    <3> DEFINE m == Min(kept)
    <3>2. m \in kept /\ \A j \in kept : m <= j
      BY <2>2, <3>1, MinIsLeast
    <3> HIDE DEF m
    <3>3. m \in 1 .. n /\ m <= 1
      BY <2>1, <2>2, <3>2
    <3>4. m = 1
      BY <2>0, <3>3
    <3> QED
      BY <3>4 DEF m
  <2>4. Max(kept) = n
    <3> DEFINE m == Max(kept)
    <3>1. m \in kept /\ \A j \in kept : j <= m
      BY <2>0, <2>1, <2>2, MaxIsGreatest
    <3> HIDE DEF m
    <3>2. m \in 1 .. n /\ n <= m
      BY <2>1, <2>2, <3>1
    <3>3. m = n
      BY <2>0, <3>2
    <3> QED
      BY <3>3 DEF m
  <2> USE DEF n
  <2>5. /\ SubSeq(s, 1, Len(s)) \in Words /\ Len(SubSeq(s, 1, Len(s))) = Len(s)
        /\ \A i \in 1 .. Len(s) : SubSeq(s, 1, Len(s))[i] = s[i]
    BY <1>1 DEF Words
  <2> QED
    BY <2>2, <2>3, <2>4, <2>5, <2>6, WordsEqual
<1> QED
  BY <1>2, <1>3

LEMMA LowerCaseOf ==
  ASSUME NEW s \in Words
  PROVE  /\ ToLowerCase(s) \in Words /\ Lowered(ToLowerCase(s))
         /\ \A c \in {"@", "/", " "} : Has(ToLowerCase(s), c) => Has(s, c)
         /\ Lowered(s) => ToLowerCase(s) = s
<1>1. /\ Len(s) \in Nat /\ DOMAIN s = 1 .. Len(s)
      /\ \A i \in 1 .. Len(s) : s[i] \in Characters
  BY WordFacts
<1> DEFINE t == ToLowerCase(s)
<1>2. t = [i \in 1 .. Len(s) |-> IF s[i] \in DOMAIN LowerOf THEN LowerOf[s[i]] ELSE s[i]]
  BY <1>1 DEF ToLowerCase
<1>3. \A i \in 1 .. Len(s) : t[i] \in Characters /\ t[i] \notin DOMAIN LowerOf
  BY <1>1, <1>2, CharactersAssumption
<1>4. t \in Words /\ DOMAIN t = 1 .. Len(s) /\ Len(t) = Len(s)
  BY <1>1, <1>2, <1>3 DEF Words
<1>5. Lowered(t)
  BY <1>3, <1>4 DEF Lowered
<1>6. ASSUME NEW c \in {"@", "/", " "}, Has(t, c) PROVE Has(s, c)
  <2>1. PICK i \in 1 .. Len(s) : t[i] = c
    BY <1>4, <1>6, HasMeans
  <2>2. s[i] \notin DOMAIN LowerOf
    BY <1>2, <2>1, CharactersAssumption
  <2>3. s[i] = c
    BY <1>2, <2>1, <2>2
  <2> QED
    BY <2>3, HasMeans
<1>7. ASSUME Lowered(s) PROVE t = s
  <2>1. \A i \in 1 .. Len(s) : t[i] = s[i]
    BY <1>1, <1>2, <1>7 DEF Lowered
  <2> HIDE DEF t
  <2> QED
    BY <1>4, <2>1, WordsEqual
<1> QED
  BY <1>4, <1>5, <1>6, <1>7

LEMMA TrimKeepsCase ==
  ASSUME NEW s \in Words, Lowered(s)
  PROVE  Lowered(Trim(s))
<1>1. /\ Trim(s) \in Words /\ \A c : Has(Trim(s), c) => Has(s, c)
  BY TrimOf
<1>2. ASSUME NEW i \in 1 .. Len(Trim(s)) PROVE Trim(s)[i] \notin DOMAIN LowerOf
  <2>1. Has(s, Trim(s)[i])
    BY <1>1, HasMeans
  <2>2. PICK j \in 1 .. Len(s) : s[j] = Trim(s)[i]
    BY <2>1, HasMeans
  <2> QED
    BY <2>2, WordFacts DEF Lowered
<1> QED
  BY <1>1, <1>2, WordFacts DEF Lowered

-----------------------------------------------------------------------------
(* Words put together and taken apart at a separator.                       *)

LEMMA Joined ==
  ASSUME NEW u \in Words, NEW v \in Words
  PROVE  /\ u \o v \in Words /\ Len(u \o v) = Len(u) + Len(v)
         /\ \A i \in 1 .. Len(u) : (u \o v)[i] = u[i]
         /\ \A i \in 1 .. Len(v) : (u \o v)[Len(u) + i] = v[i]
BY DEF Words

LEMMA JoinedHas ==
  ASSUME NEW u \in Words, NEW v \in Words, NEW c, Has(u \o v, c)
  PROVE  Has(u, c) \/ Has(v, c)
<1> DEFINE w == u \o v
<1>1. /\ w \in Words /\ Len(w) = Len(u) + Len(v)
      /\ \A i \in 1 .. Len(u) : w[i] = u[i]
      /\ \A i \in 1 .. Len(v) : w[Len(u) + i] = v[i]
  BY Joined
<1>2. Len(u) \in Nat /\ Len(v) \in Nat
  BY WordFacts
<1>3. Has(w, c)
  OBVIOUS
<1> HIDE DEF w
<1>4. PICK i \in 1 .. Len(w) : w[i] = c
  BY <1>1, <1>3, HasMeans
<1>5. CASE i <= Len(u)
  <2>1. i \in 1 .. Len(u) /\ u[i] = c
    BY <1>1, <1>2, <1>4, <1>5
  <2> QED
    BY <2>1, HasMeans
<1>6. CASE i > Len(u)
  <2>1. i - Len(u) \in 1 .. Len(v) /\ Len(u) + (i - Len(u)) = i
    BY <1>1, <1>2, <1>6
  <2>2. v[i - Len(u)] = c
    BY <1>1, <1>4, <2>1
  <2> QED
    BY <2>1, <2>2, HasMeans
<1> QED
  BY <1>1, <1>2, <1>5, <1>6

LEMMA JoinedTrimmed ==
  ASSUME NEW u \in Words, NEW v \in Words, u # <<>>, v # <<>>, Trimmed(u), Trimmed(v)
  PROVE  u \o v # <<>> /\ Trimmed(u \o v)
<1> DEFINE w == u \o v
<1>1. /\ w \in Words /\ Len(w) = Len(u) + Len(v)
      /\ \A i \in 1 .. Len(u) : w[i] = u[i]
      /\ \A i \in 1 .. Len(v) : w[Len(u) + i] = v[i]
  BY Joined
<1> HIDE DEF w
<1>2. Len(u) \in Nat \ {0} /\ Len(v) \in Nat \ {0}
  BY WordFacts
<1>3. 1 \in 1 .. Len(u) /\ Len(v) \in 1 .. Len(v) /\ Len(w) # 0
  BY <1>1, <1>2
<1>4. w[1] = u[1] /\ w[Len(w)] = v[Len(v)]
  BY <1>1, <1>3
<1>5. w # <<>>
  BY <1>1, <1>3, WordFacts
<1>6. w[1] # " " /\ w[Len(w)] # " "
  BY <1>4 DEF Trimmed
<1> QED
  BY <1>5, <1>6 DEF Trimmed, w

LEMMA PositionOf ==
  ASSUME NEW s \in Words, NEW c
  PROVE  /\ Position(s, c) \in Nat
         /\ Position(s, c) = 0 <=> ~Has(s, c)
         /\ Has(s, c) => /\ Position(s, c) \in 1 .. Len(s) /\ s[Position(s, c)] = c
                         /\ \A i \in 1 .. Position(s, c) - 1 : s[i] # c
<1> DEFINE found == {i \in DOMAIN s : s[i] = c}
<1>1. Len(s) \in Nat /\ DOMAIN s = 1 .. Len(s)
  BY WordFacts
<1>2. Has(s, c) <=> found # {}
  BY DEF Has, ToSet
<1>3. CASE found = {}
  <2>1. Position(s, c) = 0
    BY <1>3 DEF Position
  <2> QED
    BY <1>2, <1>3, <2>1
<1>4. CASE found # {}
  <2> DEFINE p == Min(found)
  <2>1. Position(s, c) = p
    BY <1>4 DEF Position
  <2>2. found \in SUBSET (1 .. Len(s)) /\ \A i \in found : s[i] = c
    BY <1>1
  <2>3. found \in SUBSET Nat
    BY <1>1
  <2>4. \A i \in 1 .. Len(s) : s[i] = c => i \in found
    BY <1>1
  <2> HIDE DEF found
  <2>5. p \in found /\ \A j \in found : p <= j
    BY <1>4, <2>3, MinIsLeast
  <2> HIDE DEF p
  <2>6. p \in 1 .. Len(s) /\ s[p] = c
    BY <2>2, <2>5
  <2>7. ASSUME NEW i \in 1 .. p - 1 PROVE s[i] # c
    <3>1. i \in 1 .. Len(s) /\ ~(p <= i)
      BY <1>1, <2>6
    <3> QED
      BY <2>4, <2>5, <3>1
  <2>8. p \in Nat /\ p # 0
    BY <1>1, <2>6
  <2> QED
    BY <1>2, <1>4, <2>1, <2>6, <2>7, <2>8
<1> QED
  BY <1>3, <1>4

(* What is before and behind a place. *)
LEMMA PartsAt ==
  ASSUME NEW s \in Words, NEW p \in 1 .. Len(s)
  PROVE  /\ Before(s, p) \in Words /\ Len(Before(s, p)) = p - 1
         /\ \A i \in 1 .. p - 1 : Before(s, p)[i] = s[i]
         /\ \A c : Has(Before(s, p), c) <=> \E i \in 1 .. p - 1 : s[i] = c
         /\ After(s, p) \in Words /\ Len(After(s, p)) = Len(s) - p
         /\ \A i \in 1 .. Len(s) - p : After(s, p)[i] = s[p + i]
         /\ \A c : Has(After(s, p), c) => Has(s, c)
<1>1. Len(s) \in Nat
  BY WordFacts
<1>2. /\ 1 \in Nat \ {0} /\ p - 1 \in Nat /\ p - 1 <= Len(s) /\ 1 <= (p - 1) + 1
      /\ (p - 1) + 1 - 1 = p - 1
  BY <1>1
<1>3. /\ p + 1 \in Nat \ {0} /\ Len(s) <= Len(s) /\ p + 1 <= Len(s) + 1
      /\ Len(s) + 1 - (p + 1) = Len(s) - p
  BY <1>1
<1>4. /\ Before(s, p) \in Words /\ Len(Before(s, p)) = (p - 1) + 1 - 1
      /\ \A i \in 1 .. (p - 1) + 1 - 1 : Before(s, p)[i] = s[1 + i - 1]
  BY <1>2, PartOfWord DEF Before
<1>5. ASSUME NEW i \in 1 .. p - 1 PROVE Before(s, p)[i] = s[i]
  <2>1. 1 + i - 1 = i
    OBVIOUS
  <2> QED
    BY <1>2, <1>4, <2>1
<1>6. ASSUME NEW c PROVE Has(Before(s, p), c) <=> \E i \in 1 .. p - 1 : s[i] = c
  BY <1>2, PartHasLess DEF Before
<1>7. /\ After(s, p) \in Words /\ Len(After(s, p)) = Len(s) + 1 - (p + 1)
      /\ \A i \in 1 .. Len(s) + 1 - (p + 1) : After(s, p)[i] = s[(p + 1) + i - 1]
  BY <1>1, <1>3, PartOfWord DEF After
<1>8. ASSUME NEW i \in 1 .. Len(s) - p PROVE After(s, p)[i] = s[p + i]
  <2>1. (p + 1) + i - 1 = p + i
    BY <1>1
  <2> QED
    BY <1>3, <1>7, <2>1
<1>9. ASSUME NEW c, Has(After(s, p), c) PROVE Has(s, c)
  <2>1. Has(SubSeq(s, p + 1, Len(s)), c) <=> \E i \in p + 1 .. Len(s) : s[i] = c
    BY <1>1, <1>3, PartHasLess
  <2>2. PICK i \in p + 1 .. Len(s) : s[i] = c
    BY <1>9, <2>1 DEF After
  <2>3. i \in 1 .. Len(s)
    BY <1>1
  <2> QED
    BY <2>2, <2>3, HasMeans
<1>10. Len(Before(s, p)) = p - 1 /\ Len(After(s, p)) = Len(s) - p
  BY <1>2, <1>3, <1>4, <1>7
<1> QED
  BY <1>4, <1>5, <1>6, <1>7, <1>8, <1>9, <1>10

LEMMA WholeWord ==
  ASSUME NEW s \in Words
  PROVE  After(s, 0) = s /\ s \o <<>> = s /\ <<>> \o s = s
<1>1. Len(s) \in Nat /\ Len(s) <= Len(s) /\ 1 <= Len(s) + 1 /\ 0 + 1 = 1
  BY WordFacts
<1>2. /\ SubSeq(s, 1, Len(s)) \in Words /\ Len(SubSeq(s, 1, Len(s))) = Len(s) + 1 - 1
      /\ \A i \in 1 .. Len(s) + 1 - 1 : SubSeq(s, 1, Len(s))[i] = s[1 + i - 1]
  BY <1>1, PartOfWord
<1>3. Len(s) + 1 - 1 = Len(s) /\ \A i \in 1 .. Len(s) : 1 + i - 1 = i
  BY <1>1
<1>4. SubSeq(s, 1, Len(s)) = s
  BY <1>2, <1>3, WordsEqual
<1>5. s \o <<>> = s /\ <<>> \o s = s
  BY DEF Words
<1> QED
  BY <1>1, <1>4, <1>5 DEF After

LEMMA CutAt ==
  ASSUME NEW u \in Words, NEW v \in Words, NEW c \in Characters, ~Has(u, c)
  PROVE  LET w == u \o (<<c>> \o v) IN
         /\ w \in Words /\ Position(w, c) = Len(u) + 1 /\ Position(w, c) # 0
         /\ Before(w, Position(w, c)) = u /\ After(w, Position(w, c)) = v
<1> DEFINE t == <<c>> \o v
           w == u \o t
           p == Position(w, c)
<1>1. <<c>> \in Words /\ Len(<<c>>) = 1 /\ <<c>>[1] = c
  BY DEF Words
<1>2. /\ t \in Words /\ Len(t) = 1 + Len(v) /\ t[1] = c
      /\ \A i \in 1 .. Len(v) : t[1 + i] = v[i]
  <2>1. /\ t \in Words /\ Len(t) = Len(<<c>>) + Len(v)
        /\ \A i \in 1 .. Len(<<c>>) : t[i] = <<c>>[i]
        /\ \A i \in 1 .. Len(v) : t[Len(<<c>>) + i] = v[i]
    BY <1>1, Joined
  <2> QED
    BY <1>1, <2>1
<1>3. w = u \o t
  OBVIOUS
<1> HIDE DEF t, w
<1>4. /\ w \in Words /\ Len(w) = Len(u) + Len(t)
      /\ \A i \in 1 .. Len(u) : w[i] = u[i]
      /\ \A i \in 1 .. Len(t) : w[Len(u) + i] = t[i]
  <2>1. /\ u \o t \in Words /\ Len(u \o t) = Len(u) + Len(t)
        /\ \A i \in 1 .. Len(u) : (u \o t)[i] = u[i]
        /\ \A i \in 1 .. Len(t) : (u \o t)[Len(u) + i] = t[i]
    BY <1>2, Joined
  <2> QED
    BY <1>3, <2>1, Zenon
<1>5. Len(u) \in Nat /\ Len(v) \in Nat
  BY WordFacts
<1>6. Len(w) = Len(u) + 1 + Len(v) /\ Len(u) + 1 \in 1 .. Len(w) /\ w[Len(u) + 1] = c
  BY <1>2, <1>4, <1>5
<1>7. \A i \in 1 .. Len(u) : w[i] # c
  BY <1>4, HasMeans
<1>8. Has(w, c)
  BY <1>4, <1>6, HasMeans
<1>9. /\ p \in 1 .. Len(w) /\ w[p] = c /\ \A i \in 1 .. p - 1 : w[i] # c
  BY <1>4, <1>8, PositionOf
<1>10. p = Len(u) + 1
  <2> HIDE DEF p
  <2>1. ASSUME p <= Len(u) PROVE FALSE
    <3>1. p \in 1 .. Len(u)
      BY <1>5, <1>6, <1>9, <2>1
    <3> QED
      BY <1>7, <1>9, <3>1
  <2>2. ASSUME p > Len(u) + 1 PROVE FALSE
    <3>1. Len(u) + 1 \in 1 .. p - 1
      BY <1>5, <1>6, <1>9, <2>2
    <3> QED
      BY <1>6, <1>9, <3>1
  <2> QED
    BY <1>5, <1>6, <1>9, <2>1, <2>2
<1>11. /\ Before(w, p) \in Words /\ Len(Before(w, p)) = p - 1
       /\ \A i \in 1 .. p - 1 : Before(w, p)[i] = w[i]
       /\ After(w, p) \in Words /\ Len(After(w, p)) = Len(w) - p
       /\ \A i \in 1 .. Len(w) - p : After(w, p)[i] = w[p + i]
  <2> HIDE DEF p
  <2> QED
    <3>1. w \in Words /\ p \in 1 .. Len(w)
      BY <1>4, <1>9
    <3> QED
      BY <3>1, PartsAt
<1> HIDE DEF p
<1>12. p - 1 = Len(u) /\ Len(w) - p = Len(v)
  BY <1>5, <1>6, <1>10
<1>13. Before(w, p) = u
  <2>1. \A i \in 1 .. Len(u) : Before(w, p)[i] = u[i]
    BY <1>4, <1>11, <1>12
  <2> QED
    BY <1>11, <1>12, <2>1, WordsEqual
<1>14. After(w, p) = v
  <2>1. ASSUME NEW i \in 1 .. Len(v) PROVE After(w, p)[i] = v[i]
    <3>1. p + i = Len(u) + (1 + i) /\ 1 + i \in 1 .. Len(t)
      BY <1>2, <1>5, <1>10
    <3>2. w[Len(u) + (1 + i)] = t[1 + i]
      BY <1>4, <3>1
    <3> QED
      BY <1>2, <1>11, <1>12, <3>1, <3>2
  <2> QED
    BY <1>11, <1>12, <2>1, WordsEqual
<1>15. p # 0
  BY <1>5, <1>10
<1> QED
  BY <1>4, <1>10, <1>13, <1>14, <1>15 DEF p, w, t

-----------------------------------------------------------------------------
(* What fromParts makes is a Jid, and of the parts of a Jid the same.       *)

LEMMA NoPart == /\ <<>> \in Words /\ Lowered(<<>>) /\ Trimmed(<<>>) /\ CodePoints(<<>>) <= MaxPart
                /\ CodePoints(<<>>) = 0 /\ \A c : ~Has(<<>>, c)
<1>1. <<>> \in Words /\ DOMAIN <<>> = {}
  BY DEF Words
<1>2. CodePoints(<<>>) = 0
  <2>1. {i \in DOMAIN <<>> : <<>>[i] \notin Continuations} = {}
    BY <1>1
  <2> QED
    BY <2>1, FS_EmptySet DEF CodePoints
<1>3. \A c : ~Has(<<>>, c)
  BY DEF Has, ToSet
<1> QED
  BY <1>1, <1>2, <1>3, MaxPartAssumption DEF Lowered, Trimmed

LEMMA NoneIsValid == Valid(Malformed) /\ Separated(Malformed)
BY NoPart DEF Valid, Separated, Malformed, JidOf

LEMMA LowerCaseTrimmed ==
  ASSUME NEW s \in Words
  PROVE  /\ Trim(ToLowerCase(s)) \in Words /\ Lowered(Trim(ToLowerCase(s)))
         /\ Trimmed(Trim(ToLowerCase(s)))
         /\ \A c \in {"@", "/", " "} : Has(Trim(ToLowerCase(s)), c) => Has(s, c)
         /\ Lowered(s) /\ Trimmed(s) => Trim(ToLowerCase(s)) = s
<1> DEFINE t == ToLowerCase(s)
<1>1. /\ t \in Words /\ Lowered(t) /\ \A c \in {"@", "/", " "} : Has(t, c) => Has(s, c)
      /\ Lowered(s) => t = s
  BY LowerCaseOf
<1> HIDE DEF t
<1>2. Trim(t) \in Words /\ Trimmed(Trim(t)) /\ \A c : Has(Trim(t), c) => Has(t, c)
  BY <1>1, TrimOf
<1>3. Lowered(Trim(t))
  BY <1>1, TrimKeepsCase
<1>4. Lowered(s) /\ Trimmed(s) => Trim(t) = s
  BY <1>1, TrimKeeps
<1> QED
  BY <1>1, <1>2, <1>3, <1>4 DEF t

LEMMA FromPartsValid ==
  ASSUME NEW local \in Words, NEW domain \in Words, NEW resource \in Words
  PROVE  /\ Valid(FromParts(local, domain, resource))
         /\ ~Has(local, "@") /\ ~Has(local, "/") /\ ~Has(domain, "/") =>
              Separated(FromParts(local, domain, resource))
<1> DEFINE l == Trim(ToLowerCase(local))
           d == Trim(ToLowerCase(domain))
           r == Trim(resource)
           made == JidOf(l, d, r)
<1>1. /\ l \in Words /\ Lowered(l) /\ Trimmed(l)
      /\ \A c \in {"@", "/", " "} : Has(l, c) => Has(local, c)
  BY LowerCaseTrimmed
<1>2. /\ d \in Words /\ Lowered(d) /\ Trimmed(d)
      /\ \A c \in {"@", "/", " "} : Has(d, c) => Has(domain, c)
  BY LowerCaseTrimmed
<1>3. r \in Words /\ Trimmed(r)
  BY TrimOf
<1>4. \/ FromParts(local, domain, resource) = Malformed
      \/ /\ FromParts(local, domain, resource) = JidOf(l, d, r) /\ d # <<>>
         /\ \A part \in DOMAIN JidOf(l, d, r) : CodePoints(JidOf(l, d, r)[part]) <= MaxPart
  BY DEF FromParts, ParseLocalPart, ParseDomainPart, ParseResourcePart, JidOf
<1> HIDE DEF l, d, r
<1>5. CASE d # <<>> /\ \A part \in DOMAIN made : CodePoints(made[part]) <= MaxPart
  <2>1. made.local = l /\ made.domain = d /\ made.resource = r
    BY DEF JidOf
  <2>2. /\ made \in [local : Words, domain : Words, resource : Words]
        /\ DOMAIN made = {"local", "domain", "resource"}
    BY <1>1, <1>2, <1>3 DEF JidOf
  <2>3. Trimmed(made["local"]) /\ Trimmed(made["domain"]) /\ Trimmed(made["resource"])
    BY <1>1, <1>2, <1>3, <2>1
  <2> HIDE DEF made
  <2>4. Valid(made)
    BY <1>1, <1>2, <1>5, <2>1, <2>2, <2>3 DEF Valid
  <2>5. ~Has(local, "@") /\ ~Has(local, "/") /\ ~Has(domain, "/") => Separated(made)
    BY <1>1, <1>2, <2>1 DEF Separated
  <2> QED
    BY <1>4, <2>4, <2>5, NoneIsValid DEF made
<1> QED
  BY <1>4, <1>5, NoneIsValid

LEMMA FromPartsSame ==
  ASSUME NEW j, Valid(j), j # Malformed
  PROVE  /\ FromParts(j.local, j.domain, j.resource) = j
         /\ FromParts(j.local, j.domain, <<>>) = JidOf(j.local, j.domain, <<>>)
<1>1. /\ j.local \in Words /\ j.domain \in Words /\ j.resource \in Words
      /\ j = JidOf(j.local, j.domain, j.resource) /\ j.domain # <<>>
  BY DEF Valid, JidOf
<1>2. /\ Lowered(j.local) /\ Trimmed(j.local) /\ CodePoints(j.local) <= MaxPart
      /\ Lowered(j.domain) /\ Trimmed(j.domain) /\ CodePoints(j.domain) <= MaxPart
      /\ Trimmed(j.resource) /\ CodePoints(j.resource) <= MaxPart
  BY DEF Valid
<1>3. ParseLocalPart(j.local) = j.local /\ ParseDomainPart(j.domain) = j.domain
  BY <1>1, <1>2, LowerCaseTrimmed DEF ParseLocalPart, ParseDomainPart
<1>4. ASSUME NEW r \in Words, Trimmed(r), CodePoints(r) <= MaxPart
      PROVE  FromParts(j.local, j.domain, r) = JidOf(j.local, j.domain, r)
  <2>1. ParseResourcePart(r) = r
    BY <1>4, TrimKeeps DEF ParseResourcePart
  <2> DEFINE made == JidOf(j.local, j.domain, r)
  <2>2. /\ made.domain # <<>> /\ DOMAIN made = {"local", "domain", "resource"}
        /\ made["local"] = j.local /\ made["domain"] = j.domain /\ made["resource"] = r
    BY <1>1 DEF JidOf
  <2>3. FromParts(j.local, j.domain, r) =
          IF made.domain # <<>> /\ \A part \in DOMAIN made : CodePoints(made[part]) <= MaxPart
          THEN made ELSE Malformed
    BY <1>3, <2>1 DEF FromParts
  <2> HIDE DEF made
  <2>4. \A part \in DOMAIN made : CodePoints(made[part]) <= MaxPart
    BY <1>2, <1>4, <2>2
  <2> QED
    BY <2>2, <2>3, <2>4 DEF made
<1> QED
  BY <1>1, <1>2, <1>4, NoPart

-----------------------------------------------------------------------------
(* Parsing and printing.                                                    *)

LEMMA ParseSeparates ==
  ASSUME NEW text \in Words
  PROVE  Valid(Parse(text)) /\ Separated(Parse(text))
<1> DEFINE s == Trim(text)
           slash == Position(s, "/")
           bare == IF slash = 0 THEN s ELSE Before(s, slash)
           at == Position(bare, "@")
           local == IF at = 0 THEN <<>> ELSE Before(bare, at)
           domain == After(bare, at)
           resource == IF slash = 0 THEN <<>> ELSE After(s, slash)
<1>1. s \in Words
  BY TrimOf
<1>2. Parse(text) = FromParts(local, domain, resource)
  BY DEF Parse
<1> HIDE DEF s
<1>3. /\ slash \in Nat /\ (slash = 0 <=> ~Has(s, "/"))
      /\ Has(s, "/") => slash \in 1 .. Len(s) /\ \A i \in 1 .. slash - 1 : s[i] # "/"
  BY <1>1, PositionOf
<1> HIDE DEF slash
<1>4. bare \in Words /\ ~Has(bare, "/") /\ resource \in Words
  <2>1. CASE slash = 0
    BY <1>1, <1>3, <2>1, NoPart
  <2>2. CASE slash # 0
    <3>1. slash \in 1 .. Len(s) /\ \A i \in 1 .. slash - 1 : s[i] # "/"
      BY <1>3, <2>2
    <3>2. /\ Before(s, slash) \in Words /\ After(s, slash) \in Words
          /\ Has(Before(s, slash), "/") <=> \E i \in 1 .. slash - 1 : s[i] = "/"
      <4>1. /\ Before(s, slash) \in Words /\ After(s, slash) \in Words
            /\ \A c : Has(Before(s, slash), c) <=> \E i \in 1 .. slash - 1 : s[i] = c
        BY <1>1, <3>1, PartsAt
      <4> QED
        BY <4>1, Zenon
    <3> QED
      BY <2>2, <3>1, <3>2
  <2> QED
    BY <2>1, <2>2
<1> HIDE DEF bare, resource
<1>5. /\ at \in Nat /\ (at = 0 <=> ~Has(bare, "@"))
      /\ Has(bare, "@") => at \in 1 .. Len(bare) /\ \A i \in 1 .. at - 1 : bare[i] # "@"
  BY <1>4, PositionOf
<1> HIDE DEF at
<1>6. /\ local \in Words /\ domain \in Words
      /\ ~Has(local, "@") /\ ~Has(local, "/") /\ ~Has(domain, "/")
  <2>1. CASE at = 0
    BY <1>4, <2>1, NoPart, WholeWord
  <2>2. CASE at # 0
    <3>1. at \in 1 .. Len(bare) /\ \A i \in 1 .. at - 1 : bare[i] # "@"
      BY <1>5, <2>2
    <3>2. /\ Before(bare, at) \in Words /\ After(bare, at) \in Words
          /\ Has(Before(bare, at), "@") <=> \E i \in 1 .. at - 1 : bare[i] = "@"
          /\ Has(Before(bare, at), "/") <=> \E i \in 1 .. at - 1 : bare[i] = "/"
          /\ Has(After(bare, at), "/") => Has(bare, "/")
      <4>1. /\ Before(bare, at) \in Words /\ After(bare, at) \in Words
            /\ \A c : Has(Before(bare, at), c) <=> \E i \in 1 .. at - 1 : bare[i] = c
            /\ \A c : Has(After(bare, at), c) => Has(bare, c)
        BY <1>4, <3>1, PartsAt
      <4> QED
        BY <4>1, Zenon
    <3>3. ~\E i \in 1 .. at - 1 : bare[i] = "/"
      <4>1. \A i \in 1 .. at - 1 : i \in 1 .. Len(bare)
        BY <3>1, <1>4, WordFacts
      <4> QED
        BY <1>4, <4>1, HasMeans
    <3> QED
      BY <1>4, <2>2, <3>1, <3>2, <3>3
  <2> QED
    BY <2>1, <2>2
<1> HIDE DEF local, domain
<1> QED
  BY <1>2, <1>4, <1>6, FromPartsValid

LEMMA OneLetter ==
  ASSUME NEW c \in Characters
  PROVE  <<c>> \in Words /\ Len(<<c>>) = 1 /\ <<c>>[1] = c
BY DEF Words

LEMMA JoinedThrice ==
  ASSUME NEW u \in Words, NEW v \in Words, NEW t \in Words
  PROVE  (u \o v) \o t = u \o (v \o t)
<1>1. u \o v \in Words /\ v \o t \in Words
  BY Joined
<1> DEFINE a == (u \o v) \o t
           b == u \o (v \o t)
<1>2. a \in Words /\ b \in Words
  BY <1>1, Joined
<1>3. Len(u) \in Nat /\ Len(v) \in Nat /\ Len(t) \in Nat
  BY WordFacts
<1>4. Len(a) = Len(u) + Len(v) + Len(t) /\ Len(b) = Len(u) + (Len(v) + Len(t))
  BY <1>1, Joined
<1>5. ASSUME NEW i \in 1 .. Len(a) PROVE a[i] = b[i]
  BY <1>3, <1>4 DEF Words
<1> HIDE DEF a, b
<1>6. Len(a) = Len(b)
  BY <1>3, <1>4
<1> QED
  BY <1>2, <1>5, <1>6, WordsEqual DEF a, b

(* A printed Jid: the bare one, a slash if there is a resource, the resource. *)
BareText(j) == (IF j.local = <<>> THEN <<>> ELSE j.local \o <<"@">>) \o j.domain

LEMMA StrIs ==
  ASSUME NEW j, Valid(j), j # Malformed
  PROVE  /\ j.local \in Words /\ j.domain \in Words /\ j.resource \in Words
         /\ BareText(j) \in Words
         /\ j.resource = <<>> => Str(j) = BareText(j)
         /\ j.resource # <<>> => Str(j) = BareText(j) \o (<<"/">> \o j.resource)
         /\ j.local = <<>> => BareText(j) = j.domain
         /\ j.local # <<>> => BareText(j) = j.local \o (<<"@">> \o j.domain)
         /\ Separated(j) => ~Has(BareText(j), "/")
         /\ Str(j) \in Words /\ Trimmed(Str(j))
<1>1. /\ j.local \in Words /\ j.domain \in Words /\ j.resource \in Words
      /\ j.domain # <<>> /\ Trimmed(j.local) /\ Trimmed(j.domain) /\ Trimmed(j.resource)
  BY DEF Valid
<1>2. ASSUME NEW c \in {"@", "/"}
      PROVE  <<c>> \in Words /\ <<c>> # <<>> /\ Trimmed(<<c>>) /\ (\A d : Has(<<c>>, d) => d = c)
  <2>1. c \in Characters /\ c # " "
    BY CharactersAssumption
  <2>2. <<c>> \in Words /\ Len(<<c>>) = 1 /\ <<c>>[1] = c
    BY <2>1, OneLetter
  <2>3. Trimmed(<<c>>) /\ <<c>> # <<>>
    BY <2>1, <2>2 DEF Trimmed
  <2>4. ASSUME NEW d, Has(<<c>>, d) PROVE d = c
    <3>1. PICK i \in 1 .. Len(<<c>>) : <<c>>[i] = d
      BY <2>2, <2>4, HasMeans
    <3> QED
      BY <2>2, <3>1
  <2> QED
    BY <2>2, <2>3, <2>4
<1>3. <<"@">> \in Words /\ <<"@">> # <<>> /\ Trimmed(<<"@">>) /\ ~Has(<<"@">>, "/")
  BY <1>2
<1>4. <<"/">> \in Words /\ <<"/">> # <<>> /\ Trimmed(<<"/">>)
  BY <1>2
<1>5. j.local = <<>> => BareText(j) = j.domain
  BY <1>1, WholeWord DEF BareText
<1>6. /\ j.local # <<>> => BareText(j) = j.local \o (<<"@">> \o j.domain)
      /\ j.local # <<>> => BareText(j) = (j.local \o <<"@">>) \o j.domain
  <2>1. (j.local \o <<"@">>) \o j.domain = j.local \o (<<"@">> \o j.domain)
    BY <1>1, <1>3, JoinedThrice
  <2> QED
    BY <2>1 DEF BareText
<1>7. /\ BareText(j) \in Words /\ BareText(j) # <<>> /\ Trimmed(BareText(j))
      /\ Separated(j) => ~Has(BareText(j), "/")
  <2>1. CASE j.local = <<>>
    BY <1>1, <1>5, <2>1 DEF Separated
  <2>2. CASE j.local # <<>>
    <3> DEFINE u == j.local \o <<"@">>
    <3>1. u \in Words
      BY <1>1, <1>3, Joined
    <3>2. u # <<>> /\ Trimmed(u)
      BY <1>1, <1>3, <2>2, JoinedTrimmed
    <3>3. Has(u, "/") => Has(j.local, "/")
      BY <1>1, <1>3, JoinedHas
    <3>4. BareText(j) = u \o j.domain
      BY <1>6, <2>2
    <3> HIDE DEF u
    <3>5. u \o j.domain \in Words
      BY <1>1, <3>1, Joined
    <3>6. u \o j.domain # <<>> /\ Trimmed(u \o j.domain)
      BY <1>1, <3>1, <3>2, JoinedTrimmed
    <3>7. Has(u \o j.domain, "/") => Has(u, "/") \/ Has(j.domain, "/")
      BY <1>1, <3>1, JoinedHas
    <3> QED
      BY <3>3, <3>4, <3>5, <3>6, <3>7 DEF Separated
  <2> QED
    BY <2>1, <2>2
<1>8. Str(j) = BareText(j) \o (IF j.resource = <<>> THEN <<>> ELSE <<"/">> \o j.resource)
  BY DEF Str, BareText
<1> DEFINE h == BareText(j)
<1>9. h = BareText(j)
  OBVIOUS
<1> HIDE DEF h
<1>10. CASE j.resource = <<>>
  <2>1. h \o <<>> = h
    BY <1>7, <1>9, WholeWord
  <2> QED
    BY <1>1, <1>5, <1>6, <1>7, <1>8, <1>9, <1>10, <2>1
<1>11. CASE j.resource # <<>>
  <2> DEFINE v == <<"/">> \o j.resource
  <2>1. v \in Words
    BY <1>1, <1>4, Joined
  <2>2. v # <<>> /\ Trimmed(v)
    BY <1>1, <1>4, <1>11, JoinedTrimmed
  <2>3. Str(j) = BareText(j) \o v
    BY <1>8, <1>11
  <2> HIDE DEF v
  <2>4. BareText(j) \o v \in Words
    BY <1>7, <2>1, Joined
  <2>5. Trimmed(BareText(j) \o v)
    BY <1>7, <2>1, <2>2, JoinedTrimmed
  <2> QED
    BY <1>1, <1>5, <1>6, <1>7, <1>11, <2>3, <2>4, <2>5 DEF v
<1> QED
  BY <1>10, <1>11

LEMMA ParsedIsRead ==
  ASSUME NEW j, Valid(j), j # Malformed, Separated(j), j.local = <<>> => ~Has(j.domain, "@")
  PROVE  Parse(Str(j)) = j
<1> DEFINE w == Str(j)
           h == BareText(j)
           slash == Position(w, "/")
           at == Position(h, "@")
<1>1. /\ j.local \in Words /\ j.domain \in Words /\ j.resource \in Words /\ h \in Words
      /\ j.resource = <<>> => w = h
      /\ j.resource # <<>> => w = h \o (<<"/">> \o j.resource)
      /\ j.local = <<>> => h = j.domain
      /\ j.local # <<>> => h = j.local \o (<<"@">> \o j.domain)
      /\ ~Has(h, "/") /\ w \in Words /\ Trimmed(w)
  BY StrIs
<1>2. ~Has(j.local, "@") /\ "@" \in Characters /\ "/" \in Characters
  BY CharactersAssumption DEF Separated
<1>3. Trim(w) = w
  BY <1>1, TrimKeeps
<1> HIDE DEF w, h
<1>4. /\ (IF slash = 0 THEN w ELSE Before(w, slash)) = h
      /\ (IF slash = 0 THEN <<>> ELSE After(w, slash)) = j.resource
  <2>1. CASE j.resource = <<>>
    <3>1. slash = 0
      BY <1>1, <2>1, PositionOf
    <3> QED
      BY <1>1, <2>1, <3>1
  <2>2. CASE j.resource # <<>>
    <3>1. slash # 0 /\ Before(w, slash) = h /\ After(w, slash) = j.resource
      <4>1. /\ h \in Words /\ j.resource \in Words /\ "/" \in Characters /\ ~Has(h, "/")
            /\ w = h \o (<<"/">> \o j.resource)
        BY <1>1, <1>2, <2>2
      <4> QED
        BY <4>1, CutAt
    <3> QED
      BY <3>1
  <2> QED
    BY <2>1, <2>2
<1>5. /\ (IF at = 0 THEN <<>> ELSE Before(h, at)) = j.local
      /\ After(h, at) = j.domain
  <2>1. CASE j.local = <<>>
    <3>1. at = 0
      BY <1>1, <2>1, PositionOf
    <3> QED
      BY <1>1, <2>1, <3>1, WholeWord
  <2>2. CASE j.local # <<>>
    <3>1. at # 0 /\ Before(h, at) = j.local /\ After(h, at) = j.domain
      <4>1. /\ j.local \in Words /\ j.domain \in Words /\ "@" \in Characters
            /\ ~Has(j.local, "@") /\ h = j.local \o (<<"@">> \o j.domain)
        BY <1>1, <1>2, <2>2
      <4> QED
        BY <4>1, CutAt
    <3> QED
      BY <3>1
  <2> QED
    BY <2>1, <2>2
<1>6. Parse(w) = FromParts(j.local, j.domain, j.resource)
  <2> DEFINE bare == IF slash = 0 THEN w ELSE Before(w, slash)
             place == Position(bare, "@")
  <2>1. Parse(w) = FromParts(IF place = 0 THEN <<>> ELSE Before(bare, place), After(bare, place),
                             IF slash = 0 THEN <<>> ELSE After(w, slash))
    BY <1>3 DEF Parse
  <2>2. bare = h
    BY <1>4
  <2> HIDE DEF bare, slash
  <2>3. Parse(w) = FromParts(j.local, j.domain, j.resource)
    BY <1>4, <1>5, <2>1, <2>2
  <2> QED
    BY <2>3
<1> QED
  BY <1>6, FromPartsSame DEF w

(* The bare Jid is printed as the text up to the slash. *)
LEMMA BareIsCut ==
  ASSUME NEW j, Valid(j), j # Malformed
  PROVE  /\ ToBareJid(j) = JidOf(j.local, j.domain, <<>>)
         /\ Separated(j) =>
              LET slash == Position(Str(j), "/")
              IN  Str(ToBareJid(j)) = IF slash = 0 THEN Str(j) ELSE Before(Str(j), slash)
<1> DEFINE b == JidOf(j.local, j.domain, <<>>)
           w == Str(j)
           h == BareText(j)
           slash == Position(w, "/")
<1>1. ToBareJid(j) = b
  BY FromPartsSame DEF ToBareJid
<1>2. ASSUME Separated(j)
      PROVE  Str(b) = IF slash = 0 THEN w ELSE Before(w, slash)
  <2>1. /\ j.resource \in Words /\ h \in Words
        /\ j.resource = <<>> => w = h
        /\ j.resource # <<>> => w = h \o (<<"/">> \o j.resource)
        /\ ~Has(h, "/")
    BY <1>2, StrIs
  <2>2. "/" \in Characters
    BY CharactersAssumption
  <2>3. Str(b) = h \o <<>>
    BY DEF Str, BareText, JidOf
  <2> HIDE DEF b, h, w
  <2>4. Str(b) = h
    BY <2>1, <2>3, WholeWord
  <2>5. CASE j.resource = <<>>
    <3>1. slash = 0
      BY <2>1, <2>5, PositionOf
    <3> QED
      BY <2>1, <2>4, <2>5, <3>1
  <2>6. CASE j.resource # <<>>
    <3>1. slash # 0 /\ Before(w, slash) = h
      <4>1. /\ h \in Words /\ j.resource \in Words /\ "/" \in Characters /\ ~Has(h, "/")
            /\ w = h \o (<<"/">> \o j.resource)
        BY <2>1, <2>2, <2>6
      <4> QED
        BY <4>1, CutAt
    <3> QED
      BY <2>4, <3>1
  <2> QED
    BY <2>5, <2>6
<1> QED
  BY <1>1, <1>2

-----------------------------------------------------------------------------
(* The caller.                                                              *)

LEMMA JidStep == JidInv /\ [Next]_vars => JidInv'
<1> SUFFICES ASSUME JidInv, [Next]_vars PROVE JidInv'
  OBVIOUS
<1>1. Valid(jid) /\ parsed \in BOOLEAN /\ (parsed => Separated(jid))
  BY DEF JidInv
<1>2. CASE ParseText
  <2>1. PICK text \in Texts : jid' = Parse(text) /\ parsed' = TRUE
    BY <1>2 DEF ParseText
  <2>2. text \in Words
    BY TextsAssumption DEF Words
  <2>3. Valid(jid') /\ Separated(jid')
    BY <2>1, <2>2, ParseSeparates
  <2> QED
    BY <2>1, <2>3 DEF JidInv, Valid, Separated
<1>3. CASE MakeOfParts
  <2>1. PICK local \in Parts, domain \in Parts, resource \in Parts :
          jid' = FromParts(local, domain, resource) /\ parsed' = FALSE
    BY <1>3 DEF MakeOfParts
  <2>2. local \in Words /\ domain \in Words /\ resource \in Words
    BY TextsAssumption DEF Words
  <2>3. Valid(jid')
    BY <2>1, <2>2, FromPartsValid
  <2> QED
    BY <2>1, <2>3 DEF JidInv, Valid
<1>4. CASE TakeBare
  <2>1. jid # Malformed /\ jid' = ToBareJid(jid) /\ parsed' = parsed
    BY <1>4 DEF TakeBare
  <2>2. jid.local \in Words /\ jid.domain \in Words /\ <<>> \in Words
    BY <1>1, NoPart DEF Valid
  <2>3. Valid(jid')
    BY <2>1, <2>2, FromPartsValid DEF ToBareJid
  <2>4. parsed => Separated(jid')
    BY <1>1, <2>1, <2>2, FromPartsValid DEF ToBareJid, Separated
  <2> QED
    BY <1>1, <2>1, <2>3, <2>4 DEF JidInv, Valid, Separated
<1>5. CASE Reread
  <2>1. jid # Malformed /\ jid' = Parse(Str(jid)) /\ parsed' = TRUE
    BY <1>5 DEF Reread
  <2>2. Str(jid) \in Words
    BY <1>1, <2>1, StrIs
  <2>3. Valid(jid') /\ Separated(jid')
    BY <2>1, <2>2, ParseSeparates
  <2> QED
    BY <2>1, <2>3 DEF JidInv, Valid, Separated
<1>6. CASE UNCHANGED vars
  BY <1>1, <1>6 DEF vars, JidInv, Valid, Separated
<1> QED
  BY <1>2, <1>3, <1>4, <1>5, <1>6 DEF Next

(* The inductive invariant: a Jid has the shape of one, and of a parsed one   *)
(* neither its local part nor its domain has a separator in it that would     *)
(* end it sooner (Jid.cpp:12-76).                                             *)
THEOREM JidCorrect == Spec => []JidInv
<1>1. Init => JidInv
  BY NoneIsValid DEF Init, JidInv
<1> QED
  BY <1>1, JidStep, PTL DEF Spec

(* A Jid is trimmed, its local part and its domain are in lower case, each     *)
(* part is within its bound and there is a domain, whether the Jid came from  *)
(* a text, from parts or from another Jid (Jid.cpp:12-76, Jid.hpp:48-58).      *)
THEOREM TypeCorrect == Spec => []TypeOK
<1>1. JidInv => TypeOK
  BY DEF JidInv, Valid, TypeOK
<1> QED
  BY <1>1, JidCorrect, PTL

(* What was parsed and printed is parsed to the same Jid, for every text over *)
(* every alphabet, but for the domain with an "@" and no local part before it *)
(* (Jid.cpp:12-76, Jid.hpp:101-109, 157-162).                                 *)
THEOREM ParsedReadsBack == Spec => []ReadsBack
<1>1. JidInv => ReadsBack
  <2> SUFFICES ASSUME JidInv, parsed, jid # Malformed, ~Ambiguous
               PROVE  Parse(Str(jid)) = jid
    BY DEF ReadsBack
  <2>1. Valid(jid) /\ Separated(jid) /\ (jid.local = <<>> => ~Has(jid.domain, "@"))
    BY DEF JidInv, Ambiguous, Has
  <2> QED
    BY <2>1, ParsedIsRead
<1> QED
  BY <1>1, JidCorrect, PTL

(* toBareJid keeps the other parts of every Jid, so that it cannot throw, and  *)
(* of a parsed one the bare text is the full text up to its first "/"        *)
(* (Jid.hpp:48-58).                                                           *)
THEOREM BareFormKeeps == Spec => []BareKeeps
<1>1. JidInv => BareKeeps
  <2> SUFFICES ASSUME JidInv, jid # Malformed PROVE BareKeeps
    BY DEF BareKeeps
  <2>1. Valid(jid) /\ (parsed => Separated(jid))
    BY DEF JidInv
  <2> QED
    BY <2>1, BareIsCut DEF BareKeeps
<1> QED
  BY <1>1, JidCorrect, PTL
=============================================================================
