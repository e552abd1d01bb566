--------------------------- MODULE XmlGrammarProofs ---------------------------
(* What the predicates and the functions of XmlGrammar amount to, for texts of *)
(* any length.                                                               *)
EXTENDS XmlGrammar, Integers, WellFoundedInduction, TLAPS

-----------------------------------------------------------------------------
(* The classes of characters.                                               *)

LEMMA Classes ==
  ASSUME NEW c
  PROVE  /\ c \in NameCharacters => c \notin Delimiters
         /\ c \in Spaces \cup Quotes => c \in Delimiters
         /\ c \in {"<", ">", "/", "?", "!", "=", "[", "]"} => c \in Delimiters
         /\ c \in Spaces => c \notin Quotes
         /\ c \in {"<", ">", "/", "?", "!", "=", "[", "]"} => c \notin Spaces /\ c \notin Quotes
         /\ c \in {"-", "CDATA"} => c \in NameCharacters
  BY LettersAssumption DEF NameCharacters, Delimiters, Spaces, Quotes

-----------------------------------------------------------------------------
(* The first and the last of some positions.                                *)

LEMMA LeastExists ==
  ASSUME NEW S \in SUBSET Nat, S # {}
  PROVE  \E i \in S : \A j \in S : i <= j
<1>1. \E x \in S : \A y \in S : ~(<<y, x>> \in OpToRel(<, Nat))
  BY NatLessThanWellFounded, WFMin, Zenon
<1>2. PICK x \in S : \A y \in S : ~(<<y, x>> \in OpToRel(<, Nat))
  BY <1>1, Zenon
<1>3. \A y \in S : ~(y < x)
  BY <1>2, Zenon DEF OpToRel
<1> QED
  BY <1>3

LEMMA GreatestExists ==
  ASSUME NEW n \in Int, NEW S \in SUBSET Int, S # {}, \A i \in S : i <= n
  PROVE  \E i \in S : \A j \in S : j <= i
<1> DEFINE FromEnd == {n - i : i \in S}
<1>1. FromEnd \in SUBSET Nat /\ FromEnd # {}
  <2>1. ASSUME NEW i \in S PROVE n - i \in Nat OBVIOUS
  <2>2. PICK i \in S : TRUE OBVIOUS
  <2>3. n - i \in FromEnd OBVIOUS
  <2> QED BY <2>1, <2>3
<1>2. PICK x \in FromEnd : \A y \in FromEnd : x <= y
  <2> HIDE DEF FromEnd
  <2> QED BY <1>1, LeastExists
<1>3. PICK i \in S : x = n - i BY <1>2
<1>4. ASSUME NEW j \in S PROVE j <= i
  <2>1. n - j \in FromEnd BY <1>4
  <2>2. n - i <= n - j BY <1>2, <1>3, <2>1
  <2> QED BY <2>2
<1> QED BY <1>4

-----------------------------------------------------------------------------
(* The parts of an attribute follow from where it begins.                   *)

LEMMA NameEnds ==
  ASSUME NEW w, NEW i \in Int, NEW n \in Int, NEW m \in Int,
         IsName(w, i, n), IsName(w, i, m),
         w[n + 1] \in Delimiters, w[m + 1] \in Delimiters
  PROVE  n = m
<1>1. /\ \A k \in i .. n : w[k] \in NameCharacters
      /\ \A k \in i .. m : w[k] \in NameCharacters
      /\ n \in i .. i + MaxBuffer - 1 /\ m \in i .. i + MaxBuffer - 1
  BY DEF IsName
<1>2. n + 1 \notin i .. m
  BY <1>1, Classes
<1>3. m + 1 \notin i .. n
  BY <1>1, Classes
<1>4. n >= i /\ m >= i BY <1>1, MaxBufferAssumption
<1> QED BY <1>2, <1>3, <1>4

(* The sign that ends spaces.                                                *)
LEMMA SpacesEnd ==
  ASSUME NEW w, NEW i \in Int, NEW a \in Int, NEW b \in Int, a >= i, b >= i,
         AreSpaces(w, i, a - 1), AreSpaces(w, i, b - 1), w[a] \notin Spaces, w[b] \notin Spaces
  PROVE  a = b
  BY DEF AreSpaces

LEMMA ValueEnds ==
  ASSUME NEW w, NEW q \in Int, NEW a \in Int, NEW b \in Int, a > q, b > q,
         w[a] = w[q], w[b] = w[q],
         \A k \in q + 1 .. a - 1 : w[k] # w[q], \A k \in q + 1 .. b - 1 : w[k] # w[q]
  PROVE  a = b
<1>1. a \notin q + 1 .. b - 1 /\ b \notin q + 1 .. a - 1 OBVIOUS
<1> QED BY <1>1

LEMMA NameStopped ==
  ASSUME NEW w, NEW n \in Int, NEW q \in Int,
         NEW e \in n + 1 .. q - 1, AreSpaces(w, n + 1, e - 1), w[e] = "="
  PROVE  w[n + 1] \in Delimiters
<1>1. CASE e = n + 1 BY <1>1, Classes
<1>2. CASE e # n + 1
  <2>1. n + 1 \in n + 1 .. e - 1 BY <1>2
  <2>2. w[n + 1] \in Spaces BY <2>1 DEF AreSpaces
  <2> QED BY <2>2, Classes
<1> QED BY <1>1, <1>2

LEMMA AttributeParts ==
  ASSUME NEW w, NEW i \in Int,
         NEW n \in Int, NEW q \in Int, NEW j \in Int, q < j, IsAttributeOf(w, i, n, q, j),
         NEW n2 \in Int, NEW q2 \in Int, NEW j2 \in Int, q2 < j2, IsAttributeOf(w, i, n2, q2, j2)
  PROVE  n = n2 /\ q = q2 /\ j = j2
<1>1. PICK e \in n + 1 .. q - 1 :
        AreSpaces(w, n + 1, e - 1) /\ w[e] = "=" /\ AreSpaces(w, e + 1, q - 1)
  BY DEF IsAttributeOf
<1>2. PICK e2 \in n2 + 1 .. q2 - 1 :
        AreSpaces(w, n2 + 1, e2 - 1) /\ w[e2] = "=" /\ AreSpaces(w, e2 + 1, q2 - 1)
  BY DEF IsAttributeOf
<1>3. n = n2
  <2>1. w[n + 1] \in Delimiters BY <1>1, NameStopped
  <2>2. w[n2 + 1] \in Delimiters BY <1>2, NameStopped
  <2>3. IsName(w, i, n) /\ IsName(w, i, n2) BY DEF IsAttributeOf
  <2> QED BY <2>1, <2>2, <2>3, NameEnds
<1>4. e = e2
  <2>1. w[e] \notin Spaces /\ w[e2] \notin Spaces BY <1>1, <1>2, Classes
  <2>2. e >= n + 1 /\ e2 >= n + 1 /\ n + 1 \in Int /\ e \in Int /\ e2 \in Int BY <1>3
  <2>3. AreSpaces(w, n + 1, e - 1) /\ AreSpaces(w, n + 1, e2 - 1) BY <1>1, <1>2, <1>3
  <2> QED BY <2>1, <2>2, <2>3, SpacesEnd
<1>5. q = q2
  <2>1. w[q] \notin Spaces /\ w[q2] \notin Spaces BY Classes DEF IsAttributeOf
  <2>2. q >= e + 1 /\ q2 >= e + 1 /\ e + 1 \in Int BY <1>4
  <2>3. AreSpaces(w, e + 1, q - 1) /\ AreSpaces(w, e + 1, q2 - 1) BY <1>1, <1>2, <1>4
  <2> QED BY <2>1, <2>2, <2>3, SpacesEnd
<1>6. j = j2
  <2>1. /\ w[j] = w[q] /\ w[j2] = w[q]
        /\ \A k \in q + 1 .. j - 1 : w[k] # w[q]
        /\ \A k \in q + 1 .. j2 - 1 : w[k] # w[q]
    BY <1>5 DEF IsAttributeOf
  <2>2. j > q /\ j2 > q BY <1>5
  <2> QED BY <2>1, <2>2, ValueEnds
<1> QED BY <1>3, <1>5, <1>6

LEMMA AttributeIs ==
  ASSUME NEW w, NEW i \in Int, NEW j \in Int, IsAttribute(w, i, j)
  PROVE  /\ w[i] \in NameCharacters /\ w[j] \in Quotes /\ i + 3 <= j
         /\ \E n \in Int : \E q \in Int :
              i <= n /\ n < q /\ q < j /\ IsAttributeOf(w, i, n, q, j)
<1>1. PICK n \in i .. j : \E q \in n + 2 .. j - 1 : IsAttributeOf(w, i, n, q, j)
  BY DEF IsAttribute
<1>2. PICK q \in n + 2 .. j - 1 : IsAttributeOf(w, i, n, q, j) BY <1>1
<1>3. /\ n \in Int /\ q \in Int /\ i <= n /\ n < q /\ q < j /\ i + 3 <= j OBVIOUS
<1>4. w[i] \in NameCharacters /\ w[j] \in Quotes BY DEF IsAttribute
<1> QED BY <1>2, <1>3, <1>4

LEMMA AttributeEnds ==
  ASSUME NEW w, NEW i \in Int, NEW j \in Int, NEW l \in Int,
         IsAttribute(w, i, j), IsAttribute(w, i, l)
  PROVE  j = l
<1>1. PICK n \in Int : \E q \in Int : q < j /\ IsAttributeOf(w, i, n, q, j) BY AttributeIs
<1>2. PICK q \in Int : q < j /\ IsAttributeOf(w, i, n, q, j) BY <1>1
<1>3. PICK n2 \in Int : \E q2 \in Int : q2 < l /\ IsAttributeOf(w, i, n2, q2, l) BY AttributeIs
<1>4. PICK q2 \in Int : q2 < l /\ IsAttributeOf(w, i, n2, q2, l) BY <1>3
<1> QED BY <1>2, <1>4, AttributeParts

(* The parts say that it is one. *)
LEMMA AttributeOf ==
  ASSUME NEW w, NEW i \in Int, NEW n \in Int, NEW q \in Int, NEW j \in Int,
         q < j, IsAttributeOf(w, i, n, q, j)
  PROVE  IsAttribute(w, i, j) /\ i <= n /\ n + 2 <= q
<1>1. i <= n /\ w[i] \in NameCharacters
  BY MaxBufferAssumption DEF IsAttributeOf, IsName
<1>2. n + 2 <= q BY DEF IsAttributeOf
<1>3. w[j] \in Quotes BY DEF IsAttributeOf
<1>4. n \in i .. j /\ q \in n + 2 .. j - 1 BY <1>1, <1>2
<1> QED BY <1>1, <1>2, <1>3, <1>4 DEF IsAttribute

-----------------------------------------------------------------------------
(* A body is a way through a stretch, from one cut to the next, each past a  *)
(* space or an attribute.                                                    *)

IsCut(w, j, P, p) ==
  /\ p <= j + 1
  /\ \/ p = j + 1
     \/ w[p] \in Spaces /\ p + 1 \in P
     \/ \E l \in p .. j : IsAttribute(w, p, l) /\ l + 1 \in P
Cuts(w, j, P) == P \in SUBSET Int /\ \A p \in P : IsCut(w, j, P, p)

(* The equation of IsBody's function. *)
BodyOf(w, i, j, f) ==
  [k \in i .. j + 1 |->
     \/ k = j + 1
     \/ w[k] \in Spaces /\ f[k + 1]
     \/ \E l \in k .. j : IsAttribute(w, k, l) /\ f[l + 1]]

LEMMA BodyIsUnique ==
  ASSUME NEW w, NEW i \in Int, NEW j \in Int,
         NEW f, NEW g, f = BodyOf(w, i, j, f), g = BodyOf(w, i, j, g)
  PROVE  f = g
<1> DEFINE Differ == {k \in i .. j + 1 : f[k] # g[k]}
<1>1. Differ = {}
  <2> SUFFICES ASSUME Differ # {} PROVE FALSE OBVIOUS
  <2>1. PICK k \in Differ : \A m \in Differ : m <= k
    <3>1. Differ \in SUBSET Int /\ j + 1 \in Int /\ \A m \in Differ : m <= j + 1 OBVIOUS
    <3>2. Differ # {} OBVIOUS
    <3> HIDE DEF Differ
    <3> QED BY <3>1, <3>2, GreatestExists
  <2>2. k \in i .. j + 1 /\ f[k] # g[k] OBVIOUS
  <2>3. \A m \in k + 1 .. j + 1 : f[m] = g[m]
    <3>1. TAKE m \in k + 1 .. j + 1
    <3>2. m \in i .. j + 1 /\ m \notin Differ BY <2>1, <2>2
    <3> QED BY <3>2
  <2>4. k # j + 1
    <3>1. CASE k = j + 1
      <4>1. f[k] = TRUE /\ g[k] = TRUE BY <2>2, <3>1 DEF BodyOf
      <4> QED BY <4>1, <2>2
    <3> QED BY <3>1
  <2>5. k + 1 \in k + 1 .. j + 1 /\ \A l \in k .. j : l + 1 \in k + 1 .. j + 1
    BY <2>2, <2>4
  <2>6. /\ f[k] = (\/ k = j + 1
                   \/ w[k] \in Spaces /\ f[k + 1]
                   \/ \E l \in k .. j : IsAttribute(w, k, l) /\ f[l + 1])
        /\ g[k] = (\/ k = j + 1
                   \/ w[k] \in Spaces /\ g[k + 1]
                   \/ \E l \in k .. j : IsAttribute(w, k, l) /\ g[l + 1])
    BY <2>2, Zenon DEF BodyOf
  <2>7. f[k + 1] = g[k + 1] /\ \A l \in k .. j : f[l + 1] = g[l + 1]
    BY <2>3, <2>5, Zenon
  <2> QED BY <2>2, <2>6, <2>7, Zenon
<1>2. \A k \in i .. j + 1 : f[k] = g[k] BY <1>1
<1>3. f = [k \in i .. j + 1 |-> f[k]] /\ g = [k \in i .. j + 1 |-> g[k]]
  BY Zenon DEF BodyOf
<1> QED BY <1>2, <1>3, Zenon

LEMMA BodyByCuts ==
  ASSUME NEW w, NEW i \in Int, NEW j \in Int, i <= j + 1
  PROVE  IsBody(w, i, j) <=> \E P \in SUBSET Int : Cuts(w, j, P) /\ i \in P
<1> DEFINE Reached(k) == \E P \in SUBSET Int : Cuts(w, j, P) /\ k \in P
           b == [k \in i .. j + 1 |-> Reached(k)]
<1>1. \A k \in i .. j + 1 :
        Reached(k) <=> \/ k = j + 1
                       \/ w[k] \in Spaces /\ b[k + 1]
                       \/ \E l \in k .. j : IsAttribute(w, k, l) /\ b[l + 1]
  <2> TAKE k \in i .. j + 1
  <2>1. CASE k = j + 1
    <3>1. Cuts(w, j, {k}) BY <2>1 DEF Cuts, IsCut
    <3> QED BY <2>1, <3>1
  <2>2. CASE k # j + 1
    <3>0. k \in Int /\ k <= j /\ k + 1 \in i .. j + 1 /\ \A l \in k .. j : l + 1 \in i .. j + 1
      BY <2>2
    <3>1. b[k + 1] <=> Reached(k + 1) BY <3>0, Zenon
    <3>2. \A l \in k .. j : b[l + 1] <=> Reached(l + 1) BY <3>0, Zenon
    <3> HIDE DEF b
    <3>3. ASSUME Reached(k)
          PROVE  \/ w[k] \in Spaces /\ Reached(k + 1)
                 \/ \E l \in k .. j : IsAttribute(w, k, l) /\ Reached(l + 1)
      <4>1. PICK P \in SUBSET Int : Cuts(w, j, P) /\ k \in P BY <3>3
      <4>2. IsCut(w, j, P, k) BY <4>1 DEF Cuts
      <4> QED BY <4>1, <4>2, <2>2, Zenon DEF IsCut
    <3>4. ASSUME w[k] \in Spaces, Reached(k + 1) PROVE Reached(k)
      <4>1. PICK P \in SUBSET Int : Cuts(w, j, P) /\ k + 1 \in P BY <3>4
      <4>2. Cuts(w, j, P \cup {k})
        <5>1. \A p \in P : IsCut(w, j, P \cup {k}, p) BY <4>1 DEF Cuts, IsCut
        <5>2. IsCut(w, j, P \cup {k}, k) BY <3>0, <3>4, <4>1 DEF IsCut
        <5> QED BY <5>1, <5>2, <3>0 DEF Cuts
      <4> QED BY <4>2, <3>0
    <3>5. ASSUME NEW l \in k .. j, IsAttribute(w, k, l), Reached(l + 1) PROVE Reached(k)
      <4>1. PICK P \in SUBSET Int : Cuts(w, j, P) /\ l + 1 \in P BY <3>5
      <4>2. Cuts(w, j, P \cup {k})
        <5>1. \A p \in P : IsCut(w, j, P \cup {k}, p) BY <4>1 DEF Cuts, IsCut
        <5>2. IsCut(w, j, P \cup {k}, k) BY <3>0, <3>5, <4>1 DEF IsCut
        <5> QED BY <5>1, <5>2, <3>0 DEF Cuts
      <4> QED BY <4>2, <3>0
    <3> HIDE DEF Reached
    <3> QED BY <2>2, <3>1, <3>2, <3>3, <3>4, <3>5, Zenon
  <2> QED BY <2>1, <2>2
<1>2. b = BodyOf(w, i, j, b)
  <2>1. \A k \in i .. j + 1 :
          Reached(k) = (\/ k = j + 1
                        \/ w[k] \in Spaces /\ b[k + 1]
                        \/ \E l \in k .. j : IsAttribute(w, k, l) /\ b[l + 1])
    <3> HIDE DEF b
    <3> QED BY <1>1, Zenon
  <2>2. \A k \in i .. j + 1 : b[k] = BodyOf(w, i, j, b)[k]
    <3>1. TAKE k \in i .. j + 1
    <3>2. b[k] = Reached(k) BY Zenon
    <3>3. BodyOf(w, i, j, b)[k]
                     = (\/ k = j + 1
                        \/ w[k] \in Spaces /\ b[k + 1]
                        \/ \E l \in k .. j : IsAttribute(w, k, l) /\ b[l + 1])
      <4> HIDE DEF b
      <4> QED BY Zenon DEF BodyOf
    <3> HIDE DEF b, Reached
    <3> QED BY <2>1, <3>2, <3>3, Zenon
  <2>3. b = [k \in i .. j + 1 |-> b[k]] BY Zenon
  <2>4. BodyOf(w, i, j, b) = [k \in i .. j + 1 |-> BodyOf(w, i, j, b)[k]] BY Zenon DEF BodyOf
  <2> HIDE DEF b
  <2> QED BY <2>2, <2>3, <2>4, Zenon
<1>3. IsBody(w, i, j) = (CHOOSE f : f = BodyOf(w, i, j, f))[i]
  BY DEF IsBody, BodyOf
<1>4. (CHOOSE f : f = BodyOf(w, i, j, f)) = b
  <2> DEFINE f == CHOOSE f : f = BodyOf(w, i, j, f)
  <2>1. f = BodyOf(w, i, j, f) BY <1>2, Zenon
  <2> HIDE DEF f, b
  <2>2. f = b BY <1>2, <2>1, BodyIsUnique
  <2> QED BY <2>2 DEF f
<1>5. b[i] = Reached(i)
  <2>1. i \in i .. j + 1 OBVIOUS
  <2> HIDE DEF Reached
  <2> QED BY <2>1, Zenon
<1> QED BY <1>3, <1>4, <1>5

LEMMA BodyEmpty ==
  ASSUME NEW w, NEW i \in Int
  PROVE  IsBody(w, i, i - 1)
<1>1. Cuts(w, i - 1, {i}) BY DEF Cuts, IsCut
<1> QED BY <1>1, BodyByCuts

LEMMA BodyStart ==
  ASSUME NEW w, NEW i \in Int, NEW j \in Int, i <= j, IsBody(w, i, j)
  PROVE  \/ w[i] \in Spaces /\ IsBody(w, i + 1, j)
         \/ \E l \in i .. j : IsAttribute(w, i, l) /\ IsBody(w, l + 1, j)
<1>1. PICK P \in SUBSET Int : Cuts(w, j, P) /\ i \in P BY BodyByCuts
<1>2. \/ w[i] \in Spaces /\ i + 1 \in P
      \/ \E l \in i .. j : IsAttribute(w, i, l) /\ l + 1 \in P
  BY <1>1 DEF Cuts, IsCut
<1>3. ASSUME NEW k \in Int, k <= j + 1, k \in P PROVE IsBody(w, k, j)
  BY <1>1, <1>3, BodyByCuts
<1> QED BY <1>2, <1>3

LEMMA BodyJoin ==
  ASSUME NEW w, NEW i \in Int, NEW a \in Int, NEW j \in Int, i <= a, a <= j + 1,
         IsBody(w, i, a - 1), IsBody(w, a, j)
  PROVE  IsBody(w, i, j)
<1>1. PICK P \in SUBSET Int : Cuts(w, a - 1, P) /\ i \in P BY BodyByCuts
<1>2. PICK Q \in SUBSET Int : Cuts(w, j, Q) /\ a \in Q BY BodyByCuts
<1>3. ASSUME NEW p \in P PROVE IsCut(w, j, P \cup Q, p)
  <2>1. IsCut(w, a - 1, P, p) BY <1>1 DEF Cuts
  <2>2. CASE p = a
    <3>1. IsCut(w, j, Q, a) BY <1>2 DEF Cuts
    <3> QED BY <2>2, <3>1 DEF IsCut
  <2>3. CASE p # a BY <2>1, <2>3 DEF IsCut
  <2> QED BY <2>2, <2>3
<1>4. ASSUME NEW p \in Q PROVE IsCut(w, j, P \cup Q, p)
  BY <1>2 DEF Cuts, IsCut
<1>5. Cuts(w, j, P \cup Q) BY <1>3, <1>4 DEF Cuts
<1> QED BY <1>1, <1>5, BodyByCuts

LEMMA BodyRest ==
  ASSUME NEW w, NEW i \in Int, NEW a \in Int, NEW j \in Int, i <= a, a <= j + 1,
         IsBody(w, i, a - 1), IsBody(w, i, j)
  PROVE  IsBody(w, a, j)
<1>1. PICK P \in SUBSET Int : Cuts(w, a - 1, P) /\ i \in P BY BodyByCuts
<1>2. PICK Q \in SUBSET Int : Cuts(w, j, Q) /\ i \in Q BY BodyByCuts
<1>3. PICK p \in P \cap Q : \A m \in P \cap Q : m <= p
  <2>1. P \cap Q \in SUBSET Int /\ P \cap Q # {} BY <1>1, <1>2
  <2>2. a \in Int /\ \A m \in P \cap Q : m <= a BY <1>1 DEF Cuts, IsCut
  <2> QED BY <2>1, <2>2, GreatestExists
<1>4. p = a
  <2> SUFFICES ASSUME p # a PROVE FALSE OBVIOUS
  <2>1. p \in Int /\ p < a /\ p # j + 1 BY <1>1 DEF Cuts, IsCut
  <2>2. \/ w[p] \in Spaces /\ p + 1 \in P
        \/ \E l \in p .. a - 1 : IsAttribute(w, p, l) /\ l + 1 \in P
    BY <1>1 DEF Cuts, IsCut
  <2>3. \/ w[p] \in Spaces /\ p + 1 \in Q
        \/ \E l \in p .. j : IsAttribute(w, p, l) /\ l + 1 \in Q
    BY <1>2, <2>1 DEF Cuts, IsCut
  <2>4. CASE w[p] \in Spaces
    <3>1. \A l \in Int : ~IsAttribute(w, p, l) BY <2>1, <2>4, AttributeIs, Classes
    <3>2. p + 1 \in P \cap Q BY <2>2, <2>3, <3>1
    <3> QED BY <1>3, <2>1, <3>2
  <2>5. CASE w[p] \notin Spaces
    <3>1. PICK l \in p .. a - 1 : IsAttribute(w, p, l) /\ l + 1 \in P BY <2>2, <2>5
    <3>2. PICK k \in p .. j : IsAttribute(w, p, k) /\ k + 1 \in Q BY <2>3, <2>5
    <3>3. l = k BY <2>1, <3>1, <3>2, AttributeEnds
    <3>4. l + 1 \in P \cap Q /\ l + 1 > p BY <3>1, <3>2, <3>3
    <3> QED BY <1>3, <2>1, <3>4
  <2> QED BY <2>4, <2>5
<1> QED BY <1>2, <1>3, <1>4, BodyByCuts

(* A body ends with a space or with the quote that closes a value.          *)
LEMMA BodyLast ==
  ASSUME NEW w, NEW i \in Int, NEW j \in Int, i <= j, IsBody(w, i, j)
  PROVE  w[j] \in Spaces \cup Quotes
<1>1. PICK P \in SUBSET Int : Cuts(w, j, P) /\ i \in P BY BodyByCuts
<1> DEFINE Q == {p \in P : p <= j}
<1>2. PICK p \in Q : \A m \in Q : m <= p
  <2>1. Q \in SUBSET Int /\ i \in Q /\ \A m \in Q : m <= j BY <1>1
  <2> HIDE DEF Q
  <2> QED BY <2>1, GreatestExists
<1>3. p \in Int /\ p \in P /\ p <= j OBVIOUS
<1>4. \/ w[p] \in Spaces /\ p + 1 \in P
      \/ \E l \in p .. j : IsAttribute(w, p, l) /\ l + 1 \in P
  BY <1>1, <1>3 DEF Cuts, IsCut
<1>5. CASE w[p] \in Spaces /\ p + 1 \in P
  <2>1. p = j
    <3>1. p + 1 \notin Q BY <1>2, <1>3
    <3> QED BY <1>3, <1>5, <3>1
  <2> QED BY <1>5, <2>1
<1>6. CASE \E l \in p .. j : IsAttribute(w, p, l) /\ l + 1 \in P
  <2>1. PICK l \in p .. j : IsAttribute(w, p, l) /\ l + 1 \in P BY <1>6
  <2>2. l = j
    <3>1. l + 1 \notin Q BY <1>2, <1>3
    <3> QED BY <1>3, <2>1, <3>1
  <2> QED BY <1>3, <2>1, <2>2, AttributeIs
<1> QED BY <1>4, <1>5, <1>6

LEMMA BodyAddsSpace ==
  ASSUME NEW w, NEW i \in Int, NEW j \in Int, i <= j + 1, IsBody(w, i, j), w[j + 1] \in Spaces
  PROVE  IsBody(w, i, j + 1)
<1>1. Cuts(w, j + 1, {j + 1, j + 2}) BY DEF Cuts, IsCut
<1>2. IsBody(w, j + 1, j + 1) BY <1>1, BodyByCuts
<1>3. j + 1 - 1 = j /\ j + 1 \in Int OBVIOUS
<1> QED BY <1>2, <1>3, BodyJoin

LEMMA BodyAddsAttribute ==
  ASSUME NEW w, NEW i \in Int, NEW a \in Int, NEW j \in Int, i <= a, a <= j,
         IsBody(w, i, a - 1), IsAttribute(w, a, j)
  PROVE  IsBody(w, i, j)
<1>1. Cuts(w, j, {a, j + 1}) BY DEF Cuts, IsCut
<1>2. IsBody(w, a, j) BY <1>1, BodyByCuts
<1> QED BY <1>2, BodyJoin

(* Where an attribute has begun and not ended there is no body.             *)
LEMMA BodyStuck ==
  ASSUME NEW w, NEW i \in Int, NEW a \in Int, NEW j \in Int, i <= a, a <= j,
         IsBody(w, i, a - 1), w[a] \in NameCharacters, \A l \in a .. j : ~IsAttribute(w, a, l)
  PROVE  ~IsBody(w, i, j)
<1> SUFFICES ASSUME IsBody(w, i, j) PROVE FALSE OBVIOUS
<1>1. IsBody(w, a, j) BY BodyRest
<1>2. w[a] \in Spaces BY <1>1, BodyStart
<1> QED BY <1>2, Classes

-----------------------------------------------------------------------------
(* The attributes of a body: where each begins, its name, the quotes of its  *)
(* value.                                                                    *)

IsPart(w, i, j, f) ==
  /\ i <= f[1] /\ f[1] <= f[2] /\ f[2] < f[3] /\ f[3] < f[4] /\ f[4] <= j
  /\ IsAttributeOf(w, f[1], f[2], f[3], f[4])
  /\ IsBody(w, i, f[1] - 1)
Parts(w, i, j) == {f \in Int \X Int \X Int \X Int : IsPart(w, i, j, f)}
NameOf(w, f) == SubSeq(w, f[1], f[2])
LatestOf(w, parts) ==
  {<<NameOf(w, f), SubSeq(w, f[3] + 1, f[4] - 1)>> :
     f \in {f \in parts : \A g \in parts : NameOf(w, g) = NameOf(w, f) => g[1] <= f[1]}}

LEMMA AttributesOfParts ==
  ASSUME NEW w, NEW i \in Int, NEW j \in Int, i <= j + 1, IsBody(w, i, j)
  PROVE  Attributes(w, i, j) = LatestOf(w, Parts(w, i, j))
<1> DEFINE quotes == {q \in i .. j : w[q] \in Quotes}
           found == {f \in (i .. j) \X (i .. j) \X quotes \X quotes :
                  /\ f[1] <= f[2] /\ f[2] < f[3] /\ f[3] < f[4]
                  /\ IsAttributeOf(w, f[1], f[2], f[3], f[4])
                  /\ IsBody(w, i, f[1] - 1) /\ IsBody(w, f[4] + 1, j)}
<1>1. Attributes(w, i, j) = LatestOf(w, found)
  BY Zenon DEF Attributes, LatestOf, NameOf
<1>2. ASSUME NEW f \in found PROVE f \in Parts(w, i, j)
  BY DEF Parts, IsPart
<1>3. ASSUME NEW f \in Parts(w, i, j) PROVE f \in found
  <2>1. /\ f \in Int \X Int \X Int \X Int
        /\ i <= f[1] /\ f[1] <= f[2] /\ f[2] < f[3] /\ f[3] < f[4] /\ f[4] <= j
        /\ IsAttributeOf(w, f[1], f[2], f[3], f[4])
        /\ IsBody(w, i, f[1] - 1)
    BY DEF Parts, IsPart
  <2>2. w[f[3]] \in Quotes /\ w[f[4]] \in Quotes BY <2>1, Zenon DEF IsAttributeOf
  <2>3. f \in (i .. j) \X (i .. j) \X quotes \X quotes BY <2>1, <2>2
  <2>4. IsBody(w, f[4] + 1, j)
    <3>1. /\ f[1] \in Int /\ f[2] \in Int /\ f[3] \in Int /\ f[4] \in Int
          /\ i <= f[1] /\ f[1] <= f[4] /\ f[3] < f[4]
      BY <2>1
    <3>2. IsAttribute(w, f[1], f[4]) BY <2>1, <3>1, AttributeOf
    <3>3. IsBody(w, i, f[4]) BY <2>1, <3>1, <3>2, BodyAddsAttribute
    <3>4. PICK e \in Int : e = f[4] BY <3>1
    <3>5. e + 1 \in Int /\ (e + 1) - 1 = e /\ i <= e + 1 /\ e + 1 <= j + 1
      BY <2>1, <3>1, <3>4
    <3>6. IsBody(w, i, e) BY <3>3, <3>4
    <3>7. IsBody(w, e + 1, j) BY <3>5, <3>6, BodyRest
    <3> QED BY <3>4, <3>7
  <2> HIDE DEF quotes
  <2> QED BY <2>1, <2>3, <2>4
<1>4. found = Parts(w, i, j) BY <1>2, <1>3
<1> QED BY <1>1, <1>4, Zenon

LEMMA NoAttributesYet ==
  ASSUME NEW w, NEW i \in Int
  PROVE  Attributes(w, i, i - 1) = {}
<1>1. Attributes(w, i, i - 1) = LatestOf(w, Parts(w, i, i - 1))
  BY BodyEmpty, AttributesOfParts
<1>2. Parts(w, i, i - 1) = {} BY DEF Parts, IsPart
<1> QED BY <1>1, <1>2 DEF LatestOf

LEMMA AttributesPastSpace ==
  ASSUME NEW w, NEW i \in Int, NEW j \in Int, i <= j + 1, IsBody(w, i, j), w[j + 1] \in Spaces
  PROVE  Attributes(w, i, j + 1) = Attributes(w, i, j)
<1>1. IsBody(w, i, j + 1) BY BodyAddsSpace
<1>2. ASSUME NEW f \in Parts(w, i, j + 1) PROVE f[4] <= j
  <2>1. w[f[4]] \in Quotes /\ f[4] \in Int /\ f[4] <= j + 1 BY DEF Parts, IsPart, IsAttributeOf
  <2>2. f[4] # j + 1 BY <2>1, Classes
  <2> QED BY <2>1, <2>2
<1>3. Parts(w, i, j + 1) = Parts(w, i, j) BY <1>2 DEF Parts, IsPart
<1> QED BY <1>1, <1>3, AttributesOfParts

(* As XmlStreamTokenizer's Set does it. *)
LEMMA PartsWithOneMore ==
  ASSUME NEW w, NEW i \in Int, NEW a \in Int, NEW n \in Int, NEW q \in Int, NEW j \in Int,
         i <= a, q < j, IsBody(w, i, a - 1), IsAttributeOf(w, a, n, q, j)
  PROVE  /\ Parts(w, i, j) = Parts(w, i, a - 1) \cup {<<a, n, q, j>>}
         /\ \A f \in Parts(w, i, a - 1) : f[1] < a
<1> DEFINE new == <<a, n, q, j>>
<1>1. a <= n /\ n + 2 <= q /\ IsAttribute(w, a, j) BY AttributeOf
<1>2. new \in Parts(w, i, j) BY <1>1 DEF Parts, IsPart
<1>3. ASSUME NEW f \in Parts(w, i, a - 1) PROVE f \in Parts(w, i, j) /\ f[1] < a
  BY <1>1 DEF Parts, IsPart
<1>4. ASSUME NEW f \in Parts(w, i, j) PROVE f \in Parts(w, i, a - 1) \cup {new}
  <2>1. /\ f \in Int \X Int \X Int \X Int
        /\ i <= f[1] /\ f[1] <= f[2] /\ f[2] < f[3] /\ f[3] < f[4] /\ f[4] <= j
        /\ IsAttributeOf(w, f[1], f[2], f[3], f[4])
        /\ IsBody(w, i, f[1] - 1)
    BY DEF Parts, IsPart
  <2>2. PICK b \in Int, m \in Int, p \in Int, e \in Int : f = <<b, m, p, e>> BY <2>1
  <2>3. /\ i <= b /\ b <= m /\ m < p /\ p < e /\ e <= j
        /\ IsAttributeOf(w, b, m, p, e) /\ IsBody(w, i, b - 1)
    BY <2>1, <2>2
  <2>4. IsAttribute(w, b, e) BY <2>3, AttributeOf
  <2>5. CASE e <= a - 1 BY <2>1, <2>2, <2>5 DEF Parts, IsPart
  <2>6. CASE b > a
    <3>1. a <= (b - 1) + 1 /\ b - 1 \in Int /\ a <= b - 1 BY <2>6
    <3>2. IsBody(w, a, b - 1) BY <2>3, <3>1, BodyRest
    <3>3. \/ w[a] \in Spaces
          \/ \E l \in a .. b - 1 : IsAttribute(w, a, l)
      BY <3>1, <3>2, BodyStart
    <3>4. w[a] \notin Spaces BY <1>1, AttributeIs, Classes
    <3>5. PICK l \in a .. b - 1 : IsAttribute(w, a, l) BY <3>3, <3>4
    <3>6. l = j BY <1>1, <3>5, AttributeEnds
    <3> QED BY <2>3, <3>5, <3>6
  <2>7. CASE b < a /\ e >= a
    <3>1. b <= (a - 1) + 1 /\ a - 1 \in Int /\ b <= a - 1 BY <2>7
    <3>2. IsBody(w, b, a - 1) BY <2>3, <3>1, BodyRest
    <3>3. \/ w[b] \in Spaces
          \/ \E l \in b .. a - 1 : IsAttribute(w, b, l)
      BY <3>1, <3>2, BodyStart
    <3>4. w[b] \notin Spaces BY <2>4, AttributeIs, Classes
    <3>5. PICK l \in b .. a - 1 : IsAttribute(w, b, l) BY <3>3, <3>4
    <3>6. l = e BY <2>4, <3>5, AttributeEnds
    <3> QED BY <2>7, <3>5, <3>6
  <2>8. CASE b = a
    <3>1. m = n /\ p = q /\ e = j BY <2>3, <2>8, AttributeParts
    <3> QED BY <2>2, <2>8, <3>1
  <2> QED BY <2>5, <2>6, <2>7, <2>8
<1> QED BY <1>2, <1>3, <1>4

(* The attributes i .. j, whose last has the name a .. n and its value from q *)
(* on, are those before it, but for one of that name, and the last.          *)
LaterCounts(w, i, a, n, q, j) ==
  Attributes(w, i, j)
    = {e \in Attributes(w, i, a - 1) : e[1] # SubSeq(w, a, n)}
        \cup {<<SubSeq(w, a, n), SubSeq(w, q + 1, j - 1)>>}

LEMMA AttributesPastAttribute ==
  ASSUME NEW w, NEW i \in Int, NEW a \in Int, NEW n \in Int, NEW q \in Int, NEW j \in Int,
         i <= a, q < j, IsBody(w, i, a - 1), IsAttributeOf(w, a, n, q, j)
  PROVE  LaterCounts(w, i, a, n, q, j)
<1> DEFINE new == <<a, n, q, j>>
           old == Parts(w, i, a - 1)
           name == SubSeq(w, a, n)
           entry(f) == <<NameOf(w, f), SubSeq(w, f[3] + 1, f[4] - 1)>>
<1>1. a <= n /\ n + 2 <= q /\ IsAttribute(w, a, j) /\ a <= j /\ i <= (a - 1) + 1
  BY AttributeOf
<1>2. IsBody(w, i, j) BY <1>1, BodyAddsAttribute
<1>3. Attributes(w, i, j) = LatestOf(w, old \cup {new})
  BY <1>1, <1>2, AttributesOfParts, PartsWithOneMore
<1>4. Attributes(w, i, a - 1) = LatestOf(w, old) BY <1>1, AttributesOfParts
<1>5. \A f \in old : f[1] < a /\ f[1] \in Int
  BY PartsWithOneMore DEF Parts
<1>6. new[1] = a /\ NameOf(w, new) = name /\ entry(new) = <<name, SubSeq(w, q + 1, j - 1)>>
  BY DEF NameOf
<1> HIDE DEF old, new, name
<1>7. ASSUME NEW f \in old, \A g \in old : NameOf(w, g) = NameOf(w, f) => g[1] <= f[1]
      PROVE  \/ NameOf(w, f) = name
             \/ \A g \in old \cup {new} : NameOf(w, g) = NameOf(w, f) => g[1] <= f[1]
  BY <1>6, <1>7
<1>8. \A g \in old \cup {new} : NameOf(w, g) = NameOf(w, new) => g[1] <= new[1]
  BY <1>5, <1>6
<1>9. ASSUME NEW f \in old, \A g \in old \cup {new} : NameOf(w, g) = NameOf(w, f) => g[1] <= f[1]
      PROVE  NameOf(w, f) # name
  BY <1>5, <1>6, <1>9
<1>10. \A f : entry(f)[1] = NameOf(w, f) OBVIOUS
<1> DEFINE Latest(S) == {f \in S : \A g \in S : NameOf(w, g) = NameOf(w, f) => g[1] <= f[1]}
<1>11. \A S : LatestOf(w, S) = {entry(f) : f \in Latest(S)} BY DEF LatestOf
<1>12. Latest(old \cup {new}) = {f \in Latest(old) : NameOf(w, f) # name} \cup {new}
  BY <1>6, <1>7, <1>8, <1>9
<1> HIDE DEF Latest, entry
<1>13. {entry(f) : f \in Latest(old \cup {new})}
         = {e \in {entry(f) : f \in Latest(old)} : e[1] # name} \cup {entry(new)}
  BY <1>10, <1>12
<1>14. Attributes(w, i, j)
          = {e \in Attributes(w, i, a - 1) : e[1] # name} \cup {<<name, SubSeq(w, q + 1, j - 1)>>}
  BY <1>3, <1>4, <1>6, <1>11, <1>13
<1> QED BY <1>14 DEF name, LaterCounts

-----------------------------------------------------------------------------
(* Stretches of a text.                                                     *)

Text == Seq(Chars)

LEMMA TextFacts ==
  ASSUME NEW w \in Text
  PROVE  /\ Len(w) \in Nat
         /\ \A k \in 1 .. Len(w) : w[k] \in Chars
  BY DEF Text

LEMMA PartOfText ==
  ASSUME NEW w \in Text, NEW a \in Int, NEW b \in Int, 1 <= a, a <= b + 1, b <= Len(w)
  PROVE  /\ SubSeq(w, a, b) \in Text /\ Len(SubSeq(w, a, b)) = b - a + 1
         /\ \A k \in 1 .. b - a + 1 : SubSeq(w, a, b)[k] = w[a + k - 1]
  BY DEF Text

LEMMA TextsEqual ==
  ASSUME NEW s \in Text, NEW t \in Text, Len(s) = Len(t), \A k \in 1 .. Len(s) : s[k] = t[k]
  PROVE  s = t
  BY DEF Text

LEMMA JoinedTexts ==
  ASSUME NEW S, NEW s \in Seq(S), NEW t \in Seq(S)
  PROVE  /\ s \o t \in Seq(S) /\ Len(s \o t) = Len(s) + Len(t)
         /\ \A k \in 1 .. Len(s) : (s \o t)[k] = s[k]
         /\ \A k \in 1 .. Len(t) : (s \o t)[Len(s) + k] = t[k]
  OBVIOUS

LEMMA TextsJoined ==
  ASSUME NEW s \in Text, NEW t \in Text
  PROVE  /\ s \o t \in Text /\ Len(s \o t) = Len(s) + Len(t)
         /\ \A k \in 1 .. Len(s) : (s \o t)[k] = s[k]
         /\ \A k \in 1 .. Len(t) : (s \o t)[Len(s) + k] = t[k]
  BY JoinedTexts DEF Text

LEMMA WordIn ==
  ASSUME NEW w \in Text, NEW i \in Int, 1 <= i, NEW word \in Text
  PROVE  IsIn(w, i, word) <=> /\ i + Len(word) - 1 <= Len(w)
                              /\ \A k \in 1 .. Len(word) : w[i + k - 1] = word[k]
<1> DEFINE n == Len(word)
           e == i + n - 1
<1>1. n \in Nat BY TextFacts
<1>2. e \in Int /\ i <= e + 1 /\ e - i + 1 = n BY <1>1
<1>3. ASSUME e <= Len(w)
      PROVE  SubSeq(w, i, e) = word <=> \A k \in 1 .. n : w[i + k - 1] = word[k]
  <2> DEFINE t == SubSeq(w, i, e)
  <2> HIDE DEF e
  <2>1. /\ t \in Text /\ Len(t) = e - i + 1
        /\ \A k \in 1 .. e - i + 1 : t[k] = w[i + k - 1]
    BY <1>2, <1>3, PartOfText
  <2>2. Len(t) = Len(word) /\ \A k \in 1 .. n : t[k] = w[i + k - 1] BY <1>2, <2>1
  <2> HIDE DEF t
  <2>3. t = word <=> \A k \in 1 .. n : t[k] = word[k]
    BY <2>1, <2>2, TextsEqual
  <2> QED BY <2>2, <2>3 DEF t
<1> QED BY <1>3 DEF IsIn

LEMMA Marks ==
  /\ CommentStart \in Text /\ Len(CommentStart) = 2
  /\ CommentStart[1] = "-" /\ CommentStart[2] = "-"
  /\ CommentEnd \in Text /\ Len(CommentEnd) = 3
  /\ CommentEnd[1] = "-" /\ CommentEnd[2] = "-" /\ CommentEnd[3] = ">"
  /\ CdataStart \in Text /\ Len(CdataStart) = 3
  /\ CdataStart[1] = "[" /\ CdataStart[2] = "CDATA" /\ CdataStart[3] = "["
  /\ CdataEnd \in Text /\ Len(CdataEnd) = 3
  /\ CdataEnd[1] = "]" /\ CdataEnd[2] = "]" /\ CdataEnd[3] = ">"
<1>1. {"-", "CDATA", "[", "]", ">"} \subseteq Chars BY DEF Chars, NameCharacters, Delimiters
<1> QED BY <1>1 DEF CommentStart, CommentEnd, CdataStart, CdataEnd, Text

LEMMA TwoIn ==
  ASSUME NEW w \in Text, NEW i \in Int, 1 <= i
  PROVE  IsIn(w, i, CommentStart) <=> i + 1 <= Len(w) /\ w[i] = "-" /\ w[i + 1] = "-"
<1>1. \A k \in 1 .. 2 : k = 1 \/ k = 2 OBVIOUS
<1>2. i + 1 - 1 = i /\ i + 2 - 1 = i + 1 OBVIOUS
<1>3. IsIn(w, i, CommentStart) <=> /\ i + Len(CommentStart) - 1 <= Len(w)
                                   /\ \A k \in 1 .. Len(CommentStart) : w[i + k - 1] = CommentStart[k]
  BY Marks, WordIn
<1> QED BY <1>1, <1>2, <1>3, Marks

LEMMA ThreeIn ==
  ASSUME NEW w \in Text, NEW i \in Int, 1 <= i, NEW word \in Text, Len(word) = 3
  PROVE  IsIn(w, i, word) <=> /\ i + 2 <= Len(w)
                              /\ w[i] = word[1] /\ w[i + 1] = word[2] /\ w[i + 2] = word[3]
<1>1. \A k \in 1 .. 3 : k = 1 \/ k = 2 \/ k = 3 OBVIOUS
<1>2. i + 1 - 1 = i /\ i + 2 - 1 = i + 1 /\ i + 3 - 1 = i + 2 OBVIOUS
<1>3. IsIn(w, i, word) <=> /\ i + Len(word) - 1 <= Len(w)
                           /\ \A k \in 1 .. Len(word) : w[i + k - 1] = word[k]
  BY WordIn
<1> QED BY <1>1, <1>2, <1>3

(* The mark of a CDATA section, told from the "<" before it.                *)
LEMMA CdataMark ==
  ASSUME NEW w \in Text, NEW i \in Int, 1 <= i
  PROVE  IsIn(w, i, <<"<", "!">> \o CdataStart)
         <=> /\ i + 4 <= Len(w) /\ w[i] = "<" /\ w[i + 1] = "!"
             /\ w[i + 2] = "[" /\ w[i + 3] = "CDATA" /\ w[i + 4] = "["
<1> DEFINE word == <<"<", "!", "[", "CDATA", "[">>
<1>2. word \in Text /\ Len(word) = 5 /\ <<"<", "!">> \in Text
  <2>1. {"<", "!", "[", "CDATA"} \subseteq Chars BY DEF Chars, NameCharacters, Delimiters
  <2> QED BY <2>1 DEF Text
<1>3. /\ word[1] = "<" /\ word[2] = "!" /\ word[3] = "["
      /\ word[4] = "CDATA" /\ word[5] = "["
  OBVIOUS
<1> HIDE DEF word
<1>4. \A k \in 1 .. 5 : k = 1 \/ k = 2 \/ k = 3 \/ k = 4 \/ k = 5 OBVIOUS
<1>1. <<"<", "!">> \o CdataStart = word
  <2> DEFINE two == <<"<", "!">>
             joined == two \o CdataStart
  <2>1. two \in Text /\ Len(two) = 2 /\ two[1] = "<" /\ two[2] = "!" BY <1>2
  <2> HIDE DEF two
  <2>2. /\ joined \in Text /\ Len(joined) = 5
        /\ \A k \in 1 .. 2 : joined[k] = two[k]
        /\ \A k \in 1 .. 3 : joined[2 + k] = CdataStart[k]
    <3>1. CdataStart \in Text /\ Len(CdataStart) = 3 BY Marks
    <3>2. /\ joined \in Text /\ Len(joined) = Len(two) + Len(CdataStart)
          /\ \A k \in 1 .. Len(two) : joined[k] = two[k]
          /\ \A k \in 1 .. Len(CdataStart) : joined[Len(two) + k] = CdataStart[k]
      BY <2>1, <3>1, TextsJoined, Zenon
    <3> HIDE DEF joined
    <3> QED BY <2>1, <3>1, <3>2
  <2> HIDE DEF joined
  <2>3. /\ joined[1] = "<" /\ joined[2] = "!" /\ joined[2 + 1] = "["
        /\ joined[2 + 2] = "CDATA" /\ joined[2 + 3] = "["
    BY <2>1, <2>2, Marks
  <2>4. \A k \in 1 .. 5 : joined[k] = word[k] BY <1>3, <1>4, <2>3
  <2>5. joined = word BY <1>2, <2>2, <2>4, TextsEqual
  <2> QED BY <2>5 DEF joined, two
<1>5. /\ i + 1 - 1 = i /\ i + 2 - 1 = i + 1 /\ i + 3 - 1 = i + 2 /\ i + 4 - 1 = i + 3
      /\ i + 5 - 1 = i + 4
  OBVIOUS
<1>6. IsIn(w, i, word) <=> /\ i + Len(word) - 1 <= Len(w)
                           /\ \A k \in 1 .. Len(word) : w[i + k - 1] = word[k]
  BY <1>2, WordIn
<1>7. IsIn(w, i, word) <=> /\ i + 4 <= Len(w) /\ w[i] = "<" /\ w[i + 1] = "!"
                           /\ w[i + 2] = "[" /\ w[i + 3] = "CDATA" /\ w[i + 4] = "["
  BY <1>2, <1>3, <1>4, <1>5, <1>6
<1> QED BY <1>1, <1>7, Zenon

-----------------------------------------------------------------------------
(* Which markup a stretch can be follows from its second character.         *)

Sections(w, i, j) ==
  {TextItems(SubSeq(w, i + 5, k - 3)) : k \in {k \in {j} : IsSection(w, i, k, CdataStart, CdataEnd)}}
Alone(items) == {<<item>> : item \in items}

LEMMA MarkupIs ==
  ASSUME NEW w, NEW i, NEW j
  PROVE  Markup(w, i, j)
         = Alone(OpenTags(w, i, j)) \cup Alone(EmptyTags(w, i, j)) \cup Alone(Declarations(w, i, j))
             \cup Alone(CloseTags(w, i, j)) \cup Alone(Comments(w, i, j)) \cup Sections(w, i, j)
<1> DEFINE o == OpenTags(w, i, j)
           e == EmptyTags(w, i, j)
           d == Declarations(w, i, j)
           c == CloseTags(w, i, j)
           m == Comments(w, i, j)
           t == Sections(w, i, j)
<1>1. Markup(w, i, j) = {<<item>> : item \in o \cup e \cup d \cup c \cup m} \cup t
  BY Zenon DEF Markup, Sections
<1> HIDE DEF o, e, d, c, m, t
<1>2. {<<item>> : item \in o \cup e \cup d \cup c \cup m}
      = Alone(o) \cup Alone(e) \cup Alone(d) \cup Alone(c) \cup Alone(m)
  BY DEF Alone
<1>3. Markup(w, i, j)
      = Alone(o) \cup Alone(e) \cup Alone(d) \cup Alone(c) \cup Alone(m) \cup t
  BY <1>1, <1>2, Zenon
<1> QED BY <1>3, Zenon DEF o, e, d, c, m, t

LEMMA TagsAre ==
  ASSUME NEW w, NEW i \in Int, NEW j \in Int
  PROVE  /\ OpenTags(w, i, j) # {} => w[i + 1] \in NameCharacters /\ w[j] = ">"
         /\ EmptyTags(w, i, j) # {} => w[i + 1] \in NameCharacters /\ w[j - 1] = "/" /\ w[j] = ">"
         /\ Declarations(w, i, j) # {} => w[i + 1] = "?" /\ w[j - 1] = "?" /\ w[j] = ">"
         /\ CloseTags(w, i, j) # {} => w[i + 1] = "/" /\ w[j] = ">"
<1>1. \A n \in Int, m \in Int : IsName(w, i + 1, n) => w[i + 1] \in NameCharacters
  BY MaxBufferAssumption DEF IsName
<1>2. OpenTags(w, i, j) # {} => w[i + 1] \in NameCharacters /\ w[j] = ">"
  BY <1>1 DEF OpenTags, IsNameAndBody
<1>3. EmptyTags(w, i, j) # {} => w[i + 1] \in NameCharacters /\ w[j - 1] = "/" /\ w[j] = ">"
  BY <1>1 DEF EmptyTags, IsNameAndBody
<1>4. Declarations(w, i, j) # {} => w[i + 1] = "?" /\ w[j - 1] = "?" /\ w[j] = ">"
  BY DEF Declarations
<1>5. CloseTags(w, i, j) # {} => w[i + 1] = "/" /\ w[j] = ">"
  BY DEF CloseTags
<1> QED BY <1>2, <1>3, <1>4, <1>5

LEMMA CommentIs ==
  ASSUME NEW w \in Text, NEW i \in Int, 1 <= i, NEW j \in Int
  PROVE  IsSection(w, i, j, CommentStart, CommentEnd)
         <=> /\ w[i + 1] = "!" /\ i + 3 <= Len(w) /\ w[i + 2] = "-" /\ w[i + 3] = "-"
             /\ i + 6 <= j /\ IsIn(w, j - 2, CommentEnd)
             /\ \A k \in i + 4 .. j - 3 : ~IsIn(w, k, CommentEnd)
<1>1. /\ IsIn(w, i + 2, CommentStart) <=> i + 2 + 1 <= Len(w) /\ w[i + 2] = "-" /\ w[i + 2 + 1] = "-"
      /\ i + 2 + 1 = i + 3
  BY TwoIn
<1>2. Len(CommentStart) = 2 /\ Len(CommentEnd) = 3 BY Marks
<1>3. i + 2 + 2 = i + 4 /\ j - 3 + 1 = j - 2 /\ (j - 2 >= i + 4 <=> i + 6 <= j) OBVIOUS
<1>4. IsSection(w, i, j, CommentStart, CommentEnd)
      <=> /\ w[i + 1] = "!" /\ IsIn(w, i + 2, CommentStart)
          /\ j - 3 + 1 >= i + 2 + 2 /\ IsIn(w, j - 3 + 1, CommentEnd)
          /\ \A k \in i + 2 + 2 .. j - 3 : ~IsIn(w, k, CommentEnd)
  BY <1>2, Zenon DEF IsSection
<1> QED BY <1>1, <1>3, <1>4

LEMMA CdataIs ==
  ASSUME NEW w \in Text, NEW i \in Int, 1 <= i, NEW j \in Int
  PROVE  IsSection(w, i, j, CdataStart, CdataEnd)
         <=> /\ w[i + 1] = "!" /\ i + 4 <= Len(w)
             /\ w[i + 2] = "[" /\ w[i + 3] = "CDATA" /\ w[i + 4] = "["
             /\ i + 7 <= j /\ IsIn(w, j - 2, CdataEnd)
             /\ \A k \in i + 5 .. j - 3 : ~IsIn(w, k, CdataEnd)
<1>1. /\ IsIn(w, i + 2, CdataStart)
         <=> /\ i + 2 + 2 <= Len(w)
             /\ w[i + 2] = "[" /\ w[i + 2 + 1] = "CDATA" /\ w[i + 2 + 2] = "["
      /\ i + 2 + 1 = i + 3 /\ i + 2 + 2 = i + 4
  BY Marks, ThreeIn
<1>2. Len(CdataStart) = 3 /\ Len(CdataEnd) = 3 BY Marks
<1>3. i + 2 + 3 = i + 5 /\ j - 3 + 1 = j - 2 /\ (j - 2 >= i + 5 <=> i + 7 <= j) OBVIOUS
<1>4. IsSection(w, i, j, CdataStart, CdataEnd)
      <=> /\ w[i + 1] = "!" /\ IsIn(w, i + 2, CdataStart)
          /\ j - 3 + 1 >= i + 2 + 3 /\ IsIn(w, j - 3 + 1, CdataEnd)
          /\ \A k \in i + 2 + 3 .. j - 3 : ~IsIn(w, k, CdataEnd)
  BY <1>2, Zenon DEF IsSection
<1> QED BY <1>1, <1>3, <1>4

LEMMA SectionsAre ==
  ASSUME NEW w \in Text, NEW i \in Int, 1 <= i, NEW j \in Int
  PROVE  /\ Comments(w, i, j) # {} => w[i + 1] = "!" /\ w[i + 2] = "-" /\ w[j] = ">"
         /\ Sections(w, i, j) # {} => w[i + 1] = "!" /\ w[i + 2] = "[" /\ w[j] = ">"
<1>1. ASSUME NEW word \in Text, Len(word) = 3, word[3] = ">", i + 6 <= j, IsIn(w, j - 2, word)
      PROVE  w[j] = ">"
  <2>1. j - 2 \in Int /\ 1 <= j - 2 /\ j - 2 + 2 = j BY <1>1
  <2> QED BY <1>1, <2>1, ThreeIn
<1>2. ASSUME Comments(w, i, j) # {} PROVE w[i + 1] = "!" /\ w[i + 2] = "-" /\ w[j] = ">"
  <2>1. IsSection(w, i, j, CommentStart, CommentEnd) BY <1>2 DEF Comments
  <2>2. /\ w[i + 1] = "!" /\ w[i + 2] = "-" /\ i + 6 <= j /\ IsIn(w, j - 2, CommentEnd)
    BY <2>1, CommentIs
  <2> QED BY <2>2, <1>1, Marks
<1>3. ASSUME Sections(w, i, j) # {} PROVE w[i + 1] = "!" /\ w[i + 2] = "[" /\ w[j] = ">"
  <2>1. IsSection(w, i, j, CdataStart, CdataEnd) BY <1>3 DEF Sections
  <2>2. /\ w[i + 1] = "!" /\ w[i + 2] = "[" /\ i + 7 <= j /\ IsIn(w, j - 2, CdataEnd)
    BY <2>1, CdataIs
  <2> QED BY <2>2, <1>1, Marks
<1> QED BY <1>2, <1>3

LEMMA MarkupEnds ==
  ASSUME NEW w \in Text, NEW i \in Int, 1 <= i, NEW j \in Int, w[j] # ">"
  PROVE  Markup(w, i, j) = {}
<1>1. /\ OpenTags(w, i, j) = {} /\ EmptyTags(w, i, j) = {} /\ Declarations(w, i, j) = {}
      /\ CloseTags(w, i, j) = {} /\ Comments(w, i, j) = {} /\ Sections(w, i, j) = {}
  BY TagsAre, SectionsAre
<1> QED BY <1>1, MarkupIs DEF Alone

LEMMA MarkupOfKind ==
  ASSUME NEW w \in Text, NEW i \in Int, 1 <= i, NEW j \in Int
  PROVE  /\ w[i + 1] \in NameCharacters
              => Markup(w, i, j) = Alone(OpenTags(w, i, j)) \cup Alone(EmptyTags(w, i, j))
         /\ w[i + 1] = "?" => Markup(w, i, j) = Alone(Declarations(w, i, j))
         /\ w[i + 1] = "/" => Markup(w, i, j) = Alone(CloseTags(w, i, j))
         /\ w[i + 1] = "!" /\ w[i + 2] = "-" => Markup(w, i, j) = Alone(Comments(w, i, j))
         /\ w[i + 1] = "!" /\ w[i + 2] = "[" => Markup(w, i, j) = Sections(w, i, j)
         /\ w[i + 1] \notin NameCharacters \cup {"?", "/", "!"} => Markup(w, i, j) = {}
         /\ w[i + 1] = "!" /\ w[i + 2] \notin {"-", "["} => Markup(w, i, j) = {}
<1>1. /\ w[i + 1] \notin NameCharacters => OpenTags(w, i, j) = {} /\ EmptyTags(w, i, j) = {}
      /\ w[i + 1] # "?" => Declarations(w, i, j) = {}
      /\ w[i + 1] # "/" => CloseTags(w, i, j) = {}
      /\ ~(w[i + 1] = "!" /\ w[i + 2] = "-") => Comments(w, i, j) = {}
      /\ ~(w[i + 1] = "!" /\ w[i + 2] = "[") => Sections(w, i, j) = {}
  BY TagsAre, SectionsAre, Zenon
<1>2. Alone({}) = {} BY DEF Alone
<1>3. w[i + 1] \in {"?", "/", "!"} => w[i + 1] \notin NameCharacters
  BY Classes
<1> DEFINE o == OpenTags(w, i, j)
           e == EmptyTags(w, i, j)
           d == Declarations(w, i, j)
           c == CloseTags(w, i, j)
           m == Comments(w, i, j)
           t == Sections(w, i, j)
<1>4. Markup(w, i, j)
      = Alone(o) \cup Alone(e) \cup Alone(d) \cup Alone(c) \cup Alone(m) \cup t
  BY MarkupIs
<1> HIDE DEF o, e, d, c, m, t
<1>5. CASE w[i + 1] \in NameCharacters
  <2>1. w[i + 1] \notin {"?", "/", "!"} BY <1>3, <1>5
  <2>2. d = {} /\ c = {} /\ m = {} /\ t = {} BY <1>1, <2>1 DEF d, c, m, t
  <2>3. Markup(w, i, j) = Alone(o) \cup Alone(e) BY <1>2, <1>4, <2>2
  <2> QED BY <1>5, <2>1, <2>3 DEF o, e
<1>6. CASE w[i + 1] \notin NameCharacters
  <2>1. o = {} /\ e = {} BY <1>1, <1>6 DEF o, e
  <2>2. /\ w[i + 1] # "?" => d = {}
        /\ w[i + 1] # "/" => c = {}
        /\ ~(w[i + 1] = "!" /\ w[i + 2] = "-") => m = {}
        /\ ~(w[i + 1] = "!" /\ w[i + 2] = "[") => t = {}
    BY <1>1 DEF d, c, m, t
  <2>3. Markup(w, i, j) = Alone(d) \cup Alone(c) \cup Alone(m) \cup t BY <1>2, <1>4, <2>1
  <2>4. w[i + 1] = "?" => Markup(w, i, j) = Alone(d) BY <1>2, <2>2, <2>3
  <2>5. w[i + 1] = "/" => Markup(w, i, j) = Alone(c) BY <1>2, <2>2, <2>3
  <2>6. w[i + 1] = "!" /\ w[i + 2] = "-" => Markup(w, i, j) = Alone(m) BY <1>2, <2>2, <2>3
  <2>7. w[i + 1] = "!" /\ w[i + 2] = "[" => Markup(w, i, j) = t BY <1>2, <2>2, <2>3
  <2>8. w[i + 1] \notin {"?", "/", "!"} => Markup(w, i, j) = {} BY <1>2, <2>2, <2>3
  <2>9. w[i + 1] = "!" /\ w[i + 2] \notin {"-", "["} => Markup(w, i, j) = {} BY <1>2, <2>2, <2>3
  <2> QED BY <1>6, <2>4, <2>5, <2>6, <2>7, <2>8, <2>9 DEF d, c, m, t
<1> QED BY <1>5, <1>6

-----------------------------------------------------------------------------
(* Tags and declarations: the name ends in one place only, and what they     *)
(* are follows.                                                              *)

LEMMA NamedBodyName ==
  ASSUME NEW w, NEW f \in Int, NEW m \in Int, NEW x \in Int, m <= x, IsNameAndBody(w, f, m, x),
         w[x + 1] \in Delimiters
  PROVE  IsName(w, f, m) /\ w[m + 1] \in Delimiters
<1>1. CASE m = x BY <1>1 DEF IsNameAndBody
<1>2. CASE m < x BY <1>2, Classes DEF IsNameAndBody
<1> QED BY <1>1, <1>2

LEMMA NamedBodyLast ==
  ASSUME NEW w, NEW f \in Int, NEW m \in Int, NEW x \in Int, m <= x, IsNameAndBody(w, f, m, x)
  PROVE  w[x] \in NameCharacters \cup Spaces \cup Quotes
<1>1. CASE m = x BY <1>1, MaxBufferAssumption DEF IsNameAndBody, IsName
<1>2. CASE m < x
  <2>1. IsBody(w, m + 1, x) BY DEF IsNameAndBody
  <2> QED BY <1>2, <2>1, BodyLast
<1> QED BY <1>1, <1>2

LEMMA NamedBodyIsOne ==
  ASSUME NEW w, NEW f \in Int, NEW m \in Int, NEW n \in Int, NEW x \in Int, m <= x, n <= x,
         IsNameAndBody(w, f, m, x), IsNameAndBody(w, f, n, x), w[x + 1] \in Delimiters
  PROVE  m = n
<1>1. IsName(w, f, m) /\ w[m + 1] \in Delimiters BY NamedBodyName
<1>2. IsName(w, f, n) /\ w[n + 1] \in Delimiters BY NamedBodyName
<1> QED BY <1>1, <1>2, NameEnds

LEMMA NamesAre ==
  ASSUME NEW w, NEW f \in Int, NEW m \in Int, IsName(w, f, m)
  PROVE  f <= m /\ w[f] \in NameCharacters /\ w[m] \in NameCharacters
  BY MaxBufferAssumption DEF IsName

LEMMA OpenTagIs ==
  ASSUME NEW w \in Text, NEW i \in Int, 1 <= i, NEW m \in Int, NEW x \in Int, m <= x,
         IsNameAndBody(w, i + 1, m, x), w[x + 1] = ">"
  PROVE  Markup(w, i, x + 1) = {<<Tag("OPEN_TAG", w, i + 1, m, x)>>}
<1>1. i + 1 <= m /\ w[i + 1] \in NameCharacters BY NamesAre DEF IsNameAndBody
<1>2. w[x + 1] \in Delimiters BY Classes
<1>3. EmptyTags(w, i, x + 1) = {}
  <2>1. w[x] # "/" BY NamedBodyLast, Classes
  <2>2. x + 1 - 1 = x /\ x + 1 \in Int OBVIOUS
  <2> QED BY <2>1, <2>2, TagsAre
<1>4. OpenTags(w, i, x + 1) = {Tag("OPEN_TAG", w, i + 1, m, x)}
  <2> DEFINE names == {n \in i + 1 .. x : IsNameAndBody(w, i + 1, n, x)}
  <2>1. names = {m}
    <3>1. m \in names BY <1>1
    <3>2. ASSUME NEW n \in names PROVE n = m
      <4>1. n \in Int /\ n <= x /\ IsNameAndBody(w, i + 1, n, x) /\ i + 1 \in Int OBVIOUS
      <4> QED BY <1>2, <4>1, NamedBodyIsOne
    <3> QED BY <3>1, <3>2
  <2>2. x + 1 - 1 = x OBVIOUS
  <2>3. OpenTags(w, i, x + 1) = {Tag("OPEN_TAG", w, i + 1, n, x) : n \in names}
    BY <2>2 DEF OpenTags
  <2> HIDE DEF names
  <2> QED BY <2>1, <2>3
<1>5. Markup(w, i, x + 1) = Alone(OpenTags(w, i, x + 1)) \cup Alone(EmptyTags(w, i, x + 1))
  <2>1. x + 1 \in Int OBVIOUS
  <2> QED BY <1>1, <2>1, MarkupOfKind
<1> QED BY <1>3, <1>4, <1>5 DEF Alone

LEMMA EmptyTagIs ==
  ASSUME NEW w \in Text, NEW i \in Int, 1 <= i, NEW m \in Int, NEW x \in Int, m <= x,
         IsNameAndBody(w, i + 1, m, x), w[x + 1] = "/", w[x + 2] = ">"
  PROVE  Markup(w, i, x + 2) = {<<Tag("EMPTY_TAG", w, i + 1, m, x)>>}
<1>1. i + 1 <= m /\ w[i + 1] \in NameCharacters BY NamesAre DEF IsNameAndBody
<1>2. w[x + 1] \in Delimiters BY Classes
<1>0. x + 2 - 1 = x + 1 /\ x + 2 - 2 = x /\ x + 2 \in Int OBVIOUS
<1>3. OpenTags(w, i, x + 2) = {}
  <2>1. ASSUME NEW n \in i + 1 .. x + 1, IsNameAndBody(w, i + 1, n, x + 1) PROVE FALSE
    <3>1. w[x + 1] \in NameCharacters \cup Spaces \cup Quotes
      <4>1. n \in Int /\ n <= x + 1 /\ x + 1 \in Int /\ i + 1 \in Int OBVIOUS
      <4> QED BY <2>1, <4>1, NamedBodyLast
    <3> QED BY <3>1, Classes
  <2>2. OpenTags(w, i, x + 2)
        = {Tag("OPEN_TAG", w, i + 1, n, x + 1) :
             n \in {n \in i + 1 .. x + 1 : w[x + 2] = ">" /\ IsNameAndBody(w, i + 1, n, x + 1)}}
    BY <1>0 DEF OpenTags
  <2> QED BY <2>1, <2>2
<1>4. EmptyTags(w, i, x + 2) = {Tag("EMPTY_TAG", w, i + 1, m, x)}
  <2> DEFINE names == {n \in i + 1 .. x : IsNameAndBody(w, i + 1, n, x)}
  <2>1. names = {m}
    <3>1. m \in names BY <1>1
    <3>2. ASSUME NEW n \in names PROVE n = m
      <4>1. n \in Int /\ n <= x /\ IsNameAndBody(w, i + 1, n, x) /\ i + 1 \in Int OBVIOUS
      <4> QED BY <1>2, <4>1, NamedBodyIsOne
    <3> QED BY <3>1, <3>2
  <2>3. EmptyTags(w, i, x + 2) = {Tag("EMPTY_TAG", w, i + 1, n, x) : n \in names}
    BY <1>0 DEF EmptyTags
  <2> HIDE DEF names
  <2> QED BY <2>1, <2>3
<1>5. Markup(w, i, x + 2) = Alone(OpenTags(w, i, x + 2)) \cup Alone(EmptyTags(w, i, x + 2))
  BY <1>0, <1>1, MarkupOfKind
<1> QED BY <1>3, <1>4, <1>5 DEF Alone

LEMMA DeclarationIs ==
  ASSUME NEW w \in Text, NEW i \in Int, 1 <= i, NEW m \in Int, NEW x \in Int, m <= x,
         w[i + 1] = "?", IsNameAndBody(w, i + 2, m, x), w[x + 1] = "?", w[x + 2] = ">"
  PROVE  Markup(w, i, x + 2) = {<<Tag("DECLARATION", w, i + 2, m, x)>>}
<1>1. i + 2 <= m BY NamesAre DEF IsNameAndBody
<1>2. w[x + 1] \in Delimiters BY Classes
<1>0. x + 2 - 1 = x + 1 /\ x + 2 - 2 = x /\ x + 2 \in Int OBVIOUS
<1>4. Declarations(w, i, x + 2) = {Tag("DECLARATION", w, i + 2, m, x)}
  <2> DEFINE names == {n \in i + 2 .. x : IsNameAndBody(w, i + 2, n, x)}
  <2>1. names = {m}
    <3>1. m \in names BY <1>1
    <3>2. ASSUME NEW n \in names PROVE n = m
      <4>1. n \in Int /\ n <= x /\ IsNameAndBody(w, i + 2, n, x) /\ i + 2 \in Int OBVIOUS
      <4> QED BY <1>2, <4>1, NamedBodyIsOne
    <3> QED BY <3>1, <3>2
  <2>3. Declarations(w, i, x + 2) = {Tag("DECLARATION", w, i + 2, n, x) : n \in names}
    BY <1>0 DEF Declarations
  <2> HIDE DEF names
  <2> QED BY <2>1, <2>3
<1>5. Markup(w, i, x + 2) = Alone(Declarations(w, i, x + 2))
  BY <1>0, MarkupOfKind
<1> QED BY <1>4, <1>5 DEF Alone

LEMMA NoTag ==
  ASSUME NEW w \in Text, NEW i \in Int, 1 <= i, NEW x \in Int, w[i + 1] \in NameCharacters,
         \A m \in i + 1 .. x : ~IsNameAndBody(w, i + 1, m, x),
         w[x] = "/" => \A m \in i + 1 .. x - 1 : ~IsNameAndBody(w, i + 1, m, x - 1)
  PROVE  Markup(w, i, x + 1) = {}
<1>1. x + 1 - 1 = x /\ x + 1 - 2 = x - 1 /\ x + 1 \in Int OBVIOUS
<1>2. OpenTags(w, i, x + 1) = {} BY <1>1 DEF OpenTags
<1>3. EmptyTags(w, i, x + 1) = {} BY <1>1 DEF EmptyTags
<1> QED BY <1>1, <1>2, <1>3, MarkupOfKind DEF Alone

LEMMA NoDeclaration ==
  ASSUME NEW w \in Text, NEW i \in Int, 1 <= i, NEW x \in Int, w[i + 1] = "?",
         w[x] = "?" => \A m \in i + 2 .. x - 1 : ~IsNameAndBody(w, i + 2, m, x - 1)
  PROVE  Markup(w, i, x + 1) = {}
<1>1. x + 1 - 1 = x /\ x + 1 - 2 = x - 1 /\ x + 1 \in Int OBVIOUS
<1>2. Declarations(w, i, x + 1) = {} BY <1>1 DEF Declarations
<1> QED BY <1>1, <1>2, MarkupOfKind DEF Alone

(* The tag's name is past, and an attribute has begun and not ended.        *)
LEMMA NamedBodyStuck ==
  ASSUME NEW w, NEW f \in Int, NEW m \in Int, NEW a \in Int, NEW x \in Int, m < a, a <= x,
         IsName(w, f, m), w[m + 1] \in Delimiters, IsBody(w, m + 1, a - 1),
         w[a] \in NameCharacters, \A l \in a .. x : ~IsAttribute(w, a, l),
         w[x + 1] \in Delimiters
  PROVE  \A n \in f .. x : ~IsNameAndBody(w, f, n, x)
<1> SUFFICES ASSUME NEW n \in f .. x, IsNameAndBody(w, f, n, x) PROVE FALSE OBVIOUS
<1>1. n \in Int /\ n <= x OBVIOUS
<1>2. IsName(w, f, n) /\ w[n + 1] \in Delimiters BY <1>1, NamedBodyName
<1>3. n = m BY <1>1, <1>2, NameEnds
<1>4. IsBody(w, m + 1, x) BY <1>3 DEF IsNameAndBody
<1>5. m + 1 \in Int /\ m + 1 <= a OBVIOUS
<1> QED BY <1>4, <1>5, BodyStuck

LEMMA CloseTagIs ==
  ASSUME NEW w \in Text, NEW i \in Int, 1 <= i, NEW m \in Int, NEW x \in Int, m <= x,
         w[i + 1] = "/", AreSpaces(w, m + 1, x), w[x + 1] = ">",
         IsName(w, i + 2, m) \/ (m = i + 1 /\ m < x)
  PROVE  Markup(w, i, x + 1) = {<<Item("CLOSE_TAG", SubSeq(w, i + 2, m), NoAttributes)>>}
<1>0. x + 1 - 1 = x /\ x + 1 \in Int OBVIOUS
<1> DEFINE Ends(n) == /\ AreSpaces(w, n + 1, x)
                      /\ IsName(w, i + 2, n) \/ (n = i + 1 /\ n < x)
           names == {n \in i + 1 .. x : Ends(n)}
<1>1. m \in names BY NamesAre
<1>2. ASSUME NEW n \in Int, n <= x, Ends(n) PROVE w[n + 1] \in Delimiters
  <2>1. CASE n = x BY <2>1, Classes
  <2>2. CASE n < x
    <3>1. w[n + 1] \in Spaces BY <1>2, <2>2 DEF AreSpaces
    <3> QED BY <3>1, Classes
  <2> QED BY <1>2, <2>1, <2>2
<1>3. ASSUME NEW n \in names PROVE n = m
  <2>1. n \in Int /\ n <= x /\ Ends(n) /\ Ends(m) OBVIOUS
  <2>2. CASE IsName(w, i + 2, n) /\ IsName(w, i + 2, m)
    <3>1. w[n + 1] \in Delimiters /\ w[m + 1] \in Delimiters BY <1>2, <2>1
    <3> QED BY <2>1, <2>2, <3>1, NameEnds
  <2>3. CASE n = i + 1 /\ m = i + 1 BY <2>3
  <2>4. ASSUME NEW a \in Int, NEW b \in Int, IsName(w, i + 2, a), b = i + 1, b < x, AreSpaces(w, b + 1, x)
        PROVE  FALSE
    <3>1. w[i + 2] \in NameCharacters BY <2>4, NamesAre
    <3>2. w[i + 2] \in Spaces BY <2>4 DEF AreSpaces
    <3> QED BY <3>1, <3>2, Classes
  <2> QED BY <2>1, <2>2, <2>3, <2>4
<1>4. names = {m} BY <1>1, <1>3
<1>5. CloseTags(w, i, x + 1) = {Item("CLOSE_TAG", SubSeq(w, i + 2, n), NoAttributes) : n \in names}
  BY <1>0 DEF CloseTags
<1>6. Markup(w, i, x + 1) = Alone(CloseTags(w, i, x + 1)) BY <1>0, MarkupOfKind
<1> HIDE DEF names
<1> QED BY <1>4, <1>5, <1>6 DEF Alone

LEMMA NoCloseTagYet ==
  ASSUME NEW w \in Text, NEW i \in Int, 1 <= i, w[i + 1] = "/"
  PROVE  Markup(w, i, i + 2) = {}
<1>1. i + 2 - 1 = i + 1 /\ i + 2 \in Int /\ i + 1 .. i + 1 = {i + 1} OBVIOUS
<1>2. ~IsName(w, i + 2, i + 1) BY NamesAre
<1>3. CloseTags(w, i, i + 2) = {} BY <1>1, <1>2 DEF CloseTags
<1> QED BY <1>1, <1>3, MarkupOfKind DEF Alone

LEMMA CommentMarkup ==
  ASSUME NEW w \in Text, NEW i \in Int, 1 <= i, NEW j \in Int, w[i + 1] = "!", w[i + 2] = "-"
  PROVE  Markup(w, i, j) = IF IsSection(w, i, j, CommentStart, CommentEnd) /\ j - i - 4 <= MaxBuffer
                           THEN {<<Item("COMMENT", SubSeq(w, i + 4, j - 3), NoAttributes)>>}
                           ELSE {}
<1>1. Markup(w, i, j) = Alone(Comments(w, i, j)) BY MarkupOfKind
<1> QED BY <1>1 DEF Comments, Alone

LEMMA CdataMarkup ==
  ASSUME NEW w \in Text, NEW i \in Int, 1 <= i, NEW j \in Int, w[i + 1] = "!", w[i + 2] = "["
  PROVE  Markup(w, i, j) = IF IsSection(w, i, j, CdataStart, CdataEnd)
                           THEN {TextItems(SubSeq(w, i + 5, j - 3))}
                           ELSE {}
<1>1. Markup(w, i, j) = Sections(w, i, j) BY MarkupOfKind
<1> QED BY <1>1 DEF Sections

-----------------------------------------------------------------------------
(* Stretches and texts as items.                                            *)

AnItem == [type : TokenTypes, content : Text, attributes : SUBSET (Text \X Text)]

LEMMA OneMore ==
  ASSUME NEW w \in Text, NEW a \in Int, NEW b \in Int, 1 <= a, a <= b + 1, b + 1 <= Len(w)
  PROVE  SubSeq(w, a, b + 1) = Append(SubSeq(w, a, b), w[b + 1])
  BY DEF Text

LEMMA TextIsItems ==
  ASSUME NEW s \in Text
  PROVE  /\ TextItems(s) \in Seq(AnItem) /\ Len(TextItems(s)) = Len(s)
         /\ \A k \in 1 .. Len(s) : TextItems(s)[k] = Item("TEXT_CONTENT", <<s[k]>>, NoAttributes)
<1>1. Len(s) \in Nat /\ \A k \in 1 .. Len(s) : s[k] \in Chars BY TextFacts
<1>2. ASSUME NEW c \in Chars PROVE Item("TEXT_CONTENT", <<c>>, NoAttributes) \in AnItem
  <2>1. <<c>> \in Text BY DEF Text
  <2> QED BY <2>1 DEF Item, AnItem, TokenTypes, NoAttributes
<1>3. \A k \in 1 .. Len(s) : Item("TEXT_CONTENT", <<s[k]>>, NoAttributes) \in AnItem
  BY <1>1, <1>2
<1> QED BY <1>1, <1>3 DEF TextItems

LEMMA NoTextNoItems ==
  /\ <<>> \in Text /\ TextItems(<<>>) = <<>>
<1>1. <<>> \in Text BY DEF Text
<1>2. TextItems(<<>>) \in Seq(AnItem) /\ Len(TextItems(<<>>)) = 0 BY <1>1, TextIsItems
<1> QED BY <1>1, <1>2

LEMMA SameItems ==
  ASSUME NEW S, NEW s \in Seq(S), NEW t \in Seq(S), Len(s) = Len(t), \A k \in 1 .. Len(s) : s[k] = t[k]
  PROVE  s = t
  OBVIOUS

LEMMA ItemsJoined ==
  ASSUME NEW s \in Seq(AnItem), NEW t \in Seq(AnItem)
  PROVE  /\ s \o t \in Seq(AnItem) /\ Len(s \o t) = Len(s) + Len(t)
         /\ \A k \in 1 .. Len(s) : (s \o t)[k] = s[k]
         /\ \A k \in 1 .. Len(t) : (s \o t)[Len(s) + k] = t[k]
  OBVIOUS

LEMMA MoreTextMoreItems ==
  ASSUME NEW s \in Text, NEW c \in Chars
  PROVE  /\ Append(s, c) \in Text
         /\ TextItems(Append(s, c)) = TextItems(s) \o TextItems(<<c>>)
<1> DEFINE one == <<c>>
           more == Append(s, c)
           joined == TextItems(s) \o TextItems(one)
           n == Len(s)
<1>1. one \in Text /\ Len(one) = 1 /\ one[1] = c BY DEF Text
<1>2. /\ more \in Text /\ Len(more) = n + 1 /\ n \in Nat
      /\ \A k \in 1 .. n : more[k] = s[k]
      /\ more[n + 1] = c
  BY DEF Text
<1> HIDE DEF one, more, n
<1>3. /\ TextItems(s) \in Seq(AnItem) /\ Len(TextItems(s)) = n
      /\ \A k \in 1 .. n : TextItems(s)[k] = Item("TEXT_CONTENT", <<s[k]>>, NoAttributes)
  BY TextIsItems DEF n
<1>4. /\ TextItems(one) \in Seq(AnItem) /\ Len(TextItems(one)) = 1
      /\ TextItems(one)[1] = Item("TEXT_CONTENT", <<c>>, NoAttributes)
  BY <1>1, TextIsItems
<1>5. /\ TextItems(more) \in Seq(AnItem) /\ Len(TextItems(more)) = n + 1
      /\ \A k \in 1 .. n + 1 : TextItems(more)[k] = Item("TEXT_CONTENT", <<more[k]>>, NoAttributes)
  BY <1>2, TextIsItems
<1>6. /\ joined \in Seq(AnItem) /\ Len(joined) = n + 1
      /\ \A k \in 1 .. n : joined[k] = TextItems(s)[k]
      /\ joined[n + 1] = TextItems(one)[1]
  <2> DEFINE a == TextItems(s)
             b == TextItems(one)
  <2>1. a \in Seq(AnItem) /\ b \in Seq(AnItem) /\ Len(a) = n /\ Len(b) = 1 BY <1>3, <1>4
  <2> HIDE DEF a, b
  <2>2. /\ a \o b \in Seq(AnItem) /\ Len(a \o b) = Len(a) + Len(b)
        /\ \A k \in 1 .. Len(a) : (a \o b)[k] = a[k]
        /\ \A k \in 1 .. Len(b) : (a \o b)[Len(a) + k] = b[k]
    BY <2>1, ItemsJoined, Zenon
  <2>3. /\ a \o b \in Seq(AnItem) /\ Len(a \o b) = n + 1
        /\ \A k \in 1 .. n : (a \o b)[k] = a[k]
        /\ (a \o b)[n + 1] = b[1]
    BY <2>1, <2>2
  <2> QED BY <2>3 DEF a, b
<1>7. \A k \in 1 .. n + 1 : joined[k] = TextItems(more)[k]
  <2> HIDE DEF joined
  <2> TAKE k \in 1 .. n + 1
  <2>1. CASE k = n + 1 BY <1>2, <1>4, <1>5, <1>6, <2>1
  <2>2. CASE k \in 1 .. n
    <3>1. joined[k] = Item("TEXT_CONTENT", <<s[k]>>, NoAttributes) BY <1>3, <1>6, <2>2, Zenon
    <3>2. TextItems(more)[k] = Item("TEXT_CONTENT", <<more[k]>>, NoAttributes) BY <1>5, Zenon
    <3>3. more[k] = s[k] BY <1>2, <2>2, Zenon
    <3> QED BY <3>1, <3>2, <3>3, Zenon
  <2> QED BY <1>2, <2>1, <2>2
<1>8. joined = TextItems(more)
  <2> HIDE DEF joined
  <2> QED BY <1>2, <1>5, <1>6, <1>7, SameItems
<1> QED BY <1>2, <1>8 DEF one, more

(* More of a stretch as items. *)
LEMMA StretchItems ==
  ASSUME NEW w \in Text, NEW a \in Int, NEW b \in Int, 1 <= a, a <= b + 1, b + 1 <= Len(w)
  PROVE  TextItems(SubSeq(w, a, b + 1)) = TextItems(SubSeq(w, a, b)) \o TextItems(<<w[b + 1]>>)
<1>1. SubSeq(w, a, b) \in Text BY TextFacts, PartOfText
<1>2. w[b + 1] \in Chars BY TextFacts
<1> QED BY <1>1, <1>2, OneMore, MoreTextMoreItems

LEMMA AttributesAre ==
  ASSUME NEW w \in Text, NEW i \in Int, NEW j \in Int, 1 <= i, j <= Len(w)
  PROVE  Attributes(w, i, j) \in SUBSET (Text \X Text)
<1> DEFINE quotes == {q \in i .. j : w[q] \in Quotes}
           found == {f \in (i .. j) \X (i .. j) \X quotes \X quotes :
                  /\ f[1] <= f[2] /\ f[2] < f[3] /\ f[3] < f[4]
                  /\ IsAttributeOf(w, f[1], f[2], f[3], f[4])
                  /\ IsBody(w, i, f[1] - 1) /\ IsBody(w, f[4] + 1, j)}
<1>1. Attributes(w, i, j) = LatestOf(w, found)
  BY Zenon DEF Attributes, LatestOf, NameOf
<1>2. ASSUME NEW f \in found
      PROVE  <<NameOf(w, f), SubSeq(w, f[3] + 1, f[4] - 1)>> \in Text \X Text
  <2>1. /\ f[1] \in i .. j /\ f[2] \in i .. j /\ f[3] \in i .. j /\ f[4] \in i .. j
        /\ f[1] <= f[2] /\ f[2] < f[3] /\ f[3] < f[4]
    OBVIOUS
  <2> HIDE DEF found
  <2>0. Len(w) \in Nat BY TextFacts
  <2>2. PICK b \in i .. j, n \in i .. j, q \in i .. j, e \in i .. j :
          b = f[1] /\ n = f[2] /\ q = f[3] /\ e = f[4] /\ b <= n /\ n < q /\ q < e
    BY <2>1
  <2>3. SubSeq(w, b, n) \in Text BY <2>2, TextFacts, PartOfText
  <2>4. SubSeq(w, q + 1, e - 1) \in Text
    <3>0. PICK l \in Nat : l = Len(w) BY <2>0
    <3>1. q \in Int /\ e \in Int /\ 1 <= q /\ q < e /\ e <= l BY <2>2, <3>0
    <3>2. q + 1 \in Int /\ e - 1 \in Int /\ 1 <= q + 1 /\ q + 1 <= (e - 1) + 1 /\ e - 1 <= l
      BY <3>1
    <3> QED BY <3>0, <3>2, PartOfText
  <2> QED BY <2>2, <2>3, <2>4 DEF NameOf
<1> HIDE DEF found
<1> QED BY <1>1, <1>2 DEF LatestOf

LEMMA TagsAreItems ==
  ASSUME NEW w \in Text, NEW type \in TokenTypes, NEW f \in Int, NEW m \in Int, NEW x \in Int,
         1 <= f, f <= m, m <= x, x <= Len(w)
  PROVE  Tag(type, w, f, m, x) \in AnItem
<1>1. SubSeq(w, f, m) \in Text BY TextFacts, PartOfText
<1>2. Attributes(w, m + 1, x) \in SUBSET (Text \X Text) BY AttributesAre
<1> QED BY <1>1, <1>2 DEF Tag, Item, AnItem

LEMMA MarkupIsItems ==
  ASSUME NEW w \in Text, NEW i \in Int, 1 <= i, NEW j \in Int, j <= Len(w)
  PROVE  Markup(w, i, j) \in SUBSET Seq(AnItem)
<1>0. {"OPEN_TAG", "CLOSE_TAG", "EMPTY_TAG", "DECLARATION", "COMMENT"} \subseteq TokenTypes
  BY DEF TokenTypes
<1>1. OpenTags(w, i, j) \in SUBSET AnItem
  <2>1. ASSUME NEW n \in i + 1 .. j - 1 PROVE Tag("OPEN_TAG", w, i + 1, n, j - 1) \in AnItem
    BY <1>0, TextFacts, TagsAreItems
  <2> QED BY <2>1 DEF OpenTags
<1>2. EmptyTags(w, i, j) \in SUBSET AnItem
  <2>1. ASSUME NEW n \in i + 1 .. j - 2 PROVE Tag("EMPTY_TAG", w, i + 1, n, j - 2) \in AnItem
    BY <1>0, TextFacts, TagsAreItems
  <2> QED BY <2>1 DEF EmptyTags
<1>3. Declarations(w, i, j) \in SUBSET AnItem
  <2>1. ASSUME NEW n \in i + 2 .. j - 2 PROVE Tag("DECLARATION", w, i + 2, n, j - 2) \in AnItem
    BY <1>0, TextFacts, TagsAreItems
  <2> QED BY <2>1 DEF Declarations
<1>4. CloseTags(w, i, j) \in SUBSET AnItem
  <2>1. ASSUME NEW n \in i + 1 .. j - 1
        PROVE  Item("CLOSE_TAG", SubSeq(w, i + 2, n), NoAttributes) \in AnItem
    <3>1. SubSeq(w, i + 2, n) \in Text BY TextFacts, PartOfText
    <3> QED BY <1>0, <3>1 DEF Item, AnItem, NoAttributes
  <2> QED BY <2>1 DEF CloseTags
<1>5. Comments(w, i, j) \in SUBSET AnItem
  <2>1. ASSUME IsSection(w, i, j, CommentStart, CommentEnd)
        PROVE  Item("COMMENT", SubSeq(w, i + 4, j - 3), NoAttributes) \in AnItem
    <3>1. i + 6 <= j BY <2>1, CommentIs
    <3>2. SubSeq(w, i + 4, j - 3) \in Text BY <3>1, TextFacts, PartOfText
    <3> QED BY <1>0, <3>2 DEF Item, AnItem, NoAttributes
  <2> QED BY <2>1 DEF Comments
<1>6. Sections(w, i, j) \in SUBSET Seq(AnItem)
  <2>1. ASSUME IsSection(w, i, j, CdataStart, CdataEnd)
        PROVE  TextItems(SubSeq(w, i + 5, j - 3)) \in Seq(AnItem)
    <3>1. i + 7 <= j BY <2>1, CdataIs
    <3>2. i + 5 \in Int /\ j - 3 \in Int /\ 1 <= i + 5 /\ i + 5 <= (j - 3) + 1 /\ j - 3 <= Len(w)
      BY <3>1, TextFacts
    <3>3. SubSeq(w, i + 5, j - 3) \in Text BY <3>2, PartOfText
    <3> QED BY <3>3, TextIsItems
  <2> QED BY <2>1 DEF Sections
<1>7. ASSUME NEW T \in SUBSET AnItem PROVE Alone(T) \in SUBSET Seq(AnItem)
  <2>1. \A item \in T : <<item>> \in Seq(AnItem) OBVIOUS
  <2> QED BY <2>1 DEF Alone
<1> QED BY <1>1, <1>2, <1>3, <1>4, <1>5, <1>6, <1>7, MarkupIs

-----------------------------------------------------------------------------
(* The items of a text, from one of its positions on.                       *)

Ends(w, i) == {j \in i + 1 .. Len(w) : Markup(w, i, j) # {}}
FirstEnd(w, i) == CHOOSE j \in Ends(w, i) : \A k \in Ends(w, i) : j <= k
ItemsStep(w, items, i) ==
  IF i > Len(w) THEN <<>>
  ELSE IF w[i] # "<" THEN TextItems(<<w[i]>>) \o items[i + 1]
  ELSE IF Ends(w, i) = {} THEN Unfinished(w, i)
  ELSE (CHOOSE m \in Markup(w, i, FirstEnd(w, i)) : TRUE) \o items[FirstEnd(w, i) + 1]
ItemsOn(w, from, items) == items = [i \in from .. Len(w) + 1 |-> ItemsStep(w, items, i)]
ItemsFrom(w, i) == (CHOOSE items : ItemsOn(w, 1, items))[i]

LEMMA ItemsStart ==
  ASSUME NEW w
  PROVE  Items(w) = ItemsFrom(w, 1)
  BY Zenon DEF Items, ItemsFrom, ItemsOn, ItemsStep, Ends, FirstEnd

LEMMA FirstEndIs ==
  ASSUME NEW w \in Text, NEW i \in Int, 1 <= i, Ends(w, i) # {}
  PROVE  /\ FirstEnd(w, i) \in Ends(w, i)
         /\ \A k \in Ends(w, i) : FirstEnd(w, i) <= k
<1> DEFINE S == Ends(w, i)
<1>1. S \in SUBSET Nat /\ S # {} BY DEF Ends
<1> HIDE DEF S
<1>2. \E j \in S : \A k \in S : j <= k BY <1>1, LeastExists
<1> QED BY <1>2, Zenon DEF FirstEnd, S

LEMMA EndIn ==
  ASSUME NEW w \in Text, NEW i \in Int, 1 <= i, Ends(w, i) # {}
  PROVE  /\ FirstEnd(w, i) \in Int /\ i < FirstEnd(w, i) /\ FirstEnd(w, i) <= Len(w)
         /\ (CHOOSE m \in Markup(w, i, FirstEnd(w, i)) : TRUE) \in Markup(w, i, FirstEnd(w, i))
<1> DEFINE j == FirstEnd(w, i)
<1>1. j \in Ends(w, i) BY FirstEndIs
<1> HIDE DEF j
<1>2. j \in Int /\ i < j /\ j <= Len(w) /\ Markup(w, i, j) # {} BY <1>1, TextFacts DEF Ends
<1>3. (CHOOSE m \in Markup(w, i, j) : TRUE) \in Markup(w, i, j) BY <1>2, Zenon
<1> QED BY <1>2, <1>3 DEF j

LEMMA StepOnlyAhead ==
  ASSUME NEW w \in Text, NEW i \in Int, 1 <= i, NEW f, NEW g,
         \A k \in i + 1 .. Len(w) + 1 : f[k] = g[k]
  PROVE  ItemsStep(w, f, i) = ItemsStep(w, g, i)
<1>1. CASE i > Len(w) BY <1>1, Zenon DEF ItemsStep
<1>2. CASE ~(i > Len(w)) /\ w[i] # "<"
  <2>1. f[i + 1] = g[i + 1] BY <1>2, TextFacts
  <2>2. ItemsStep(w, f, i) = TextItems(<<w[i]>>) \o f[i + 1] BY <1>2, Zenon DEF ItemsStep
  <2>3. ItemsStep(w, g, i) = TextItems(<<w[i]>>) \o g[i + 1] BY <1>2, Zenon DEF ItemsStep
  <2> QED BY <2>1, <2>2, <2>3, Zenon
<1>3. CASE ~(i > Len(w)) /\ w[i] = "<" /\ Ends(w, i) = {}
  BY <1>3, Zenon DEF ItemsStep
<1>4. CASE ~(i > Len(w)) /\ w[i] = "<" /\ Ends(w, i) # {}
  <2> DEFINE j == FirstEnd(w, i)
  <2>1. j \in Int /\ i < j /\ j <= Len(w) BY <1>4, EndIn
  <2> HIDE DEF j
  <2>2. f[j + 1] = g[j + 1] BY <2>1, TextFacts
  <2> DEFINE m == CHOOSE m \in Markup(w, i, j) : TRUE
  <2>3. ItemsStep(w, f, i) = m \o f[j + 1] BY <1>4, Zenon DEF ItemsStep, j
  <2>4. ItemsStep(w, g, i) = m \o g[j + 1] BY <1>4, Zenon DEF ItemsStep, j
  <2> HIDE DEF m
  <2> QED BY <2>2, <2>3, <2>4, Zenon
<1> QED BY <1>1, <1>2, <1>3, <1>4

LEMMA UnfinishedIsItems ==
  ASSUME NEW w \in Text, NEW i \in Int, 1 <= i
  PROVE  Unfinished(w, i) \in Seq(AnItem)
<1>1. CASE IsIn(w, i, <<"<", "!">> \o CdataStart)
  <2>1. i + 4 <= Len(w) BY <1>1, CdataMark
  <2>2. i + 5 \in Int /\ Len(w) \in Int /\ 1 <= i + 5 /\ i + 5 <= Len(w) + 1 /\ Len(w) <= Len(w)
    BY <2>1, TextFacts
  <2>3. SubSeq(w, i + 5, Len(w)) \in Text BY <2>2, PartOfText
  <2>4. TextItems(SubSeq(w, i + 5, Len(w))) \in Seq(AnItem) BY <2>3, TextIsItems
  <2> QED BY <1>1, <2>4, Zenon DEF Unfinished
<1>2. CASE ~IsIn(w, i, <<"<", "!">> \o CdataStart)
  <2>1. Unfinished(w, i) = <<>> BY <1>2, Zenon DEF Unfinished
  <2> QED BY <2>1
<1> QED BY <1>1, <1>2

LEMMA StepIsItems ==
  ASSUME NEW w \in Text, NEW i \in Int, 1 <= i, NEW f,
         \A k \in i + 1 .. Len(w) + 1 : f[k] \in Seq(AnItem)
  PROVE  ItemsStep(w, f, i) \in Seq(AnItem)
<1>1. CASE i > Len(w)
  <2>1. ItemsStep(w, f, i) = <<>> BY <1>1, Zenon DEF ItemsStep
  <2> QED BY <2>1
<1>2. CASE ~(i > Len(w)) /\ w[i] # "<"
  <2>1. f[i + 1] \in Seq(AnItem) /\ w[i] \in Chars BY <1>2, TextFacts
  <2>2. <<w[i]>> \in Text BY <2>1 DEF Text
  <2>3. TextItems(<<w[i]>>) \o f[i + 1] \in Seq(AnItem) BY <2>1, <2>2, TextIsItems, ItemsJoined
  <2> QED BY <1>2, <2>3, Zenon DEF ItemsStep
<1>3. CASE ~(i > Len(w)) /\ w[i] = "<" /\ Ends(w, i) = {}
  BY <1>3, UnfinishedIsItems, Zenon DEF ItemsStep
<1>4. CASE ~(i > Len(w)) /\ w[i] = "<" /\ Ends(w, i) # {}
  <2> DEFINE j == FirstEnd(w, i)
             m == CHOOSE m \in Markup(w, i, j) : TRUE
  <2>1. j \in Int /\ i < j /\ j <= Len(w) /\ m \in Markup(w, i, j) BY <1>4, EndIn
  <2>2. ItemsStep(w, f, i) = m \o f[j + 1] BY <1>4, Zenon DEF ItemsStep
  <2> HIDE DEF j, m
  <2>3. f[j + 1] \in Seq(AnItem) BY <2>1, TextFacts
  <2>4. m \in Seq(AnItem) BY <2>1, MarkupIsItems
  <2>5. m \o f[j + 1] \in Seq(AnItem) BY <2>3, <2>4, ItemsJoined
  <2> QED BY <2>2, <2>5, Zenon
<1> QED BY <1>1, <1>2, <1>3, <1>4

(* One position more to the left. *)
LEMMA ItemsOneMore ==
  ASSUME NEW w \in Text, NEW i \in Int, 1 <= i, i <= Len(w) + 1, NEW g,
         i <= Len(w) => ItemsOn(w, i + 1, g)
  PROVE  \E f : ItemsOn(w, i, f)
<1> DEFINE L == Len(w) + 1
           f == [k \in i .. L |-> IF k = i THEN ItemsStep(w, g, i) ELSE g[k]]
<1>0. L \in Nat /\ i \in i .. L /\ i <= L /\ L = Len(w) + 1 BY TextFacts
<1>1. \A k \in i + 1 .. L : f[k] = g[k] /\ k \in i .. L /\ k # i
  <2> HIDE DEF L
  <2> QED BY <1>0
<1>2. f[i] = ItemsStep(w, g, i) BY <1>0
<1>3. f = [k \in i .. L |-> f[k]] OBVIOUS
<1> HIDE DEF f, L
<1>4. \A k \in i + 1 .. L : g[k] = ItemsStep(w, g, k)
  <2> TAKE k \in i + 1 .. L
  <2>1. i <= Len(w) BY <1>0, TextFacts
  <2>2. g = [n \in i + 1 .. L |-> ItemsStep(w, g, n)] BY <2>1, Zenon DEF ItemsOn, L
  <2> QED BY <2>2, Zenon
<1>5. ASSUME NEW k \in i .. L PROVE ItemsStep(w, f, k) = ItemsStep(w, g, k)
  <2>1. k \in Int /\ 1 <= k /\ \A n \in k + 1 .. Len(w) + 1 : n \in i + 1 .. L BY <1>0
  <2>2. \A n \in k + 1 .. Len(w) + 1 : f[n] = g[n] BY <1>1, <2>1, Zenon
  <2> QED BY <2>1, <2>2, StepOnlyAhead
<1>6. ASSUME NEW k \in i .. L PROVE f[k] = ItemsStep(w, f, k)
  <2>1. CASE k = i BY <1>2, <1>5, <2>1, Zenon
  <2>2. CASE k # i
    <3>1. k \in i + 1 .. L BY <1>0, <2>2
    <3> QED BY <1>1, <1>4, <1>5, <3>1, Zenon
  <2> QED BY <2>1, <2>2
<1>7. f = [k \in i .. L |-> ItemsStep(w, f, k)] BY <1>3, <1>6, Zenon
<1> QED BY <1>7, Zenon DEF ItemsOn, L

LEMMA ItemsExist ==
  ASSUME NEW w \in Text
  PROVE  \E items : ItemsOn(w, 1, items)
<1> DEFINE Missing == {d \in 0 .. Len(w) : ~\E f : ItemsOn(w, Len(w) + 1 - d, f)}
<1>0. Len(w) \in Nat BY TextFacts
<1>1. Missing = {}
  <2> SUFFICES ASSUME Missing # {} PROVE FALSE OBVIOUS
  <2>1. Missing \in SUBSET Nat BY <1>0
  <2>2. PICK d \in Missing : \A e \in Missing : d <= e
    <3>1. Missing # {} OBVIOUS
    <3> HIDE DEF Missing
    <3> QED BY <2>1, <3>1, LeastExists
  <2> DEFINE i == Len(w) + 1 - d
  <2>3. d \in 0 .. Len(w) /\ ~\E f : ItemsOn(w, i, f) OBVIOUS
  <2>4. i \in Int /\ 1 <= i /\ i <= Len(w) + 1 BY <1>0, <2>3
  <2>5. \E g : i <= Len(w) => ItemsOn(w, i + 1, g)
    <3>1. CASE i <= Len(w)
      <4>1. d - 1 \in 0 .. Len(w) /\ ~(d <= d - 1) /\ Len(w) + 1 - (d - 1) = i + 1
        BY <1>0, <2>3, <3>1
      <4>2. d - 1 \notin Missing
        <5> HIDE DEF Missing, i
        <5> QED BY <2>2, <4>1
      <4>3. \E g : ItemsOn(w, Len(w) + 1 - (d - 1), g)
        <5> HIDE DEF i
        <5> QED BY <4>1, <4>2
      <4> HIDE DEF i
      <4> QED BY <4>1, <4>3
    <3> HIDE DEF i
    <3> QED BY <3>1
  <2> HIDE DEF i
  <2>6. PICK g : i <= Len(w) => ItemsOn(w, i + 1, g) BY <2>5
  <2>7. \E f : ItemsOn(w, i, f) BY <2>4, <2>6, ItemsOneMore
  <2> QED BY <2>3, <2>7
<1>2. Len(w) \in 0 .. Len(w) /\ Len(w) \notin Missing /\ Len(w) + 1 - Len(w) = 1 BY <1>0, <1>1
<1>3. \E f : ItemsOn(w, Len(w) + 1 - Len(w), f) BY <1>2
<1> QED BY <1>2, <1>3

(* What the items from a position on are. *)
LEMMA ItemsFromIs ==
  ASSUME NEW w \in Text, NEW i \in Int, 1 <= i, i <= Len(w) + 1
  PROVE  /\ ItemsFrom(w, i) \in Seq(AnItem)
         /\ i > Len(w) => ItemsFrom(w, i) = <<>>
         /\ i <= Len(w) /\ w[i] # "<"
              => ItemsFrom(w, i) = TextItems(<<w[i]>>) \o ItemsFrom(w, i + 1)
         /\ i <= Len(w) /\ w[i] = "<" /\ Ends(w, i) = {} => ItemsFrom(w, i) = Unfinished(w, i)
         /\ i <= Len(w) /\ w[i] = "<" /\ Ends(w, i) # {}
              => ItemsFrom(w, i) = (CHOOSE m \in Markup(w, i, FirstEnd(w, i)) : TRUE)
                                     \o ItemsFrom(w, FirstEnd(w, i) + 1)
<1> DEFINE f == CHOOSE items : ItemsOn(w, 1, items)
<1>0. Len(w) \in Nat /\ i \in 1 .. Len(w) + 1 BY TextFacts
<1>1. ItemsOn(w, 1, f) BY ItemsExist, Zenon
<1>2. \A k : ItemsFrom(w, k) = f[k] BY DEF ItemsFrom
<1> HIDE DEF f
<1>3. \A k \in 1 .. Len(w) + 1 : f[k] = ItemsStep(w, f, k) BY <1>1, Zenon DEF ItemsOn
<1>4. \A k \in 1 .. Len(w) + 1 : f[k] \in Seq(AnItem)
  <2> DEFINE Wrong == {d \in 0 .. Len(w) : f[Len(w) + 1 - d] \notin Seq(AnItem)}
  <2>2. Wrong = {}
    <3> SUFFICES ASSUME Wrong # {} PROVE FALSE OBVIOUS
    <3>1. PICK d \in Wrong : \A e \in Wrong : d <= e
      <4>1. Wrong \in SUBSET Nat /\ Wrong # {} OBVIOUS
      <4> HIDE DEF Wrong
      <4> QED BY <4>1, LeastExists
    <3> DEFINE n == Len(w) + 1 - d
    <3>2. d \in 0 .. Len(w) /\ f[n] \notin Seq(AnItem) OBVIOUS
    <3>3. n \in Int /\ 1 <= n /\ n \in 1 .. Len(w) + 1 BY <1>0, <3>2
    <3>4. ASSUME NEW k \in n + 1 .. Len(w) + 1 PROVE f[k] \in Seq(AnItem)
      <4>1. Len(w) + 1 - k \in 0 .. Len(w) /\ ~(d <= Len(w) + 1 - k) BY <1>0, <3>2
      <4>2. Len(w) + 1 - (Len(w) + 1 - k) = k BY <1>0
      <4>3. Len(w) + 1 - k \notin Wrong
        <5> HIDE DEF Wrong
        <5> QED BY <3>1, <4>1
      <4> QED BY <4>1, <4>2, <4>3
    <3> HIDE DEF n
    <3>5. ItemsStep(w, f, n) \in Seq(AnItem) BY <3>3, <3>4, StepIsItems
    <3> QED BY <1>3, <3>2, <3>3, <3>5, Zenon
  <2>3. TAKE k \in 1 .. Len(w) + 1
  <2>4. Len(w) + 1 - k \in 0 .. Len(w) /\ Len(w) + 1 - (Len(w) + 1 - k) = k BY <1>0
  <2>5. Len(w) + 1 - k \notin Wrong BY <2>2
  <2> QED BY <2>4, <2>5
<1>5. ItemsFrom(w, i) = ItemsStep(w, f, i) /\ ItemsFrom(w, i) \in Seq(AnItem)
  BY <1>0, <1>2, <1>3, <1>4, Zenon
<1>6. i > Len(w) => ItemsStep(w, f, i) = <<>> BY Zenon DEF ItemsStep
<1>7. i <= Len(w) => ~(i > Len(w)) BY <1>0
<1>8. ~(i > Len(w)) /\ w[i] # "<" => ItemsStep(w, f, i) = TextItems(<<w[i]>>) \o f[i + 1]
  BY Zenon DEF ItemsStep
<1>9. ~(i > Len(w)) /\ w[i] = "<" /\ Ends(w, i) = {} => ItemsStep(w, f, i) = Unfinished(w, i)
  BY Zenon DEF ItemsStep
<1>10. ~(i > Len(w)) /\ w[i] = "<" /\ Ends(w, i) # {}
       => ItemsStep(w, f, i) = (CHOOSE m \in Markup(w, i, FirstEnd(w, i)) : TRUE)
                                 \o f[FirstEnd(w, i) + 1]
  BY Zenon DEF ItemsStep
<1> QED BY <1>2, <1>5, <1>6, <1>7, <1>8, <1>9, <1>10, Zenon

(* Past a character of text and past a markup. *)
LEMMA ItemsPastText ==
  ASSUME NEW w \in Text, NEW i \in Int, 1 <= i, i <= Len(w), w[i] # "<"
  PROVE  ItemsFrom(w, i) = TextItems(<<w[i]>>) \o ItemsFrom(w, i + 1)
<1>1. i <= Len(w) + 1 BY TextFacts
<1> QED BY <1>1, ItemsFromIs

LEMMA ItemsPastMarkup ==
  ASSUME NEW w \in Text, NEW i \in Int, 1 <= i, NEW j \in Int, i < j, j <= Len(w), w[i] = "<",
         \A k \in i + 1 .. j - 1 : Markup(w, i, k) = {}, NEW m, Markup(w, i, j) = {m}
  PROVE  ItemsFrom(w, i) = m \o ItemsFrom(w, j + 1) /\ m \in Seq(AnItem)
<1>0. Len(w) \in Nat BY TextFacts
<1>1. j \in Ends(w, i)
  <2>1. j \in i + 1 .. Len(w) BY <1>0
  <2>2. Markup(w, i, j) # {} OBVIOUS
  <2> QED BY <2>1, <2>2, Zenon DEF Ends
<1>2. \A k \in Ends(w, i) : j <= k BY <1>0 DEF Ends
<1>3. FirstEnd(w, i) \in Ends(w, i) /\ FirstEnd(w, i) <= j BY <1>1, FirstEndIs
<1>4. FirstEnd(w, i) = j
  <2> DEFINE e == FirstEnd(w, i)
  <2>1. e \in Int BY <1>3 DEF Ends
  <2>2. j <= e /\ e <= j BY <1>2, <1>3
  <2> HIDE DEF e
  <2>3. e = j BY <2>1, <2>2
  <2> QED BY <2>3 DEF e
<1>5. (CHOOSE x \in Markup(w, i, j) : TRUE) = m OBVIOUS
<1>6. i <= Len(w) + 1 /\ i <= Len(w) BY <1>0
<1>7. ItemsFrom(w, i) = (CHOOSE x \in Markup(w, i, FirstEnd(w, i)) : TRUE)
                          \o ItemsFrom(w, FirstEnd(w, i) + 1)
  BY <1>1, <1>6, ItemsFromIs
<1>8. m \in Seq(AnItem) BY MarkupIsItems
<1> QED BY <1>4, <1>5, <1>7, <1>8, Zenon

(* Where the text breaks off in a markup. *)
LEMMA ItemsUnfinished ==
  ASSUME NEW w \in Text, NEW i \in Int, 1 <= i, i <= Len(w), w[i] = "<",
         \A k \in i + 1 .. Len(w) : Markup(w, i, k) = {}
  PROVE  ItemsFrom(w, i) = Unfinished(w, i)
<1>1. Ends(w, i) = {} BY DEF Ends
<1>2. i <= Len(w) + 1 BY TextFacts
<1> QED BY <1>1, <1>2, ItemsFromIs

-----------------------------------------------------------------------------
(* The items of some tokens, put together.                                  *)

IsFlat(s, n, f) == f = [i \in 1 .. n |-> IF i = 1 THEN s[i] ELSE f[i - 1] \o s[i]]

LEMMA FlatIsUnique ==
  ASSUME NEW s, NEW n \in Nat, NEW f, NEW g, IsFlat(s, n, f), IsFlat(s, n, g)
  PROVE  f = g
<1> DEFINE Differ == {k \in 1 .. n : f[k] # g[k]}
<1>0. \A k \in 1 .. n : /\ f[k] = IF k = 1 THEN s[k] ELSE f[k - 1] \o s[k]
                        /\ g[k] = IF k = 1 THEN s[k] ELSE g[k - 1] \o s[k]
  BY Zenon DEF IsFlat
<1>1. Differ = {}
  <2> SUFFICES ASSUME Differ # {} PROVE FALSE OBVIOUS
  <2>1. PICK k \in Differ : \A m \in Differ : k <= m
    <3>1. Differ \in SUBSET Nat /\ Differ # {} OBVIOUS
    <3> HIDE DEF Differ
    <3> QED BY <3>1, LeastExists
  <2>2. k \in 1 .. n /\ f[k] # g[k] OBVIOUS
  <2>3. k # 1 BY <1>0, <2>2
  <2>4. k - 1 \in 1 .. n /\ ~(k <= k - 1) BY <2>2, <2>3
  <2>5. f[k - 1] = g[k - 1]
    <3>1. k - 1 \notin Differ
      <4> HIDE DEF Differ
      <4> QED BY <2>1, <2>4
    <3> QED BY <2>4, <3>1
  <2> QED BY <1>0, <2>2, <2>3, <2>5, Zenon
<1>2. \A k \in 1 .. n : f[k] = g[k] BY <1>1
<1>3. f = [k \in 1 .. n |-> f[k]] /\ g = [k \in 1 .. n |-> g[k]] BY Zenon DEF IsFlat
<1>4. [k \in 1 .. n |-> f[k]] = [k \in 1 .. n |-> g[k]] BY <1>2, Zenon
<1> QED BY <1>3, <1>4, Zenon

LEMMA FlatExists ==
  ASSUME NEW s, NEW n \in Nat
  PROVE  \E f : IsFlat(s, n, f)
<1> DEFINE Missing == {d \in 0 .. n : ~\E f : IsFlat(s, d, f)}
<1>1. Missing = {}
  <2> SUFFICES ASSUME Missing # {} PROVE FALSE OBVIOUS
  <2>1. PICK d \in Missing : \A e \in Missing : d <= e
    <3>1. Missing \in SUBSET Nat /\ Missing # {} OBVIOUS
    <3> HIDE DEF Missing
    <3> QED BY <3>1, LeastExists
  <2>2. d \in 0 .. n /\ ~\E f : IsFlat(s, d, f) OBVIOUS
  <2>3. \E g : d # 0 => IsFlat(s, d - 1, g)
    <3>1. CASE d # 0
      <4>1. d - 1 \in 0 .. n /\ ~(d <= d - 1) BY <2>2, <3>1
      <4>2. d - 1 \notin Missing
        <5> HIDE DEF Missing
        <5> QED BY <2>1, <4>1
      <4> QED BY <4>1, <4>2
    <3> QED BY <3>1
  <2>4. PICK g : d # 0 => IsFlat(s, d - 1, g) BY <2>3
  <2> DEFINE last == IF d = 1 THEN s[d] ELSE g[d - 1] \o s[d]
             f == [i \in 1 .. d |-> IF i = d THEN last ELSE g[i]]
  <2>5. ASSUME NEW i \in 1 .. d PROVE f[i] = IF i = 1 THEN s[i] ELSE f[i - 1] \o s[i]
    <3>1. CASE i = d
      <4>1. f[i] = last BY <3>1
      <4>2. d # 1 => d - 1 \in 1 .. d /\ d - 1 # d BY <2>2, <3>1
      <4>3. d # 1 => f[d - 1] = g[d - 1] BY <4>2
      <4> HIDE DEF f
      <4> QED BY <3>1, <4>1, <4>3, Zenon
    <3>2. CASE i # d
      <4>0. i \in 1 .. d - 1 /\ d # 0 /\ (i # 1 => i - 1 \in 1 .. d /\ i - 1 # d) BY <2>2, <3>2
      <4>1. f[i] = g[i] /\ (i # 1 => f[i - 1] = g[i - 1]) BY <3>2, <4>0
      <4>2. IsFlat(s, d - 1, g) BY <2>4, <4>0
      <4>3. g[i] = IF i = 1 THEN s[i] ELSE g[i - 1] \o s[i] BY <4>0, <4>2, Zenon DEF IsFlat
      <4> HIDE DEF f
      <4> QED BY <4>1, <4>3, Zenon
    <3> QED BY <3>1, <3>2
  <2>6. f = [i \in 1 .. d |-> f[i]] OBVIOUS
  <2> HIDE DEF f
  <2>7. f = [i \in 1 .. d |-> IF i = 1 THEN s[i] ELSE f[i - 1] \o s[i]] BY <2>5, <2>6, Zenon
  <2> QED BY <2>2, <2>7, Zenon DEF IsFlat
<1>2. n \in 0 .. n /\ n \notin Missing BY <1>1
<1> QED BY <1>2

LEMMA FlattenIs ==
  ASSUME NEW S, NEW s \in Seq(S), Len(s) # 0, NEW f, IsFlat(s, Len(s), f)
  PROVE  FlattenSeq(s) = f[Len(s)]
<1> DEFINE g == CHOOSE g : IsFlat(s, Len(s), g)
<1>1. FlattenSeq(s) = g[Len(s)] BY Zenon DEF FlattenSeq, IsFlat
<1>2. IsFlat(s, Len(s), g) BY Zenon
<1> HIDE DEF g
<1>3. Len(s) \in Nat OBVIOUS
<1>4. f = g BY <1>2, <1>3, FlatIsUnique
<1> QED BY <1>1, <1>4

(* The items of one sequence more. *)
LEMMA FlattenAppend ==
  ASSUME NEW s \in Seq(Seq(AnItem)), NEW e \in Seq(AnItem)
  PROVE  FlattenSeq(Append(s, e)) = FlattenSeq(s) \o e
<1> DEFINE t == Append(s, e)
           n == Len(s)
<1>1. /\ n \in Nat /\ t \in Seq(Seq(AnItem)) /\ Len(t) = n + 1 /\ t[n + 1] = e
      /\ \A k \in 1 .. n : t[k] = s[k]
  OBVIOUS
<1> HIDE DEF t, n
<1>2. PICK f : IsFlat(t, n + 1, f)
  <2>1. n + 1 \in Nat BY <1>1
  <2> QED BY <2>1, FlatExists, Zenon
<1>3. FlattenSeq(t) = f[n + 1] BY <1>1, <1>2, FlattenIs
<1>4. \A k \in 1 .. n + 1 : f[k] = IF k = 1 THEN t[k] ELSE f[k - 1] \o t[k]
  BY <1>2, Zenon DEF IsFlat
<1>5. CASE n = 0
  <2>1. FlattenSeq(s) = <<>>
    <3>1. s = <<>> /\ Len(s) = 0 BY <1>5 DEF n
    <3> QED BY <3>1, Zenon DEF FlattenSeq
  <2>2. f[n + 1] = e BY <1>1, <1>4, <1>5
  <2>3. <<>> \o e = e OBVIOUS
  <2> QED BY <1>3, <2>1, <2>2, <2>3 DEF t
<1>6. CASE n # 0
  <2> DEFINE g == [k \in 1 .. n |-> f[k]]
  <2>0. \A k \in 1 .. n : k \in 1 .. n + 1 /\ (k # 1 => k - 1 \in 1 .. n) BY <1>1
  <2>1. \A k \in 1 .. n : g[k] = IF k = 1 THEN s[k] ELSE g[k - 1] \o s[k]
    <3> TAKE k \in 1 .. n
    <3>1. g[k] = f[k] /\ (k # 1 => g[k - 1] = f[k - 1]) BY <2>0
    <3>2. f[k] = IF k = 1 THEN t[k] ELSE f[k - 1] \o t[k] BY <1>4, <2>0, Zenon
    <3>3. t[k] = s[k] BY <1>1
    <3> HIDE DEF g
    <3> QED BY <3>1, <3>2, <3>3, Zenon
  <2>2. g = [k \in 1 .. n |-> g[k]] OBVIOUS
  <2>3. n \in 1 .. n BY <1>1, <1>6
  <2>4. g[n] = f[n] BY <2>3
  <2> HIDE DEF g
  <2>5. IsFlat(s, n, g) BY <2>1, <2>2, Zenon DEF IsFlat
  <2>6. FlattenSeq(s) = g[n] BY <1>6, <2>5, FlattenIs DEF n
  <2>7. n + 1 \in 1 .. n + 1 /\ n + 1 # 1 /\ n + 1 - 1 = n BY <1>1, <1>6
  <2>8. f[n + 1] = f[n] \o e
    <3>1. PICK k \in 1 .. n + 1 : k = n + 1 /\ k # 1 /\ k - 1 = n BY <1>1, <2>7
    <3>2. f[k] = f[k - 1] \o t[k] BY <1>4, <3>1, Zenon
    <3> QED BY <1>1, <3>1, <3>2
  <2> QED BY <1>3, <2>4, <2>6, <2>8 DEF t
<1> QED BY <1>5, <1>6

LEMMA FlattenIsItems ==
  ASSUME NEW s \in Seq(Seq(AnItem))
  PROVE  FlattenSeq(s) \in Seq(AnItem)
<1> DEFINE n == Len(s)
<1>1. n \in Nat /\ \A k \in 1 .. n : s[k] \in Seq(AnItem) OBVIOUS
<1>2. CASE n = 0
  <2>1. s = <<>> /\ Len(s) = 0 BY <1>2
  <2>2. FlattenSeq(s) = <<>> BY <2>1, Zenon DEF FlattenSeq
  <2> QED BY <2>2
<1>3. CASE n # 0
  <2>1. PICK f : IsFlat(s, n, f) BY <1>1, FlatExists
  <2>2. FlattenSeq(s) = f[n] BY <1>3, <2>1, FlattenIs
  <2> HIDE DEF n
  <2>3. \A k \in 1 .. n : f[k] = IF k = 1 THEN s[k] ELSE f[k - 1] \o s[k]
    BY <2>1, Zenon DEF IsFlat
  <2> DEFINE Wrong == {k \in 1 .. n : f[k] \notin Seq(AnItem)}
  <2>4. Wrong = {}
    <3> SUFFICES ASSUME Wrong # {} PROVE FALSE OBVIOUS
    <3>1. PICK k \in Wrong : \A m \in Wrong : k <= m
      <4>1. Wrong \in SUBSET Nat /\ Wrong # {} OBVIOUS
      <4> HIDE DEF Wrong
      <4> QED BY <4>1, LeastExists
    <3>2. k \in 1 .. n /\ f[k] \notin Seq(AnItem) OBVIOUS
    <3>3. k # 1 BY <1>1, <2>3, <3>2
    <3>4. k - 1 \in 1 .. n /\ ~(k <= k - 1) BY <1>1, <3>2, <3>3
    <3>5. f[k - 1] \in Seq(AnItem)
      <4>1. k - 1 \notin Wrong
        <5> HIDE DEF Wrong
        <5> QED BY <3>1, <3>4
      <4> QED BY <3>4, <4>1
    <3>6. f[k] = f[k - 1] \o s[k] BY <2>3, <3>2, <3>3, Zenon
    <3>7. f[k - 1] \o s[k] \in Seq(AnItem) BY <1>1, <3>2, <3>5, ItemsJoined
    <3> QED BY <3>2, <3>6, <3>7
  <2>5. n \in 1 .. n BY <1>1, <1>3
  <2>6. f[n] \in Seq(AnItem) BY <2>4, <2>5
  <2> QED BY <2>2, <2>6
<1> QED BY <1>2, <1>3
=============================================================================
