---------------------------- MODULE XmlNodesProofs ----------------------------
(* Every node has one owner, which its parent tells, for every number of      *)
(* nodes, attributes, names and texts, whatever throws.                      *)
EXTENDS XmlNodes, FiniteSetTheorems, TLAPS

-----------------------------------------------------------------------------
(* What the variables hold, with what the type invariant leaves open.       *)

NodeRecords ==
  [kind : Kinds \cup {"none"}, name : TagNames \cup {<<>>}, content : Seq(STRING),
   attributes : SUBSET (Keys \X Contents), parent : NodeIds \cup {None}, children : Seq(NodeIds)]
Shape ==
  /\ nodes \in [NodeIds -> NodeRecords]
  /\ builders \in Seq([node : NodeIds, into : NodeIds \cup {None}])
  /\ \A i \in DOMAIN builders :
       /\ builders[i].node \in 1 .. allocated
       /\ i > 1 => builders[i].into \in 1 .. allocated

(* The roots are the nodes that consumers at work and the caller hold.  The   *)
(* other nodes have a parent that lives and counts them among its children,  *)
(* and every child knows its parent and is there once.                       *)
Roots == Building \cup loose
RootsHeld ==
  /\ Roots \subseteq Live
  /\ \A n \in Live : nodes[n].parent = None <=> n \in Roots
ParentsKnow ==
  \A n \in Live : nodes[n].parent # None =>
    nodes[n].parent \in Live /\ n \in ToSet(nodes[nodes[n].parent].children)
ChildrenKnow ==
  \A p \in Live :
    /\ IsInjective(nodes[p].children)
    /\ \A c \in ToSet(nodes[p].children) : c \in Live /\ nodes[c].parent = p

GraphInv == RootsHeld /\ ParentsKnow /\ ChildrenKnow

(* A node is held once, the node of a consumer will be appended to the node   *)
(* of a consumer around it or to one of the caller's, and a tree is sent when *)
(* no consumer is at work within it.                                         *)
HeldOnce ==
  /\ \A i, j \in DOMAIN builders : builders[i].node = builders[j].node => i = j
  /\ Building \cap loose = {}
ConsumersNest ==
  \A i \in DOMAIN builders : i > 1 =>
    builders[i].into \in loose \/ \E j \in 1 .. i - 1 : builders[i].into = builders[j].node
SentAlone == sent # None => Len(builders) <= 1
OwnershipInv == TypeOK /\ Shape /\ GraphInv /\ HeldOnce /\ ConsumersNest /\ SentAlone

-----------------------------------------------------------------------------
(* What Append and Front do to a sequence.                                  *)

LEMMA AppendChildren ==
  ASSUME NEW S, NEW s \in Seq(S), NEW e \in S
  PROVE  /\ Append(s, e) \in Seq(S)
         /\ ToSet(Append(s, e)) = ToSet(s) \cup {e}
         /\ IsInjective(s) /\ e \notin ToSet(s) => IsInjective(Append(s, e))
<1>1. /\ Append(s, e) \in Seq(S) /\ Len(Append(s, e)) = Len(s) + 1
      /\ DOMAIN s = 1 .. Len(s) /\ DOMAIN Append(s, e) = 1 .. Len(s) + 1
      /\ \A i \in 1 .. Len(s) : Append(s, e)[i] = s[i]
      /\ Append(s, e)[Len(s) + 1] = e
      /\ Len(s) \in Nat
  OBVIOUS
<1>2. ToSet(Append(s, e)) = ToSet(s) \cup {e}
  <2>1. ASSUME NEW x \in ToSet(Append(s, e)) PROVE x \in ToSet(s) \cup {e}
    <3>1. PICK i \in 1 .. Len(s) + 1 : x = Append(s, e)[i]
      BY <2>1, <1>1 DEF ToSet
    <3>2. CASE i = Len(s) + 1
      BY <3>1, <3>2, <1>1
    <3>3. CASE i \in 1 .. Len(s)
      BY <3>1, <3>3, <1>1 DEF ToSet
    <3> QED
      BY <3>1, <3>2, <3>3, <1>1
  <2>2. ASSUME NEW x \in ToSet(s) PROVE x \in ToSet(Append(s, e))
    <3>1. PICK i \in 1 .. Len(s) : x = s[i]
      BY <2>2, <1>1 DEF ToSet
    <3>2. i \in 1 .. Len(s) + 1 /\ x = Append(s, e)[i]
      BY <3>1, <1>1
    <3> QED
      BY <3>2, <1>1 DEF ToSet
  <2>3. e \in ToSet(Append(s, e))
    <3>1. Len(s) + 1 \in 1 .. Len(s) + 1
      BY <1>1
    <3> QED
      BY <3>1, <1>1 DEF ToSet
  <2> QED
    BY <2>1, <2>2, <2>3
<1>3. ASSUME IsInjective(s), e \notin ToSet(s) PROVE IsInjective(Append(s, e))
  <2>1. \A i \in 1 .. Len(s) : s[i] # e
    BY <1>3, <1>1 DEF ToSet
  <2>2. ASSUME NEW i \in 1 .. Len(s) + 1, NEW j \in 1 .. Len(s) + 1,
               Append(s, e)[i] = Append(s, e)[j]
        PROVE  i = j
    <3>1. CASE i \in 1 .. Len(s) /\ j \in 1 .. Len(s)
      BY <2>2, <3>1, <1>1, <1>3 DEF IsInjective
    <3> QED
      BY <2>2, <3>1, <2>1, <1>1
  <2> QED
    BY <2>2, <1>1 DEF IsInjective
<1> QED
  BY <1>1, <1>2, <1>3

LEMMA FrontOf ==
  ASSUME NEW S, NEW s \in Seq(S), s # <<>>
  PROVE  /\ Front(s) \in Seq(S) /\ Len(s) \in Nat \ {0}
         /\ Len(Front(s)) = Len(s) - 1
         /\ DOMAIN Front(s) = 1 .. Len(s) - 1
         /\ \A i \in 1 .. Len(s) - 1 : Front(s)[i] = s[i]
<1>1. /\ Len(s) \in Nat \ {0} /\ DOMAIN s = 1 .. Len(s)
      /\ \A i \in 1 .. Len(s) : s[i] \in S
  OBVIOUS
<1>3. SubSeq(s, 1, Len(s) - 1) = [i \in 1 .. Len(s) - 1 |-> s[i]]
  BY <1>1
<1>4. /\ Front(s) = [i \in 1 .. Len(s) - 1 |-> s[i]]
      /\ Len(s) - 1 \in Nat
      /\ \A i \in 1 .. Len(s) - 1 : s[i] \in S
  BY <1>1, <1>3 DEF Front
<1> QED
  BY <1>1, <1>4

-----------------------------------------------------------------------------
(* A tree is closed under children, and is the least such set.              *)

LEMMA TreeIsLeast ==
  ASSUME NEW n \in NodeIds, NEW s \in SUBSET NodeIds, n \in s, Children(s) \subseteq s
  PROVE  Tree(n) \subseteq s
  BY DEF Tree

LEMMA TreeIsClosed ==
  ASSUME NEW n \in NodeIds, nodes \in [NodeIds -> NodeRecords]
  PROVE  /\ Tree(n) \subseteq NodeIds /\ n \in Tree(n)
         /\ \A p \in Tree(n) : ToSet(nodes[p].children) \subseteq Tree(n)
<1>1. Tree(n) \subseteq NodeIds /\ n \in Tree(n)
  BY DEF Tree
<1>2. ASSUME NEW p \in Tree(n), NEW c \in ToSet(nodes[p].children)
      PROVE  c \in Tree(n)
  <2>1. c \in NodeIds
    <3>1. nodes[p].children \in Seq(NodeIds)
      BY <1>1 DEF NodeRecords
    <3> QED
      BY <3>1 DEF ToSet
  <2>2. ASSUME NEW s \in SUBSET NodeIds, {n} \cup Children(s) \subseteq s
        PROVE  c \in s
    <3>1. p \in s
      BY <2>2 DEF Tree
    <3>2. c \in Children(s)
      BY <3>1 DEF Children
    <3> QED
      BY <2>2, <3>2
  <2> QED
    BY <2>1, <2>2 DEF Tree
<1> QED
  BY <1>1, <1>2

LEMMA TreeOfRoot ==
  ASSUME nodes \in [NodeIds -> NodeRecords], GraphInv, Live \subseteq NodeIds, NEW r \in Roots
  PROVE  /\ Tree(r) \subseteq Live
         /\ \A m \in Tree(r) \ {r} : nodes[m].parent \in Tree(r)
<1> DEFINE S == {m \in Tree(r) \cap Live : m # r => nodes[m].parent \in Tree(r)}
<1>1. r \in Live /\ r \in NodeIds
  BY DEF GraphInv, RootsHeld
<1>2. /\ r \in Tree(r)
      /\ \A p \in Tree(r) : ToSet(nodes[p].children) \subseteq Tree(r)
  BY <1>1, TreeIsClosed
<1>3. r \in S
  BY <1>1, <1>2
<1>4. Children(S) \subseteq S
  <2>1. ASSUME NEW p \in S, NEW c \in ToSet(nodes[p].children)
        PROVE  c \in S
    <3>1. c \in Live /\ nodes[c].parent = p
      BY <2>1 DEF GraphInv, ChildrenKnow
    <3>2. c \in Tree(r)
      BY <1>2
    <3> QED
      BY <3>1, <3>2
  <2> QED
    BY <2>1 DEF Children
<1>5. Tree(r) \subseteq S
  <2> HIDE DEF S
  <2>1. S \in SUBSET NodeIds
    BY DEF S
  <2> QED
    BY <2>1, <1>1, <1>3, <1>4, TreeIsLeast
<1> QED
  BY <1>5

-----------------------------------------------------------------------------
(* What the operations do to the graph: nothing, a new root, a new child, a   *)
(* root becomes a child, or a root goes with its tree.                       *)

SameLinks(n) == nodes'[n].parent = nodes[n].parent /\ nodes'[n].children = nodes[n].children

LEMMA GraphStays ==
  ASSUME GraphInv, Live' = Live, Roots' = Roots, \A n \in Live : SameLinks(n)
  PROVE  GraphInv'
<1>1. RootsHeld'
  BY DEF GraphInv, RootsHeld, SameLinks
<1>2. ParentsKnow'
  BY DEF GraphInv, ParentsKnow, SameLinks
<1>3. ChildrenKnow'
  BY DEF GraphInv, ChildrenKnow, SameLinks
<1> QED
  BY <1>1, <1>2, <1>3 DEF GraphInv

LEMMA RootIsMade ==
  ASSUME GraphInv, NEW f \in NodeIds \ Live, None \notin NodeIds, Live \subseteq NodeIds,
         Live' = Live \cup {f}, Roots' = Roots \cup {f}, \A n \in Live : SameLinks(n),
         nodes'[f].parent = None, nodes'[f].children = <<>>
  PROVE  GraphInv'
<1>1. RootsHeld'
  BY DEF GraphInv, RootsHeld, SameLinks
<1>2. ParentsKnow'
  BY DEF GraphInv, ParentsKnow, SameLinks
<1>3. ChildrenKnow'
  <2>1. ASSUME NEW p \in Live
        PROVE  /\ IsInjective(nodes'[p].children)
               /\ \A c \in ToSet(nodes'[p].children) : c \in Live' /\ nodes'[c].parent = p
    BY DEF GraphInv, ChildrenKnow, SameLinks
  <2>2. IsInjective(nodes'[f].children) /\ ToSet(nodes'[f].children) = {}
    BY DEF ToSet, IsInjective
  <2> QED
    BY <2>1, <2>2 DEF ChildrenKnow
<1> QED
  BY <1>1, <1>2, <1>3 DEF GraphInv

LEMMA ChildIsMade ==
  ASSUME GraphInv, NEW f \in NodeIds \ Live, None \notin NodeIds, Live \subseteq NodeIds,
         NEW p \in Live, nodes[p].children \in Seq(NodeIds),
         Live' = Live \cup {f}, Roots' = Roots, \A n \in Live \ {p} : SameLinks(n),
         nodes'[p].parent = nodes[p].parent,
         nodes'[p].children = Append(nodes[p].children, f),
         nodes'[f].parent = p, nodes'[f].children = <<>>
  PROVE  GraphInv'
<1>1. RootsHeld'
  BY DEF GraphInv, RootsHeld, SameLinks
<1>2. f \notin ToSet(nodes[p].children)
  BY DEF GraphInv, ChildrenKnow
<1>3. /\ ToSet(nodes'[p].children) = ToSet(nodes[p].children) \cup {f}
      /\ IsInjective(nodes'[p].children)
  BY <1>2, AppendChildren DEF GraphInv, ChildrenKnow
<1>4. ParentsKnow'
  <2> SUFFICES ASSUME NEW n \in Live \cup {f}, nodes'[n].parent # None
               PROVE  /\ nodes'[n].parent \in Live \cup {f}
                      /\ n \in ToSet(nodes'[nodes'[n].parent].children)
    BY DEF ParentsKnow
  <2>1. CASE n = f
    BY <2>1, <1>3
  <2>2. CASE n \in Live
    <3>1. nodes'[n].parent = nodes[n].parent
      BY <2>2 DEF SameLinks
    <3>2. nodes[n].parent \in Live /\ n \in ToSet(nodes[nodes[n].parent].children)
      BY <2>2, <3>1 DEF GraphInv, ParentsKnow
    <3>3. CASE nodes[n].parent = p
      BY <3>1, <3>2, <3>3, <1>3
    <3>4. CASE nodes[n].parent # p
      BY <3>1, <3>2, <3>4 DEF SameLinks
    <3> QED
      BY <3>3, <3>4
  <2> QED
    BY <2>1, <2>2
<1>5. ChildrenKnow'
  <2> SUFFICES ASSUME NEW q \in Live \cup {f}
               PROVE  /\ IsInjective(nodes'[q].children)
                      /\ \A c \in ToSet(nodes'[q].children) :
                           c \in Live \cup {f} /\ nodes'[c].parent = q
    BY DEF ChildrenKnow
  <2>1. CASE q = f
    BY <2>1 DEF ToSet, IsInjective
  <2>2. \A c \in Live : nodes'[c].parent = nodes[c].parent
    BY DEF SameLinks
  <2>3. CASE q = p
    <3>1. ASSUME NEW c \in ToSet(nodes[p].children)
          PROVE  c \in Live /\ nodes'[c].parent = p
      <4>1. c \in Live /\ nodes[c].parent = p
        BY DEF GraphInv, ChildrenKnow
      <4> QED
        BY <4>1, <2>2
    <3> QED
      BY <2>3, <3>1, <1>3
  <2>4. CASE q \in Live \ {p}
    BY <2>4, <2>2 DEF GraphInv, ChildrenKnow, SameLinks
  <2> QED
    BY <2>1, <2>3, <2>4
<1> QED
  BY <1>1, <1>4, <1>5 DEF GraphInv

(* The parent of the root that is attached may be below it. *)
LEMMA RootIsAttached ==
  ASSUME GraphInv, nodes \in [NodeIds -> NodeRecords], None \notin NodeIds, Live \subseteq NodeIds,
         NEW c \in Roots, NEW p \in Live,
         Live' = Live, Roots' = Roots \ {c},
         \A n \in Live \ {c} : nodes'[n].parent = nodes[n].parent,
         \A n \in Live \ {p} : nodes'[n].children = nodes[n].children,
         nodes'[p].children = Append(nodes[p].children, c), nodes'[c].parent = p
  PROVE  GraphInv'
<1>1. /\ c \in Live /\ c \in NodeIds /\ p \in NodeIds /\ p # None
      /\ nodes[c].parent = None /\ nodes[p].children \in Seq(NodeIds)
  BY DEF GraphInv, RootsHeld, NodeRecords
<1>3. c \notin ToSet(nodes[p].children)
  BY <1>1 DEF GraphInv, ChildrenKnow
<1>4. /\ ToSet(nodes'[p].children) = ToSet(nodes[p].children) \cup {c}
      /\ IsInjective(nodes'[p].children)
  BY <1>1, <1>3, AppendChildren DEF GraphInv, ChildrenKnow
<1>5. RootsHeld'
  BY <1>1 DEF GraphInv, RootsHeld
<1>6. ParentsKnow'
  <2> SUFFICES ASSUME NEW n \in Live, nodes'[n].parent # None
               PROVE  /\ nodes'[n].parent \in Live
                      /\ n \in ToSet(nodes'[nodes'[n].parent].children)
    BY DEF ParentsKnow
  <2>1. CASE n = c
    BY <2>1, <1>4
  <2>2. CASE n # c
    <3>1. nodes'[n].parent = nodes[n].parent
      BY <2>2
    <3>2. nodes[n].parent \in Live /\ n \in ToSet(nodes[nodes[n].parent].children)
      BY <3>1 DEF GraphInv, ParentsKnow
    <3>3. CASE nodes[n].parent = p
      BY <3>1, <3>2, <3>3, <1>4
    <3>4. CASE nodes[n].parent # p
      BY <3>1, <3>2, <3>4
    <3> QED
      BY <3>3, <3>4
  <2> QED
    BY <2>1, <2>2
<1>7. ChildrenKnow'
  <2> SUFFICES ASSUME NEW q \in Live
               PROVE  /\ IsInjective(nodes'[q].children)
                      /\ \A d \in ToSet(nodes'[q].children) : d \in Live /\ nodes'[d].parent = q
    BY DEF ChildrenKnow
  <2>1. IsInjective(nodes[q].children)
    BY DEF GraphInv, ChildrenKnow
  <2>2. ASSUME NEW d \in ToSet(nodes[q].children)
        PROVE  d \in Live /\ nodes'[d].parent = q
    <3>1. d \in Live /\ nodes[d].parent = q
      BY DEF GraphInv, ChildrenKnow
    <3>2. d # c
      BY <3>1, <1>1
    <3> QED
      BY <3>1, <3>2
  <2>3. CASE q = p
    BY <2>2, <2>3, <1>1, <1>4
  <2>4. CASE q # p
    BY <2>1, <2>2, <2>4
  <2> QED
    BY <2>3, <2>4
<1> QED
  BY <1>5, <1>6, <1>7 DEF GraphInv

LEMMA RootIsDeleted ==
  ASSUME GraphInv, nodes \in [NodeIds -> NodeRecords], None \notin NodeIds, Live \subseteq NodeIds,
         NEW r \in Roots, nodes' = nodes,
         Live' = Live \ Tree(r), Roots' = Roots \ {r}
  PROVE  GraphInv'
<1>1. /\ Tree(r) \subseteq Live
      /\ \A m \in Tree(r) \ {r} : nodes[m].parent \in Tree(r)
  BY TreeOfRoot
<1>2. /\ r \in Tree(r) /\ r \in NodeIds
      /\ \A n \in Tree(r) : ToSet(nodes[n].children) \subseteq Tree(r)
  BY TreeIsClosed DEF GraphInv, RootsHeld
<1>3. \A m \in Tree(r) \ {r} : m \notin Roots
  BY <1>1 DEF GraphInv, RootsHeld
<1>4. RootsHeld'
  BY <1>2, <1>3 DEF GraphInv, RootsHeld
<1>5. ParentsKnow'
  <2> SUFFICES ASSUME NEW n \in Live \ Tree(r), nodes[n].parent # None
               PROVE  /\ nodes[n].parent \in Live \ Tree(r)
                      /\ n \in ToSet(nodes[nodes[n].parent].children)
    BY DEF ParentsKnow
  <2>1. nodes[n].parent \in Live /\ n \in ToSet(nodes[nodes[n].parent].children)
    BY DEF GraphInv, ParentsKnow
  <2> QED
    BY <2>1, <1>2
<1>6. ChildrenKnow'
  <2> SUFFICES ASSUME NEW p \in Live \ Tree(r)
               PROVE  /\ IsInjective(nodes[p].children)
                      /\ \A c \in ToSet(nodes[p].children) :
                           c \in Live \ Tree(r) /\ nodes[c].parent = p
    BY DEF ChildrenKnow
  <2>1. ASSUME NEW c \in ToSet(nodes[p].children)
        PROVE  c \in Live \ Tree(r) /\ nodes[c].parent = p
    <3>1. c \in Live /\ nodes[c].parent = p /\ p \in NodeIds
      BY DEF GraphInv, ChildrenKnow
    <3>2. c # r
      BY <3>1 DEF GraphInv, RootsHeld
    <3> QED
      BY <3>1, <3>2, <1>1
  <2> QED
    BY <2>1 DEF GraphInv, ChildrenKnow
<1> QED
  BY <1>4, <1>5, <1>6 DEF GraphInv

-----------------------------------------------------------------------------
(* What the invariant says of owners and parents.                           *)

LEMMA GraphTells ==
  ASSUME GraphInv
  PROVE  ParentsTell
<1>1. ASSUME NEW n \in Live, nodes[n].parent # None
      PROVE  nodes[n].parent \in Live /\ n \in Children({nodes[n].parent})
  BY <1>1 DEF GraphInv, ParentsKnow, Children
<1>2. ASSUME NEW n \in Live, nodes[n].parent = None PROVE n \in Building \cup loose
  BY <1>2 DEF GraphInv, RootsHeld, Roots
<1> QED
  BY <1>1, <1>2 DEF ParentsTell

LEMMA HeldMeansOwned ==
  ASSUME TypeOK, Shape, GraphInv, HeldOnce
  PROVE  OwnedOnce
<1> SUFFICES ASSUME NEW n \in 1 .. allocated
             PROVE  Cardinality(Places(n)) = IF n \in deleted THEN 0 ELSE 1
  BY DEF OwnedOnce
<1> DEFINE ByConsumer == {<<"builder", i>> : i \in {i \in DOMAIN builders : builders[i].node = n}}
           ByCaller == {<<"caller", m>> : m \in loose \cap {n}}
           In(p) == {<<p, i>> : i \in {i \in DOMAIN nodes[p].children : nodes[p].children[i] = n}}
           ByParent == UNION {In(p) : p \in Live}
<1>1. Places(n) = ByConsumer \cup ByCaller \cup ByParent
  BY DEF Places
<1>2. n \notin Building => ByConsumer = {}
  BY DEF Building
<1>3. n \notin loose => ByCaller = {}
  OBVIOUS
<1>4. ASSUME NEW p \in Live, In(p) # {}
      PROVE  n \in Live /\ nodes[n].parent = p
  <2>1. n \in ToSet(nodes[p].children)
    BY <1>4 DEF ToSet
  <2> QED
    BY <2>1 DEF GraphInv, ChildrenKnow
<1>5. CASE n \in deleted
  <2>1. n \notin Live
    BY <1>5 DEF Live
  <2>2. n \notin Building /\ n \notin loose
    BY <2>1 DEF GraphInv, RootsHeld, Roots
  <2>3. ByParent = {}
    BY <2>1, <1>4
  <2>4. Places(n) = {}
    BY <1>1, <1>2, <1>3, <2>2, <2>3
  <2> QED
    BY <1>5, <2>4, FS_EmptySet
<1>6. CASE n \notin deleted
  <2>1. n \in Live
    BY <1>6 DEF Live
  <2>2. SUFFICES \E x : Places(n) = {x}
    BY <1>6, FS_Singleton
  <2>3. CASE n \in Building
    <3>1. nodes[n].parent = None /\ n \notin loose /\ None \notin Live
      BY <2>1, <2>3, NodesAssumption DEF GraphInv, RootsHeld, Roots, HeldOnce, TypeOK, Live, NodeIds
    <3>2. ByParent = {}
      BY <3>1, <1>4
    <3>3. PICK i \in DOMAIN builders : builders[i].node = n
      BY <2>3 DEF Building
    <3>4. {j \in DOMAIN builders : builders[j].node = n} = {i}
      BY <3>3 DEF HeldOnce
    <3>5. ByConsumer = {<<"builder", i>>}
      BY <3>4
    <3> QED
      BY <3>1, <3>2, <3>5, <1>1, <1>3
  <2>4. CASE n \in loose
    <3>1. nodes[n].parent = None /\ n \notin Building /\ None \notin Live
      BY <2>1, <2>4, NodesAssumption DEF GraphInv, RootsHeld, Roots, HeldOnce, TypeOK, Live, NodeIds
    <3>2. ByParent = {}
      BY <3>1, <1>4
    <3>3. ByCaller = {<<"caller", n>>}
      BY <2>4
    <3> QED
      BY <3>1, <3>2, <3>3, <1>1, <1>2
  <2>5. CASE n \notin Building /\ n \notin loose
    <3> DEFINE p == nodes[n].parent
    <3>1. p \in Live /\ n \in ToSet(nodes[p].children)
      BY <2>1, <2>5 DEF GraphInv, RootsHeld, ParentsKnow, Roots
    <3>2. PICK i \in DOMAIN nodes[p].children : nodes[p].children[i] = n
      BY <3>1 DEF ToSet
    <3>3. {j \in DOMAIN nodes[p].children : nodes[p].children[j] = n} = {i}
      BY <3>1, <3>2 DEF GraphInv, ChildrenKnow, IsInjective
    <3>4. In(p) = {<<p, i>>}
      BY <3>3
    <3>5. \A q \in Live : In(q) # {} => q = p
      BY <1>4
    <3>6. ByParent = {<<p, i>>}
      <4> HIDE DEF p, In
      <4> QED
        BY <3>1, <3>4, <3>5
    <3> QED
      BY <2>5, <3>6, <1>1, <1>2, <1>3
  <2> QED
    BY <2>3, <2>4, <2>5
<1> QED
  BY <1>5, <1>6

-----------------------------------------------------------------------------
(* Type correctness.  A node is valid if its constructor and setters accept   *)
(* what it holds, which depends on nothing else.                             *)

Valid(n) ==
  /\ nodes[n].kind \in Kinds /\ CanMake(nodes[n])
  /\ \A a \in nodes[n].attributes : Accepts(n, a[1], a[2])
NodesOK ==
  /\ nodes \in [NodeIds -> NodeRecords]
  /\ \A n \in 1 .. allocated : Valid(n) /\ ToSet(nodes[n].children) \subseteq 1 .. allocated
  /\ \A n \in NodeIds : n > allocated => nodes[n].kind = "none"
HoldersOK ==
  /\ builders \in Seq([node : NodeIds, into : NodeIds \cup {None}])
  /\ \A i \in DOMAIN builders :
       /\ builders[i].node \in 1 .. allocated /\ nodes[builders[i].node].kind = "TAG"
       /\ i > 1 => builders[i].into \in 1 .. allocated
  /\ loose \subseteq 1 .. allocated /\ deleted \subseteq 1 .. allocated
  /\ allocated \in 0 .. MaxNodes /\ thrown \in BOOLEAN

LEMMA TypeInParts == TypeOK /\ Shape <=> NodesOK /\ HoldersOK
<1>1. ASSUME TypeOK, Shape PROVE NodesOK /\ HoldersOK
  <2>1. \A n \in 1 .. allocated : n \in NodeIds /\ n <= allocated
    BY <1>1, NodesAssumption DEF TypeOK, NodeIds
  <2>2. \A n \in 1 .. allocated : Valid(n) /\ ToSet(nodes[n].children) \subseteq 1 .. allocated
    <3>1. ASSUME NEW n \in 1 .. allocated PROVE nodes[n].kind \in Kinds
      BY <1>1, <2>1 DEF TypeOK
    <3>2. ASSUME NEW n \in 1 .. allocated
          PROVE  CanMake(nodes[n]) /\ \A a \in nodes[n].attributes : Accepts(n, a[1], a[2])
      BY <1>1 DEF TypeOK
    <3>3. ASSUME NEW n \in 1 .. allocated
          PROVE  ToSet(nodes[n].children) \subseteq 1 .. allocated
      BY <1>1 DEF TypeOK, ToSet
    <3> QED
      BY <3>1, <3>2, <3>3 DEF Valid
  <2>3. ASSUME NEW n \in NodeIds, n > allocated PROVE nodes[n].kind = "none"
    <3>1. ~(n <= allocated)
      BY <1>1, <2>3, NodesAssumption DEF TypeOK, NodeIds
    <3> QED
      BY <1>1, <3>1 DEF TypeOK
  <2>4. NodesOK
    BY <1>1, <2>2, <2>3 DEF NodesOK, Shape
  <2>5. HoldersOK
    BY <1>1 DEF HoldersOK, TypeOK, Shape
  <2> QED
    BY <2>4, <2>5
<1>2. ASSUME NodesOK, HoldersOK PROVE TypeOK /\ Shape
  <2>1. allocated \in 0 .. MaxNodes /\ \A n \in 1 .. allocated : n \in NodeIds
    BY <1>2, NodesAssumption DEF HoldersOK, NodeIds
  <2>2. ASSUME NEW n \in NodeIds
        PROVE  nodes[n].kind \in (IF n <= allocated THEN Kinds ELSE {"none"})
    <3>1. CASE n <= allocated
      <4>1. n \in 1 .. allocated
        BY <2>1, <2>2, <3>1, NodesAssumption DEF NodeIds
      <4> QED
        BY <1>2, <3>1, <4>1 DEF NodesOK, Valid
    <3>2. CASE ~(n <= allocated)
      <4>1. n > allocated
        BY <2>1, <2>2, <3>2, NodesAssumption DEF NodeIds
      <4> QED
        BY <1>2, <3>2, <4>1 DEF NodesOK
    <3> QED
      BY <3>1, <3>2
  <2>3. ASSUME NEW n \in 1 .. allocated
        PROVE  /\ nodes[n].parent \in NodeIds \cup {None}
               /\ \A i \in DOMAIN nodes[n].children : nodes[n].children[i] \in 1 .. allocated
               /\ CanMake(nodes[n])
               /\ \A a \in nodes[n].attributes : Accepts(n, a[1], a[2])
    <3>1. nodes[n].parent \in NodeIds \cup {None}
      BY <1>2, <2>1 DEF NodesOK, NodeRecords
    <3>2. Valid(n) /\ ToSet(nodes[n].children) \subseteq 1 .. allocated
      BY <1>2 DEF NodesOK
    <3>3. \A i \in DOMAIN nodes[n].children : nodes[n].children[i] \in 1 .. allocated
      BY <3>2 DEF ToSet
    <3> QED
      BY <3>1, <3>2, <3>3 DEF Valid
  <2>4. TypeOK
    BY <1>2, <2>1, <2>2, <2>3 DEF TypeOK, HoldersOK
  <2> QED
    BY <1>2, <2>4 DEF Shape, NodesOK, HoldersOK
<1> QED
  BY <1>1, <1>2

LEMMA ValidStays ==
  ASSUME NEW n, Valid(n), nodes'[n].kind = nodes[n].kind, nodes'[n].name = nodes[n].name,
         nodes'[n].content = nodes[n].content, nodes'[n].attributes = nodes[n].attributes
  PROVE  Valid(n)'
<1>1. \A key, value : Accepts(n, key, value) => Accepts(n, key, value)'
  BY DEF Accepts
<1>2. CanMake(nodes[n]) => CanMake(nodes'[n])
  BY DEF CanMake
<1> QED
  BY <1>1, <1>2 DEF Valid

(* What new nodes are made of. *)
LEMMA FreshNodes ==
  ASSUME NEW node \in TagNodes \cup TextNodes \cup DeclarationNodes \cup BlankNodes
  PROVE  /\ node \in NodeRecords /\ node.kind \in Kinds /\ node.attributes = {}
         /\ node.parent = None /\ node.children = <<>>
<1>1. <<>> \in Seq(STRING) /\ <<>> \in Seq(NodeIds)
  OBVIOUS
<1>2. ASSUME NEW kind \in Kinds, NEW name \in TagNames \cup {<<>>}, NEW content \in Seq(STRING),
             node = Node(kind, name, content)
      PROVE  /\ node \in NodeRecords /\ node.kind \in Kinds /\ node.attributes = {}
             /\ node.parent = None /\ node.children = <<>>
  BY <1>1, <1>2 DEF Node, NodeRecords, Kinds
<1>3. \E kind \in Kinds, name \in TagNames \cup {<<>>}, content \in Seq(STRING) :
        node = Node(kind, name, content)
  BY <1>1, ContentsAssumption DEF TagNodes, TextNodes, DeclarationNodes, BlankNodes, Kinds
<1> QED
  BY <1>2, <1>3

LEMMA RoomIsFresh ==
  ASSUME NodesOK, HoldersOK, HasRoom
  PROVE  /\ Fresh \in NodeIds /\ Fresh \notin 1 .. allocated /\ Fresh = allocated + 1
         /\ 1 .. Fresh = (1 .. allocated) \cup {Fresh}
         /\ 1 .. allocated \subseteq NodeIds /\ Fresh \in 0 .. MaxNodes
         /\ \A n \in NodeIds : n > Fresh => n > allocated /\ n # Fresh
  BY NodesAssumption DEF HoldersOK, HasRoom, Fresh, NodeIds

(* A new node by itself. *)
LEMMA NodeIsMade ==
  ASSUME NodesOK, HoldersOK, HasRoom,
         NEW node \in TagNodes \cup TextNodes \cup DeclarationNodes \cup BlankNodes, CanMake(node),
         nodes' = [nodes EXCEPT ![Fresh] = node], allocated' = Fresh
  PROVE  /\ NodesOK'
         /\ \A n \in 1 .. allocated : nodes'[n] = nodes[n]
         /\ nodes'[Fresh].parent = None /\ nodes'[Fresh].children = <<>>
<1>1. /\ Fresh \in NodeIds /\ Fresh \notin 1 .. allocated
      /\ 1 .. Fresh = (1 .. allocated) \cup {Fresh}
      /\ 1 .. allocated \subseteq NodeIds
      /\ \A n \in NodeIds : n > Fresh => n > allocated /\ n # Fresh
  BY RoomIsFresh
<1>2. /\ node \in NodeRecords /\ node.kind \in Kinds /\ node.attributes = {}
      /\ node.parent = None /\ node.children = <<>>
  BY FreshNodes
<1>3. /\ nodes' \in [NodeIds -> NodeRecords] /\ nodes'[Fresh] = node
      /\ \A n \in NodeIds \ {Fresh} : nodes'[n] = nodes[n]
  BY <1>1, <1>2 DEF NodesOK
<1>4. ASSUME NEW n \in 1 .. Fresh
      PROVE  Valid(n)' /\ ToSet(nodes'[n].children) \subseteq 1 .. Fresh
  <2>1. CASE n = Fresh
    BY <2>1, <1>2, <1>3 DEF Valid, ToSet
  <2>2. CASE n \in 1 .. allocated
    <3>1. nodes'[n] = nodes[n]
      BY <2>2, <1>1, <1>3
    <3>2. Valid(n) /\ ToSet(nodes[n].children) \subseteq 1 .. allocated
      BY <2>2 DEF NodesOK
    <3> QED
      BY <3>1, <3>2, <1>1, ValidStays
  <2> QED
    BY <2>1, <2>2, <1>1
<1>5. \A n \in NodeIds : n > Fresh => nodes'[n].kind = "none"
  BY <1>1, <1>3 DEF NodesOK
<1>6. NodesOK'
  BY <1>3, <1>4, <1>5 DEF NodesOK
<1> QED
  BY <1>1, <1>2, <1>3, <1>6

(* A child more for a node, new or not. *)
LEMMA ChildIsAdded ==
  ASSUME NodesOK, HoldersOK, NEW p \in 1 .. allocated, NEW c \in 1 .. allocated,
         nodes' = Attached(p, c), allocated' = allocated
  PROVE  /\ NodesOK'
         /\ \A n \in NodeIds :
              /\ nodes'[n].kind = nodes[n].kind
              /\ nodes'[n].parent = IF n = c THEN p ELSE nodes[n].parent
              /\ nodes'[n].children =
                   IF n = p THEN Append(nodes[p].children, c) ELSE nodes[n].children
<1>1. p \in NodeIds /\ c \in NodeIds
  BY NodesAssumption DEF HoldersOK, NodeIds
<1>2. /\ nodes[p].children \in Seq(NodeIds)
      /\ Append(nodes[p].children, c) \in Seq(NodeIds)
      /\ ToSet(Append(nodes[p].children, c)) = ToSet(nodes[p].children) \cup {c}
  <2>1. nodes[p].children \in Seq(NodeIds)
    BY <1>1 DEF NodesOK, NodeRecords
  <2> QED
    BY <1>1, <2>1, AppendChildren
<1> DEFINE m == [nodes EXCEPT ![p].children = Append(@, c)]
<1>3. /\ m \in [NodeIds -> NodeRecords] /\ m[p].children = Append(nodes[p].children, c)
      /\ \A n \in NodeIds \ {p} : m[n] = nodes[n]
      /\ m[p] = [nodes[p] EXCEPT !.children = Append(nodes[p].children, c)]
  BY <1>1, <1>2 DEF NodesOK, NodeRecords
<1>4. /\ m[p].kind = nodes[p].kind /\ m[p].name = nodes[p].name
      /\ m[p].content = nodes[p].content /\ m[p].attributes = nodes[p].attributes
      /\ m[p].parent = nodes[p].parent
  BY <1>1, <1>3 DEF NodesOK, NodeRecords
<1>5. nodes' = [m EXCEPT ![c].parent = p]
  BY <1>1 DEF Attached, NodesOK
<1> HIDE DEF m
<1>6. /\ nodes' \in [NodeIds -> NodeRecords]
      /\ nodes'[c] = [m[c] EXCEPT !.parent = p]
      /\ \A n \in NodeIds \ {c} : nodes'[n] = m[n]
  <2>1. [m[c] EXCEPT !.parent = p] \in NodeRecords
    BY <1>1, <1>3 DEF NodeRecords
  <2>2. nodes' = [m EXCEPT ![c] = [m[c] EXCEPT !.parent = p]]
    BY <1>5
  <2> QED
    BY <1>1, <1>3, <2>1, <2>2
<1>7. /\ nodes'[c].kind = m[c].kind /\ nodes'[c].name = m[c].name
      /\ nodes'[c].content = m[c].content /\ nodes'[c].attributes = m[c].attributes
      /\ nodes'[c].children = m[c].children /\ nodes'[c].parent = p
  BY <1>1, <1>3, <1>6 DEF NodeRecords
<1>8. ASSUME NEW n \in NodeIds
      PROVE  /\ nodes'[n].kind = nodes[n].kind /\ nodes'[n].name = nodes[n].name
             /\ nodes'[n].content = nodes[n].content
             /\ nodes'[n].attributes = nodes[n].attributes
             /\ nodes'[n].children =
                  IF n = p THEN Append(nodes[p].children, c) ELSE nodes[n].children
             /\ nodes'[n].parent = IF n = c THEN p ELSE nodes[n].parent
  <2>1. /\ nodes'[n].kind = m[n].kind /\ nodes'[n].name = m[n].name
        /\ nodes'[n].content = m[n].content /\ nodes'[n].attributes = m[n].attributes
        /\ nodes'[n].children = m[n].children
        /\ nodes'[n].parent = IF n = c THEN p ELSE m[n].parent
    BY <1>6, <1>7
  <2>2. CASE n = p
    BY <2>1, <2>2, <1>3, <1>4
  <2>3. CASE n # p
    BY <2>1, <2>3, <1>3
  <2> QED
    BY <2>2, <2>3
<1>9. ASSUME NEW n \in 1 .. allocated
      PROVE  Valid(n)' /\ ToSet(nodes'[n].children) \subseteq 1 .. allocated
  <2>1. n \in NodeIds /\ Valid(n) /\ ToSet(nodes[n].children) \subseteq 1 .. allocated
    BY NodesAssumption DEF NodesOK, HoldersOK, NodeIds
  <2>2. Valid(n)'
    BY <2>1, <1>8, ValidStays
  <2>3. ToSet(nodes'[n].children) \subseteq 1 .. allocated
    BY <2>1, <1>8, <1>2 DEF NodesOK
  <2> QED
    BY <2>2, <2>3
<1> QED
  BY <1>6, <1>8, <1>9 DEF NodesOK

(* A new node that a node has made for itself. *)
LEMMA ChildNodeIsMade ==
  ASSUME NodesOK, HoldersOK, HasRoom, NEW p \in 1 .. allocated,
         NEW node \in TagNodes \cup TextNodes, CanMake(node), allocated' = Fresh,
         nodes' = [nodes EXCEPT ![Fresh] = [node EXCEPT !.parent = p],
                                ![p].children = Append(@, Fresh)]
  PROVE  /\ NodesOK'
         /\ \A n \in 1 .. allocated :
              /\ nodes'[n].kind = nodes[n].kind /\ nodes'[n].parent = nodes[n].parent
              /\ nodes'[n].children =
                   IF n = p THEN Append(nodes[p].children, Fresh) ELSE nodes[n].children
         /\ nodes'[Fresh].parent = p /\ nodes'[Fresh].children = <<>>
<1>1. /\ Fresh \in NodeIds /\ Fresh \notin 1 .. allocated
      /\ 1 .. Fresh = (1 .. allocated) \cup {Fresh}
      /\ 1 .. allocated \subseteq NodeIds
      /\ \A n \in NodeIds : n > Fresh => n > allocated /\ n # Fresh
  BY RoomIsFresh
<1>2. /\ node \in NodeRecords /\ node.kind \in Kinds /\ node.attributes = {}
      /\ node.parent = None /\ node.children = <<>>
  BY FreshNodes
<1>3. /\ [node EXCEPT !.parent = p] \in NodeRecords
      /\ [node EXCEPT !.parent = p].kind = node.kind
      /\ [node EXCEPT !.parent = p].name = node.name
      /\ [node EXCEPT !.parent = p].content = node.content
      /\ [node EXCEPT !.parent = p].attributes = {}
      /\ [node EXCEPT !.parent = p].children = <<>>
      /\ [node EXCEPT !.parent = p].parent = p
  BY <1>1, <1>2 DEF NodeRecords
<1>4. CanMake([node EXCEPT !.parent = p])
  BY <1>3 DEF CanMake
<1>5. p \in NodeIds /\ p # Fresh /\ nodes[p] \in NodeRecords
  BY <1>1 DEF NodesOK
<1>6. /\ Append(nodes[p].children, Fresh) \in Seq(NodeIds)
      /\ ToSet(Append(nodes[p].children, Fresh)) = ToSet(nodes[p].children) \cup {Fresh}
  <2>1. nodes[p].children \in Seq(NodeIds)
    BY <1>5 DEF NodeRecords
  <2> QED
    BY <1>1, <2>1, AppendChildren
<1> DEFINE new == [nodes[p] EXCEPT !.children = Append(nodes[p].children, Fresh)]
<1>7. /\ new \in NodeRecords /\ new.kind = nodes[p].kind /\ new.name = nodes[p].name
      /\ new.content = nodes[p].content /\ new.attributes = nodes[p].attributes
      /\ new.parent = nodes[p].parent /\ new.children = Append(nodes[p].children, Fresh)
  BY <1>5, <1>6 DEF NodeRecords
<1>8. /\ nodes' \in [NodeIds -> NodeRecords]
      /\ nodes'[Fresh] = [node EXCEPT !.parent = p] /\ nodes'[p] = new
      /\ \A n \in NodeIds \ {p, Fresh} : nodes'[n] = nodes[n]
  <2>1. nodes' = [nodes EXCEPT ![Fresh] = [node EXCEPT !.parent = p], ![p] = new]
    BY <1>1, <1>5 DEF NodesOK
  <2> HIDE DEF new
  <2> QED
    BY <1>1, <1>3, <1>5, <1>7, <2>1 DEF NodesOK
<1> HIDE DEF new
<1>9. ASSUME NEW n \in 1 .. Fresh
      PROVE  Valid(n)' /\ ToSet(nodes'[n].children) \subseteq 1 .. Fresh
  <2>1. CASE n = Fresh
    <3>1. /\ nodes'[n].kind \in Kinds /\ nodes'[n].attributes = {}
          /\ nodes'[n].children = <<>> /\ CanMake(nodes'[n])
      BY <2>1, <1>2, <1>3, <1>4, <1>8
    <3>2. ToSet(nodes'[n].children) = {}
      BY <3>1 DEF ToSet
    <3> QED
      BY <3>1, <3>2 DEF Valid
  <2>2. CASE n = p
    <3>1. Valid(n) /\ ToSet(nodes[n].children) \subseteq 1 .. allocated
      BY <2>2 DEF NodesOK
    <3>2. Valid(n)'
      BY <3>1, <2>2, <1>7, <1>8, ValidStays
    <3> QED
      BY <3>1, <3>2, <2>2, <1>1, <1>6, <1>7, <1>8
  <2>3. CASE n \in (1 .. allocated) \ {p}
    <3>1. nodes'[n] = nodes[n]
      BY <2>3, <1>1, <1>8
    <3>2. Valid(n) /\ ToSet(nodes[n].children) \subseteq 1 .. allocated
      BY <2>3 DEF NodesOK
    <3> QED
      BY <3>1, <3>2, <1>1, ValidStays
  <2> QED
    BY <2>1, <2>2, <2>3, <1>1
<1>10. \A n \in NodeIds : n > Fresh => nodes'[n].kind = "none"
  <2> SUFFICES ASSUME NEW n \in NodeIds, n > Fresh PROVE nodes'[n].kind = "none"
    OBVIOUS
  <2>1. n > allocated /\ n # Fresh /\ n # p
    BY <1>1 DEF HoldersOK
  <2> QED
    BY <2>1, <1>8 DEF NodesOK
<1>11. NodesOK'
  BY <1>8, <1>9, <1>10 DEF NodesOK
<1>12. ASSUME NEW n \in 1 .. allocated
       PROVE  /\ nodes'[n].kind = nodes[n].kind /\ nodes'[n].parent = nodes[n].parent
              /\ nodes'[n].children =
                   IF n = p THEN Append(nodes[p].children, Fresh) ELSE nodes[n].children
  <2>1. CASE n = p
    BY <2>1, <1>7, <1>8
  <2>2. CASE n # p
    <3>1. nodes'[n] = nodes[n]
      BY <2>2, <1>1, <1>8
    <3> QED
      BY <2>2, <3>1
  <2> QED
    BY <2>1, <2>2
<1> QED
  BY <1>3, <1>8, <1>11, <1>12

(* A node whose attributes or text change to what is accepted. *)
LEMMA NodeIsChanged ==
  ASSUME NodesOK, HoldersOK, NEW n \in 1 .. allocated, NEW new \in NodeRecords,
         nodes' = [nodes EXCEPT ![n] = new], allocated' = allocated,
         new.kind = nodes[n].kind, new.parent = nodes[n].parent,
         new.children = nodes[n].children, Valid(n)'
  PROVE  /\ NodesOK'
         /\ \A m \in NodeIds : nodes'[m].kind = nodes[m].kind /\ SameLinks(m)
<1>1. n \in NodeIds /\ 1 .. allocated \subseteq NodeIds
  BY NodesAssumption DEF HoldersOK, NodeIds
<1>2. /\ nodes' \in [NodeIds -> NodeRecords] /\ nodes'[n] = new
      /\ \A m \in NodeIds \ {n} : nodes'[m] = nodes[m]
  BY <1>1 DEF NodesOK
<1>3. ASSUME NEW m \in NodeIds PROVE nodes'[m].kind = nodes[m].kind /\ SameLinks(m)
  BY <1>2 DEF SameLinks
<1>4. ASSUME NEW m \in 1 .. allocated
      PROVE  Valid(m)' /\ ToSet(nodes'[m].children) \subseteq 1 .. allocated
  <2>1. m \in NodeIds /\ Valid(m) /\ ToSet(nodes[m].children) \subseteq 1 .. allocated
    BY <1>1 DEF NodesOK
  <2>2. Valid(m)'
    <3>1. CASE m = n
      BY <3>1
    <3>2. CASE m # n
      BY <3>2, <2>1, <1>2, ValidStays
    <3> QED
      BY <3>1, <3>2
  <2> QED
    BY <2>1, <2>2, <1>3 DEF SameLinks
<1> QED
  BY <1>2, <1>3, <1>4 DEF NodesOK

LEMMA TreeIsAllocated ==
  ASSUME NodesOK, HoldersOK, NEW n \in 1 .. allocated
  PROVE  Tree(n) \subseteq 1 .. allocated
<1>1. n \in NodeIds /\ 1 .. allocated \in SUBSET NodeIds
  BY NodesAssumption DEF HoldersOK, NodeIds
<1>2. Children(1 .. allocated) \subseteq 1 .. allocated
  BY DEF Children, NodesOK
<1> QED
  BY <1>1, <1>2, TreeIsLeast

(* The holders do not change, but for consumers that end. *)
LEMMA HoldersStay ==
  ASSUME NodesOK, HoldersOK, allocated' \in 0 .. MaxNodes, allocated <= allocated',
         \A n \in 1 .. allocated : nodes'[n].kind = nodes[n].kind,
         \/ builders' = builders
         \/ builders # <<>> /\ builders' = Front(builders)
         \/ builders' = <<>>,
         loose' \subseteq 1 .. allocated', deleted' \subseteq 1 .. allocated', thrown' \in BOOLEAN
  PROVE  HoldersOK'
<1>1. 1 .. allocated \subseteq 1 .. allocated'
  BY DEF HoldersOK
<1>2. /\ builders' \in Seq([node : NodeIds, into : NodeIds \cup {None}])
      /\ \A i \in DOMAIN builders' : i \in DOMAIN builders /\ builders'[i] = builders[i]
  <2>1. CASE builders' = builders
    BY <2>1 DEF HoldersOK
  <2>2. CASE builders # <<>> /\ builders' = Front(builders)
    BY <2>2, FrontOf DEF HoldersOK
  <2>3. CASE builders' = <<>>
    BY <2>3
  <2> QED
    BY <2>1, <2>2, <2>3
<1>3. ASSUME NEW i \in DOMAIN builders'
      PROVE  /\ builders'[i].node \in 1 .. allocated'
             /\ nodes'[builders'[i].node].kind = "TAG"
             /\ i > 1 => builders'[i].into \in 1 .. allocated'
  <2>1. i \in DOMAIN builders /\ builders'[i] = builders[i]
    BY <1>2
  <2> QED
    BY <2>1, <1>1 DEF HoldersOK
<1> QED
  BY <1>2, <1>3 DEF HoldersOK

(* A consumer that begins, with a new tag. *)
LEMMA HoldersGrow ==
  ASSUME NodesOK, HoldersOK, HasRoom, allocated' = Fresh,
         \A n \in 1 .. allocated : nodes'[n].kind = nodes[n].kind, nodes'[Fresh].kind = "TAG",
         NEW p \in (1 .. allocated) \cup {None}, builders = <<>> \/ p # None,
         builders' = Append(builders, [node |-> Fresh, into |-> p]),
         UNCHANGED <<loose, deleted, thrown>>
  PROVE  HoldersOK'
<1>1. /\ Fresh \in NodeIds /\ 1 .. Fresh = (1 .. allocated) \cup {Fresh}
      /\ 1 .. allocated \subseteq NodeIds /\ Fresh \in 0 .. MaxNodes
  BY RoomIsFresh
<1> DEFINE Consumer == [node : NodeIds, into : NodeIds \cup {None}]
           new == [node |-> Fresh, into |-> p]
<1>2. new \in Consumer /\ new.node = Fresh /\ new.into = p /\ builders \in Seq(Consumer)
  BY <1>1 DEF HoldersOK
<1> HIDE DEF new, Consumer
<1>3. builders' = Append(builders, new)
  BY DEF new
<1>4. /\ builders' \in Seq(Consumer) /\ DOMAIN builders' = 1 .. Len(builders) + 1
      /\ DOMAIN builders = 1 .. Len(builders) /\ Len(builders) \in Nat
      /\ \A i \in 1 .. Len(builders) : builders'[i] = builders[i]
      /\ builders'[Len(builders) + 1] = new
      /\ builders = <<>> => Len(builders) = 0
  BY <1>2, <1>3
<1>5. ASSUME NEW i \in DOMAIN builders'
      PROVE  /\ builders'[i].node \in 1 .. Fresh
             /\ nodes'[builders'[i].node].kind = "TAG"
             /\ i > 1 => builders'[i].into \in 1 .. Fresh
  <2>1. CASE i \in 1 .. Len(builders)
    BY <2>1, <1>1, <1>4 DEF HoldersOK
  <2>2. CASE i = Len(builders) + 1
    BY <2>2, <1>1, <1>2, <1>4
  <2> QED
    BY <2>1, <2>2, <1>4
<1>6. loose' \subseteq 1 .. Fresh /\ deleted' \subseteq 1 .. Fresh /\ thrown' \in BOOLEAN
  BY <1>1 DEF HoldersOK
<1>7. builders' \in Seq([node : NodeIds, into : NodeIds \cup {None}])
  BY <1>4 DEF Consumer
<1> QED
  BY <1>1, <1>5, <1>6, <1>7 DEF HoldersOK

(* Moving a node, to a new one or to one of the same kind. *)
LEMMA NodeIsMoved ==
  ASSUME NodesOK, HoldersOK, NEW from \in loose, NEW to \in loose \cup (NodeIds \cap {Fresh}),
         NEW copies \in BOOLEAN, to # from, nodes[to].kind \in {"none", nodes[from].kind},
         allocated' = IF to = Fresh THEN Fresh ELSE allocated,
         nodes' = [nodes EXCEPT ![to] = nodes[from], ![from].children = <<>>,
                                ![from].content = IF copies THEN @ ELSE <<>>]
  PROVE  /\ NodesOK' /\ allocated' \in 0 .. MaxNodes /\ allocated <= allocated'
         /\ \A n \in 1 .. allocated : nodes'[n].kind = nodes[n].kind
         /\ \A n \in NodeIds \ {from, to} : nodes'[n] = nodes[n]
         /\ nodes'[from].parent = nodes[from].parent /\ nodes'[from].children = <<>>
         /\ nodes'[to].parent = nodes[from].parent
         /\ nodes'[to].children = nodes[from].children
         /\ to \in 1 .. allocated' /\ (to = Fresh => to \notin 1 .. allocated)
<1>1. /\ 1 .. allocated \subseteq NodeIds /\ from \in 1 .. allocated /\ from \in NodeIds
      /\ allocated \in 0 .. MaxNodes /\ to \in NodeIds /\ to \in 1 .. allocated'
      /\ allocated' \in 0 .. MaxNodes /\ allocated <= allocated'
      /\ 1 .. allocated' \subseteq (1 .. allocated) \cup {to}
      /\ to = Fresh => to \notin 1 .. allocated
      /\ 1 .. allocated \subseteq 1 .. allocated'
  BY NodesAssumption DEF HoldersOK, NodeIds, Fresh
<1> DEFINE text == IF copies THEN nodes[from].content ELSE <<>>
           old == [nodes[from] EXCEPT !.children = <<>>, !.content = text]
<1>2. nodes[from] \in NodeRecords
  BY <1>1 DEF NodesOK
<1>3. text \in Seq(STRING)
  <2>1. nodes[from].content \in Seq(STRING) /\ <<>> \in Seq(STRING)
    BY <1>2 DEF NodeRecords
  <2> QED
    BY <2>1
<1>4. <<>> \in Seq(NodeIds)
  OBVIOUS
<1>5. /\ old \in NodeRecords /\ old.kind = nodes[from].kind /\ old.name = nodes[from].name
      /\ old.content = text /\ old.attributes = nodes[from].attributes
      /\ old.parent = nodes[from].parent /\ old.children = <<>>
  <2> HIDE DEF text
  <2> QED
    BY <1>2, <1>3, <1>4 DEF NodeRecords
<1>6. /\ nodes' \in [NodeIds -> NodeRecords] /\ nodes'[from] = old /\ nodes'[to] = nodes[from]
      /\ \A n \in NodeIds \ {from, to} : nodes'[n] = nodes[n]
  <2> DEFINE m == [nodes EXCEPT ![to] = nodes[from]]
             k == [m EXCEPT ![from] = [m[from] EXCEPT !.children = <<>>]]
  <2>1. /\ m \in [NodeIds -> NodeRecords] /\ m[from] = nodes[from] /\ m[to] = nodes[from]
        /\ \A n \in NodeIds \ {to} : m[n] = nodes[n]
    BY <1>1, <1>2 DEF NodesOK
  <2>2. nodes' = [k EXCEPT ![from].content = IF copies THEN @ ELSE <<>>]
    BY <1>1 DEF NodesOK
  <2> HIDE DEF m
  <2>3. /\ k[from] = [nodes[from] EXCEPT !.children = <<>>] /\ DOMAIN k = NodeIds
        /\ \A n \in NodeIds \ {from} : k[n] = m[n]
        /\ k[from].content = nodes[from].content
    BY <1>1, <1>2, <2>1 DEF NodeRecords
  <2> HIDE DEF k
  <2>4. nodes' = [k EXCEPT ![from] = [k[from] EXCEPT !.content = text]]
    BY <1>1, <2>2, <2>3
  <2>5. [k[from] EXCEPT !.content = text] = old
    BY <1>2, <2>3 DEF NodeRecords
  <2> HIDE DEF old
  <2>6. nodes' = [n \in NodeIds |-> IF n = from THEN old ELSE m[n]]
    BY <1>1, <2>3, <2>4, <2>5
  <2>7. \A n \in NodeIds : (IF n = from THEN old ELSE m[n]) \in NodeRecords
    BY <1>5, <2>1
  <2>8. nodes' \in [NodeIds -> NodeRecords]
    BY <2>6, <2>7
  <2>9. \A n \in NodeIds : nodes'[n] = IF n = from THEN old ELSE m[n]
    BY <2>6
  <2>10. to # from
    OBVIOUS
  <2> QED
    BY <1>1, <2>1, <2>8, <2>9, <2>10
<1> HIDE DEF old
<1>7. Valid(from)'
  <2>1. Valid(from)
    BY <1>1 DEF NodesOK
  <2>2. \A key, value : Accepts(from, key, value) => Accepts(from, key, value)'
    BY <1>5, <1>6 DEF Accepts
  <2>3. \A i \in DOMAIN text : text[i] = nodes[from].content[i] /\ i \in DOMAIN nodes[from].content
    OBVIOUS
  <2>4. IsValidXmlCharacterData(nodes[from].content) => IsValidXmlCharacterData(text)
    BY <2>3 DEF IsValidXmlCharacterData
  <2>5. CanMake(nodes[from]) => CanMake(old)
    BY <1>5, <2>4 DEF CanMake
  <2> QED
    BY <2>1, <2>2, <2>5, <1>5, <1>6 DEF Valid
<1>8. Valid(to)'
  <2>1. Valid(from)
    BY <1>1 DEF NodesOK
  <2>2. \A key, value : Accepts(from, key, value) => Accepts(to, key, value)'
    BY <1>5, <1>6 DEF Accepts
  <2> QED
    BY <2>1, <2>2, <1>6 DEF Valid
<1>9. ASSUME NEW n \in 1 .. allocated'
      PROVE  Valid(n)' /\ ToSet(nodes'[n].children) \subseteq 1 .. allocated'
  <2>1. CASE n = from
    BY <2>1, <1>5, <1>6, <1>7 DEF ToSet
  <2>2. CASE n = to
    <3>1. ToSet(nodes[from].children) \subseteq 1 .. allocated
      BY <1>1 DEF NodesOK
    <3> QED
      BY <2>2, <3>1, <1>1, <1>6, <1>8
  <2>3. CASE n \notin {from, to}
    <3>1. n \in 1 .. allocated /\ nodes'[n] = nodes[n]
      BY <2>3, <1>1, <1>6
    <3>2. Valid(n) /\ ToSet(nodes[n].children) \subseteq 1 .. allocated
      BY <3>1 DEF NodesOK
    <3> QED
      BY <3>1, <3>2, <1>1, ValidStays
  <2> QED
    BY <2>1, <2>2, <2>3
<1>10. ASSUME NEW n \in NodeIds, n > allocated' PROVE nodes'[n].kind = "none"
  <2>1. n \notin {from, to} /\ n > allocated
    BY <1>1, <1>10, NodesAssumption DEF NodeIds
  <2> QED
    BY <2>1, <1>6 DEF NodesOK
<1>11. ASSUME NEW n \in 1 .. allocated PROVE nodes'[n].kind = nodes[n].kind
  <2>1. n = to => nodes[to].kind = nodes[from].kind
    <3>1. nodes[n].kind \in Kinds
      BY DEF NodesOK, Valid
    <3> QED
      BY <3>1 DEF Kinds
  <2> QED
    BY <2>1, <1>1, <1>5, <1>6
<1>12. NodesOK'
  BY <1>6, <1>9, <1>10 DEF NodesOK
<1> QED
  BY <1>1, <1>5, <1>6, <1>11, <1>12

-----------------------------------------------------------------------------
(* What each action does to types and to links: nothing, ...                *)

Quiet == UNCHANGED <<allocated, builders, loose, deleted>> /\ \A n \in NodeIds : SameLinks(n)

(* ... a new node, without parent and children, for a consumer or the caller, *)
IsMade ==
  /\ HasRoom /\ allocated' = Fresh
  /\ \A n \in 1 .. allocated : SameLinks(n)
  /\ nodes'[Fresh].parent = None /\ nodes'[Fresh].children = <<>>
ConsumerBegins(p) ==
  /\ IsMade /\ builders' = Append(builders, [node |-> Fresh, into |-> p])
  /\ UNCHANGED <<loose, deleted, sent>>

(* ... or a root that becomes a child.                                      *)
IsAttached(p, c) ==
  /\ allocated' = allocated
  /\ \A n \in NodeIds :
       /\ nodes'[n].parent = IF n = c THEN p ELSE nodes[n].parent
       /\ nodes'[n].children =
            IF n = p THEN Append(nodes[p].children, c) ELSE nodes[n].children

LEMMA SomethingHolds ==
  ASSUME HoldersOK
  PROVE  /\ allocated \in 0 .. MaxNodes /\ allocated <= allocated
         /\ Building \cup loose \subseteq 1 .. allocated
         /\ 1 .. allocated \subseteq NodeIds
<1>1. \A n \in Building : n \in 1 .. allocated
  BY DEF HoldersOK, Building
<1>2. allocated \in Nat /\ allocated \in 0 .. MaxNodes
  BY NodesAssumption DEF HoldersOK
<1>3. loose \subseteq 1 .. allocated
  BY DEF HoldersOK
<1>4. \A n \in 1 .. allocated : n \in NodeIds
  BY <1>2, NodesAssumption DEF NodeIds
<1>5. allocated <= allocated
  BY <1>2
<1> QED
  BY <1>1, <1>2, <1>3, <1>4, <1>5

LEMMA NothingHappens ==
  ASSUME NodesOK, HoldersOK, UNCHANGED <<nodes, allocated, builders, loose, deleted>>,
         thrown' \in BOOLEAN
  PROVE  NodesOK' /\ HoldersOK' /\ Quiet
<1>1. NodesOK'
  BY DEF NodesOK, Valid, Accepts
<1>2. HoldersOK'
  BY DEF HoldersOK
<1> QED
  BY <1>1, <1>2 DEF Quiet, SameLinks

LEMMA ThrowsStep ==
  ASSUME NodesOK, HoldersOK, Throws
  PROVE  NodesOK' /\ HoldersOK' /\ Quiet /\ sent' = sent
  BY NothingHappens DEF Throws

LEMMA ConsumerBeginsStep ==
  ASSUME NodesOK, HoldersOK, HasRoom, NEW name \in TagNames, IsValidXmlName(name),
         NEW p \in (1 .. allocated) \cup {None}, builders = <<>> \/ p # None,
         nodes' = [nodes EXCEPT ![Fresh] = Node("TAG", name, <<>>)], allocated' = Fresh,
         builders' = Append(builders, [node |-> Fresh, into |-> p]),
         UNCHANGED <<loose, deleted, thrown, sent>>
  PROVE  NodesOK' /\ HoldersOK' /\ ConsumerBegins(p)
<1> DEFINE node == Node("TAG", name, <<>>)
<1>1. node \in TagNodes /\ CanMake(node) /\ node.kind = "TAG"
  BY DEF TagNodes, CanMake, Node
<1> HIDE DEF node
<1>2. nodes' = [nodes EXCEPT ![Fresh] = node]
  BY DEF node
<1>3. /\ NodesOK' /\ \A n \in 1 .. allocated : nodes'[n] = nodes[n]
      /\ nodes'[Fresh].parent = None /\ nodes'[Fresh].children = <<>>
  BY <1>1, <1>2, NodeIsMade
<1>4. nodes'[Fresh].kind = "TAG"
  BY <1>1, <1>2, RoomIsFresh DEF NodesOK
<1>5. HoldersOK'
  BY <1>3, <1>4, HoldersGrow
<1> QED
  BY <1>3, <1>5 DEF ConsumerBegins, IsMade, SameLinks

LEMMA StartStep ==
  ASSUME NodesOK, HoldersOK, Start
  PROVE  /\ NodesOK' /\ HoldersOK' /\ sent' = sent
         /\ Quiet \/ (builders = <<>> /\ ConsumerBegins(None))
<1>1. PICK name \in TagNames :
        IF ~IsValidXmlName(name) THEN Throws
        ELSE /\ nodes' = [nodes EXCEPT ![1] = Node("TAG", name, <<>>)]
             /\ allocated' = 1
             /\ builders' = <<[node |-> 1, into |-> None]>>
             /\ UNCHANGED <<loose, deleted, thrown, sent>>
  BY Zenon DEF Start
<1>2. CASE ~IsValidXmlName(name)
  BY <1>1, <1>2, ThrowsStep
<1>3. CASE IsValidXmlName(name)
  <2>1. HasRoom /\ Fresh = 1 /\ builders = <<>>
    BY NodesAssumption DEF Start, HasRoom, Fresh
  <2>2. builders' = Append(builders, [node |-> Fresh, into |-> None])
    BY <1>1, <1>3, <2>1
  <2> QED
    BY <1>1, <1>3, <2>1, <2>2, ConsumerBeginsStep
<1> QED
  BY <1>2, <1>3

LEMMA OpenTagStep ==
  ASSUME NodesOK, HoldersOK, OpenTag
  PROVE  /\ NodesOK' /\ HoldersOK' /\ sent' = sent
         /\ Quiet \/ (\E p \in Building \cup loose : ConsumerBegins(p) /\ sent = None)
<1>1. PICK p \in Building \cup loose, name \in TagNames :
        IF ~IsValidXmlName(name) THEN Throws
        ELSE /\ nodes' = [nodes EXCEPT ![Fresh] = Node("TAG", name, <<>>)]
             /\ allocated' = Fresh
             /\ builders' = Append(builders, [node |-> Fresh, into |-> p])
             /\ UNCHANGED <<loose, deleted, thrown, sent>>
  BY DEF OpenTag
<1>2. HasRoom /\ sent = None
  BY DEF OpenTag, Working
<1>3. CASE ~IsValidXmlName(name)
  BY <1>1, <1>3, ThrowsStep
<1>4. CASE IsValidXmlName(name)
  <2>1. p \in 1 .. allocated /\ p # None
    BY SomethingHolds, NodesAssumption
  <2>2. NodesOK' /\ HoldersOK' /\ ConsumerBegins(p)
    BY <1>1, <1>2, <1>4, <2>1, ConsumerBeginsStep
  <2> QED
    BY <1>1, <1>2, <1>4, <2>2
<1> QED
  BY <1>3, <1>4

(* A setter that accepts. *)
LEMMA SetterStep ==
  ASSUME NodesOK, HoldersOK, NEW n \in 1 .. allocated, NEW new \in NodeRecords,
         nodes' = [nodes EXCEPT ![n] = new],
         UNCHANGED <<allocated, builders, loose, deleted, thrown>>,
         new.kind = nodes[n].kind, new.parent = nodes[n].parent,
         new.children = nodes[n].children, CanMake(new),
         \A a \in new.attributes : a \in nodes[n].attributes \/ Accepts(n, a[1], a[2])
  PROVE  NodesOK' /\ HoldersOK' /\ Quiet
<1>1. n \in NodeIds /\ nodes'[n] = new
  BY SomethingHolds DEF NodesOK
<1>2. Valid(n)
  BY DEF NodesOK
<1>3. \A key, value : Accepts(n, key, value) => Accepts(n, key, value)'
  BY <1>1 DEF Accepts
<1>4. \A a \in nodes'[n].attributes : Accepts(n, a[1], a[2])'
  BY <1>1, <1>2, <1>3 DEF Valid
<1>5. Valid(n)'
  BY <1>1, <1>2, <1>4 DEF Valid
<1>6. /\ NodesOK'
      /\ \A m \in NodeIds : nodes'[m].kind = nodes[m].kind /\ SameLinks(m)
  BY <1>5, NodeIsChanged
<1>7. \A m \in 1 .. allocated : nodes'[m].kind = nodes[m].kind
  BY <1>6, SomethingHolds
<1>8. HoldersOK'
  BY <1>7, SomethingHolds, HoldersStay DEF HoldersOK
<1> QED
  BY <1>6, <1>8 DEF Quiet

LEMMA SetAttributeStep ==
  ASSUME NodesOK, HoldersOK, SetAttribute
  PROVE  NodesOK' /\ HoldersOK' /\ Quiet /\ sent' = sent
<1>1. PICK n \in Building \cup loose, key \in Keys, value \in Contents :
        IF ~Accepts(n, key, value) THEN Throws
        ELSE /\ nodes' = [nodes EXCEPT ![n].attributes =
                            {a \in @ : a[1] # key} \cup {<<key, value>>}]
             /\ UNCHANGED <<allocated, builders, loose, deleted, thrown, sent>>
  BY DEF SetAttribute
<1>2. CASE ~Accepts(n, key, value)
  BY <1>1, <1>2, ThrowsStep
<1>3. CASE Accepts(n, key, value)
  <2>1. n \in 1 .. allocated /\ n \in NodeIds /\ nodes[n] \in NodeRecords /\ CanMake(nodes[n])
    BY SomethingHolds DEF NodesOK, Valid
  <2> DEFINE attributes == {a \in nodes[n].attributes : a[1] # key} \cup {<<key, value>>}
             new == [nodes[n] EXCEPT !.attributes = attributes]
  <2>2. attributes \in SUBSET (Keys \X Contents)
    BY <2>1 DEF NodeRecords
  <2>3. \A a \in attributes : a \in nodes[n].attributes \/ Accepts(n, a[1], a[2])
    BY <1>3
  <2> HIDE DEF attributes
  <2>4. /\ new \in NodeRecords /\ new.kind = nodes[n].kind /\ new.name = nodes[n].name
        /\ new.content = nodes[n].content /\ new.attributes = attributes
        /\ new.parent = nodes[n].parent /\ new.children = nodes[n].children
    BY <2>1, <2>2 DEF NodeRecords
  <2>5. nodes' = [nodes EXCEPT ![n] = new]
    BY <1>1, <1>3, <2>1 DEF NodesOK, attributes
  <2> HIDE DEF new
  <2>6. CanMake(new)
    BY <2>1, <2>4 DEF CanMake
  <2> QED
    BY <1>1, <1>3, <2>1, <2>3, <2>4, <2>5, <2>6, SetterStep
<1> QED
  BY <1>2, <1>3

LEMMA RemoveAttributeStep ==
  ASSUME NodesOK, HoldersOK, RemoveAttribute
  PROVE  NodesOK' /\ HoldersOK' /\ Quiet /\ sent' = sent
<1>1. PICK n \in Building \cup loose, key \in Keys :
        nodes' = [nodes EXCEPT ![n].attributes = {a \in @ : a[1] # key}]
  BY DEF RemoveAttribute
<1>2. n \in 1 .. allocated /\ n \in NodeIds /\ nodes[n] \in NodeRecords /\ CanMake(nodes[n])
  BY SomethingHolds DEF NodesOK, Valid
<1> DEFINE attributes == {a \in nodes[n].attributes : a[1] # key}
           new == [nodes[n] EXCEPT !.attributes = attributes]
<1>3. attributes \in SUBSET (Keys \X Contents) /\ attributes \subseteq nodes[n].attributes
  BY <1>2 DEF NodeRecords
<1> HIDE DEF attributes
<1>4. /\ new \in NodeRecords /\ new.kind = nodes[n].kind /\ new.name = nodes[n].name
      /\ new.content = nodes[n].content /\ new.attributes = attributes
      /\ new.parent = nodes[n].parent /\ new.children = nodes[n].children
  BY <1>2, <1>3 DEF NodeRecords
<1>5. nodes' = [nodes EXCEPT ![n] = new]
  BY <1>1, <1>2 DEF NodesOK, attributes
<1> HIDE DEF new
<1>6. CanMake(new)
  BY <1>2, <1>4 DEF CanMake
<1>7. UNCHANGED <<allocated, builders, loose, deleted, thrown, sent>>
  BY DEF RemoveAttribute
<1> QED
  BY <1>2, <1>3, <1>4, <1>5, <1>6, <1>7, SetterStep

LEMMA ChangeTextStep ==
  ASSUME NodesOK, HoldersOK, ChangeText
  PROVE  NodesOK' /\ HoldersOK' /\ Quiet /\ sent' = sent
<1>1. PICK n \in loose, content \in Contents :
        /\ nodes[n].kind = "TEXT_CONTENT"
        /\ IF ~IsValidXmlCharacterData(content) THEN Throws
           ELSE /\ \E text \in {content, nodes[n].content \o content} :
                     Len(text) <= MaxContent /\ nodes' = [nodes EXCEPT ![n].content = text]
                /\ UNCHANGED <<allocated, builders, loose, deleted, thrown, sent>>
  BY DEF ChangeText
<1>2. CASE ~IsValidXmlCharacterData(content)
  BY <1>1, <1>2, ThrowsStep
<1>3. CASE IsValidXmlCharacterData(content)
  <2>1. n \in 1 .. allocated /\ n \in NodeIds /\ nodes[n] \in NodeRecords /\ CanMake(nodes[n])
    BY SomethingHolds DEF NodesOK, Valid
  <2>2. PICK text \in {content, nodes[n].content \o content} :
          nodes' = [nodes EXCEPT ![n].content = text]
    BY <1>1, <1>3
  <2>3. /\ nodes[n].content \in Seq(STRING) /\ content \in Seq(STRING)
        /\ IsValidXmlCharacterData(nodes[n].content)
    BY <1>1, <2>1, ContentsAssumption DEF NodeRecords, CanMake
  <2>4. text \in Seq(STRING) /\ IsValidXmlCharacterData(text)
    <3>1. CASE text = content
      BY <3>1, <1>3, <2>3
    <3>2. CASE text = nodes[n].content \o content
      <4> DEFINE s == nodes[n].content
      <4>1. /\ s \in Seq(STRING) /\ content \in Seq(STRING)
            /\ \A i \in DOMAIN s : s[i] \notin ControlCharacters
            /\ \A i \in DOMAIN content : content[i] \notin ControlCharacters
        BY <1>3, <2>3 DEF IsValidXmlCharacterData
      <4> HIDE DEF s
      <4>2. /\ s \o content \in Seq(STRING) /\ Len(s) \in Nat /\ Len(content) \in Nat
            /\ DOMAIN s = 1 .. Len(s) /\ DOMAIN content = 1 .. Len(content)
            /\ DOMAIN (s \o content) = 1 .. Len(s) + Len(content)
            /\ \A i \in 1 .. Len(s) : (s \o content)[i] = s[i]
            /\ \A i \in Len(s) + 1 .. Len(s) + Len(content) :
                 (s \o content)[i] = content[i - Len(s)] /\ i - Len(s) \in 1 .. Len(content)
        BY <4>1
      <4>3. ASSUME NEW i \in DOMAIN (s \o content)
            PROVE  (s \o content)[i] \notin ControlCharacters
        <5>1. CASE i \in 1 .. Len(s)
          BY <5>1, <4>1, <4>2
        <5>2. CASE i \in Len(s) + 1 .. Len(s) + Len(content)
          BY <5>2, <4>1, <4>2
        <5> QED
          BY <5>1, <5>2, <4>2
      <4> QED
        BY <3>2, <4>2, <4>3 DEF IsValidXmlCharacterData, s
    <3> QED
      BY <3>1, <3>2
  <2> DEFINE new == [nodes[n] EXCEPT !.content = text]
  <2>5. /\ new \in NodeRecords /\ new.kind = nodes[n].kind /\ new.name = nodes[n].name
        /\ new.content = text /\ new.attributes = nodes[n].attributes
        /\ new.parent = nodes[n].parent /\ new.children = nodes[n].children
    BY <2>1, <2>4 DEF NodeRecords
  <2>6. nodes' = [nodes EXCEPT ![n] = new]
    BY <2>1, <2>2 DEF NodesOK
  <2> HIDE DEF new
  <2>7. CanMake(new)
    BY <1>1, <2>4, <2>5 DEF CanMake
  <2> QED
    BY <1>1, <1>3, <2>1, <2>5, <2>6, <2>7, SetterStep
<1> QED
  BY <1>2, <1>3

IsBorn(p) ==
  /\ HasRoom /\ allocated' = Fresh
  /\ \A n \in 1 .. allocated :
       /\ nodes'[n].parent = nodes[n].parent
       /\ nodes'[n].children =
            IF n = p THEN Append(nodes[p].children, Fresh) ELSE nodes[n].children
  /\ nodes'[Fresh].parent = p /\ nodes'[Fresh].children = <<>>
  /\ UNCHANGED <<builders, loose, deleted, sent>>

LEMMA AppendNewStep ==
  ASSUME NodesOK, HoldersOK, AppendNew
  PROVE  /\ NodesOK' /\ HoldersOK' /\ sent' = sent
         /\ Quiet \/ (\E p \in Building \cup loose : IsBorn(p))
<1>1. PICK p \in Building \cup loose, node \in TagNodes \cup TextNodes :
        IF ~CanMake(node) THEN Throws
        ELSE /\ nodes' = [nodes EXCEPT ![Fresh] = [node EXCEPT !.parent = p],
                                       ![p].children = Append(@, Fresh)]
             /\ allocated' = Fresh
             /\ UNCHANGED <<builders, loose, deleted, thrown, sent>>
  BY DEF AppendNew
<1>2. HasRoom
  BY DEF AppendNew
<1>3. CASE ~CanMake(node)
  BY <1>1, <1>3, ThrowsStep
<1>4. CASE CanMake(node)
  <2>1. p \in 1 .. allocated
    BY SomethingHolds
  <2>2. /\ NodesOK'
        /\ \A n \in 1 .. allocated :
             /\ nodes'[n].kind = nodes[n].kind /\ nodes'[n].parent = nodes[n].parent
             /\ nodes'[n].children =
                  IF n = p THEN Append(nodes[p].children, Fresh) ELSE nodes[n].children
        /\ nodes'[Fresh].parent = p /\ nodes'[Fresh].children = <<>>
    BY <1>1, <1>2, <1>4, <2>1, ChildNodeIsMade
  <2>3. /\ allocated' \in 0 .. MaxNodes /\ allocated <= allocated'
        /\ 1 .. allocated \subseteq 1 .. allocated'
    BY <1>1, <1>2, <1>4, RoomIsFresh, SomethingHolds
  <2>4. HoldersOK'
    <3>1. loose' \subseteq 1 .. allocated' /\ deleted' \subseteq 1 .. allocated' /\ thrown' \in BOOLEAN
      BY <1>1, <1>4, <2>3 DEF HoldersOK
    <3> QED
      BY <1>1, <1>4, <2>2, <2>3, <3>1, HoldersStay
  <2> QED
    BY <1>1, <1>2, <1>4, <2>2, <2>4 DEF IsBorn
<1> QED
  BY <1>3, <1>4

LEMMA MakeStep ==
  ASSUME NodesOK, HoldersOK, Make
  PROVE  /\ NodesOK' /\ HoldersOK' /\ sent' = sent
         /\ \/ Quiet
            \/ IsMade /\ loose' = loose \cup {Fresh} /\ UNCHANGED <<builders, deleted>>
<1>1. PICK node \in TagNodes \cup DeclarationNodes \cup BlankNodes :
        IF ~CanMake(node) THEN Throws
        ELSE /\ nodes' = [nodes EXCEPT ![Fresh] = node]
             /\ allocated' = Fresh
             /\ loose' = loose \cup {Fresh}
             /\ UNCHANGED <<builders, deleted, thrown, sent>>
  BY DEF Make
<1>2. HasRoom
  BY DEF Make
<1>3. CASE ~CanMake(node)
  BY <1>1, <1>3, ThrowsStep
<1>4. CASE CanMake(node)
  <2>1. /\ NodesOK' /\ \A n \in 1 .. allocated : nodes'[n] = nodes[n]
        /\ nodes'[Fresh].parent = None /\ nodes'[Fresh].children = <<>>
    BY <1>1, <1>2, <1>4, NodeIsMade
  <2>2. /\ allocated' \in 0 .. MaxNodes /\ allocated <= allocated'
        /\ 1 .. allocated' = (1 .. allocated) \cup {Fresh}
    BY <1>1, <1>2, <1>4, RoomIsFresh, SomethingHolds
  <2>3. loose' \subseteq 1 .. allocated' /\ deleted' \subseteq 1 .. allocated' /\ thrown' \in BOOLEAN
    BY <1>1, <1>4, <2>2 DEF HoldersOK
  <2>4. HoldersOK'
    BY <1>1, <1>4, <2>1, <2>2, <2>3, HoldersStay
  <2> QED
    BY <1>1, <1>2, <1>4, <2>1, <2>4 DEF IsMade, SameLinks
<1> QED
  BY <1>3, <1>4

LEMMA TopHolds ==
  ASSUME HoldersOK, builders # <<>>
  PROVE  /\ Len(builders) \in DOMAIN builders /\ Top = builders[Len(builders)]
         /\ Top.node \in 1 .. allocated /\ Top.node \in Building
         /\ Len(builders) > 1 => Top.into \in 1 .. allocated
<1>1. Len(builders) \in DOMAIN builders
  BY DEF HoldersOK
<1> QED
  BY <1>1 DEF Top, HoldersOK, Building

(* A tree goes, with what holds it. *)
LEMMA DeletesStep ==
  ASSUME NodesOK, HoldersOK, NEW r \in 1 .. allocated,
         nodes' = nodes, allocated' = allocated, deleted' = deleted \cup Tree(r),
         \/ builders' = builders
         \/ builders # <<>> /\ builders' = Front(builders)
         \/ builders' = <<>>,
         loose' \subseteq loose, thrown' \in BOOLEAN
  PROVE  NodesOK' /\ HoldersOK'
<1>1. NodesOK'
  BY DEF NodesOK, Valid, Accepts
<1>2. allocated' \in 0 .. MaxNodes /\ allocated <= allocated'
  BY SomethingHolds
<1>3. loose' \subseteq 1 .. allocated' /\ deleted' \subseteq 1 .. allocated'
  BY TreeIsAllocated DEF HoldersOK
<1>4. HoldersOK'
  BY <1>2, <1>3, HoldersStay
<1> QED
  BY <1>1, <1>4

LEMMA CloseTagStep ==
  ASSUME NodesOK, HoldersOK, CloseTag
  PROVE  /\ NodesOK' /\ HoldersOK'
         /\ Len(builders) > 1 /\ builders' = Front(builders) /\ UNCHANGED <<allocated, loose, sent>>
         /\ \/ IsAttached(Top.into, Top.node) /\ deleted' = deleted
            \/ nodes' = nodes /\ deleted' = deleted \cup Tree(Top.node)
<1>1. /\ Len(builders) > 1 /\ builders' = Front(builders) /\ builders # <<>>
      /\ UNCHANGED <<allocated, loose, sent>>
  BY DEF CloseTag, Working
<1>2. Top.into \in 1 .. allocated /\ Top.node \in 1 .. allocated
  BY <1>1, TopHolds
<1>3. CASE Refuses(Top.into, Top.node)
  <2>1. thrown' = TRUE /\ deleted' = deleted \cup Tree(Top.node) /\ nodes' = nodes
    BY <1>3 DEF CloseTag
  <2>2. NodesOK' /\ HoldersOK'
    BY <1>1, <1>2, <2>1, DeletesStep
  <2> QED
    BY <1>1, <2>1, <2>2
<1>4. CASE ~Refuses(Top.into, Top.node)
  <2>1. nodes' = Attached(Top.into, Top.node) /\ UNCHANGED <<deleted, thrown>>
    BY <1>4 DEF CloseTag
  <2>2. /\ NodesOK'
        /\ \A n \in NodeIds :
             /\ nodes'[n].kind = nodes[n].kind
             /\ nodes'[n].parent = IF n = Top.node THEN Top.into ELSE nodes[n].parent
             /\ nodes'[n].children =
                  IF n = Top.into THEN Append(nodes[Top.into].children, Top.node)
                                  ELSE nodes[n].children
    BY <1>1, <1>2, <2>1, ChildIsAdded
  <2>3. HoldersOK'
    <3>1. \A n \in 1 .. allocated : nodes'[n].kind = nodes[n].kind
      BY <2>2, SomethingHolds
    <3>2. allocated' \in 0 .. MaxNodes /\ allocated <= allocated'
      BY <1>1, SomethingHolds
    <3>3. loose' \subseteq 1 .. allocated' /\ deleted' \subseteq 1 .. allocated' /\ thrown' \in BOOLEAN
      BY <1>1, <2>1 DEF HoldersOK
    <3> QED
      BY <1>1, <3>1, <3>2, <3>3, HoldersStay
  <2> QED
    BY <1>1, <2>1, <2>2, <2>3 DEF IsAttached
<1> QED
  BY <1>3, <1>4

LEMMA AppendPointerStep ==
  ASSUME NodesOK, HoldersOK, AppendPointer
  PROVE  /\ NodesOK' /\ HoldersOK' /\ sent' = sent
         /\ \/ Quiet
            \/ \E p \in Live, c \in Live :
                 /\ c \in loose \ AtWork
                 /\ IsAttached(p, c) /\ loose' = loose \ {c} /\ UNCHANGED <<builders, deleted>>
<1>1. PICK p \in LiveContainers, c \in Live :
        /\ c \in loose \ AtWork \/ p \in Ancestors(c)
        /\ IF Refuses(p, c) THEN Throws
           ELSE /\ nodes' = Attached(p, c)
                /\ loose' = loose \ {c}
                /\ UNCHANGED <<allocated, builders, deleted, thrown, sent>>
  BY DEF AppendPointer
<1>2. CASE Refuses(p, c)
  BY <1>1, <1>2, ThrowsStep
<1>3. CASE ~Refuses(p, c)
  <2>1. p \in Live /\ p \in 1 .. allocated /\ c \in 1 .. allocated
    BY DEF LiveContainers, Live
  <2>2. c \in loose \ AtWork
    BY <1>1, <1>3 DEF Refuses
  <2>3. /\ NodesOK'
        /\ \A n \in NodeIds :
             /\ nodes'[n].kind = nodes[n].kind
             /\ nodes'[n].parent = IF n = c THEN p ELSE nodes[n].parent
             /\ nodes'[n].children =
                  IF n = p THEN Append(nodes[p].children, c) ELSE nodes[n].children
    BY <1>1, <1>3, <2>1, ChildIsAdded
  <2>4. HoldersOK'
    <3>1. \A n \in 1 .. allocated : nodes'[n].kind = nodes[n].kind
      BY <2>3, SomethingHolds
    <3>2. allocated' \in 0 .. MaxNodes /\ allocated <= allocated'
      BY <1>1, <1>3, SomethingHolds
    <3>3. loose' \subseteq 1 .. allocated' /\ deleted' \subseteq 1 .. allocated' /\ thrown' \in BOOLEAN
      BY <1>1, <1>3 DEF HoldersOK
    <3> QED
      BY <1>1, <1>3, <3>1, <3>2, <3>3, HoldersStay
  <2>5. IsAttached(p, c)
    BY <1>1, <1>3, <2>3 DEF IsAttached
  <2> QED
    BY <1>1, <1>3, <2>1, <2>2, <2>3, <2>4, <2>5
<1> QED
  BY <1>2, <1>3

LEMMA MoveStep ==
  ASSUME NodesOK, HoldersOK, Move
  PROVE  /\ NodesOK' /\ HoldersOK' /\ sent' = sent
         /\ \E from \in loose, to \in loose \cup (NodeIds \cap {Fresh}) :
              /\ to # from /\ UNCHANGED <<builders, deleted>> /\ loose' = loose \cup {to}
              /\ allocated' = IF to = Fresh THEN Fresh ELSE allocated
              /\ nodes[from].children = <<>> /\ nodes[to].children = <<>>
              /\ \A n \in NodeIds \ {from, to} : nodes'[n] = nodes[n]
              /\ nodes'[from].parent = nodes[from].parent /\ nodes'[from].children = <<>>
              /\ nodes'[to].parent = nodes[from].parent
              /\ nodes'[to].children = nodes[from].children
<1>1. PICK from \in loose, to \in loose \cup (NodeIds \cap {Fresh}), copies \in BOOLEAN :
        /\ to # from /\ nodes[to].kind \in {"none", nodes[from].kind}
        /\ nodes[from].children = <<>> /\ nodes[to].children = <<>>
        /\ nodes' = [nodes EXCEPT ![to] = nodes[from], ![from].children = <<>>,
                                  ![from].content = IF copies THEN @ ELSE <<>>]
        /\ allocated' = IF to = Fresh THEN Fresh ELSE allocated
        /\ loose' = loose \cup {to}
        /\ UNCHANGED <<builders, deleted, thrown, sent>>
  BY DEF Move
<1>2. /\ NodesOK' /\ allocated' \in 0 .. MaxNodes /\ allocated <= allocated'
      /\ \A n \in 1 .. allocated : nodes'[n].kind = nodes[n].kind
      /\ \A n \in NodeIds \ {from, to} : nodes'[n] = nodes[n]
      /\ nodes'[from].parent = nodes[from].parent /\ nodes'[from].children = <<>>
      /\ nodes'[to].parent = nodes[from].parent
      /\ nodes'[to].children = nodes[from].children
      /\ to \in 1 .. allocated'
  BY <1>1, NodeIsMoved
<1>3. 1 .. allocated \subseteq 1 .. allocated'
  BY <1>2 DEF HoldersOK
<1>4. loose' \subseteq 1 .. allocated' /\ deleted' \subseteq 1 .. allocated' /\ thrown' \in BOOLEAN
  BY <1>1, <1>2, <1>3 DEF HoldersOK
<1>5. HoldersOK'
  BY <1>1, <1>2, <1>4, HoldersStay
<1> QED
  BY <1>1, <1>2, <1>5

-----------------------------------------------------------------------------
(* Nodes are what their constructors and setters accept, and the holders know *)
(* only nodes that have been made: the type invariant of XmlNodes.           *)

LEMMA TypeStep == NodesOK /\ HoldersOK /\ [Next]_vars => NodesOK' /\ HoldersOK'
<1> SUFFICES ASSUME NodesOK, HoldersOK, [Next]_vars
             PROVE  NodesOK' /\ HoldersOK'
  OBVIOUS
<1>1. CASE Start
  BY <1>1, StartStep
<1>2. CASE SetAttribute
  BY <1>2, SetAttributeStep
<1>3. CASE RemoveAttribute
  BY <1>3, RemoveAttributeStep
<1>4. CASE AppendNew
  BY <1>4, AppendNewStep
<1>5. CASE OpenTag
  BY <1>5, OpenTagStep
<1>6. CASE CloseTag
  BY <1>6, CloseTagStep
<1>7. CASE Unwind
  BY <1>7, TopHolds, DeletesStep DEF Unwind, HoldersOK
<1>8. CASE ConsumerThrows
  BY <1>8, ThrowsStep DEF ConsumerThrows
<1>9. CASE ConsumerCatches
  BY <1>9, NothingHappens DEF ConsumerCatches
<1>10. CASE Make
  BY <1>10, MakeStep
<1>11. CASE ChangeText
  BY <1>11, ChangeTextStep
<1>12. CASE Move
  BY <1>12, MoveStep
<1>13. CASE Discard
  BY <1>13, DeletesStep DEF Discard, HoldersOK
<1>14. CASE AppendPointer
  BY <1>14, AppendPointerStep
<1>15. CASE Send
  <2>1. builders # <<>> /\ thrown' \in BOOLEAN
    BY <1>15 DEF Send, Working, HoldersOK
  <2>2. CASE CanSerialize(Top.node)
    BY <1>15, <2>1, <2>2, NothingHappens DEF Send
  <2>3. CASE ~CanSerialize(Top.node)
    BY <1>15, <2>1, <2>3, TopHolds, DeletesStep DEF Send
  <2> QED
    BY <2>2, <2>3
<1>16. CASE Destroy
  BY <1>16, TopHolds, DeletesStep DEF Destroy, HoldersOK
<1>17. CASE UNCHANGED vars
  BY <1>17, NothingHappens DEF vars, HoldersOK
<1> QED
  BY <1>1, <1>2, <1>3, <1>4, <1>5, <1>6, <1>7, <1>8, <1>9, <1>10, <1>11, <1>12, <1>13,
     <1>14, <1>15, <1>16, <1>17 DEF Next

LEMMA TypeInit == Init => NodesOK /\ HoldersOK
<1> SUFFICES ASSUME Init PROVE NodesOK /\ HoldersOK
  OBVIOUS
<1>1. <<>> \in Seq(STRING) /\ <<>> \in Seq(NodeIds)
  OBVIOUS
<1>2. NoNode \in NodeRecords /\ NoNode.kind = "none"
  BY <1>1 DEF NoNode, Node, NodeRecords
<1>3. 1 .. allocated = {}
  BY DEF Init
<1>4. /\ nodes \in [NodeIds -> NodeRecords]
      /\ \A n \in NodeIds : nodes[n].kind = "none"
  BY <1>2 DEF Init
<1>5. NodesOK
  BY <1>3, <1>4 DEF NodesOK
<1>6. HoldersOK
  <2>1. builders \in Seq([node : NodeIds, into : NodeIds \cup {None}]) /\ DOMAIN builders = {}
    BY DEF Init
  <2>2. allocated \in 0 .. MaxNodes
    BY NodesAssumption DEF Init
  <2> QED
    BY <2>1, <2>2 DEF Init, HoldersOK
<1> QED
  BY <1>5, <1>6

(* Whatever a caller appends, moves or sends, and whatever throws: each field *)
(* of a node, the consumers and what callers hold keep their types           *)
(* (INode.hpp:17-58, TagNode.hpp:14-60).                                      *)
THEOREM TypeCorrect == Spec => []TypeOK
<1>1. Spec => [](NodesOK /\ HoldersOK)
  BY TypeInit, TypeStep, PTL DEF Spec
<1> QED
  BY <1>1, TypeInParts, PTL

-----------------------------------------------------------------------------
(* The graph and its holders.                                               *)

LEMMA HeldBy ==
  ASSUME TypeOK, Shape
  PROVE  /\ Live \subseteq 1 .. allocated /\ Live \subseteq NodeIds
         /\ nodes \in [NodeIds -> NodeRecords] /\ None \notin NodeIds
         /\ NodesOK /\ HoldersOK
<1>1. NodesOK /\ HoldersOK
  BY TypeInParts
<1> QED
  BY <1>1, SomethingHolds, NodesAssumption DEF Live, Shape

LEMMA LiveGrows ==
  ASSUME NodesOK, HoldersOK, HasRoom, allocated' = Fresh, deleted' = deleted
  PROVE  Live' = Live \cup {Fresh} /\ Fresh \in NodeIds \ Live
<1>1. /\ Fresh \in NodeIds /\ Fresh \notin 1 .. allocated
      /\ 1 .. Fresh = (1 .. allocated) \cup {Fresh}
  BY RoomIsFresh
<1>2. Fresh \notin deleted
  BY <1>1 DEF HoldersOK
<1> QED
  BY <1>1, <1>2 DEF Live

LEMMA QuietKeeps ==
  ASSUME OwnershipInv, Quiet, sent' = sent \/ Len(builders) = 1
  PROVE  GraphInv' /\ HeldOnce' /\ ConsumersNest' /\ SentAlone'
<1>1. Live' = Live /\ Roots' = Roots /\ \A n \in Live : SameLinks(n)
  BY HeldBy DEF Quiet, Live, Roots, Building, OwnershipInv
<1>2. GraphInv'
  BY <1>1, GraphStays DEF OwnershipInv
<1>3. HeldOnce' /\ ConsumersNest' /\ SentAlone'
  BY DEF Quiet, OwnershipInv, HeldOnce, ConsumersNest, SentAlone, Building
<1> QED
  BY <1>2, <1>3

(* The consumers that are left when the innermost has ended. *)
LEMMA ConsumerEnds ==
  ASSUME OwnershipInv, builders # <<>>, builders' = Front(builders), loose' = loose
  PROVE  /\ Building' = Building \ {Top.node} /\ Roots' = Roots \ {Top.node}
         /\ HeldOnce' /\ ConsumersNest' /\ (sent' = sent => SentAlone')
<1> DEFINE k == Len(builders)
<1>1. /\ k \in Nat \ {0} /\ DOMAIN builders = 1 .. k /\ DOMAIN builders' = 1 .. k - 1
      /\ Len(builders') = k - 1 /\ \A i \in 1 .. k - 1 : builders'[i] = builders[i]
      /\ Top = builders[k]
  BY FrontOf DEF OwnershipInv, Shape, Top
<1>2. \A i \in 1 .. k : i \in 1 .. k - 1 \/ i = k
  <2> HIDE DEF k
  <2> QED
    BY <1>1
<1>3. \A i \in 1 .. k - 1 : i \in 1 .. k /\ builders[i].node # Top.node
  BY <1>1 DEF OwnershipInv, HeldOnce
<1>4. Building' = Building \ {Top.node}
  <2>1. ASSUME NEW n \in Building' PROVE n \in Building \ {Top.node}
    <3>1. PICK i \in 1 .. k - 1 : n = builders'[i].node
      BY <2>1, <1>1 DEF Building
    <3> QED
      BY <3>1, <1>1, <1>3 DEF Building
  <2>2. ASSUME NEW n \in Building \ {Top.node} PROVE n \in Building'
    <3>1. PICK i \in 1 .. k : n = builders[i].node
      BY <2>2, <1>1 DEF Building
    <3>2. i \in 1 .. k - 1
      BY <2>2, <3>1, <1>1, <1>2
    <3> QED
      BY <3>1, <3>2, <1>1 DEF Building
  <2> QED
    BY <2>1, <2>2
<1>5. Top.node \in Building /\ Top.node \notin loose
  BY <1>1 DEF Building, OwnershipInv, HeldOnce
<1>6. Roots' = Roots \ {Top.node}
  BY <1>4, <1>5 DEF Roots
<1>7. HeldOnce'
  <2>1. ASSUME NEW i \in DOMAIN builders', NEW j \in DOMAIN builders',
               builders'[i].node = builders'[j].node
        PROVE  i = j
    BY <2>1, <1>1, <1>3 DEF OwnershipInv, HeldOnce
  <2>2. Building' \cap loose' = {}
    BY <1>4 DEF OwnershipInv, HeldOnce
  <2> QED
    BY <2>1, <2>2 DEF HeldOnce
<1>8. ConsumersNest'
  <2> SUFFICES ASSUME NEW i \in 1 .. k - 1, i > 1, builders[i].into \notin loose
               PROVE  \E j \in 1 .. i - 1 : builders'[i].into = builders'[j].node
    BY <1>1 DEF ConsumersNest
  <2>1. PICK j \in 1 .. i - 1 : builders[i].into = builders[j].node
    BY <1>1, <1>3 DEF OwnershipInv, ConsumersNest
  <2>2. j \in 1 .. k - 1
    BY <1>1
  <2> QED
    BY <2>1, <2>2, <1>1
<1>9. sent' = sent => SentAlone'
  BY <1>1 DEF OwnershipInv, SentAlone
<1> QED
  BY <1>4, <1>6, <1>7, <1>8, <1>9

LEMMA ConsumerBeginsKeeps ==
  ASSUME OwnershipInv, NEW p \in Building \cup loose \cup {None}, ConsumerBegins(p),
         builders = <<>> \/ (p # None /\ sent = None)
  PROVE  GraphInv' /\ HeldOnce' /\ ConsumersNest' /\ SentAlone'
<1> DEFINE k == Len(builders)
<1>1. /\ Live \subseteq 1 .. allocated /\ Live \subseteq NodeIds /\ None \notin NodeIds
      /\ 1 .. allocated \subseteq NodeIds /\ Building \cup loose \subseteq 1 .. allocated
      /\ NodesOK /\ HoldersOK
  BY HeldBy, SomethingHolds DEF OwnershipInv
<1>2. /\ Live' = Live \cup {Fresh} /\ Fresh \in NodeIds \ Live /\ Fresh \notin 1 .. allocated
  BY <1>1, LiveGrows, RoomIsFresh DEF ConsumerBegins, IsMade
<1>3. /\ k \in Nat /\ DOMAIN builders = 1 .. k /\ DOMAIN builders' = 1 .. k + 1
      /\ \A i \in 1 .. k : builders'[i] = builders[i]
      /\ builders'[k + 1].node = Fresh /\ builders'[k + 1].into = p
      /\ Len(builders') = k + 1 /\ (builders = <<>> => k = 0)
  <2> DEFINE new == [node |-> Fresh, into |-> p]
             Consumer == [node : NodeIds, into : NodeIds \cup {None}]
  <2>1. new \in Consumer /\ new.node = Fresh /\ new.into = p
    BY <1>1, <1>2
  <2>2. builders \in Seq(Consumer) /\ builders' = Append(builders, new)
    BY DEF ConsumerBegins, OwnershipInv, Shape
  <2> HIDE DEF new, Consumer
  <2> QED
    BY <2>1, <2>2
<1>4. \A i \in 1 .. k + 1 : i \in 1 .. k \/ i = k + 1
  BY <1>3
<1>5. Building' = Building \cup {Fresh} /\ Roots' = Roots \cup {Fresh}
  <2>1. ASSUME NEW n \in Building' PROVE n \in Building \cup {Fresh}
    <3>1. PICK i \in 1 .. k + 1 : n = builders'[i].node
      BY <2>1, <1>3 DEF Building
    <3> QED
      BY <3>1, <1>3, <1>4 DEF Building
  <2>2. ASSUME NEW n \in Building PROVE n \in Building'
    <3>1. PICK i \in 1 .. k : n = builders[i].node
      BY <2>2, <1>3 DEF Building
    <3>2. i \in 1 .. k + 1
      BY <1>3
    <3> QED
      BY <3>1, <3>2, <1>3 DEF Building
  <2>3. Fresh \in Building'
    <3>1. k + 1 \in 1 .. k + 1
      BY <1>3
    <3> QED
      BY <3>1, <1>3 DEF Building
  <2>4. loose' = loose
    BY DEF ConsumerBegins
  <2> QED
    BY <2>1, <2>2, <2>3, <2>4 DEF Roots
<1>6. GraphInv'
  <2>1. \A n \in Live : SameLinks(n)
    BY <1>1 DEF ConsumerBegins, IsMade
  <2>2. nodes'[Fresh].parent = None /\ nodes'[Fresh].children = <<>>
    BY DEF ConsumerBegins, IsMade
  <2> QED
    BY <1>1, <1>2, <1>5, <2>1, <2>2, RootIsMade DEF OwnershipInv
<1>7. HeldOnce'
  <2>1. \A i \in 1 .. k : builders[i].node \in Building /\ builders[i].node # Fresh
    BY <1>1, <1>2, <1>3 DEF Building
  <2>2. ASSUME NEW i \in 1 .. k + 1, NEW j \in 1 .. k + 1, builders'[i].node = builders'[j].node
        PROVE  i = j
    <3>1. CASE i \in 1 .. k /\ j \in 1 .. k
      BY <2>2, <3>1, <1>3 DEF OwnershipInv, HeldOnce
    <3> QED
      BY <2>1, <2>2, <3>1, <1>3, <1>4
  <2>3. Building' \cap loose' = {}
    BY <1>1, <1>2, <1>5 DEF ConsumerBegins, OwnershipInv, HeldOnce
  <2> QED
    BY <2>2, <2>3, <1>3 DEF HeldOnce
<1>8. ConsumersNest'
  <2> SUFFICES ASSUME NEW i \in 1 .. k + 1, i > 1, builders'[i].into \notin loose
               PROVE  \E j \in 1 .. i - 1 : builders'[i].into = builders'[j].node
    BY <1>3 DEF ConsumersNest, ConsumerBegins
  <2>1. CASE i \in 1 .. k
    <3>1. PICK j \in 1 .. i - 1 : builders[i].into = builders[j].node
      BY <2>1, <1>3 DEF OwnershipInv, ConsumersNest
    <3>2. j \in 1 .. k
      BY <2>1, <1>3
    <3> QED
      BY <3>1, <3>2, <2>1, <1>3
  <2>2. CASE i = k + 1
    <3>1. builders # <<>> /\ p # None
      BY <2>2, <1>3
    <3>2. PICK j \in 1 .. k : p = builders[j].node
      BY <3>1, <2>2, <1>3 DEF Building
    <3> QED
      BY <3>2, <2>2, <1>3
  <2> QED
    BY <2>1, <2>2, <1>4
<1>9. SentAlone'
  BY <1>3 DEF ConsumerBegins, SentAlone
<1> QED
  BY <1>6, <1>7, <1>8, <1>9

LEMMA RootMadeKeeps ==
  ASSUME OwnershipInv, IsMade, loose' = loose \cup {Fresh}, UNCHANGED <<builders, deleted, sent>>
  PROVE  GraphInv' /\ HeldOnce' /\ ConsumersNest' /\ SentAlone'
<1>1. /\ Live \subseteq 1 .. allocated /\ Live \subseteq NodeIds /\ None \notin NodeIds
      /\ Building \cup loose \subseteq 1 .. allocated /\ NodesOK /\ HoldersOK
  BY HeldBy, SomethingHolds DEF OwnershipInv
<1>2. /\ Live' = Live \cup {Fresh} /\ Fresh \in NodeIds \ Live /\ Fresh \notin 1 .. allocated
  BY <1>1, LiveGrows, RoomIsFresh DEF IsMade
<1>3. Building' = Building /\ Roots' = Roots \cup {Fresh}
  BY DEF Building, Roots
<1>4. GraphInv'
  <2>1. \A n \in Live : SameLinks(n)
    BY <1>1 DEF IsMade
  <2>2. nodes'[Fresh].parent = None /\ nodes'[Fresh].children = <<>>
    BY DEF IsMade
  <2> QED
    BY <1>1, <1>2, <1>3, <2>1, <2>2, RootIsMade DEF OwnershipInv
<1>5. HeldOnce'
  BY <1>1, <1>2, <1>3 DEF OwnershipInv, HeldOnce
<1>6. ConsumersNest' /\ SentAlone'
  BY DEF OwnershipInv, ConsumersNest, SentAlone
<1> QED
  BY <1>4, <1>5, <1>6

LEMMA BirthKeeps ==
  ASSUME OwnershipInv, NEW p \in Building \cup loose, IsBorn(p)
  PROVE  GraphInv' /\ HeldOnce' /\ ConsumersNest' /\ SentAlone'
<1>1. /\ Live \subseteq 1 .. allocated /\ Live \subseteq NodeIds /\ None \notin NodeIds
      /\ nodes \in [NodeIds -> NodeRecords] /\ NodesOK /\ HoldersOK
  BY HeldBy DEF OwnershipInv
<1>2. Live' = Live \cup {Fresh} /\ Fresh \in NodeIds \ Live
  BY <1>1, LiveGrows DEF IsBorn
<1>3. Building' = Building /\ Roots' = Roots
  BY DEF Building, Roots, IsBorn
<1>4. p \in Live
  BY DEF OwnershipInv, GraphInv, RootsHeld, Roots
<1>5. nodes[p].children \in Seq(NodeIds)
  BY <1>1, <1>4 DEF NodeRecords
<1>6. GraphInv'
  <2>1. \A n \in Live \ {p} : SameLinks(n)
    BY <1>1 DEF IsBorn, SameLinks
  <2>2. /\ nodes'[p].parent = nodes[p].parent
        /\ nodes'[p].children = Append(nodes[p].children, Fresh)
        /\ nodes'[Fresh].parent = p /\ nodes'[Fresh].children = <<>>
    BY <1>1, <1>4 DEF IsBorn
  <2> QED
    BY <1>1, <1>2, <1>3, <1>4, <1>5, <2>1, <2>2, ChildIsMade DEF OwnershipInv
<1>7. HeldOnce' /\ ConsumersNest' /\ SentAlone'
  BY <1>3 DEF OwnershipInv, HeldOnce, ConsumersNest, SentAlone, IsBorn
<1> QED
  BY <1>6, <1>7

LEMMA AttachmentKeeps ==
  ASSUME OwnershipInv, NEW c \in Roots, NEW p \in Live, IsAttached(p, c),
         deleted' = deleted, Roots' = Roots \ {c}
  PROVE  GraphInv'
<1>1. /\ Live \subseteq NodeIds /\ None \notin NodeIds /\ nodes \in [NodeIds -> NodeRecords]
  BY HeldBy DEF OwnershipInv
<1>2. Live' = Live
  BY DEF IsAttached, Live
<1>3. c \in NodeIds /\ c \in Tree(c)
  BY <1>1, TreeIsClosed DEF OwnershipInv, GraphInv, RootsHeld
<1>4. /\ \A n \in Live \ {c} : nodes'[n].parent = nodes[n].parent
      /\ \A n \in Live \ {p} : nodes'[n].children = nodes[n].children
      /\ nodes'[p].children = Append(nodes[p].children, c) /\ nodes'[c].parent = p
  BY <1>1, <1>3 DEF IsAttached
<1> QED
  BY <1>1, <1>2, <1>4, RootIsAttached DEF OwnershipInv

LEMMA DeletionKeeps ==
  ASSUME OwnershipInv, NEW r \in Roots, nodes' = nodes, allocated' = allocated,
         deleted' = deleted \cup Tree(r), Roots' = Roots \ {r}
  PROVE  GraphInv'
<1>1. /\ Live \subseteq NodeIds /\ None \notin NodeIds /\ nodes \in [NodeIds -> NodeRecords]
  BY HeldBy DEF OwnershipInv
<1>2. Live' = Live \ Tree(r)
  BY DEF Live
<1> QED
  BY <1>1, <1>2, RootIsDeleted DEF OwnershipInv

(* The node of the innermost consumer goes to another root: of a consumer     *)
(* around it or of the caller.                                               *)
LEMMA CloseTagKeeps ==
  ASSUME OwnershipInv, Len(builders) > 1, IsAttached(Top.into, Top.node),
         builders' = Front(builders), UNCHANGED <<loose, deleted, sent>>
  PROVE  GraphInv' /\ HeldOnce' /\ ConsumersNest' /\ SentAlone'
<1>1. builders # <<>> /\ NodesOK /\ HoldersOK
  BY HeldBy DEF OwnershipInv
<1>2. /\ Building' = Building \ {Top.node} /\ Roots' = Roots \ {Top.node}
      /\ HeldOnce' /\ ConsumersNest' /\ SentAlone'
  BY <1>1, ConsumerEnds
<1>3. /\ Len(builders) \in DOMAIN builders /\ Top = builders[Len(builders)]
      /\ Top.node \in Building
  BY <1>1, TopHolds
<1>4. Top.into \in Roots /\ Top.node \in Roots
  <2>1. CASE Top.into \in loose
    BY <2>1, <1>3 DEF Roots
  <2>2. CASE Top.into \notin loose
    <3>1. PICK j \in 1 .. Len(builders) - 1 : Top.into = builders[j].node
      BY <1>3, <2>2 DEF OwnershipInv, ConsumersNest
    <3>2. j \in DOMAIN builders
      BY DEF OwnershipInv, Shape
    <3> QED
      BY <1>3, <3>1, <3>2 DEF Building, Roots
  <2> QED
    BY <2>1, <2>2
<1>5. Top.into \in Live
  BY <1>4 DEF OwnershipInv, GraphInv, RootsHeld
<1>6. GraphInv'
  BY <1>2, <1>4, <1>5, AttachmentKeeps
<1> QED
  BY <1>2, <1>6

LEMMA AppendPointerKeeps ==
  ASSUME OwnershipInv, NEW p \in Live, NEW c \in loose \ AtWork, IsAttached(p, c),
         loose' = loose \ {c}, UNCHANGED <<builders, deleted, sent>>
  PROVE  GraphInv' /\ HeldOnce' /\ ConsumersNest' /\ SentAlone'
<1>1. Building' = Building /\ c \notin Building
  BY DEF Building, OwnershipInv, HeldOnce
<1>2. c \in Roots /\ Roots' = Roots \ {c}
  BY <1>1 DEF Roots
<1>3. GraphInv'
  BY <1>2, AttachmentKeeps
<1>4. HeldOnce' /\ ConsumersNest' /\ SentAlone'
  BY <1>1 DEF OwnershipInv, HeldOnce, ConsumersNest, SentAlone, AtWork
<1> QED
  BY <1>3, <1>4

(* Nodes without children move: a root is made, or nothing is.              *)
LEMMA MoveKeeps ==
  ASSUME OwnershipInv, NEW from \in loose, NEW to \in loose \cup (NodeIds \cap {Fresh}),
         to # from, UNCHANGED <<builders, deleted, sent>>, loose' = loose \cup {to},
         allocated' = IF to = Fresh THEN Fresh ELSE allocated,
         nodes[from].children = <<>>, nodes[to].children = <<>>,
         \A n \in NodeIds \ {from, to} : nodes'[n] = nodes[n],
         nodes'[from].parent = nodes[from].parent, nodes'[from].children = <<>>,
         nodes'[to].parent = nodes[from].parent, nodes'[to].children = nodes[from].children
  PROVE  GraphInv' /\ HeldOnce' /\ ConsumersNest' /\ SentAlone'
<1>1. /\ Live \subseteq 1 .. allocated /\ Live \subseteq NodeIds
      /\ Building \cup loose \subseteq 1 .. allocated /\ 1 .. allocated \subseteq NodeIds
      /\ NodesOK /\ HoldersOK
  BY HeldBy, SomethingHolds DEF OwnershipInv
<1>2. \A n \in loose : nodes[n].parent = None
  BY DEF OwnershipInv, GraphInv, RootsHeld, Roots
<1>3. Fresh \notin 1 .. allocated
  BY <1>1 DEF HoldersOK, Fresh
<1>4. CASE to = Fresh
  <2>1. HasRoom
    BY <1>1, <1>4, NodesAssumption DEF HasRoom, Fresh, NodeIds, HoldersOK
  <2>2. ASSUME NEW n \in 1 .. allocated PROVE SameLinks(n)
    BY <1>1, <1>3, <1>4 DEF SameLinks
  <2>3. IsMade
    BY <1>2, <1>4, <2>1, <2>2 DEF IsMade
  <2> QED
    BY <1>4, <2>3, RootMadeKeeps
<1>5. CASE to # Fresh
  <2>1. to \in loose
    BY <1>5
  <2>2. ASSUME NEW n \in NodeIds PROVE SameLinks(n)
    BY <1>2, <2>1 DEF SameLinks
  <2>3. Quiet
    BY <1>5, <2>1, <2>2 DEF Quiet
  <2> QED
    BY <2>3, QuietKeeps
<1> QED
  BY <1>4, <1>5

(* A consumer's node goes with its tree, or send's root with its stack.      *)
LEMMA InnermostIsDeleted ==
  ASSUME OwnershipInv, builders # <<>>, nodes' = nodes, allocated' = allocated,
         deleted' = deleted \cup Tree(Top.node), loose' = loose, sent' = sent,
         builders' = Front(builders)
  PROVE  GraphInv' /\ HeldOnce' /\ ConsumersNest' /\ SentAlone'
<1>1. Roots' = Roots \ {Top.node} /\ HeldOnce' /\ ConsumersNest' /\ SentAlone'
  BY ConsumerEnds
<1>2. Top.node \in Roots
  BY HeldBy, TopHolds DEF OwnershipInv, Roots
<1>3. GraphInv'
  BY <1>1, <1>2, DeletionKeeps
<1> QED
  BY <1>1, <1>3

LEMMA OnlyOneEnds ==
  ASSUME OwnershipInv, Len(builders) <= 1, builders # <<>>
  PROVE  Front(builders) = <<>>
<1> DEFINE Consumer == [node : NodeIds, into : NodeIds \cup {None}]
<1>1. builders \in Seq(Consumer)
  BY DEF OwnershipInv, Shape
<1> HIDE DEF Consumer
<1>2. /\ Front(builders) \in Seq(Consumer) /\ Len(builders) \in Nat \ {0}
      /\ Len(Front(builders)) = Len(builders) - 1
  BY <1>1, FrontOf
<1> QED
  BY <1>2

LEMMA DiscardKeeps ==
  ASSUME OwnershipInv, Discard
  PROVE  GraphInv' /\ HeldOnce' /\ ConsumersNest' /\ SentAlone'
<1>1. PICK n \in loose \ AtWork : deleted' = deleted \cup Tree(n) /\ loose' = loose \ {n}
  BY DEF Discard
<1>2. UNCHANGED <<nodes, allocated, builders, sent>>
  BY DEF Discard
<1>3. Building' = Building /\ n \notin Building
  BY <1>2 DEF Building, OwnershipInv, HeldOnce
<1>4. n \in Roots /\ Roots' = Roots \ {n}
  BY <1>1, <1>3 DEF Roots
<1>5. GraphInv'
  BY <1>1, <1>2, <1>4, DeletionKeeps
<1>6. HeldOnce' /\ ConsumersNest' /\ SentAlone'
  BY <1>1, <1>2, <1>3 DEF OwnershipInv, HeldOnce, ConsumersNest, SentAlone, AtWork
<1> QED
  BY <1>5, <1>6

-----------------------------------------------------------------------------
(* Ownership.                                                                *)

LEMMA OwnershipStep == OwnershipInv /\ [Next]_vars => OwnershipInv'
<1> SUFFICES ASSUME OwnershipInv, [Next]_vars
             PROVE  OwnershipInv'
  OBVIOUS
<1> DEFINE Kept == GraphInv' /\ HeldOnce' /\ ConsumersNest' /\ SentAlone'
<1>1. NodesOK /\ HoldersOK
  BY HeldBy DEF OwnershipInv
<1>2. TypeOK' /\ Shape'
  <2>1. NodesOK' /\ HoldersOK'
    BY <1>1, TypeStep
  <2>2. (TypeOK /\ Shape <=> NodesOK /\ HoldersOK)'
    BY TypeInParts, PTL
  <2> QED
    BY <2>1, <2>2
<1> SUFFICES Kept
  BY <1>2 DEF OwnershipInv
<1>3. ASSUME Quiet, sent' = sent PROVE Kept
  BY <1>3, QuietKeeps
<1>4. CASE Start
  <2>1. sent' = sent /\ (Quiet \/ (builders = <<>> /\ ConsumerBegins(None)))
    BY <1>1, <1>4, StartStep
  <2> QED
    BY <1>3, <2>1, ConsumerBeginsKeeps
<1>5. CASE SetAttribute
  BY <1>1, <1>3, <1>5, SetAttributeStep
<1>6. CASE RemoveAttribute
  BY <1>1, <1>3, <1>6, RemoveAttributeStep
<1>7. CASE AppendNew
  <2>1. sent' = sent /\ (Quiet \/ (\E p \in Building \cup loose : IsBorn(p)))
    BY <1>1, <1>7, AppendNewStep
  <2> QED
    BY <1>3, <2>1, BirthKeeps
<1>8. CASE OpenTag
  <2>1. sent' = sent /\ (Quiet \/ (\E p \in Building \cup loose : ConsumerBegins(p) /\ sent = None))
    BY <1>1, <1>8, OpenTagStep
  <2>2. None \notin Building \cup loose
    BY <1>1, SomethingHolds, NodesAssumption
  <2> QED
    BY <1>3, <2>1, <2>2, ConsumerBeginsKeeps
<1>9. CASE CloseTag
  <2>1. /\ Len(builders) > 1 /\ builders' = Front(builders) /\ UNCHANGED <<allocated, loose, sent>>
        /\ \/ IsAttached(Top.into, Top.node) /\ deleted' = deleted
           \/ nodes' = nodes /\ deleted' = deleted \cup Tree(Top.node)
    BY <1>1, <1>9, CloseTagStep
  <2>2. builders # <<>>
    BY <1>9 DEF CloseTag, Working
  <2> QED
    BY <2>1, <2>2, CloseTagKeeps, InnermostIsDeleted
<1>10. CASE Unwind
  BY <1>10, InnermostIsDeleted DEF Unwind
<1>11. CASE ConsumerThrows
  BY <1>1, <1>3, <1>11, ThrowsStep DEF ConsumerThrows
<1>12. CASE ConsumerCatches
  BY <1>1, <1>3, <1>12, NothingHappens DEF ConsumerCatches
<1>13. CASE Make
  <2>1. /\ sent' = sent
        /\ \/ Quiet
           \/ IsMade /\ loose' = loose \cup {Fresh} /\ UNCHANGED <<builders, deleted>>
    BY <1>1, <1>13, MakeStep
  <2> QED
    BY <1>3, <2>1, RootMadeKeeps
<1>14. CASE ChangeText
  BY <1>1, <1>3, <1>14, ChangeTextStep
<1>15. CASE Move
  <2>1. /\ sent' = sent
        /\ \E from \in loose, to \in loose \cup (NodeIds \cap {Fresh}) :
             /\ to # from /\ UNCHANGED <<builders, deleted>> /\ loose' = loose \cup {to}
             /\ allocated' = IF to = Fresh THEN Fresh ELSE allocated
             /\ nodes[from].children = <<>> /\ nodes[to].children = <<>>
             /\ \A n \in NodeIds \ {from, to} : nodes'[n] = nodes[n]
             /\ nodes'[from].parent = nodes[from].parent /\ nodes'[from].children = <<>>
             /\ nodes'[to].parent = nodes[from].parent
             /\ nodes'[to].children = nodes[from].children
    BY <1>1, <1>15, MoveStep
  <2> QED
    BY <2>1, MoveKeeps
<1>16. CASE Discard
  BY <1>16, DiscardKeeps
<1>17. CASE AppendPointer
  <2>1. /\ sent' = sent
        /\ \/ Quiet
           \/ \E p \in Live, c \in Live :
                /\ c \in loose \ AtWork
                /\ IsAttached(p, c) /\ loose' = loose \ {c} /\ UNCHANGED <<builders, deleted>>
    BY <1>1, <1>17, AppendPointerStep
  <2> QED
    BY <1>3, <2>1, AppendPointerKeeps
<1>18. CASE Send
  <2>1. Len(builders) = 1 /\ builders # <<>>
    BY <1>18 DEF Send, Working
  <2>2. CASE CanSerialize(Top.node)
    <3>1. UNCHANGED <<nodes, allocated, builders, loose, deleted>>
      BY <1>18, <2>2 DEF Send
    <3> QED
      BY <2>1, <3>1, QuietKeeps DEF Quiet, SameLinks
  <2>3. CASE ~CanSerialize(Top.node)
    <3>1. builders' = Front(builders)
      BY <1>18, <2>1, <2>3, OnlyOneEnds DEF Send
    <3> QED
      BY <1>18, <2>1, <2>3, <3>1, InnermostIsDeleted DEF Send
  <2> QED
    BY <2>2, <2>3
<1>19. CASE Destroy
  <2>1. builders' = Front(builders)
    BY <1>19, OnlyOneEnds DEF Destroy, OwnershipInv, SentAlone
  <2> QED
    BY <1>19, <2>1, InnermostIsDeleted DEF Destroy
<1>20. CASE UNCHANGED vars
  BY <1>3, <1>20 DEF vars, Quiet, SameLinks
<1> QED
  BY <1>4, <1>5, <1>6, <1>7, <1>8, <1>9, <1>10, <1>11, <1>12, <1>13, <1>14, <1>15, <1>16,
     <1>17, <1>18, <1>19, <1>20 DEF Next

LEMMA OwnershipInit == Init => OwnershipInv
<1> SUFFICES ASSUME Init PROVE OwnershipInv
  OBVIOUS
<1>1. TypeOK /\ Shape
  BY TypeInit, TypeInParts
<1>2. Live = {} /\ DOMAIN builders = {} /\ Building = {} /\ loose = {} /\ sent = None
  BY DEF Init, Live, Building
<1>3. GraphInv
  BY <1>2 DEF GraphInv, RootsHeld, ParentsKnow, ChildrenKnow, Roots
<1>4. HeldOnce /\ ConsumersNest /\ SentAlone
  BY <1>2 DEF HeldOnce, ConsumersNest, SentAlone
<1> QED
  BY <1>1, <1>3, <1>4 DEF OwnershipInv

(* The inductive invariant: the nodes that are held are the roots, parents    *)
(* and children know each other, and a node has one place.                   *)
THEOREM OwnershipCorrect == Spec => []OwnershipInv
<1>1. OwnershipInv /\ [Next]_vars => OwnershipInv'
  BY OwnershipStep
<1>2. Init => OwnershipInv
  BY OwnershipInit
<1> QED
  BY <1>1, <1>2, PTL DEF Spec

(* Whatever throws and is caught, every node that lives is held once and none *)
(* that is deleted is (NodeContainer.hpp:29-77, TagNode.hpp:92-102).          *)
THEOREM EveryNodeIsOwnedOnce == Spec => []OwnedOnce
<1>1. OwnershipInv => OwnedOnce
  BY HeldMeansOwned DEF OwnershipInv
<1> QED
  BY <1>1, OwnershipCorrect, PTL

(* getParent() tells who owns a node, and it lives (INode.hpp:47-58,          *)
(* NodeContainer.hpp:41-57).                                                 *)
THEOREM ParentsTellTheOwner == Spec => []ParentsTell
<1>1. OwnershipInv => ParentsTell
  BY GraphTells DEF OwnershipInv
<1> QED
  BY <1>1, OwnershipCorrect, PTL
=============================================================================
