------------------------------- MODULE XmlNodes -------------------------------
(***************************************************************************)
(* The nodes of include/xtrpg/xml/node: who owns which node while a caller   *)
(* such as ClientSession::send builds a tree, with nested consumers and with *)
(* pointers, whatever throws on the way, and what is written of the tree.    *)
(*                                                                          *)
(* The callers keep to what the nodes cannot check: they append by pointer    *)
(* only what they own, or what is refused; they keep what an append with a   *)
(* consumer is at work in; and they move only nodes without children (see    *)
(* the README).  They do append nodes below themselves, which append, asking *)
(* for the parents of the node and not for its children, does not refuse.    *)
(***************************************************************************)
EXTENDS XmlGrammar, FiniteSets

CONSTANTS
  MaxNodes,       \* bound on the nodes of a behaviour ...
  MaxAttributes,  \* ... and on their attributes ...
  MaxContent,     \* ... and on what is appended to a text
  NameStarts,  \* the letters that a name may start with
  TagNames, Keys,  \* what callers use as names of tags and of attributes, ...
  Contents,        \* ... as texts and as values of attributes, also what is refused
  None

VARIABLES
  nodes,      \* what each node holds
  allocated,  \* nodes 1 .. allocated have been made
  builders,   \* the consumers at work, outermost first: a node, and where it will be appended
  loose,      \* the nodes that the caller has made and not yet appended
  deleted,
  thrown,     \* an exception is on its way through the consumers
  sent        \* what send has handed to the connection

vars == <<nodes, allocated, builders, loose, deleted, thrown, sent>>

NodeIds == 1 .. MaxNodes

ASSUME NodesAssumption == MaxNodes \in Nat \ {0} /\ None \notin NodeIds
ASSUME ContentsAssumption == Contents \subseteq Seq(STRING)

Containers == {"TAG", "CONTAINER"}
Node(kind, name, content) ==
  [kind |-> kind, name |-> name, content |-> content, attributes |-> {},
   parent |-> None, children |-> <<>>]
NoNode == Node("none", <<>>, <<>>)

Live == (1 .. allocated) \ deleted
LiveContainers == {n \in Live : nodes[n].kind \in Containers}
Building == {builders[i].node : i \in DOMAIN builders}
AtWork == {builders[i].into : i \in DOMAIN builders}
Top == builders[Len(builders)]

(* What getParent() leads to, step by step, and what a destructor deletes:    *)
(* the least sets that hold the first step and every further one.            *)
Parents(some) == {nodes[n].parent : n \in some} \ {None}
Children(some) == UNION {ToSet(nodes[n].children) : n \in some}
Ancestors(n) ==
  {a \in NodeIds : \A s \in SUBSET NodeIds : Parents({n} \cup s) \subseteq s => a \in s}
Tree(n) ==
  {m \in NodeIds : \A s \in SUBSET NodeIds : {n} \cup Children(s) \subseteq s => m \in s}

Init ==
  /\ nodes = [n \in NodeIds |-> NoNode] /\ allocated = 0
  /\ builders = <<>> /\ loose = {} /\ deleted = {} /\ thrown = FALSE /\ sent = None

-----------------------------------------------------------------------------
(* What the constructors and setters refuse.                                *)

ControlCharacters == {"bell"}
IsValidXmlName(name) ==
  /\ name # <<>> /\ name[1] \in NameStarts
  /\ \A i \in DOMAIN name : name[i] \in NameCharacters
IsValidXmlCharacterData(s) == \A i \in DOMAIN s : s[i] \notin ControlCharacters

XmlName == <<"xml">>
IsValidEncodingName(s) ==
  s # <<>> /\ s[1] \in NameStarts /\ \A i \in DOMAIN s : s[i] \in NameCharacters
DeclarationAccepts(key, value) ==
  \/ key = <<"version">> /\ value \in {<<"1.0">>, <<"1.1">>}
  \/ key = <<"encoding">> /\ IsValidEncodingName(value)
  \/ key = <<"standalone">> /\ value \in {<<"yes">>, <<"no">>}
Accepts(n, key, value) ==
  /\ nodes[n].kind = "DECLARATION" => DeclarationAccepts(key, value)
  /\ IsValidXmlName(key) /\ IsValidXmlCharacterData(value)

(* May this node be made? *)
CanMake(node) ==
  CASE node.kind = "TAG" -> IsValidXmlName(node.name)
    [] node.kind = "DECLARATION" -> node.name = XmlName
    [] node.kind = "TEXT_CONTENT" -> IsValidXmlCharacterData(node.content)
    [] OTHER -> TRUE

-----------------------------------------------------------------------------
(* The operations, by consumers and by the code around them.                *)

Working == ~thrown /\ builders # <<>> /\ sent = None
Throws == thrown' = TRUE /\ UNCHANGED <<nodes, allocated, builders, loose, deleted, sent>>

Fresh == allocated + 1
HasRoom == allocated < MaxNodes
Attached_NoParent(p, c) == [nodes EXCEPT ![p].children = Append(@, c)]   \* mutant
Attached(p, c) ==
  [nodes EXCEPT ![p].children = Append(@, c), ![c].parent = p]

(* ClientSession::send makes the root on its stack. *)
Start ==
  /\ builders = <<>> /\ allocated = 0 /\ ~thrown
  /\ \E name \in TagNames :
       IF ~IsValidXmlName(name) THEN Throws
       ELSE /\ nodes' = [nodes EXCEPT ![1] = Node("TAG", name, <<>>)]
            /\ allocated' = 1
            /\ builders' = <<[node |-> 1, into |-> None]>>
            /\ UNCHANGED <<loose, deleted, thrown, sent>>

SetAttribute ==
  /\ Working
  /\ \E n \in Building \cup loose, key \in Keys, value \in Contents :
       /\ nodes[n].kind \in {"TAG", "DECLARATION"}
       /\ IF ~Accepts(n, key, value) THEN Throws
          ELSE /\ nodes' = [nodes EXCEPT ![n].attributes =
                              {a \in @ : a[1] # key} \cup {<<key, value>>}]
               /\ Cardinality(UNION {{m} \X nodes'[m].attributes : m \in NodeIds}) <= MaxAttributes
               /\ UNCHANGED <<allocated, builders, loose, deleted, thrown, sent>>

RemoveAttribute ==
  /\ Working
  /\ \E n \in Building \cup loose, key \in Keys :
       nodes' = [nodes EXCEPT ![n].attributes = {a \in @ : a[1] # key}]
  /\ UNCHANGED <<allocated, builders, loose, deleted, thrown, sent>>

(* append(text), and append(tagname, nullptr): the new node has no parent, so *)
(* it is never refused.                                                      *)
TagNodes == {Node("TAG", name, <<>>) : name \in TagNames}
TextNodes == {Node("TEXT_CONTENT", <<>>, content) : content \in Contents}
AppendNew_Unchecked ==                                             \* mutant
  /\ Working /\ HasRoom
  /\ \E p \in Building, node \in TextNodes :
       /\ nodes' = [nodes EXCEPT ![Fresh] = [node EXCEPT !.parent = p],
                                ![p].children = Append(@, Fresh)]
       /\ allocated' = Fresh
       /\ UNCHANGED <<builders, loose, deleted, thrown, sent>>
AppendNew ==
  /\ Working /\ HasRoom
  /\ \E p \in Building \cup loose, node \in TagNodes \cup TextNodes :
       /\ nodes[p].kind = "TAG" \/ (nodes[p].kind = "CONTAINER" /\ node \in TextNodes)
       /\ IF ~CanMake(node) THEN Throws
          ELSE /\ nodes' = [nodes EXCEPT ![Fresh] = [node EXCEPT !.parent = p],
                                         ![p].children = Append(@, Fresh)]
               /\ allocated' = Fresh
               /\ UNCHANGED <<builders, loose, deleted, thrown, sent>>

(* append(tagname, consumer) makes the tag and calls the consumer ...        *)
OpenTag ==
  /\ Working /\ HasRoom
  /\ \E p \in Building \cup loose, name \in TagNames :
       /\ nodes[p].kind = "TAG"
       /\ IF ~IsValidXmlName(name) THEN Throws
          ELSE /\ nodes' = [nodes EXCEPT ![Fresh] = Node("TAG", name, <<>>)]
               /\ allocated' = Fresh
               /\ builders' = Append(builders, [node |-> Fresh, into |-> p])
               /\ UNCHANGED <<loose, deleted, thrown, sent>>

(* ... and appends the tag when the consumer returns, or deletes it if it is  *)
(* refused, ...                                                              *)
Refuses_Parent(p, c) == p \in Ancestors(c) \ {nodes[c].parent}     \* mutant
Refuses(p, c) == p \in Ancestors(c)
CloseTag ==
  /\ Working /\ Len(builders) > 1
  /\ IF Refuses(Top.into, Top.node)
     THEN thrown' = TRUE /\ deleted' = deleted \cup Tree(Top.node) /\ UNCHANGED nodes
     ELSE nodes' = Attached(Top.into, Top.node) /\ UNCHANGED <<deleted, thrown>>
  /\ builders' = Front(builders)
  /\ UNCHANGED <<allocated, loose, sent>>

(* ... or deletes it and throws on.  The outermost consumer's node is the     *)
(* root of send, which goes with its stack.                                  *)
Unwind_Forgets ==                                                  \* mutant
  /\ thrown /\ builders # <<>>
  /\ builders' = Front(builders)
  /\ UNCHANGED <<nodes, allocated, loose, deleted, thrown, sent>>
Unwind ==
  /\ thrown /\ builders # <<>>
  /\ deleted' = deleted \cup Tree(Top.node)
  /\ builders' = Front(builders)
  /\ UNCHANGED <<nodes, allocated, loose, thrown, sent>>

(* A consumer may throw by itself, and may catch what reaches it. *)
ConsumerThrows == Working /\ Throws
ConsumerCatches ==
  /\ thrown /\ builders # <<>>
  /\ thrown' = FALSE
  /\ UNCHANGED <<nodes, allocated, builders, loose, deleted, sent>>

(* new: a node of the caller's own. *)
BlankNodes == {Node(kind, <<>>, <<>>) : kind \in {"CONTAINER", "TEXT_CONTENT"}}
DeclarationNodes == {Node("DECLARATION", name, <<>>) : name \in TagNames}
Make ==
  /\ Working /\ HasRoom
  /\ \E node \in TagNodes \cup DeclarationNodes \cup BlankNodes :
       IF ~CanMake(node) THEN Throws
       ELSE /\ nodes' = [nodes EXCEPT ![Fresh] = node]
            /\ allocated' = Fresh
            /\ loose' = loose \cup {Fresh}
            /\ UNCHANGED <<builders, deleted, thrown, sent>>

(* setContent and append of a text node, which check what they are given. *)
ChangeText ==
  /\ Working
  /\ \E n \in loose, content \in Contents :
       /\ nodes[n].kind = "TEXT_CONTENT"
       /\ IF ~IsValidXmlCharacterData(content) THEN Throws
          ELSE /\ \E new \in {content, nodes[n].content \o content} :
                    Len(new) <= MaxContent /\ nodes' = [nodes EXCEPT ![n].content = new]
               /\ UNCHANGED <<allocated, builders, loose, deleted, thrown, sent>>

(* A move, to a new node or to one of the same kind, takes the children and   *)
(* the text and copies the rest; a text can be copied too.  It does not tell *)
(* the children their new parent nor delete those that it replaces, so a     *)
(* caller may not move from or to what has any (see the README).             *)
Move ==
  /\ Working
  /\ \E from \in loose, to \in loose \cup (NodeIds \cap {Fresh}), copies \in BOOLEAN :
       /\ to # from /\ nodes[to].kind \in {"none", nodes[from].kind}
       /\ copies => nodes[from].kind = "TEXT_CONTENT"
       /\ nodes[from].children = <<>> /\ nodes[to].children = <<>>
       /\ nodes' = [nodes EXCEPT ![to] = nodes[from], ![from].children = <<>>,
                                 ![from].content = IF copies THEN @ ELSE <<>>]
       /\ allocated' = IF to = Fresh THEN Fresh ELSE allocated
       /\ loose' = loose \cup {to}
       /\ UNCHANGED <<builders, deleted, thrown, sent>>

Discard ==
  /\ ~thrown
  /\ \E n \in loose \ AtWork :
       /\ deleted' = deleted \cup Tree(n)
       /\ loose' = loose \ {n}
  /\ UNCHANGED <<nodes, allocated, builders, thrown, sent>>

(* append of a pointer and operator<<: refused when the container is above the *)
(* node already, so also when it is its parent, and never when it is below.  *)
AppendPointer ==
  /\ Working
  /\ \E p \in LiveContainers, c \in Live :
       /\ c \in loose \ AtWork \/ p \in Ancestors(c)
       /\ IF Refuses(p, c) THEN Throws
          ELSE /\ nodes' = Attached(p, c)
               /\ loose' = loose \ {c}
               /\ UNCHANGED <<allocated, builders, deleted, thrown, sent>>

-----------------------------------------------------------------------------
(* serialize                                                                *)

EscapeText(c) ==
  CASE c = "<" -> "&lt;" [] c = ">" -> "&gt;" [] c = "&" -> "&amp;" [] OTHER -> c
EscapeValue_NotTab(c) ==                                           \* mutant
  CASE c = "quot" -> "&quot;" [] c = "&" -> "&amp;" [] c = "<" -> "&lt;" [] OTHER -> c
EscapeValue(c) ==
  CASE c = "quot" -> "&quot;" [] c = "&" -> "&amp;" [] c = "<" -> "&lt;"
    [] c = "tab" -> "&#x9;" [] OTHER -> c
Mapped(s, Op(_)) == [i \in DOMAIN s |-> Op(s[i])]

AttributeText(a) ==
  <<" ">> \o a[1] \o <<"=", "quot">> \o Mapped(a[2], EscapeValue) \o <<"quot">>
AttributesText(attributes) == FlattenSeq(Mapped(SetToSeq(attributes), AttributeText))

(* The text of a node, or None where serialize throws: a declaration needs a  *)
(* version.                                                                  *)
Versions(n) == {a \in nodes[n].attributes : a[1] = <<"version">>}
CanSerialize(n) ==
  \A m \in Tree(n) : nodes[m].kind = "DECLARATION" => Versions(m) # {}
DeclarationText(n) ==
  <<"<", "?">> \o nodes[n].name \o AttributesText(Versions(n))
    \o AttributesText(nodes[n].attributes \ Versions(n)) \o <<"?", ">">>
Serialized(root) ==
  LET text[n \in Tree(root)] ==
        LET name == nodes[n].name
            inner == FlattenSeq([i \in DOMAIN nodes[n].children |-> text[nodes[n].children[i]]])
        IN  CASE nodes[n].kind = "TEXT_CONTENT" -> Mapped(nodes[n].content, EscapeText)
              [] nodes[n].kind = "DECLARATION" -> DeclarationText(n)
              [] nodes[n].kind = "CONTAINER" -> inner
              [] OTHER -> <<"<">> \o name \o AttributesText(nodes[n].attributes)
                            \o (IF nodes[n].children = <<>> THEN <<"/", ">">>
                                ELSE <<">">> \o inner \o <<"<", "/">> \o name \o <<">">>)
  IN  text[root]

(* send writes the root, or serialize throws and the root goes with its stack. *)
Send ==
  /\ Working /\ Len(builders) = 1
  /\ IF CanSerialize(Top.node)
     THEN /\ sent' = Serialized(Top.node)
          /\ UNCHANGED <<nodes, allocated, builders, loose, deleted, thrown>>
     ELSE /\ thrown' = TRUE
          /\ deleted' = deleted \cup Tree(Top.node) /\ builders' = <<>>
          /\ UNCHANGED <<nodes, allocated, loose, sent>>
Destroy ==
  /\ sent # None /\ builders # <<>>
  /\ deleted' = deleted \cup Tree(Top.node)
  /\ builders' = <<>>
  /\ UNCHANGED <<nodes, allocated, loose, thrown, sent>>

Next ==
  \/ Start \/ SetAttribute \/ RemoveAttribute \/ AppendNew \/ OpenTag \/ CloseTag \/ Unwind
  \/ ConsumerThrows \/ ConsumerCatches \/ Make \/ ChangeText \/ Move \/ Discard \/ AppendPointer \/ Send \/ Destroy

Spec == Init /\ [][Next]_vars

-----------------------------------------------------------------------------
Kinds == {"TAG", "CONTAINER", "TEXT_CONTENT", "DECLARATION"}
TypeOK ==
  /\ allocated \in 0 .. MaxNodes
  /\ \A n \in NodeIds : nodes[n].kind \in (IF n <= allocated THEN Kinds ELSE {"none"})
  /\ \A n \in 1 .. allocated :
       /\ nodes[n].parent \in NodeIds \cup {None}
       /\ \A i \in DOMAIN nodes[n].children : nodes[n].children[i] \in 1 .. allocated
       /\ CanMake(nodes[n])
       /\ \A a \in nodes[n].attributes : Accepts(n, a[1], a[2])
  /\ loose \subseteq 1 .. allocated /\ deleted \subseteq 1 .. allocated
  /\ \A i \in DOMAIN builders : nodes[builders[i].node].kind = "TAG"
  /\ thrown \in BOOLEAN

(* Every node that lives has one owner that will delete it: a consumer at     *)
(* work, the caller or one place among the children of a live node; what is  *)
(* deleted has none.  So nothing is deleted twice, and nothing leaks but what *)
(* is in a circle or hangs from one (see NoCycle), whatever throws or is      *)
(* caught (NodeContainer.hpp:29-77, TagNode.hpp:92-102).                     *)
Places(n) ==
  {<<"builder", i>> : i \in {i \in DOMAIN builders : builders[i].node = n}}
  \cup {<<"caller", m>> : m \in loose \cap {n}}
  \cup UNION {{<<p, i>> : i \in {i \in DOMAIN nodes[p].children : nodes[p].children[i] = n}} :
                p \in Live}
OwnedOnce ==
  \A n \in 1 .. allocated : Cardinality(Places(n)) = IF n \in deleted THEN 0 ELSE 1

(* getParent() tells who owns a node: a container that lives and has it among  *)
(* its children, or nobody if a consumer or the caller holds it; so a walk up *)
(* the parents meets nothing deleted (INode.hpp:47-58,                       *)
(* NodeContainer.hpp:41-57).                                                 *)
ParentsTell ==
  \A n \in Live :
    /\ nodes[n].parent # None => nodes[n].parent \in Live /\ n \in Children({nodes[n].parent})
    /\ nodes[n].parent = None => n \in Building \cup loose

(* append throws if appending would create a cycle (the comment of append,    *)
(* NodeContainer.hpp:36-40): so no node is above itself.                     *)
NoCycle == \A n \in Live : n \notin Ancestors(n)

(* What is written is read back, by the grammar of the streams, as the tree   *)
(* that was built: no text or value is taken for markup and none is lost. A   *)
(* reader replaces entities and takes a tab in a value for a space           *)
(* (TagNode.hpp:120-133, TextNode.hpp:83-100, IAttributes.hpp:92-114).       *)
Meaning ==
  [c \in {"&lt;", "&gt;", "&amp;", "&quot;", "&#x9;"} |->
     CASE c = "&lt;" -> "<" [] c = "&gt;" -> ">" [] c = "&amp;" -> "&" [] c = "&quot;" -> "quot"
       [] OTHER -> "tab"]
ReadText(c) == IF c \in DOMAIN Meaning THEN Meaning[c] ELSE c
ReadValue(c) == IF c = "tab" THEN " " ELSE ReadText(c)
ReadItem(item) ==
  [item EXCEPT !.content = Mapped(@, ReadText),
               !.attributes = {<<a[1], Mapped(a[2], ReadValue)>> : a \in @}]

ItemsOf(root) ==
  LET items[n \in Tree(root)] ==
        LET node == nodes[n]
            inner == FlattenSeq([i \in DOMAIN node.children |-> items[node.children[i]]])
        IN  CASE node.kind = "TEXT_CONTENT" -> TextItems(node.content)
              [] node.kind = "DECLARATION" -> <<Item("DECLARATION", node.name, node.attributes)>>
              [] node.kind = "CONTAINER" -> inner
              [] node.children = <<>> -> <<Item("EMPTY_TAG", node.name, node.attributes)>>
              [] OTHER -> <<Item("OPEN_TAG", node.name, node.attributes)>> \o inner
                            \o <<Item("CLOSE_TAG", node.name, NoAttributes)>>
  IN  items[root]
ReadsBack ==
  sent # None /\ builders # <<>> => Mapped(Items(sent), ReadItem) = ItemsOf(Top.node)
=============================================================================
