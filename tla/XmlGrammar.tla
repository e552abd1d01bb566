------------------------------ MODULE XmlGrammar ------------------------------
(***************************************************************************)
(* What the text of a stream stands for, said without a state machine: the   *)
(* markup that XmlStreamTokenizer accepts, as predicates on the stretch      *)
(* i .. j of a text w, and the items that the text up to now amounts to.     *)
(*                                                                          *)
(* A character is one of its class where the tokenizer tells classes apart;  *)
(* the five letters CDATA stand for one.                                     *)
(***************************************************************************)
EXTENDS Naturals, Sequences, SequencesExt

CONSTANTS
  Letters,    \* name characters, the dash and CDATA aside
  MaxBuffer   \* __TOKENIZER_MAX_BUFFER_SIZE_IN_CHARS

ASSUME MaxBufferAssumption == MaxBuffer \in Nat /\ MaxBuffer >= 2

NameCharacters == Letters \cup {"-", "CDATA"}
Spaces == {" "}
Quotes == {"apos", "quot"}
Delimiters == Spaces \cup Quotes \cup {"<", ">", "/", "?", "!", "=", "[", "]"}
Chars == NameCharacters \cup Delimiters

(* No character of a name is one that the tokenizer takes for something else. *)
ASSUME LettersAssumption == Letters \cap Delimiters = {}

TokenTypes ==
  {"OPEN_TAG", "CLOSE_TAG", "EMPTY_TAG", "DECLARATION", "TEXT_CONTENT", "COMMENT"}

CommentStart == <<"-", "-">>
CommentEnd == <<"-", "-", ">">>
CdataStart == <<"[", "CDATA", "[">>
CdataEnd == <<"]", "]", ">">>

-----------------------------------------------------------------------------
(* The parts of a tag.                                                      *)

IsIn(w, i, word) ==
  i + Len(word) - 1 <= Len(w) /\ SubSeq(w, i, i + Len(word) - 1) = word

IsName(w, i, j) ==
  /\ j \in i .. i + MaxBuffer - 1
  /\ \A k \in i .. j : w[k] \in NameCharacters

AreSpaces(w, i, j) == \A k \in i .. j : w[k] \in Spaces

(* An attribute's name is i .. n, its value q + 1 .. j - 1. *)
IsAttributeOf(w, i, n, q, j) ==
  /\ IsName(w, i, n)
  /\ \E e \in n + 1 .. q - 1 :
       AreSpaces(w, n + 1, e - 1) /\ w[e] = "=" /\ AreSpaces(w, e + 1, q - 1)
  /\ w[q] \in Quotes /\ w[j] = w[q]
  /\ \A k \in q + 1 .. j - 1 : w[k] # w[q]
  /\ j - q - 1 <= MaxBuffer

IsAttribute(w, i, j) ==
  /\ w[i] \in NameCharacters /\ w[j] \in Quotes
  /\ \E n \in i .. j : \E q \in n + 2 .. j - 1 : IsAttributeOf(w, i, n, q, j)

(* Attributes and spaces in any order; no space is needed after a value. *)
IsBody(w, i, j) ==
  LET body[k \in i .. j + 1] ==
        \/ k = j + 1
        \/ w[k] \in Spaces /\ body[k + 1]
        \/ \E l \in k .. j : IsAttribute(w, k, l) /\ body[l + 1]
  IN  body[i]

(* A name and, after a space, a body. *)
IsNameAndBody(w, i, n, j) ==
  /\ IsName(w, i, n)
  /\ n < j => w[n + 1] \in Spaces
  /\ IsBody(w, n + 1, j)

(* Names with their values; of two attributes with one name the later counts. *)
Attributes(w, i, j) ==
  LET quotes == {q \in i .. j : w[q] \in Quotes}
      found == {f \in (i .. j) \X (i .. j) \X quotes \X quotes :
                  /\ f[1] <= f[2] /\ f[2] < f[3] /\ f[3] < f[4]
                  /\ IsAttributeOf(w, f[1], f[2], f[3], f[4])
                  /\ IsBody(w, i, f[1] - 1) /\ IsBody(w, f[4] + 1, j)}
      name(f) == SubSeq(w, f[1], f[2])
  IN  {<<name(f), SubSeq(w, f[3] + 1, f[4] - 1)>> :
         f \in {f \in found : \A g \in found : name(g) = name(f) => g[1] <= f[1]}}

-----------------------------------------------------------------------------
(* Items: a tag, a declaration, a comment or one character of text.         *)

Item(type, content, attributes) ==
  [type |-> type, content |-> content, attributes |-> attributes]
NoAttributes == {}
TextItems(s) == [k \in 1 .. Len(s) |-> Item("TEXT_CONTENT", <<s[k]>>, NoAttributes)]

Tag(type, w, i, n, j) == Item(type, SubSeq(w, i, n), Attributes(w, n + 1, j))

OpenTags(w, i, j) ==
  {Tag("OPEN_TAG", w, i + 1, n, j - 1) :
     n \in {n \in i + 1 .. j - 1 : w[j] = ">" /\ IsNameAndBody(w, i + 1, n, j - 1)}}

EmptyTags(w, i, j) ==
  {Tag("EMPTY_TAG", w, i + 1, n, j - 2) :
     n \in {n \in i + 1 .. j - 2 : /\ w[j - 1] = "/" /\ w[j] = ">"
                                   /\ IsNameAndBody(w, i + 1, n, j - 2)}}

Declarations(w, i, j) ==
  {Tag("DECLARATION", w, i + 2, n, j - 2) :
     n \in {n \in i + 2 .. j - 2 : /\ w[i + 1] = "?" /\ w[j - 1] = "?" /\ w[j] = ">"
                                   /\ IsNameAndBody(w, i + 2, n, j - 2)}}

(* A close tag whose name is left out counts when a space stands for it. *)
CloseTags(w, i, j) ==
  {Item("CLOSE_TAG", SubSeq(w, i + 2, n), NoAttributes) :
     n \in {n \in i + 1 .. j - 1 : /\ w[i + 1] = "/" /\ w[j] = ">"
                                   /\ AreSpaces(w, n + 1, j - 1)
                                   /\ \/ IsName(w, i + 2, n)
                                      \/ n = i + 1 /\ n < j - 1}}

(* Starts with start, ends with its first end after that. *)
IsSection(w, i, j, start, end) ==
  LET from == i + 2 + Len(start)
  IN  /\ w[i + 1] = "!" /\ IsIn(w, i + 2, start)
      /\ j - Len(end) + 1 >= from /\ IsIn(w, j - Len(end) + 1, end)
      /\ \A k \in from .. j - Len(end) : ~IsIn(w, k, end)

(* All of a comment but the last character of its end must fit the buffer. *)
Comments(w, i, j) ==
  {Item("COMMENT", SubSeq(w, i + 4, j - 3), NoAttributes) :
     k \in {k \in {j} : IsSection(w, i, k, CommentStart, CommentEnd) /\ k - i - 4 <= MaxBuffer}}

(* The items of the markup i .. j, if it is one. *)
Markup(w, i, j) ==
  {<<item>> : item \in OpenTags(w, i, j) \cup EmptyTags(w, i, j) \cup Declarations(w, i, j)
                         \cup CloseTags(w, i, j) \cup Comments(w, i, j)}
  \cup {TextItems(SubSeq(w, i + 5, k - 3)) :
          k \in {k \in {j} : IsSection(w, i, k, CdataStart, CdataEnd)}}

(* What stands after the last complete markup: text that counts as it comes, *)
(* in a CDATA section too, or the beginning of a markup.                     *)
Unfinished(w, i) ==
  IF IsIn(w, i, <<"<", "!">> \o CdataStart)
  THEN TextItems(SubSeq(w, i + 5, Len(w))) ELSE <<>>

(* The items of a text read so far. *)
Items(w) ==
  LET items[i \in 1 .. Len(w) + 1] ==
        IF i > Len(w) THEN <<>>
        ELSE IF w[i] # "<" THEN TextItems(<<w[i]>>) \o items[i + 1]
        ELSE LET ends == {j \in i + 1 .. Len(w) : Markup(w, i, j) # {}}
             IN  IF ends = {} THEN Unfinished(w, i)
                 ELSE LET j == CHOOSE j \in ends : \A k \in ends : j <= k
                      IN  (CHOOSE m \in Markup(w, i, j) : TRUE) \o items[j + 1]
  IN  items[1]
=============================================================================
