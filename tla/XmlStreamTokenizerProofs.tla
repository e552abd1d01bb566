----------------------- MODULE XmlStreamTokenizerProofs -----------------------
(***************************************************************************)
(* The tokenizer's types and its bound, and that its tokens are what the     *)
(* grammar makes of the text, for every alphabet, every bound of at least    *)
(* two and every text.                                                       *)
(***************************************************************************)
EXTENDS XmlStreamTokenizer, XmlGrammarProofs

(* What FitsBuffer rests on.  The states that hand a full buffer on keep it  *)
(* below the bound, but for what Rest leaves of a CDATA section; the others   *)
(* fail on the character that is one too many.                               *)
Bounded ==
  /\ state = "TEXT" => Len(buffer) < MaxBuffer
  /\ Len(currentToken.content) <= MaxBuffer
  /\ FitsBuffer
Inv == TypeOK /\ Bounded

-----------------------------------------------------------------------------
(* What Append and SubSeq return.                                           *)
LEMMA Appended ==
  ASSUME NEW S, NEW s \in Seq(S), NEW e \in S
  PROVE  /\ Append(s, e) \in Seq(S)
         /\ Len(Append(s, e)) = Len(s) + 1
  OBVIOUS

LEMMA EmptySequence ==
  ASSUME NEW S
  PROVE  <<>> \in Seq(S) /\ Len(<<>>) = 0
  OBVIOUS

LEMMA Stretch ==
  ASSUME NEW S, NEW s \in Seq(S), NEW i \in 1 .. Len(s) + 1, NEW j \in i - 1 .. Len(s)
  PROVE  /\ SubSeq(s, i, j) \in Seq(S)
         /\ Len(SubSeq(s, i, j)) = j - i + 1
  OBVIOUS

(* A text that ends with a mark of three characters has three.              *)
LEMMA EndIsThree ==
  ASSUME NEW S, NEW s \in Seq(S), NEW end, Len(end) = 3, IsSuffix(end, s)
  PROVE  Len(s) >= 3
<1>1. Len(Reverse(end)) = 3 BY DEF Reverse
<1>2. Len(Reverse(s)) = Len(s)
  <2>1. Len(s) \in Nat OBVIOUS
  <2> QED BY <2>1 DEF Reverse
<1> QED BY <1>1, <1>2 DEF IsSuffix, IsPrefix

(* A token emitted leaves the tokens of their type and within the bound.    *)
LEMMA EmitFits ==
  ASSUME TypeOK, Bounded, NEW token \in Tokens, Len(token.content) <= MaxBuffer, Emit(token)
  PROVE  /\ emitted' \in Seq(Tokens)
         /\ \A k \in DOMAIN emitted' : Len(emitted'[k].content) <= MaxBuffer
<1>1. emitted \in Seq(Tokens) BY DEF TypeOK
<1>2. \A k \in DOMAIN emitted : Len(emitted[k].content) <= MaxBuffer BY DEF Bounded, FitsBuffer
<1>3. emitted' = Append(emitted, token) BY DEF Emit
<1> QED BY <1>1, <1>2, <1>3

LEMMA TextIsToken ==
  ASSUME NEW s \in Seq(Chars)
  PROVE  /\ Item("TEXT_CONTENT", s, NoAttributes) \in Tokens
         /\ Item("TEXT_CONTENT", s, NoAttributes).content = s
  BY DEF Item, Tokens, TokenTypes, NoAttributes

LEMMA EmitTextFits ==
  ASSUME TypeOK, Bounded, NEW s \in Seq(Chars), Len(s) <= MaxBuffer, EmitText(s)
  PROVE  /\ emitted' \in Seq(Tokens)
         /\ \A k \in DOMAIN emitted' : Len(emitted'[k].content) <= MaxBuffer
<1>1. CASE s = <<>>
  BY <1>1 DEF EmitText, TypeOK, Bounded, FitsBuffer
<1>2. CASE s # <<>>
  <2>1. Emit(Item("TEXT_CONTENT", s, NoAttributes)) BY <1>2 DEF EmitText, Emit
  <2> QED BY <2>1, TextIsToken, EmitFits
<1> QED BY <1>1, <1>2

-----------------------------------------------------------------------------
LEMMA InvInit == Init => Inv
<1> SUFFICES ASSUME Init PROVE Inv OBVIOUS
<1>1. Token("OPEN_TAG") \in Tokens /\ Token("OPEN_TAG").content = <<>>
  BY DEF Token, Item, Tokens, TokenTypes, NoAttributes
<1>2. TypeOK
  BY <1>1 DEF Init, TypeOK, States, TagStates, Quotes, Errors
<1>3. Bounded
  BY <1>1, MaxBufferAssumption DEF Init, Bounded, FitsBuffer
<1> QED BY <1>2, <1>3 DEF Inv

-----------------------------------------------------------------------------
(* What holds before a character is read, and what must hold after it.      *)
ReadOne(c) ==
  /\ Inv /\ error = "NONE" /\ c \in Chars
  /\ input' = Append(input, c) /\ opening' = opening

TypesAfter ==
  /\ state' \in States
  /\ attributeName' \in Seq(Chars) /\ specialPrefix' \in Seq(Chars)
  /\ quote' \in Quotes \cup {"none"}
  /\ currentToken' \in Tokens /\ Len(currentToken'.content) <= MaxBuffer
BufferAfter ==
  /\ buffer' \in Seq(Chars) /\ error' \in Errors
  /\ state' \notin Collecting => buffer' = <<>>
  /\ state' = "TEXT" => Len(buffer') < MaxBuffer
  /\ Len(buffer') <= IF error' = "BUFFER_SIZE_EXHAUSTED" THEN MaxBuffer + 1 ELSE MaxBuffer
EmittedAfter ==
  /\ emitted' \in Seq(Tokens)
  /\ \A k \in DOMAIN emitted' : Len(emitted'[k].content) <= MaxBuffer

LEMMA Before ==
  ASSUME NEW c, ReadOne(c)
  PROVE  /\ buffer \in Seq(Chars) /\ Len(buffer) \in Nat /\ Len(buffer) <= MaxBuffer
         /\ state = "TEXT" => Len(buffer) < MaxBuffer
         /\ state \notin Collecting => buffer = <<>>
         /\ state \in States /\ error = "NONE" /\ c \in Chars
         /\ attributeName \in Seq(Chars) /\ specialPrefix \in Seq(Chars)
         /\ quote \in Quotes \cup {"none"}
         /\ currentToken \in Tokens /\ Len(currentToken.content) <= MaxBuffer
         /\ emitted \in Seq(Tokens)
         /\ \A k \in DOMAIN emitted : Len(emitted[k].content) <= MaxBuffer
         /\ MaxBuffer \in Nat /\ MaxBuffer >= 2
  BY MaxBufferAssumption DEF ReadOne, Inv, TypeOK, Bounded, FitsBuffer

LEMMA After ==
  ASSUME NEW c, ReadOne(c), TypesAfter, BufferAfter, EmittedAfter
  PROVE  Inv'
<1>1. input' \in Seq(Chars) BY Appended DEF ReadOne, Inv, TypeOK
<1>2. opening' \in Openings BY DEF ReadOne, Inv, TypeOK
<1>3. TypeOK' BY <1>1, <1>2 DEF TypesAfter, BufferAfter, EmittedAfter, TypeOK
<1>4. Bounded' BY DEF TypesAfter, BufferAfter, EmittedAfter, Bounded, FitsBuffer
<1> QED BY <1>3, <1>4 DEF Inv

LEMMA EmittedStays ==
  ASSUME NEW c, ReadOne(c), UNCHANGED emitted
  PROVE  EmittedAfter
  BY Before DEF EmittedAfter

LEMMA EmitTokenFits ==
  ASSUME NEW c, ReadOne(c), NEW token \in Tokens, Len(token.content) <= MaxBuffer, Emit(token)
  PROVE  EmittedAfter
  BY EmitFits DEF ReadOne, Inv, EmittedAfter

LEMMA EmitSomeTextFits ==
  ASSUME NEW c, ReadOne(c), NEW s \in Seq(Chars), Len(s) <= MaxBuffer, EmitText(s)
  PROVE  EmittedAfter
  BY EmitTextFits DEF ReadOne, Inv, EmittedAfter

LEMMA ReadIs ==
  ASSUME NEW c, ReadOne(c)
  PROVE  Append(buffer, c) \in Seq(Chars) /\ Len(Append(buffer, c)) = Len(buffer) + 1
  BY Before, Appended

LEMMA GrowFits ==
  ASSUME NEW c, ReadOne(c), Grow(c)
  PROVE  /\ buffer' \in Seq(Chars) /\ error' \in Errors
         /\ Len(buffer') <= IF error' = "BUFFER_SIZE_EXHAUSTED" THEN MaxBuffer + 1 ELSE MaxBuffer
<1>1. buffer' = Append(buffer, c) BY DEF Grow
<1>2. buffer' \in Seq(Chars) /\ Len(buffer') = Len(buffer) + 1 BY <1>1, ReadIs
<1> QED BY <1>2, Before DEF Grow, Errors

-----------------------------------------------------------------------------
(* Each action keeps the types and the bounds.                              *)
LEMMA ReadTextFits ==
  ASSUME NEW c, ReadOne(c), ReadText(c)
  PROVE  Inv'
<1> DEFINE read == Append(buffer, c)
<1>1. read \in Seq(Chars) /\ Len(read) = Len(buffer) + 1 BY ReadIs
<1>2. Len(buffer) < MaxBuffer BY Before DEF ReadText
<1>3. EmittedAfter
  <2>1. CASE EmitText(buffer) BY <2>1, Before, EmitSomeTextFits
  <2>2. CASE EmitText(read)
    <3> HIDE DEF read
    <3>1. Len(read) <= MaxBuffer BY <1>1, <1>2, Before
    <3> QED BY <2>2, <1>1, <3>1, EmitSomeTextFits
  <2>3. CASE UNCHANGED emitted BY <2>3, EmittedStays
  <2> QED BY <2>1, <2>2, <2>3 DEF ReadText
<1>4. TypesAfter BY Before DEF ReadText, TypesAfter, States, TagStates
<1>5. BufferAfter
  <2>1. error' = "NONE" BY Before DEF ReadText
  <2>2. CASE buffer' = <<>>
    BY <2>1, <2>2, Before DEF BufferAfter, Errors
  <2>3. CASE buffer' = read /\ state' = "TEXT" /\ Len(buffer) + 1 < MaxBuffer
    <3> HIDE DEF read
    <3> QED BY <2>1, <2>3, <1>1, Before DEF BufferAfter, Collecting, Errors
  <2> QED BY <2>2, <2>3 DEF ReadText
<1> QED BY <1>3, <1>4, <1>5, After


LEMMA FreshToken ==
  ASSUME NEW type \in TokenTypes
  PROVE  Token(type) \in Tokens /\ Len(Token(type).content) = 0
  BY DEF Token, Item, Tokens, NoAttributes

LEMMA OpenMarkupFits ==
  ASSUME NEW c, ReadOne(c), OpenMarkup(c)
  PROVE  Inv'
<1>1. state = "AFTER_OPEN" /\ buffer = <<>>
  <2>1. state = "AFTER_OPEN" BY DEF OpenMarkup
  <2> QED BY <2>1, Before DEF Collecting
<1>2. <<c>> \in Seq(Chars) /\ Len(<<c>>) = 1 BY Before
<1>3. \E type \in {"OPEN_TAG", "CLOSE_TAG", "DECLARATION"} : currentToken' = Token(type)
  BY DEF OpenMarkup, Begin
<1>4. currentToken' \in Tokens /\ Len(currentToken'.content) <= MaxBuffer
  BY <1>3, FreshToken, MaxBufferAssumption DEF TokenTypes
<1>5. specialPrefix' \in Seq(Chars)
  <2>1. UNCHANGED specialPrefix \/ specialPrefix' = <<>> BY DEF OpenMarkup
  <2> QED BY <2>1, Before, EmptySequence
<1>6. TypesAfter
  BY <1>4, <1>5, Before DEF OpenMarkup, Begin, TypesAfter, States, TagStates
<1>7. BufferAfter
  <2>1. error' = "NONE" BY Before DEF OpenMarkup
  <2>2. CASE buffer' = <<>> /\ state' # "TEXT"
    BY <2>1, <2>2, Before DEF BufferAfter, Errors
  <2>3. CASE buffer' = <<c>> /\ state' = "START_TAG_NAME"
    BY <2>1, <2>3, <1>2, Before DEF BufferAfter, Collecting, Errors
  <2> QED BY <1>1, <2>2, <2>3 DEF OpenMarkup, Begin
<1>8. EmittedAfter BY EmittedStays DEF OpenMarkup
<1> QED BY <1>6, <1>7, <1>8, After

LEMMA GrowNameFits ==
  ASSUME NEW c, ReadOne(c), GrowName(c)
  PROVE  Inv'
<1>1. TypesAfter BY Before DEF GrowName, TypesAfter
<1>2. BufferAfter BY GrowFits DEF GrowName, BufferAfter, NameStates, Collecting
<1>3. EmittedAfter BY EmittedStays DEF GrowName
<1> QED BY <1>1, <1>2, <1>3, After

(* A token keeps its type when it gets its name.                            *)
LEMMA NamedToken ==
  ASSUME NEW token \in Tokens, NEW name \in Seq(Chars)
  PROVE  /\ [token EXCEPT !.content = name] \in Tokens
         /\ [token EXCEPT !.content = name].content = name
  BY DEF Tokens

LEMMA EndTagNameFits ==
  ASSUME NEW c, ReadOne(c), EndTagName(c)
  PROVE  Inv'
<1> PICK next \in States :
      /\ TagNameEndsWith(c, next)
      /\ state' = next
      /\ currentToken' = [currentToken EXCEPT !.content = buffer]
      /\ buffer' = <<>>
      /\ IF next = "TEXT" THEN Emit(currentToken') ELSE UNCHANGED emitted
      /\ UNCHANGED <<attributeName, specialPrefix, quote, error>>
  BY DEF EndTagName
<1>1. currentToken' \in Tokens /\ Len(currentToken'.content) <= MaxBuffer
  BY Before, NamedToken
<1>2. TypesAfter BY <1>1, Before DEF TypesAfter
<1>3. BufferAfter BY Before DEF BufferAfter, Errors
<1>4. EmittedAfter BY <1>1, EmitTokenFits, EmittedStays
<1> QED BY <1>2, <1>3, <1>4, After

LEMMA PathStates ==
  ASSUME NEW p \in AttributePaths
  PROVE  /\ p.body \in States \ Collecting
         /\ p.name \in States \cap Collecting
         /\ p.afterName \in States \ Collecting
         /\ p.valueStart \in States \ Collecting
         /\ p.value \in States \cap Collecting
         /\ "TEXT" \notin {p.body, p.name, p.afterName, p.valueStart, p.value}
  BY DEF AttributePaths, AttributesOf, States, TagStates, AttributeStates, Collecting

LEMMA StartAttributeFits ==
  ASSUME NEW c, ReadOne(c), StartAttribute(c)
  PROVE  Inv'
<1> PICK p \in AttributePaths :
      /\ buffer' = <<c>>
      /\ state' = p.name
      /\ UNCHANGED <<attributeName, specialPrefix, quote, error, currentToken, emitted>>
  BY DEF StartAttribute
<1>1. <<c>> \in Seq(Chars) /\ Len(<<c>>) = 1 BY Before
<1>2. TypesAfter BY PathStates, Before DEF TypesAfter
<1>3. BufferAfter BY <1>1, PathStates, Before DEF BufferAfter, Errors
<1>4. EmittedAfter BY EmittedStays
<1> QED BY <1>2, <1>3, <1>4, After

LEMMA EndAttributeNameFits ==
  ASSUME NEW c, ReadOne(c), EndAttributeName(c)
  PROVE  Inv'
<1> PICK p \in AttributePaths :
      /\ attributeName' = buffer
      /\ buffer' = <<>>
      /\ state' = IF c = "=" THEN p.valueStart ELSE p.afterName
      /\ UNCHANGED <<specialPrefix, quote, error, currentToken, emitted>>
  BY DEF EndAttributeName
<1>1. TypesAfter BY PathStates, Before DEF TypesAfter
<1>2. BufferAfter BY PathStates, Before DEF BufferAfter, Errors
<1>3. EmittedAfter BY EmittedStays
<1> QED BY <1>1, <1>2, <1>3, After

LEMMA StartValueFits ==
  ASSUME NEW c, ReadOne(c), StartValue(c)
  PROVE  Inv'
<1> PICK p \in AttributePaths :
      /\ c \in Quotes
      /\ quote' = c
      /\ buffer' = <<>>
      /\ state' = p.value
      /\ UNCHANGED <<attributeName, specialPrefix, error, currentToken, emitted>>
  BY DEF StartValue
<1>1. TypesAfter BY PathStates, Before DEF TypesAfter
<1>2. BufferAfter BY PathStates, Before DEF BufferAfter, Errors
<1>3. EmittedAfter BY EmittedStays
<1> QED BY <1>1, <1>2, <1>3, After

LEMMA AttributeSet ==
  ASSUME NEW token \in Tokens, NEW name \in Seq(Chars), NEW value \in Seq(Chars)
  PROVE  /\ [token EXCEPT !.attributes = Set(token.attributes, name, value)] \in Tokens
         /\ [token EXCEPT !.attributes = Set(token.attributes, name, value)].content = token.content
<1>1. Set(token.attributes, name, value) \in SUBSET (Seq(Chars) \X Seq(Chars))
  BY DEF Tokens, Set
<1> QED BY <1>1 DEF Tokens

LEMMA ReadValueFits ==
  ASSUME NEW c, ReadOne(c), ReadValue(c)
  PROVE  Inv'
<1>1. PICK p \in AttributePaths :
      /\ state = p.value
      /\ \/ /\ currentToken' = [currentToken EXCEPT !.attributes = Set(@, attributeName, buffer)]
            /\ attributeName' = <<>>
            /\ buffer' = <<>>
            /\ state' = p.body
            /\ UNCHANGED error
         \/ /\ Grow(c)
            /\ UNCHANGED <<state, attributeName, currentToken>>
      /\ UNCHANGED <<specialPrefix, quote, emitted>>
  BY DEF ReadValue
<1>2. currentToken' \in Tokens /\ Len(currentToken'.content) <= MaxBuffer
  <2>1. CASE UNCHANGED currentToken BY <2>1, Before
  <2>2. CASE currentToken' = [currentToken EXCEPT
                                !.attributes = Set(currentToken.attributes, attributeName, buffer)]
    BY <2>2, AttributeSet, Before
  <2> QED BY <1>1, <2>1, <2>2
<1>3. TypesAfter
  <2>1. state' \in States BY <1>1, PathStates, Before
  <2>2. attributeName' \in Seq(Chars)
    <3>1. UNCHANGED attributeName \/ attributeName' = <<>> BY <1>1
    <3> QED BY <3>1, Before, EmptySequence
  <2> QED BY <1>1, <1>2, <2>1, <2>2, Before DEF TypesAfter
<1>4. BufferAfter
  <2>1. CASE Grow(c) /\ UNCHANGED state
    BY <1>1, <2>1, GrowFits, PathStates DEF BufferAfter
  <2>2. CASE buffer' = <<>> /\ state' = p.body /\ UNCHANGED error
    BY <2>2, PathStates, Before DEF BufferAfter, Errors
  <2> QED BY <1>1, <2>1, <2>2
<1>5. EmittedAfter BY <1>1, EmittedStays
<1> QED BY <1>3, <1>4, <1>5, After

LEMMA MoveFits ==
  ASSUME NEW c, ReadOne(c), Move(c)
  PROVE  Inv'
<1>1. PICK m \in Moves :
      /\ state = m[1] /\ state' = m[3]
      /\ UNCHANGED <<buffer, attributeName, specialPrefix, quote, error, currentToken, emitted>>
  BY DEF Move
<1>2. m[1] \notin Collecting /\ m[3] \in States \ Collecting
  <2>1. ASSUME NEW p \in AttributePaths,
               \/ m = <<p.afterName, " ", p.afterName>>
               \/ m = <<p.afterName, "=", p.valueStart>>
               \/ m = <<p.valueStart, " ", p.valueStart>>
        PROVE  m[1] \notin Collecting /\ m[3] \in States \ Collecting
    <3>1. /\ p.afterName \in States /\ p.afterName \notin Collecting
          /\ p.valueStart \in States /\ p.valueStart \notin Collecting
      BY PathStates
    <3>2. /\ m[1] \in {p.afterName, p.valueStart}
          /\ m[3] \in {p.afterName, p.valueStart}
      <4>1. CASE m = <<p.afterName, " ", p.afterName>> BY <4>1
      <4>2. CASE m = <<p.afterName, "=", p.valueStart>> BY <4>2
      <4>3. CASE m = <<p.valueStart, " ", p.valueStart>> BY <4>3
      <4> QED BY <2>1, <4>1, <4>2, <4>3
    <3> QED BY <3>1, <3>2
  <2>2. ASSUME NEW s \in {"START_TAG_BODY", "END_TAG_BODY", "DECLARATION_BODY"},
               m = <<s, " ", s>>
        PROVE  m[1] \notin Collecting /\ m[3] \in States \ Collecting
    <3>1. s \notin Collecting BY DEF Collecting
    <3>2. s \in States BY DEF States, TagStates
    <3> QED BY <2>2, <3>1, <3>2
  <2>3. CASE \/ m = <<"START_TAG_BODY", "/", "SELF_CLOSING">>
             \/ m = <<"DECLARATION_BODY", "?", "DECLARATION_QUESTION">>
    BY <2>3 DEF Collecting, States, TagStates
  <2>4. \/ \E s \in {"START_TAG_BODY", "END_TAG_BODY", "DECLARATION_BODY"} : m = <<s, " ", s>>
        \/ \E p \in AttributePaths : \/ m = <<p.afterName, " ", p.afterName>>
                                     \/ m = <<p.afterName, "=", p.valueStart>>
                                     \/ m = <<p.valueStart, " ", p.valueStart>>
        \/ m = <<"START_TAG_BODY", "/", "SELF_CLOSING">>
        \/ m = <<"DECLARATION_BODY", "?", "DECLARATION_QUESTION">>
    BY DEF Moves
  <2> QED BY <2>1, <2>2, <2>3, <2>4
<1>3. state' # "TEXT" BY <1>1, <1>2 DEF Collecting
<1>4. TypesAfter BY <1>1, <1>2, Before DEF TypesAfter
<1>5. BufferAfter BY <1>1, <1>2, <1>3, Before DEF BufferAfter, Errors
<1>6. EmittedAfter BY <1>1, EmittedStays
<1> QED BY <1>4, <1>5, <1>6, After


LEMMA EndTagFits ==
  ASSUME NEW c, ReadOne(c), EndTag(c)
  PROVE  Inv'
<1>1. state \in EndStates /\ buffer = <<>>
  <2>1. state \in EndStates BY DEF EndTag
  <2>2. state \notin Collecting BY <2>1 DEF EndStates, Collecting
  <2> QED BY <2>1, <2>2, Before
<1>2. currentToken' \in Tokens /\ Len(currentToken'.content) <= MaxBuffer
  <2>1. CASE currentToken' = currentToken BY <2>1, Before
  <2>2. CASE currentToken' = [currentToken EXCEPT !.type = "EMPTY_TAG"]
    BY <2>2, Before DEF Tokens, TokenTypes
  <2> QED BY <2>1, <2>2 DEF EndTag
<1>3. TypesAfter BY <1>2, Before DEF EndTag, TypesAfter, States, TagStates
<1>4. BufferAfter BY <1>1, Before DEF EndTag, BufferAfter, Errors
<1>5. EmittedAfter BY <1>2, EmitTokenFits DEF EndTag
<1> QED BY <1>3, <1>4, <1>5, After

LEMMA ReadSpecialFits ==
  ASSUME NEW c, ReadOne(c), ReadSpecial(c)
  PROVE  Inv'
<1>1. state = "SPECIAL" /\ buffer = <<>>
  <2>1. state = "SPECIAL" BY DEF ReadSpecial
  <2> QED BY <2>1, Before DEF Collecting
<1>2. specialPrefix' \in Seq(Chars) BY Before, Appended DEF ReadSpecial
<1>3. state' \in {"SPECIAL", "COMMENT", "CDATA"} /\ buffer' = <<>> /\ error' \in {"NONE", "MALFORMED_INPUT"}
  BY <1>1, Before DEF ReadSpecial
<1>4. TypesAfter BY <1>2, <1>3, Before DEF ReadSpecial, TypesAfter, States
<1>5. BufferAfter BY <1>3, EmptySequence, Before DEF BufferAfter, Errors
<1>6. EmittedAfter BY EmittedStays DEF ReadSpecial
<1> QED BY <1>4, <1>5, <1>6, After

LEMMA ReadCommentFits ==
  ASSUME NEW c, ReadOne(c), ReadComment(c)
  PROVE  Inv'
<1> DEFINE read == Append(buffer, c)
           comment == SubSeq(read, 1, Len(read) - 3)
<1>1. read \in Seq(Chars) /\ Len(read) = Len(buffer) + 1 BY ReadIs
<1>2. TypesAfter BY Before DEF ReadComment, TypesAfter, States, TagStates
<1>3. CASE /\ IsSuffix(CommentEnd, read)
           /\ Emit(Item("COMMENT", comment, NoAttributes))
           /\ buffer' = <<>> /\ state' = "TEXT" /\ UNCHANGED error
  <2> HIDE DEF read
  <2>1. Len(read) >= 3 BY <1>1, <1>3, EndIsThree DEF CommentEnd
  <2>2. comment \in Seq(Chars) /\ Len(comment) <= MaxBuffer
    <3>1. Len(read) - 3 \in 1 - 1 .. Len(read) BY <1>1, <2>1
    <3> QED BY <1>1, <2>1, <3>1, Before, Stretch
  <2> HIDE DEF comment
  <2>3. Item("COMMENT", comment, NoAttributes) \in Tokens
        /\ Item("COMMENT", comment, NoAttributes).content = comment
    BY <2>2 DEF Item, Tokens, TokenTypes, NoAttributes
  <2>4. EmittedAfter BY <1>3, <2>2, <2>3, EmitTokenFits
  <2>5. BufferAfter BY <1>3, Before, EmptySequence DEF BufferAfter, Errors
  <2> QED BY <1>2, <2>4, <2>5, After
<1>4. CASE Grow(c) /\ UNCHANGED <<state, emitted>>
  <2>1. state' = "COMMENT" BY <1>4 DEF ReadComment
  <2>2. BufferAfter BY <1>4, <2>1, GrowFits DEF BufferAfter, Collecting
  <2> QED BY <1>2, <1>4, <2>2, EmittedStays, After
<1> QED BY <1>3, <1>4 DEF ReadComment

LEMMA ReadCdataFits ==
  ASSUME NEW c, ReadOne(c), ReadCdata(c)
  PROVE  Inv'
<1> DEFINE read == Append(buffer, c)
<1>1. read \in Seq(Chars) /\ Len(read) = Len(buffer) + 1 BY ReadIs
<1>2. TypesAfter BY Before DEF ReadCdata, TypesAfter, States, TagStates
<1>3. state = "CDATA" /\ error' = "NONE" BY Before DEF ReadCdata
<1>4. CASE /\ IsSuffix(CdataEnd, read)
           /\ EmitText(SubSeq(read, 1, Len(read) - 3))
           /\ buffer' = <<>> /\ state' = "TEXT"
  <2> DEFINE text == SubSeq(read, 1, Len(read) - 3)
  <2> HIDE DEF read
  <2>1. Len(read) >= 3 BY <1>1, <1>4, EndIsThree DEF CdataEnd
  <2>2. text \in Seq(Chars) /\ Len(text) <= MaxBuffer
    <3>1. Len(read) - 3 \in 1 - 1 .. Len(read) BY <1>1, <2>1
    <3> QED BY <1>1, <2>1, <3>1, Before, Stretch
  <2> HIDE DEF text
  <2>3. EmitText(text) BY <1>4 DEF text
  <2>4. EmittedAfter BY <2>2, <2>3, EmitSomeTextFits
  <2>5. BufferAfter BY <1>3, <1>4, Before, EmptySequence DEF BufferAfter, Errors
  <2> QED BY <1>2, <2>4, <2>5, After
<1>5. CASE Len(read) < MaxBuffer /\ buffer' = read /\ UNCHANGED <<state, emitted>>
  <2> HIDE DEF read
  <2>1. BufferAfter BY <1>1, <1>3, <1>5, Before DEF BufferAfter, Collecting, Errors
  <2> QED BY <1>2, <1>5, <2>1, EmittedStays, After
<1>6. CASE /\ Len(read) >= MaxBuffer
           /\ EmitText(SubSeq(read, 1, Len(read) - 2))
           /\ buffer' = Rest(read) /\ UNCHANGED state
  <2> DEFINE text == SubSeq(read, 1, Len(read) - 2)
  <2> HIDE DEF read
  <2>1. Len(read) \in Nat /\ Len(read) >= 2 BY <1>1, <1>6, Before
  <2>2. text \in Seq(Chars) /\ Len(text) <= MaxBuffer
    <3>1. Len(read) - 2 \in 1 - 1 .. Len(read) BY <2>1
    <3> QED BY <1>1, <2>1, <3>1, Before, Stretch
  <2>3. Rest(read) \in Seq(Chars) /\ Len(Rest(read)) = 2
    <3>1. Len(read) - 1 \in 1 .. Len(read) + 1 /\ Len(read) \in (Len(read) - 1) - 1 .. Len(read)
      BY <2>1
    <3> QED BY <1>1, <2>1, <3>1, Stretch DEF Rest
  <2> HIDE DEF text
  <2>4. EmitText(text) BY <1>6 DEF text
  <2>5. EmittedAfter BY <2>2, <2>4, EmitSomeTextFits
  <2>6. BufferAfter BY <1>3, <1>6, <2>3, Before DEF BufferAfter, Collecting, Errors
  <2> QED BY <1>2, <2>5, <2>6, After
<1> QED BY <1>4, <1>5, <1>6 DEF ReadCdata

LEMMA RejectFits ==
  ASSUME NEW c, ReadOne(c), Reject(c)
  PROVE  Inv'
<1>1. currentToken' \in Tokens /\ Len(currentToken'.content) <= MaxBuffer
  <2>1. CASE currentToken' = currentToken BY <2>1, Before
  <2>2. CASE currentToken' = Token("OPEN_TAG")
    BY <2>2, FreshToken, MaxBufferAssumption DEF TokenTypes
  <2> QED BY <2>1, <2>2 DEF Reject
<1>2. TypesAfter BY <1>1, Before DEF Reject, TypesAfter
<1>3. BufferAfter BY Before DEF Reject, BufferAfter, Errors
<1>4. EmittedAfter BY EmittedStays DEF Reject
<1> QED BY <1>2, <1>3, <1>4, After

-----------------------------------------------------------------------------
LEMMA InvStep == Inv /\ [Next]_vars => Inv'
<1> SUFFICES ASSUME Inv, [Next]_vars PROVE Inv' OBVIOUS
<1>1. CASE UNCHANGED vars
  BY <1>1 DEF Inv, TypeOK, Bounded, FitsBuffer, vars, members
<1>2. CASE Next
  <2> PICK c \in Chars :
        /\ error = "NONE" /\ Consume(c)
        /\ input' = Append(input, c) /\ opening' = opening
    BY <1>2 DEF Next
  <2>1. ReadOne(c) BY DEF ReadOne
  <2> QED
    BY <2>1, ReadTextFits, OpenMarkupFits, GrowNameFits, EndTagNameFits, StartAttributeFits,
       EndAttributeNameFits, StartValueFits, ReadValueFits, MoveFits, EndTagFits,
       ReadSpecialFits, ReadCommentFits, ReadCdataFits, RejectFits
    DEF Consume
<1> QED BY <1>1, <1>2

(* The types and the bounds hold in every state of every stream             *)
(* (XmlStreamTokenizer.cpp:19-392).                                          *)
THEOREM InvCorrect == Spec => []Inv
  BY InvInit, InvStep, PTL DEF Spec

(* Every member keeps its type, and only the states that collect characters  *)
(* hold any (XmlStreamTokenizer.hpp:67-82).                                  *)
THEOREM TypeCorrect == Spec => []TypeOK
<1>1. Inv => TypeOK BY DEF Inv
<1> QED BY <1>1, InvCorrect, PTL

(* However long a text, a name, a value, a comment or a CDATA section, the   *)
(* buffer holds at most one character too many, and then the tokenizer has   *)
(* failed; no token's content is longer (XmlStreamTokenizer.hpp:13-15).      *)
THEOREM BufferBounded == Spec => []FitsBuffer
<1>1. Inv => FitsBuffer BY DEF Inv, Bounded
<1> QED BY <1>1, InvCorrect, PTL

-----------------------------------------------------------------------------
(* Where the tokenizer stands after n characters of a text w: in the text    *)
(* between two markups, or in the markup that begins at s.                   *)

NameRead(w, f, n) ==
  /\ buffer = SubSeq(w, f, n)
  /\ n = f - 1 \/ IsName(w, f, n)

(* The name of a tag or a declaration, a space and a body up to a - 1.      *)
HeadRead(w, f, m, a, type) ==
  /\ m + 1 < a
  /\ IsName(w, f, m) /\ w[m + 1] \in Spaces /\ IsBody(w, m + 1, a - 1)
  /\ currentToken = Tag(type, w, f, m, a - 1)

Lead(w, s, p, f, type) ==
  \/ p.body = "START_TAG_BODY" /\ f = s + 1 /\ type = "OPEN_TAG"
  \/ p.body = "DECLARATION_BODY" /\ f = s + 2 /\ type = "DECLARATION" /\ w[s + 1] = "?"

(* An attribute from a on, without its end. *)
ValueRead(w, e, n) ==
  \E q \in e + 1 .. n :
    /\ AreSpaces(w, e + 1, q - 1) /\ w[q] = quote /\ quote \in Quotes
    /\ buffer = SubSeq(w, q + 1, n) /\ \A k \in q + 1 .. n : w[k] # quote
AttributeRead(w, p, a, n) ==
  \/ state = p.name /\ IsName(w, a, n) /\ buffer = SubSeq(w, a, n)
  \/ \E b \in a .. n :
       /\ IsName(w, a, b) /\ attributeName = SubSeq(w, a, b)
       /\ \/ state = p.afterName /\ b < n /\ AreSpaces(w, b + 1, n)
          \/ \E e \in b + 1 .. n :
               /\ AreSpaces(w, b + 1, e - 1) /\ w[e] = "="
               /\ \/ state = p.valueStart /\ AreSpaces(w, e + 1, n)
                  \/ state = p.value /\ ValueRead(w, e, n)

BodyReading(w, s, n) ==
  \E p \in AttributePaths : \E f \in {s + 1, s + 2} : \E type \in {"OPEN_TAG", "DECLARATION"} :
    /\ Lead(w, s, p, f, type)
    /\ \E m \in f .. n :
         \/ state = p.body /\ HeadRead(w, f, m, n + 1, type)
         \/ \E a \in m + 2 .. n : HeadRead(w, f, m, a, type) /\ AttributeRead(w, p, a, n)

CloseReading(w, s, n) ==
  /\ w[s + 1] = "/"
  /\ \E m \in s + 1 .. n - 1 :
       /\ IsName(w, s + 2, m) \/ m = s + 1
       /\ AreSpaces(w, m + 1, n)
       /\ currentToken = Item("CLOSE_TAG", SubSeq(w, s + 2, m), NoAttributes)

(* The name and the body are read, and the sign after them. *)
MarkReading(w, f, n, type, mark) ==
  /\ w[n] = mark
  /\ \E m \in f .. n - 1 :
       IsNameAndBody(w, f, m, n - 1) /\ currentToken = Tag(type, w, f, m, n - 1)

TagReading(w, s, n) ==
  \/ state = "AFTER_OPEN" /\ s = n
  \/ /\ state = "START_TAG_NAME" /\ s < n
     /\ NameRead(w, s + 1, n) /\ currentToken = Token("OPEN_TAG")
  \/ /\ state = "END_TAG_NAME" /\ s < n /\ w[s + 1] = "/"
     /\ NameRead(w, s + 2, n) /\ currentToken = Token("CLOSE_TAG")
  \/ /\ state = "DECLARATION_NAME" /\ s < n /\ w[s + 1] = "?"
     /\ NameRead(w, s + 2, n) /\ currentToken = Token("DECLARATION")
  \/ state = "END_TAG_BODY" /\ CloseReading(w, s, n)
  \/ state = "SELF_CLOSING" /\ MarkReading(w, s + 1, n, "OPEN_TAG", "/")
  \/ state = "DECLARATION_QUESTION" /\ w[s + 1] = "?" /\ MarkReading(w, s + 2, n, "DECLARATION", "?")
  \/ BodyReading(w, s, n)

SpecialReading(w, s, n) ==
  /\ w[s + 1] = "!"
  /\ \/ /\ state = "SPECIAL" /\ s < n
        /\ specialPrefix = SubSeq(w, s + 2, n)
        /\ specialPrefix \in {<<>>, <<"-">>, <<"[">>, <<"[", "CDATA">>}
     \/ /\ state = "COMMENT" /\ s + 3 <= n /\ w[s + 2] = "-" /\ w[s + 3] = "-"
        /\ buffer = SubSeq(w, s + 4, n)
        /\ \A k \in s + 4 .. n - 2 : ~IsIn(w, k, CommentEnd)

(* What a full buffer was handed on for is emitted, what is held ends at n.  *)
CdataReading(w, s, n) ==
  LET held == Len(buffer)
  IN  /\ state = "CDATA" /\ s + 4 <= n
      /\ w[s + 1] = "!" /\ w[s + 2] = "[" /\ w[s + 3] = "CDATA" /\ w[s + 4] = "["
      /\ s + 4 + held <= n /\ buffer = SubSeq(w, n - held + 1, n)
      /\ s + 4 < n => held >= 1
      /\ s + 5 < n => held >= 2
      /\ \A k \in s + 5 .. n - 2 : ~IsIn(w, k, CdataEnd)

Flat == FlattenSeq([k \in DOMAIN emitted |-> ItemsOf(emitted[k])])

Stage(w, s, n, done) ==
  \/ state = "TEXT" /\ s = n + 1 /\ done = Flat \o TextItems(buffer)
  \/ /\ s <= n /\ w[s] = "<" /\ \A k \in s + 1 .. n : Markup(w, s, k) = {}
     /\ \/ TagReading(w, s, n) /\ done = Flat
        \/ SpecialReading(w, s, n) /\ done = Flat
        \/ CdataReading(w, s, n) /\ Flat = done \o TextItems(SubSeq(w, s + 5, n - Len(buffer)))

Follows(w, n) ==
  \E s \in 1 .. n + 1 : \E done \in Seq(AnItem) :
    Items(w) = done \o ItemsFrom(w, s) /\ Stage(w, s, n, done)

(* The invariant behind TokensAgree: however the text goes on after what is  *)
(* read, its items are what has been handed on, then those of the rest from  *)
(* where the tokenizer stands; it speaks of every continuation, because where *)
(* a markup ends is settled only by what follows.                            *)
Continues(w) == Len(input) <= Len(w) /\ \A k \in 1 .. Len(input) : w[k] = input[k]
AgreeInv ==
  /\ error = "NONE" => \A w \in Text : Continues(w) => Follows(w, Len(input))
  /\ error # "NONE" => TokensAgree

-----------------------------------------------------------------------------
(* What a state says of where the tokenizer stands.                         *)

LEMMA Paths ==
  ASSUME NEW p \in AttributePaths
  PROVE  \/ /\ p.body = "START_TAG_BODY" /\ p.name = "ATTRIBUTE_NAME"
            /\ p.afterName = "ATTRIBUTE_AFTER_NAME" /\ p.valueStart = "ATTRIBUTE_VALUE_START"
            /\ p.value = "ATTRIBUTE_VALUE"
         \/ /\ p.body = "DECLARATION_BODY" /\ p.name = "DECLARATION_ATTRIBUTE_NAME"
            /\ p.afterName = "DECLARATION_ATTRIBUTE_AFTER_NAME"
            /\ p.valueStart = "DECLARATION_ATTRIBUTE_VALUE_START"
            /\ p.value = "DECLARATION_ATTRIBUTE_VALUE"
  BY DEF AttributePaths, AttributesOf

(* An attribute that has begun has not ended. *)
LEMMA AttributeHasNoEnd ==
  ASSUME NEW w, NEW p, NEW a \in Int, NEW n \in Int, a <= n, AttributeRead(w, p, a, n)
  PROVE  w[a] \in NameCharacters /\ \A l \in a .. n : ~IsAttribute(w, a, l)
<1>1. w[a] \in NameCharacters BY NamesAre DEF AttributeRead
<1>2. ASSUME NEW l \in a .. n, IsAttribute(w, a, l) PROVE FALSE
  <2>1. PICK b0 \in Int, q0 \in Int : a <= b0 /\ b0 < q0 /\ q0 < l /\ IsAttributeOf(w, a, b0, q0, l)
    BY <1>2, AttributeIs
  <2>2. PICK e0 \in b0 + 1 .. q0 - 1 :
          AreSpaces(w, b0 + 1, e0 - 1) /\ w[e0] = "=" /\ AreSpaces(w, e0 + 1, q0 - 1)
    BY <2>1 DEF IsAttributeOf
  <2>3. /\ IsName(w, a, b0) /\ w[q0] \in Quotes /\ w[l] = w[q0]
    BY <2>1 DEF IsAttributeOf
  <2>4. w[b0 + 1] \in Delimiters BY <2>2, NameStopped
  <2>5. CASE IsName(w, a, n)
    <3>1. b0 + 1 \in a .. n BY <2>1, <1>2
    <3>2. w[b0 + 1] \in NameCharacters BY <2>5, <3>1 DEF IsName
    <3> QED BY <2>4, <3>2, Classes
  <2>6. ASSUME NEW b \in a .. n, IsName(w, a, b), w[b + 1] \in Delimiters PROVE b0 = b
    BY <2>3, <2>4, <2>6, NameEnds
  <2>7. ASSUME NEW b \in a .. n, IsName(w, a, b), b < n, AreSpaces(w, b + 1, n) PROVE FALSE
    <3>1. w[b + 1] \in Spaces BY <2>7 DEF AreSpaces
    <3>2. b0 = b BY <2>6, <2>7, <3>1, Classes
    <3>3. e0 \in b + 1 .. n BY <2>1, <2>2, <3>2
    <3>4. w[e0] \in Spaces BY <2>7, <3>3 DEF AreSpaces
    <3> QED BY <2>2, <3>4, Classes
  <2>8. ASSUME NEW b \in a .. n, IsName(w, a, b), NEW e \in b + 1 .. n,
               AreSpaces(w, b + 1, e - 1), w[e] = "="
        PROVE  e0 = e
    <3>1. e \in b + 1 .. (e + 1) - 1 /\ e + 1 \in Int /\ b \in Int BY <2>8
    <3>2. w[b + 1] \in Delimiters BY <2>8, <3>1, NameStopped
    <3>3. b0 = b BY <2>6, <2>8, <3>2
    <3>4. w[e] \notin Spaces /\ w[e0] \notin Spaces BY <2>2, <2>8, Classes
    <3>5. AreSpaces(w, b + 1, e0 - 1) BY <2>2, <3>3
    <3>6. e \in Int /\ e0 \in Int /\ b + 1 \in Int /\ e >= b + 1 /\ e0 >= b + 1 BY <2>2, <3>3
    <3> QED BY <2>8, <3>4, <3>5, <3>6, SpacesEnd
  <2>9. ASSUME NEW e \in Int, e0 = e, AreSpaces(w, e + 1, n) PROVE FALSE
    <3>1. q0 \in e + 1 .. n BY <2>1, <2>2, <2>9
    <3>2. w[q0] \in Spaces BY <2>9, <3>1 DEF AreSpaces
    <3> QED BY <2>3, <3>2, Classes
  <2>10. ASSUME NEW e \in Int, e0 = e, ValueRead(w, e, n) PROVE FALSE
    <3>1. PICK q \in e + 1 .. n :
            /\ AreSpaces(w, e + 1, q - 1) /\ w[q] = quote /\ quote \in Quotes
            /\ \A k \in q + 1 .. n : w[k] # quote
      BY <2>10 DEF ValueRead
    <3>2. q = q0
      <4>1. w[q] \notin Spaces /\ w[q0] \notin Spaces BY <2>3, <3>1, Classes
      <4>2. AreSpaces(w, e + 1, q0 - 1) /\ AreSpaces(w, e + 1, q - 1) BY <2>2, <2>10, <3>1
      <4>3. q \in Int /\ q0 \in Int /\ e + 1 \in Int /\ q >= e + 1 /\ q0 >= e + 1
        BY <2>1, <2>2, <2>10, <3>1
      <4> QED BY <4>1, <4>2, <4>3, SpacesEnd
    <3>3. l \in q + 1 .. n BY <2>1, <3>2
    <3> QED BY <2>3, <3>1, <3>2, <3>3
  <2>11. ASSUME NEW b \in a .. n, IsName(w, a, b), NEW e \in b + 1 .. n,
                AreSpaces(w, b + 1, e - 1), w[e] = "=", AreSpaces(w, e + 1, n) \/ ValueRead(w, e, n)
         PROVE  FALSE
    <3>1. e \in Int /\ e0 = e BY <2>8, <2>11
    <3> QED BY <2>9, <2>10, <2>11, <3>1
  <2>12. \/ IsName(w, a, n)
         \/ \E b \in a .. n :
              /\ IsName(w, a, b)
              /\ \/ b < n /\ AreSpaces(w, b + 1, n)
                 \/ \E e \in b + 1 .. n :
                      /\ AreSpaces(w, b + 1, e - 1) /\ w[e] = "="
                      /\ AreSpaces(w, e + 1, n) \/ ValueRead(w, e, n)
    BY DEF AttributeRead
  <2> QED BY <2>5, <2>7, <2>11, <2>12
<1> QED BY <1>1, <1>2

(* So the markup has not ended. *)
LEMMA NoEndInAttribute ==
  ASSUME NEW w \in Text, NEW p, NEW s \in Int, 1 <= s, NEW n \in Int, NEW f, NEW type,
         Lead(w, s, p, f, type), NEW m \in f .. n, NEW a \in m + 2 .. n,
         HeadRead(w, f, m, a, type), AttributeRead(w, p, a, n)
  PROVE  Markup(w, s, n + 1) = {}
<1>0. f \in Int /\ m \in Int /\ a \in Int /\ m + 1 < a /\ a <= n /\ f <= m BY DEF Lead
<1>1. w[a] \in NameCharacters /\ \A l \in a .. n : ~IsAttribute(w, a, l)
  BY <1>0, AttributeHasNoEnd
<1>2. /\ IsName(w, f, m) /\ w[m + 1] \in Delimiters /\ IsBody(w, m + 1, a - 1)
      /\ w[f] \in NameCharacters
  BY <1>0, NamesAre, Classes DEF HeadRead
<1>3. CASE w[n + 1] # ">" BY <1>3, MarkupEnds
<1>4. CASE w[n + 1] = ">"
  <2>1. ASSUME NEW x \in {n, n - 1}, a <= x, w[x + 1] \in Delimiters
        PROVE  \A k \in f .. x : ~IsNameAndBody(w, f, k, x)
    <3>1. x \in Int /\ m < a /\ \A l \in a .. x : ~IsAttribute(w, a, l) BY <1>0, <1>1
    <3> QED BY <1>0, <1>1, <1>2, <2>1, <3>1, NamedBodyStuck
  <2>2. w[n + 1] \in Delimiters BY <1>4, Classes
  <2>3. \A k \in f .. n : ~IsNameAndBody(w, f, k, n) BY <1>0, <2>1, <2>2
  <2>4. w[n] \in {"/", "?"} => \A k \in f .. n - 1 : ~IsNameAndBody(w, f, k, n - 1)
    <3> SUFFICES ASSUME w[n] \in {"/", "?"} PROVE \A k \in f .. n - 1 : ~IsNameAndBody(w, f, k, n - 1)
      OBVIOUS
    <3>1. w[n] \in Delimiters BY Classes
    <3>2. a # n BY <1>1, <3>1, Classes
    <3>3. a <= n - 1 /\ (n - 1) + 1 = n /\ n - 1 \in Int BY <1>0, <3>2
    <3> QED BY <2>1, <3>1, <3>3
  <2>5. CASE f = s + 1 BY <1>2, <2>3, <2>4, <2>5, NoTag
  <2>6. CASE f = s + 2 /\ w[s + 1] = "?" BY <2>4, <2>6, NoDeclaration
  <2> QED BY <2>5, <2>6 DEF Lead
<1> QED BY <1>3, <1>4

-----------------------------------------------------------------------------
(* What is read when the tokenizer stands in a state.                       *)

StatesOf(p) == {p.body, p.name, p.afterName, p.valueStart, p.value}
BodyStates ==
  {"START_TAG_BODY", "ATTRIBUTE_NAME", "ATTRIBUTE_AFTER_NAME", "ATTRIBUTE_VALUE_START",
   "ATTRIBUTE_VALUE", "DECLARATION_BODY", "DECLARATION_ATTRIBUTE_NAME",
   "DECLARATION_ATTRIBUTE_AFTER_NAME", "DECLARATION_ATTRIBUTE_VALUE_START",
   "DECLARATION_ATTRIBUTE_VALUE"}

LEMMA PathStatesAre ==
  ASSUME NEW p \in AttributePaths
  PROVE  StatesOf(p) \subseteq BodyStates
  BY Paths DEF StatesOf, BodyStates

LEMMA SamePath ==
  ASSUME NEW p \in AttributePaths, NEW r \in AttributePaths,
         state \in StatesOf(p), state \in StatesOf(r)
  PROVE  p = r
<1>1. ASSUME NEW g \in AttributePaths, state \in StatesOf(g)
      PROVE  \/ /\ g.body = "START_TAG_BODY"
                /\ state \in {"START_TAG_BODY", "ATTRIBUTE_NAME", "ATTRIBUTE_AFTER_NAME",
                              "ATTRIBUTE_VALUE_START", "ATTRIBUTE_VALUE"}
             \/ /\ g.body = "DECLARATION_BODY"
                /\ state \in {"DECLARATION_BODY", "DECLARATION_ATTRIBUTE_NAME",
                              "DECLARATION_ATTRIBUTE_AFTER_NAME",
                              "DECLARATION_ATTRIBUTE_VALUE_START",
                              "DECLARATION_ATTRIBUTE_VALUE"}
  BY <1>1, Paths DEF StatesOf
<1>2. p.body = r.body BY <1>1
<1>3. ASSUME NEW g \in AttributePaths, NEW h \in AttributePaths, g.body = h.body PROVE g = h
  BY <1>3 DEF AttributePaths, AttributesOf
<1> QED BY <1>2, <1>3

LEMMA InBody ==
  ASSUME NEW w, NEW s, NEW n, BodyReading(w, s, n)
  PROVE  state \in BodyStates
<1>1. PICK p \in AttributePaths : state \in StatesOf(p)
  BY DEF BodyReading, AttributeRead, StatesOf
<1> QED BY <1>1, PathStatesAre

LEMMA ReadingOf ==
  ASSUME NEW w, NEW s, NEW n, TagReading(w, s, n)
  PROVE  /\ state = "AFTER_OPEN" => s = n
         /\ state = "START_TAG_NAME"
              => s < n /\ NameRead(w, s + 1, n) /\ currentToken = Token("OPEN_TAG")
         /\ state = "END_TAG_NAME"
              => s < n /\ w[s + 1] = "/" /\ NameRead(w, s + 2, n) /\ currentToken = Token("CLOSE_TAG")
         /\ state = "DECLARATION_NAME"
              => s < n /\ w[s + 1] = "?" /\ NameRead(w, s + 2, n) /\ currentToken = Token("DECLARATION")
         /\ state = "END_TAG_BODY" => CloseReading(w, s, n)
         /\ state = "SELF_CLOSING" => MarkReading(w, s + 1, n, "OPEN_TAG", "/")
         /\ state = "DECLARATION_QUESTION"
              => w[s + 1] = "?" /\ MarkReading(w, s + 2, n, "DECLARATION", "?")
         /\ state \in BodyStates => BodyReading(w, s, n)
         /\ state \notin {"TEXT", "SPECIAL", "COMMENT", "CDATA"}
<1>1. BodyReading(w, s, n) => state \in BodyStates BY InBody
<1> QED BY <1>1 DEF TagReading, BodyStates

(* The name and the body that are read, up to the next part.                *)
LEMMA BodyRead ==
  ASSUME NEW w, NEW s, NEW n, TagReading(w, s, n), NEW p \in AttributePaths, state = p.body
  PROVE  \E f \in {s + 1, s + 2} : \E type \in {"OPEN_TAG", "DECLARATION"} :
           /\ Lead(w, s, p, f, type)
           /\ \E m \in f .. n : HeadRead(w, f, m, n + 1, type)
<1>1. state \in StatesOf(p) BY DEF StatesOf
<1>2. BodyReading(w, s, n) BY <1>1, PathStatesAre, ReadingOf
<1>3. PICK r \in AttributePaths, f \in {s + 1, s + 2}, type \in {"OPEN_TAG", "DECLARATION"} :
        /\ Lead(w, s, r, f, type)
        /\ \E m \in f .. n :
             \/ state = r.body /\ HeadRead(w, f, m, n + 1, type)
             \/ \E a \in m + 2 .. n : HeadRead(w, f, m, a, type) /\ AttributeRead(w, r, a, n)
  BY <1>2 DEF BodyReading
<1>4. state \in StatesOf(r) BY <1>3 DEF StatesOf, AttributeRead
<1>5. r = p BY <1>1, <1>4, SamePath
<1>6. \A a : ~AttributeRead(w, p, a, n) BY Paths DEF AttributeRead
<1> QED BY <1>3, <1>5, <1>6

LEMMA AttributeReading ==
  ASSUME NEW w, NEW s, NEW n, TagReading(w, s, n), NEW p \in AttributePaths,
         state \in {p.name, p.afterName, p.valueStart, p.value}
  PROVE  \E f \in {s + 1, s + 2} : \E type \in {"OPEN_TAG", "DECLARATION"} :
           /\ Lead(w, s, p, f, type)
           /\ \E m \in f .. n : \E a \in m + 2 .. n :
                HeadRead(w, f, m, a, type) /\ AttributeRead(w, p, a, n)
<1>1. state \in StatesOf(p) BY DEF StatesOf
<1>2. BodyReading(w, s, n) BY <1>1, PathStatesAre, ReadingOf
<1>3. PICK r \in AttributePaths, f \in {s + 1, s + 2}, type \in {"OPEN_TAG", "DECLARATION"} :
        /\ Lead(w, s, r, f, type)
        /\ \E m \in f .. n :
             \/ state = r.body /\ HeadRead(w, f, m, n + 1, type)
             \/ \E a \in m + 2 .. n : HeadRead(w, f, m, a, type) /\ AttributeRead(w, r, a, n)
  BY <1>2 DEF BodyReading
<1>4. state \in StatesOf(r) BY <1>3 DEF StatesOf, AttributeRead
<1>5. r = p BY <1>1, <1>4, SamePath
<1>6. state # p.body BY Paths
<1> QED BY <1>3, <1>5, <1>6

(* The parts of an attribute that are read. *)
LEMMA AttributePartsRead ==
  ASSUME NEW w, NEW p \in AttributePaths, NEW a, NEW n, AttributeRead(w, p, a, n)
  PROVE  /\ state = p.name => IsName(w, a, n) /\ buffer = SubSeq(w, a, n)
         /\ state = p.afterName
              => \E b \in a .. n :
                   /\ IsName(w, a, b) /\ attributeName = SubSeq(w, a, b)
                   /\ b < n /\ AreSpaces(w, b + 1, n)
         /\ state = p.valueStart
              => \E b \in a .. n :
                   /\ IsName(w, a, b) /\ attributeName = SubSeq(w, a, b)
                   /\ \E e \in b + 1 .. n :
                        AreSpaces(w, b + 1, e - 1) /\ w[e] = "=" /\ AreSpaces(w, e + 1, n)
         /\ state = p.value
              => \E b \in a .. n :
                   /\ IsName(w, a, b) /\ attributeName = SubSeq(w, a, b)
                   /\ \E e \in b + 1 .. n :
                        AreSpaces(w, b + 1, e - 1) /\ w[e] = "=" /\ ValueRead(w, e, n)
<1>1. /\ p.name # p.afterName /\ p.name # p.valueStart /\ p.name # p.value
      /\ p.afterName # p.valueStart /\ p.afterName # p.value /\ p.valueStart # p.value
  BY Paths
<1> QED BY <1>1 DEF AttributeRead

-----------------------------------------------------------------------------
(* One character further in a markup: it goes on, it ends and is the token   *)
(* that is emitted, or the tokenizer fails where no markup can end.         *)

At(w, s, n, c) ==
  /\ w \in Text /\ s \in Int /\ n \in Int /\ 1 <= s /\ s <= n /\ n + 1 <= Len(w)
  /\ w[s] = "<" /\ w[n + 1] = c

CdataBegun(w, s, n) ==
  /\ s + 4 <= n
  /\ w[s + 1] = "!" /\ w[s + 2] = "[" /\ w[s + 3] = "CDATA" /\ w[s + 4] = "["

GoesOn(w, s, n) ==
  /\ Markup(w, s, n) = {} /\ emitted' = emitted /\ error' = "NONE"
  /\ \/ TagReading(w, s, n)'
     \/ SpecialReading(w, s, n)'
     \/ CdataReading(w, s, n)' /\ n = s + 4 /\ buffer' = <<>>
Ended(w, s, n) ==
  /\ state' = "TEXT" /\ buffer' = <<>> /\ error' = "NONE"
  /\ \E token \in Tokens :
       token.type # "TEXT_CONTENT" /\ Emit(token) /\ Markup(w, s, n) = {<<token>>}
Failed(w, s, n) ==
  /\ Markup(w, s, n) = {} /\ ~CdataBegun(w, s, n)
  /\ state' \notin {"TEXT", "CDATA"} /\ emitted' = emitted /\ error' # "NONE"
Outcome(w, s, n) == GoesOn(w, s, n) \/ Ended(w, s, n) \/ Failed(w, s, n)

LEMMA NoPart ==
  ASSUME NEW w \in Text, NEW a \in Int, 1 <= a, a <= Len(w) + 1
  PROVE  SubSeq(w, a, a - 1) = <<>>
<1>1. Len(w) \in Nat /\ a - 1 \in Int /\ a <= (a - 1) + 1 /\ a - 1 <= Len(w) BY TextFacts
<1>2. SubSeq(w, a, a - 1) \in Text /\ Len(SubSeq(w, a, a - 1)) = (a - 1) - a + 1
  BY <1>1, PartOfText
<1>3. Len(SubSeq(w, a, a - 1)) = 0 BY <1>2
<1> QED BY <1>2, <1>3 DEF Text

LEMMA OnePart ==
  ASSUME NEW w \in Text, NEW a \in Int, 1 <= a, a <= Len(w)
  PROVE  SubSeq(w, a, a) = <<w[a]>> /\ <<w[a]>> \in Text
<1>1. Len(w) \in Nat /\ a - 1 \in Int /\ a <= (a - 1) + 1 /\ (a - 1) + 1 <= Len(w)
      /\ (a - 1) + 1 = a /\ a <= Len(w) + 1
  BY TextFacts
<1>2. SubSeq(w, a, (a - 1) + 1) = Append(SubSeq(w, a, a - 1), w[(a - 1) + 1]) BY <1>1, OneMore
<1>3. SubSeq(w, a, a) = Append(<<>>, w[a]) BY <1>1, <1>2, NoPart
<1>4. w[a] \in Chars BY TextFacts
<1> QED BY <1>3, <1>4 DEF Text

(* The buffer that starts at a takes the next character. *)
Grows(w, a, n, c) ==
  /\ SubSeq(w, a, n + 1) = Append(SubSeq(w, a, n), c)
  /\ Len(SubSeq(w, a, n)) = n - a + 1

LEMMA BuffersGrow ==
  ASSUME NEW c, NEW w, NEW s, NEW n, At(w, s, n, c)
  PROVE  \A a \in 1 .. n + 1 : Grows(w, a, n, c)
<1> TAKE a \in 1 .. n + 1
<1>1. a \in Int /\ 1 <= a /\ a <= n + 1 BY DEF At
<1>2. /\ w \in Text /\ n \in Int /\ n + 1 <= Len(w) /\ w[n + 1] = c /\ n <= Len(w)
  BY TextFacts DEF At
<1> QED BY <1>1, <1>2, OneMore, PartOfText DEF Grows

(* A tag has not begun as a comment or a CDATA section. *)
LEMMA TagHasNoMark ==
  ASSUME NEW w, NEW s \in Int, NEW n \in Int, s < n, TagReading(w, s, n)
  PROVE  w[s + 1] # "!"
<1> SUFFICES ASSUME w[s + 1] = "!" PROVE FALSE OBVIOUS
<1>2. w[s + 1] \notin NameCharacters BY Classes
<1>3. ASSUME NEW m \in Int, IsName(w, s + 1, m) PROVE FALSE BY <1>2, <1>3, NamesAre
<1>4. CASE state = "START_TAG_NAME"
  <2>1. NameRead(w, s + 1, n) BY <1>4, ReadingOf
  <2>2. n # (s + 1) - 1 OBVIOUS
  <2> QED BY <1>3, <2>1, <2>2 DEF NameRead
<1>5. CASE state = "SELF_CLOSING"
  <2>1. PICK m \in s + 1 .. n - 1 : IsNameAndBody(w, s + 1, m, n - 1)
    BY <1>5, ReadingOf DEF MarkReading
  <2> QED BY <1>3, <2>1 DEF IsNameAndBody
<1>6. CASE BodyReading(w, s, n)
  <2>1. PICK p \in AttributePaths, f \in {s + 1, s + 2}, type \in {"OPEN_TAG", "DECLARATION"} :
          /\ Lead(w, s, p, f, type)
          /\ \E m \in f .. n : \E a : HeadRead(w, f, m, a, type)
    BY <1>6 DEF BodyReading
  <2>2. f = s + 1 BY <2>1 DEF Lead
  <2> QED BY <1>3, <2>1, <2>2 DEF HeadRead
<1> QED BY <1>4, <1>5, <1>6, ReadingOf DEF TagReading, CloseReading

LEMMA TagIsNotCdata ==
  ASSUME NEW w, NEW s, NEW n, NEW c, At(w, s, n, c), TagReading(w, s, n)
  PROVE  ~CdataBegun(w, s, n + 1)
<1>1. s \in Int /\ n \in Int BY DEF At
<1>2. s + 4 <= n + 1 => s < n BY <1>1
<1> QED BY <1>1, <1>2, TagHasNoMark DEF CdataBegun

(* A character that ends no markup leaves it open or makes the tokenizer fail. *)
LEMMA NotTheEnd ==
  ASSUME NEW w, NEW s, NEW n, NEW c, At(w, s, n, c), c # ">"
  PROVE  Markup(w, s, n + 1) = {}
  BY MarkupEnds DEF At

-----------------------------------------------------------------------------
LEMMA OpenMarkupFollows ==
  ASSUME NEW c, ReadOne(c), NEW w, NEW s, NEW n, At(w, s, n, c), TagReading(w, s, n), OpenMarkup(c)
  PROVE  Outcome(w, s, n + 1)
<1>1. state = "AFTER_OPEN" /\ s = n BY ReadingOf DEF OpenMarkup
<1>2. /\ w \in Text /\ s \in Int /\ n \in Int /\ 1 <= s /\ s + 1 <= Len(w) /\ w[s + 1] = c
      /\ Len(w) \in Nat
  BY <1>1, TextFacts DEF At
<1>3. c # ">" BY Classes DEF OpenMarkup
<1>4. emitted' = emitted /\ error' = "NONE" BY Before DEF OpenMarkup
<1>5. TagReading(w, s, n + 1)' \/ SpecialReading(w, s, n + 1)'
  <2>1. SubSeq(w, s + 2, s + 1) = <<>>
    <3>1. s + 2 \in Int /\ 1 <= s + 2 /\ s + 2 <= Len(w) + 1 /\ (s + 2) - 1 = s + 1 BY <1>2
    <3> QED BY <1>2, <3>1, NoPart
  <2>2. s < n + 1 /\ n + 1 = (s + 2) - 1 /\ n + 1 = s + 1 BY <1>1, <1>2
  <2>3. CASE c = "/" /\ Begin("END_TAG_NAME", "CLOSE_TAG", <<>>)
    BY <1>2, <2>1, <2>2, <2>3 DEF TagReading, NameRead, Begin
  <2>4. CASE c = "?" /\ Begin("DECLARATION_NAME", "DECLARATION", <<>>)
    BY <1>2, <2>1, <2>2, <2>4 DEF TagReading, NameRead, Begin
  <2>5. CASE c = "!" /\ Begin("SPECIAL", "OPEN_TAG", buffer) /\ specialPrefix' = <<>>
    BY <1>2, <2>1, <2>2, <2>5 DEF SpecialReading, Begin
  <2>6. CASE c \in NameCharacters /\ Begin("START_TAG_NAME", "OPEN_TAG", <<c>>)
    <3>1. IsName(w, s + 1, s + 1)
      <4>1. s + 1 \in s + 1 .. (s + 1) + MaxBuffer - 1 BY <1>2, MaxBufferAssumption
      <4>2. \A k \in s + 1 .. s + 1 : w[k] \in NameCharacters BY <1>2, <2>6
      <4> QED BY <4>1, <4>2 DEF IsName
    <3>2. SubSeq(w, s + 1, s + 1) = <<c>>
      <4>1. s + 1 \in Int /\ 1 <= s + 1 BY <1>2
      <4> QED BY <1>2, <4>1, OnePart
    <3> QED BY <2>2, <2>6, <3>1, <3>2 DEF TagReading, NameRead, Begin
  <2> QED BY <2>3, <2>4, <2>5, <2>6 DEF OpenMarkup
<1> QED BY <1>3, <1>4, <1>5, NotTheEnd DEF Outcome, GoesOn

LEMMA NameGrows ==
  ASSUME NEW c \in NameCharacters, NEW w, NEW s, NEW n, At(w, s, n, c),
         NEW f \in Int, 1 <= f, f <= n + 1, NameRead(w, f, n), Grow(c), error = "NONE", error' = "NONE"
  PROVE  NameRead(w, f, n + 1)' /\ IsName(w, f, n + 1)
<1>1. n \in Int /\ w[n + 1] = c BY DEF At
<1>2. buffer' = Append(buffer, c) BY DEF Grow
<1>3. buffer' = SubSeq(w, f, n + 1) /\ Len(buffer') = (n + 1) - f + 1
  <2>0. f \in 1 .. n + 1 BY <1>1
  <2>4. Grows(w, f, n, c) BY <2>0, BuffersGrow
  <2>1. buffer' = SubSeq(w, f, n + 1) BY <1>2, <2>4 DEF NameRead, Grows
  <2>2. f \in Int /\ 1 <= f /\ f <= (n + 1) + 1 /\ n + 1 <= Len(w) /\ w \in Text /\ n + 1 \in Int
    BY <1>1 DEF At
  <2>3. Len(SubSeq(w, f, n + 1)) = (n + 1) - f + 1 BY <2>2, PartOfText
  <2> QED BY <2>1, <2>3
<1>4. IsName(w, f, n + 1)
  <2>1. n + 1 \in f .. f + MaxBuffer - 1
    <3>1. Len(buffer') \in Int BY <1>1, <1>3
    <3>2. Len(buffer') <= MaxBuffer BY <3>1, MaxBufferAssumption DEF Grow
    <3> QED BY <1>1, <1>3, <3>2, MaxBufferAssumption
  <2>2. ASSUME NEW k \in f .. n + 1 PROVE w[k] \in NameCharacters
    <3>1. CASE k = n + 1 BY <1>1, <3>1
    <3>2. CASE k # n + 1
      <4>1. k \in f .. n /\ n # f - 1 BY <1>1, <3>2
      <4> QED BY <4>1 DEF NameRead, IsName
    <3> QED BY <3>1, <3>2
  <2> QED BY <2>1, <2>2 DEF IsName
<1> QED BY <1>3, <1>4 DEF NameRead

LEMMA GrowNameFollows ==
  ASSUME NEW c, ReadOne(c), NEW w, NEW s, NEW n, At(w, s, n, c), TagReading(w, s, n), GrowName(c)
  PROVE  Outcome(w, s, n + 1)
<1>1. c \in NameCharacters /\ Grow(c) BY DEF GrowName
<1>2. /\ state' = state /\ attributeName' = attributeName /\ quote' = quote
      /\ currentToken' = currentToken /\ emitted' = emitted
  BY DEF GrowName
<1>3. Markup(w, s, n + 1) = {} BY <1>1, Classes, NotTheEnd
<1>4. CASE error' # "NONE"
  <2>1. state \notin {"TEXT", "CDATA"} BY ReadingOf
  <2> QED BY <1>2, <1>3, <1>4, <2>1, TagIsNotCdata DEF Outcome, Failed
<1>5. CASE error' = "NONE"
  <2>0. s \in Int /\ n \in Int /\ 1 <= s /\ s <= n /\ error = "NONE" BY Before DEF At
  <2>1. TagReading(w, s, n + 1)'
    <3>1. CASE state = "START_TAG_NAME"
      <4>1. s < n /\ NameRead(w, s + 1, n) /\ currentToken = Token("OPEN_TAG") BY <3>1, ReadingOf
      <4>2. s + 1 \in Int /\ 1 <= s + 1 /\ s + 1 <= n + 1 /\ s < n + 1 BY <2>0
      <4>3. NameRead(w, s + 1, n + 1)' BY <1>1, <1>5, <2>0, <4>1, <4>2, NameGrows
      <4> QED BY <1>2, <3>1, <4>1, <4>2, <4>3 DEF TagReading
    <3>2. CASE state = "END_TAG_NAME"
      <4>1. s < n /\ w[s + 1] = "/" /\ NameRead(w, s + 2, n) /\ currentToken = Token("CLOSE_TAG")
        BY <3>2, ReadingOf
      <4>2. s + 2 \in Int /\ 1 <= s + 2 /\ s + 2 <= n + 1 /\ s < n + 1 BY <2>0, <4>1
      <4>3. NameRead(w, s + 2, n + 1)' BY <1>1, <1>5, <2>0, <4>1, <4>2, NameGrows
      <4> QED BY <1>2, <3>2, <4>1, <4>2, <4>3 DEF TagReading
    <3>3. CASE state = "DECLARATION_NAME"
      <4>1. s < n /\ w[s + 1] = "?" /\ NameRead(w, s + 2, n) /\ currentToken = Token("DECLARATION")
        BY <3>3, ReadingOf
      <4>2. s + 2 \in Int /\ 1 <= s + 2 /\ s + 2 <= n + 1 /\ s < n + 1 BY <2>0, <4>1
      <4>3. NameRead(w, s + 2, n + 1)' BY <1>1, <1>5, <2>0, <4>1, <4>2, NameGrows
      <4> QED BY <1>2, <3>3, <4>1, <4>2, <4>3 DEF TagReading
    <3>4. ASSUME NEW p \in AttributePaths, state = p.name PROVE TagReading(w, s, n + 1)'
      <4>1. PICK f \in {s + 1, s + 2}, type \in {"OPEN_TAG", "DECLARATION"} :
              /\ Lead(w, s, p, f, type)
              /\ \E m \in f .. n : \E a \in m + 2 .. n :
                   HeadRead(w, f, m, a, type) /\ AttributeRead(w, p, a, n)
        BY <3>4, AttributeReading
      <4>0. PICK m \in f .. n : \E a \in m + 2 .. n :
              HeadRead(w, f, m, a, type) /\ AttributeRead(w, p, a, n)
        BY <4>1
      <4>2. PICK a \in m + 2 .. n : HeadRead(w, f, m, a, type) /\ AttributeRead(w, p, a, n)
        BY <4>0
      <4>3. NameRead(w, a, n) BY <3>4, <4>2, AttributePartsRead DEF NameRead
      <4>4. a \in Int /\ 1 <= a /\ a <= n + 1 /\ m \in f .. n + 1 /\ a \in m + 2 .. n + 1 BY <2>0, <4>2
      <4>5. NameRead(w, a, n + 1)' /\ IsName(w, a, n + 1)
        BY <1>1, <1>5, <2>0, <4>3, <4>4, NameGrows
      <4>6. AttributeRead(w, p, a, n + 1)' BY <1>2, <3>4, <4>5 DEF AttributeRead, NameRead
      <4>7. HeadRead(w, f, m, a, type)' BY <1>2, <4>2 DEF HeadRead
      <4>8. BodyReading(w, s, n + 1)' BY <4>1, <4>4, <4>6, <4>7 DEF BodyReading
      <4> QED BY <4>8 DEF TagReading
    <3>5. \/ state \in {"START_TAG_NAME", "END_TAG_NAME", "DECLARATION_NAME"}
          \/ \E p \in AttributePaths : state = p.name
      BY DEF GrowName, NameStates, AttributePaths, AttributesOf
    <3> QED BY <3>1, <3>2, <3>3, <3>4, <3>5
  <2> QED BY <1>2, <1>3, <1>5, <2>1 DEF Outcome, GoesOn
<1> QED BY <1>4, <1>5

LEMMA HowNamesEnd ==
  ASSUME NEW c, NEW next, TagNameEndsWith(c, next)
  PROVE  \/ /\ state = "START_TAG_NAME" /\ buffer # <<>>
            /\ \/ c \in Spaces /\ next = "START_TAG_BODY"
               \/ c = "/" /\ next = "SELF_CLOSING"
               \/ c = ">" /\ next = "TEXT"
         \/ /\ state = "END_TAG_NAME"
            /\ \/ c \in Spaces /\ next = "END_TAG_BODY"
               \/ c = ">" /\ next = "TEXT" /\ buffer # <<>>
         \/ /\ state = "DECLARATION_NAME" /\ buffer # <<>>
            /\ \/ c \in Spaces /\ next = "DECLARATION_BODY"
               \/ c = "?" /\ next = "DECLARATION_QUESTION"
<1>1. state \in {"START_TAG_NAME", "END_TAG_NAME", "DECLARATION_NAME"}
  BY DEF TagNameEndsWith, TagNameEnds
<1>2. CASE state = "START_TAG_NAME"
  <2>1. \/ c \in Spaces /\ next = "START_TAG_BODY"
        \/ <<c, next>> \in {<<"/", "SELF_CLOSING">>, <<">", "TEXT">>}
    BY <1>2 DEF TagNameEndsWith, TagNameEnds
  <2>2. buffer # <<>> BY <1>2 DEF TagNameEndsWith
  <2> QED BY <1>2, <2>1, <2>2
<1>3. CASE state = "END_TAG_NAME"
  <2>1. \/ c \in Spaces /\ next = "END_TAG_BODY"
        \/ <<c, next>> \in {<<">", "TEXT">>}
    BY <1>3 DEF TagNameEndsWith, TagNameEnds
  <2>2. buffer # <<>> \/ c \in Spaces BY <1>3 DEF TagNameEndsWith
  <2>3. c = ">" => c \notin Spaces BY Classes
  <2> QED BY <1>3, <2>1, <2>2, <2>3
<1>4. CASE state = "DECLARATION_NAME"
  <2>1. \/ c \in Spaces /\ next = "DECLARATION_BODY"
        \/ <<c, next>> \in {<<"?", "DECLARATION_QUESTION">>}
    BY <1>4 DEF TagNameEndsWith, TagNameEnds
  <2>2. buffer # <<>> BY <1>4 DEF TagNameEndsWith
  <2> QED BY <1>4, <2>1, <2>2
<1> QED BY <1>1, <1>2, <1>3, <1>4

LEMMA NameIsRead ==
  ASSUME NEW w, NEW s, NEW n, NEW c, At(w, s, n, c), NEW f \in Int, 1 <= f, f <= n + 1,
         NameRead(w, f, n), buffer # <<>>
  PROVE  IsName(w, f, n) /\ f <= n
<1>1. w \in Text /\ n \in Int /\ n + 1 <= Len(w) /\ Len(w) \in Nat BY TextFacts DEF At
<1>2. ASSUME n = f - 1 PROVE FALSE
  <2>1. buffer = SubSeq(w, f, f - 1) BY <1>2 DEF NameRead
  <2>2. f <= Len(w) + 1 BY <1>1
  <2> QED BY <1>1, <2>1, <2>2, NoPart
<1> QED BY <1>1, <1>2, NamesAre DEF NameRead

LEMMA TokenNamed ==
  ASSUME NEW type, NEW name
  PROVE  [Token(type) EXCEPT !.content = name] = Item(type, name, {})
  BY DEF Token, Item, NoAttributes

(* A name alone, and a name and the space after it.                         *)
LEMMA NameAlone ==
  ASSUME NEW w, NEW f \in Int, NEW n \in Int, IsName(w, f, n), NEW type
  PROVE  /\ IsNameAndBody(w, f, n, n)
         /\ Tag(type, w, f, n, n) = Item(type, SubSeq(w, f, n), {})
<1>1. n + 1 \in Int /\ (n + 1) - 1 = n OBVIOUS
<1>2. IsBody(w, n + 1, (n + 1) - 1) /\ Attributes(w, n + 1, (n + 1) - 1) = {}
  BY <1>1, BodyEmpty, NoAttributesYet
<1> QED BY <1>1, <1>2 DEF IsNameAndBody, Tag

LEMMA NameAndSpace ==
  ASSUME NEW w, NEW f \in Int, NEW n \in Int, IsName(w, f, n), w[n + 1] \in Spaces, NEW type
  PROVE  /\ IsBody(w, n + 1, n + 1)
         /\ Tag(type, w, f, n, n + 1) = Item(type, SubSeq(w, f, n), {})
<1>1. n + 1 \in Int /\ n + 1 <= n + 1 /\ (n + 1) - 1 = n OBVIOUS
<1>2. IsBody(w, n + 1, (n + 1) - 1) /\ Attributes(w, n + 1, (n + 1) - 1) = {}
  BY <1>1, BodyEmpty, NoAttributesYet
<1>3. IsBody(w, n + 1, n) /\ Attributes(w, n + 1, n) = {} BY <1>1, <1>2
<1>4. IsBody(w, n + 1, n + 1) BY <1>1, <1>3, BodyAddsSpace
<1>5. Attributes(w, n + 1, n + 1) = Attributes(w, n + 1, n) BY <1>1, <1>3, AttributesPastSpace
<1> QED BY <1>3, <1>4, <1>5 DEF Tag

LEMMA PathOfStates ==
  /\ \E p \in AttributePaths : p.body = "START_TAG_BODY"
  /\ \E p \in AttributePaths : p.body = "DECLARATION_BODY"
  BY DEF AttributePaths, AttributesOf

(* A body begins with a name and a space. *)
LEMMA BodyBegins ==
  ASSUME NEW w, NEW s \in Int, NEW n \in Int, NEW f \in {s + 1, s + 2}, s < n, f <= n,
         NEW type \in {"OPEN_TAG", "DECLARATION"}, NEW p \in AttributePaths, Lead(w, s, p, f, type),
         IsName(w, f, n), w[n + 1] \in Spaces,
         state' = p.body, currentToken' = Item(type, SubSeq(w, f, n), {})
  PROVE  TagReading(w, s, n + 1)'
<1>1. f \in Int /\ n + 1 < (n + 1) + 1 /\ ((n + 1) + 1) - 1 = n + 1 /\ n \in f .. n + 1
  BY DEF Lead
<1>2. IsBody(w, n + 1, n + 1) /\ Tag(type, w, f, n, n + 1) = Item(type, SubSeq(w, f, n), {})
  BY <1>1, NameAndSpace
<1>3. HeadRead(w, f, n, (n + 1) + 1, type)' BY <1>1, <1>2 DEF HeadRead
<1>4. BodyReading(w, s, n + 1)' BY <1>1, <1>3 DEF BodyReading
<1> QED BY <1>4 DEF TagReading

LEMMA EndTagNameFollows ==
  ASSUME NEW c, ReadOne(c), NEW w, NEW s, NEW n, At(w, s, n, c), TagReading(w, s, n), EndTagName(c)
  PROVE  Outcome(w, s, n + 1)
<1>0. PICK next \in States :
        /\ TagNameEndsWith(c, next)
        /\ state' = next /\ currentToken' = [currentToken EXCEPT !.content = buffer]
        /\ buffer' = <<>>
        /\ IF next = "TEXT" THEN Emit(currentToken') ELSE UNCHANGED emitted
        /\ error' = error
  BY DEF EndTagName
<1>1. error' = "NONE" BY <1>0, Before
<1>2. /\ w \in Text /\ s \in Int /\ n \in Int /\ 1 <= s /\ s <= n /\ n + 1 <= Len(w)
      /\ w[n + 1] = c /\ s < n + 1 /\ (n + 1) - 1 = n
  BY DEF At
<1>3. currentToken' \in Tokens BY <1>0, Before, NamedToken
<1>4. ASSUME next # "TEXT", c # ">", TagReading(w, s, n + 1)' PROVE Outcome(w, s, n + 1)
  BY <1>0, <1>1, <1>4, NotTheEnd DEF Outcome, GoesOn
<1>5. ASSUME next = "TEXT", Markup(w, s, n + 1) = {<<currentToken'>>},
             currentToken'.type # "TEXT_CONTENT"
      PROVE  Outcome(w, s, n + 1)
  BY <1>0, <1>1, <1>3, <1>5 DEF Outcome, Ended
<1>6. c \in Spaces \cup {"/", "?"} => c # ">" BY Classes
<1>7. CASE state = "START_TAG_NAME" /\ buffer # <<>>
  <2>1. s < n /\ NameRead(w, s + 1, n) /\ currentToken = Token("OPEN_TAG") BY <1>7, ReadingOf
  <2>2. s + 1 \in Int /\ 1 <= s + 1 /\ s + 1 <= n + 1 BY <1>2
  <2>3. IsName(w, s + 1, n) /\ s + 1 <= n BY <1>7, <2>1, <2>2, NameIsRead
  <2>4. currentToken' = Item("OPEN_TAG", SubSeq(w, s + 1, n), {})
    BY <1>0, <2>1, TokenNamed DEF NameRead
  <2>5. CASE c \in Spaces /\ next = "START_TAG_BODY"
    <3>1. PICK p \in AttributePaths : p.body = "START_TAG_BODY" BY PathOfStates
    <3>2. Lead(w, s, p, s + 1, "OPEN_TAG") BY <3>1 DEF Lead
    <3>3. TagReading(w, s, n + 1)' BY <1>0, <1>2, <2>1, <2>3, <2>4, <2>5, <3>1, <3>2, BodyBegins
    <3> QED BY <1>4, <1>6, <2>5, <3>3
  <2>6. CASE c = "/" /\ next = "SELF_CLOSING"
    <3>1. IsNameAndBody(w, s + 1, n, n) /\ Tag("OPEN_TAG", w, s + 1, n, n) = currentToken'
      BY <1>2, <2>2, <2>3, <2>4, NameAlone
    <3>2. MarkReading(w, s + 1, n + 1, "OPEN_TAG", "/")'
      <4>1. n \in s + 1 .. (n + 1) - 1 BY <1>2, <2>3
      <4> QED BY <1>2, <2>6, <3>1, <4>1 DEF MarkReading
    <3>3. TagReading(w, s, n + 1)' BY <1>0, <2>6, <3>2 DEF TagReading
    <3> QED BY <1>4, <1>6, <2>6, <3>3
  <2>7. CASE c = ">" /\ next = "TEXT"
    <3>1. IsNameAndBody(w, s + 1, n, n) /\ Tag("OPEN_TAG", w, s + 1, n, n) = currentToken'
      BY <1>2, <2>2, <2>3, <2>4, NameAlone
    <3>2. Markup(w, s, n + 1) = {<<Tag("OPEN_TAG", w, s + 1, n, n)>>}
      <4>1. n <= n BY <1>2
      <4> QED BY <1>2, <2>7, <3>1, <4>1, OpenTagIs
    <3>3. currentToken'.type # "TEXT_CONTENT" BY <2>4 DEF Item
    <3> QED BY <1>5, <2>7, <3>1, <3>2, <3>3
  <2> QED BY <1>0, <1>7, <2>5, <2>6, <2>7, HowNamesEnd
<1>8. CASE state = "END_TAG_NAME"
  <2>1. s < n /\ w[s + 1] = "/" /\ NameRead(w, s + 2, n) /\ currentToken = Token("CLOSE_TAG")
    BY <1>8, ReadingOf
  <2>2. s + 2 \in Int /\ 1 <= s + 2 /\ s + 2 <= n + 1 /\ (s + 2) - 1 = s + 1 BY <1>2, <2>1
  <2>4. currentToken' = Item("CLOSE_TAG", SubSeq(w, s + 2, n), NoAttributes)
    BY <1>0, <2>1, TokenNamed DEF NameRead, NoAttributes
  <2>5. CASE c \in Spaces /\ next = "END_TAG_BODY"
    <3>1. IsName(w, s + 2, n) \/ n = s + 1 BY <2>1, <2>2 DEF NameRead
    <3>2. AreSpaces(w, n + 1, n + 1)
      <4>1. \A k \in n + 1 .. n + 1 : k = n + 1 BY <1>2
      <4> QED BY <1>2, <2>5, <4>1 DEF AreSpaces
    <3>3. n \in s + 1 .. (n + 1) - 1 BY <1>2, <2>1
    <3>4. CloseReading(w, s, n + 1)' BY <2>1, <2>4, <3>1, <3>2, <3>3 DEF CloseReading
    <3>5. TagReading(w, s, n + 1)' BY <1>0, <2>5, <3>4 DEF TagReading
    <3> QED BY <1>4, <1>6, <2>5, <3>5
  <2>6. CASE c = ">" /\ next = "TEXT" /\ buffer # <<>>
    <3>1. IsName(w, s + 2, n) BY <2>1, <2>2, <2>6, NameIsRead
    <3>2. AreSpaces(w, n + 1, n)
      <4>1. \A k \in n + 1 .. n : FALSE BY <1>2
      <4> QED BY <4>1 DEF AreSpaces
    <3>3. Markup(w, s, n + 1) = {<<Item("CLOSE_TAG", SubSeq(w, s + 2, n), NoAttributes)>>}
      <4>1. n <= n BY <1>2
      <4> QED BY <1>2, <2>1, <2>6, <3>1, <3>2, <4>1, CloseTagIs
    <3>4. currentToken'.type # "TEXT_CONTENT" BY <2>4 DEF Item
    <3> QED BY <1>5, <2>4, <2>6, <3>3, <3>4
  <2> QED BY <1>0, <1>8, <2>5, <2>6, HowNamesEnd
<1>9. CASE state = "DECLARATION_NAME" /\ buffer # <<>>
  <2>1. s < n /\ w[s + 1] = "?" /\ NameRead(w, s + 2, n) /\ currentToken = Token("DECLARATION")
    BY <1>9, ReadingOf
  <2>2. s + 2 \in Int /\ 1 <= s + 2 /\ s + 2 <= n + 1 BY <1>2, <2>1
  <2>3. IsName(w, s + 2, n) /\ s + 2 <= n BY <1>9, <2>1, <2>2, NameIsRead
  <2>4. currentToken' = Item("DECLARATION", SubSeq(w, s + 2, n), {})
    BY <1>0, <2>1, TokenNamed DEF NameRead
  <2>5. CASE c \in Spaces /\ next = "DECLARATION_BODY"
    <3>1. PICK p \in AttributePaths : p.body = "DECLARATION_BODY" BY PathOfStates
    <3>2. Lead(w, s, p, s + 2, "DECLARATION") BY <2>1, <3>1 DEF Lead
    <3>3. TagReading(w, s, n + 1)' BY <1>0, <1>2, <2>1, <2>3, <2>4, <2>5, <3>1, <3>2, BodyBegins
    <3> QED BY <1>4, <1>6, <2>5, <3>3
  <2>6. CASE c = "?" /\ next = "DECLARATION_QUESTION"
    <3>1. IsNameAndBody(w, s + 2, n, n) /\ Tag("DECLARATION", w, s + 2, n, n) = currentToken'
      BY <1>2, <2>2, <2>3, <2>4, NameAlone
    <3>2. MarkReading(w, s + 2, n + 1, "DECLARATION", "?")'
      <4>1. n \in s + 2 .. (n + 1) - 1 BY <1>2, <2>3
      <4> QED BY <1>2, <2>6, <3>1, <4>1 DEF MarkReading
    <3>3. TagReading(w, s, n + 1)' BY <1>0, <2>1, <2>6, <3>2 DEF TagReading
    <3> QED BY <1>4, <1>6, <2>6, <3>3
  <2> QED BY <1>0, <1>9, <2>5, <2>6, HowNamesEnd
<1> QED BY <1>0, <1>7, <1>8, <1>9, HowNamesEnd

-----------------------------------------------------------------------------
(* One character further in an attribute.                                   *)

LEMMA NameStartsHere ==
  ASSUME NEW w, NEW n \in Int, w[n] \in NameCharacters
  PROVE  IsName(w, n, n)
<1>1. n \in n .. n + MaxBuffer - 1 BY MaxBufferAssumption
<1>2. \A k \in n .. n : k = n OBVIOUS
<1> QED BY <1>1, <1>2 DEF IsName

LEMMA AttributeGoesOn ==
  ASSUME NEW w, NEW s, NEW n \in Int, NEW p \in AttributePaths, NEW f \in {s + 1, s + 2},
         NEW type \in {"OPEN_TAG", "DECLARATION"}, Lead(w, s, p, f, type),
         NEW m \in f .. n, NEW a \in m + 2 .. n + 1, s \in Int,
         HeadRead(w, f, m, a, type), currentToken' = currentToken,
         AttributeRead(w, p, a, n + 1)'
  PROVE  TagReading(w, s, n + 1)'
<1>1. m \in f .. n + 1 OBVIOUS
<1>2. HeadRead(w, f, m, a, type)' BY DEF HeadRead
<1>3. BodyReading(w, s, n + 1)' BY <1>1, <1>2 DEF BodyReading
<1> QED BY <1>3 DEF TagReading

LEMMA StartAttributeFollows ==
  ASSUME NEW c, ReadOne(c), NEW w, NEW s, NEW n, At(w, s, n, c), TagReading(w, s, n), StartAttribute(c)
  PROVE  Outcome(w, s, n + 1)
<1>0. PICK p \in AttributePaths :
        /\ state = p.body /\ c \in NameCharacters /\ buffer' = <<c>> /\ state' = p.name
        /\ UNCHANGED <<error, currentToken, emitted>>
  BY DEF StartAttribute
<1>1. /\ w \in Text /\ s \in Int /\ n \in Int /\ 1 <= s /\ s <= n /\ n + 1 <= Len(w)
      /\ w[n + 1] = c
  BY DEF At
<1>2. PICK f \in {s + 1, s + 2}, type \in {"OPEN_TAG", "DECLARATION"} :
        Lead(w, s, p, f, type) /\ \E m \in f .. n : HeadRead(w, f, m, n + 1, type)
  BY <1>0, BodyRead
<1>3. PICK m \in f .. n : HeadRead(w, f, m, n + 1, type) BY <1>2
<1>4. m + 1 < n + 1 /\ n + 1 \in Int /\ 1 <= n + 1 BY <1>1, <1>3 DEF HeadRead
<1>5. n + 1 \in m + 2 .. n + 1 BY <1>1, <1>4
<1>6. IsName(w, n + 1, n + 1) /\ SubSeq(w, n + 1, n + 1) = <<c>>
  BY <1>0, <1>1, <1>4, NameStartsHere, OnePart
<1>7. AttributeRead(w, p, n + 1, n + 1)' BY <1>0, <1>6 DEF AttributeRead
<1>8. TagReading(w, s, n + 1)' BY <1>0, <1>1, <1>2, <1>3, <1>5, <1>7, AttributeGoesOn
<1>9. Markup(w, s, n + 1) = {} /\ error' = "NONE" BY <1>0, Before, Classes, NotTheEnd
<1> QED BY <1>0, <1>8, <1>9 DEF Outcome, GoesOn

(* What holds when an attribute is read up to n. *)
LEMMA AttributeHere ==
  ASSUME NEW c, ReadOne(c), NEW w, NEW s, NEW n, At(w, s, n, c), TagReading(w, s, n),
         NEW p \in AttributePaths, state \in {p.name, p.afterName, p.valueStart, p.value}
  PROVE  /\ Markup(w, s, n + 1) = {}
         /\ \E f \in {s + 1, s + 2} : \E type \in {"OPEN_TAG", "DECLARATION"} :
              /\ Lead(w, s, p, f, type)
              /\ \E m \in f .. n : \E a \in m + 2 .. n :
                   HeadRead(w, f, m, a, type) /\ AttributeRead(w, p, a, n)
<1>1. w \in Text /\ s \in Int /\ n \in Int /\ 1 <= s BY DEF At
<1>2. PICK f \in {s + 1, s + 2}, type \in {"OPEN_TAG", "DECLARATION"} :
        /\ Lead(w, s, p, f, type)
        /\ \E m \in f .. n : \E a \in m + 2 .. n :
             HeadRead(w, f, m, a, type) /\ AttributeRead(w, p, a, n)
  BY AttributeReading
<1>3. PICK m \in f .. n : \E a \in m + 2 .. n :
        HeadRead(w, f, m, a, type) /\ AttributeRead(w, p, a, n)
  BY <1>2
<1>4. PICK a \in m + 2 .. n : HeadRead(w, f, m, a, type) /\ AttributeRead(w, p, a, n) BY <1>3
<1>5. Markup(w, s, n + 1) = {} BY <1>1, <1>2, <1>3, <1>4, NoEndInAttribute
<1> QED BY <1>2, <1>5

(* So a step inside an attribute is about the attribute only. *)
LEMMA AttributeStep ==
  ASSUME NEW c, ReadOne(c), NEW w, NEW s, NEW n, At(w, s, n, c), TagReading(w, s, n),
         NEW p \in AttributePaths, state \in {p.name, p.afterName, p.valueStart, p.value},
         UNCHANGED <<error, currentToken, emitted>>,
         \A a \in Int : 1 <= a /\ a <= n /\ AttributeRead(w, p, a, n) => AttributeRead(w, p, a, n + 1)'
  PROVE  Outcome(w, s, n + 1)
<1>1. s \in Int /\ n \in Int /\ 1 <= s BY DEF At
<1>2. PICK f \in {s + 1, s + 2}, type \in {"OPEN_TAG", "DECLARATION"} :
        /\ Lead(w, s, p, f, type)
        /\ \E m \in f .. n : \E a \in m + 2 .. n :
             HeadRead(w, f, m, a, type) /\ AttributeRead(w, p, a, n)
  BY AttributeHere
<1>3. PICK m \in f .. n : \E a \in m + 2 .. n :
        HeadRead(w, f, m, a, type) /\ AttributeRead(w, p, a, n)
  BY <1>2
<1>4. PICK a \in m + 2 .. n : HeadRead(w, f, m, a, type) /\ AttributeRead(w, p, a, n) BY <1>3
<1>5. a \in Int /\ 1 <= a /\ a <= n /\ a \in m + 2 .. n + 1 BY <1>1
<1>6. AttributeRead(w, p, a, n + 1)' BY <1>4, <1>5
<1>7. TagReading(w, s, n + 1)' BY <1>1, <1>2, <1>3, <1>4, <1>5, <1>6, AttributeGoesOn
<1>8. Markup(w, s, n + 1) = {} /\ error' = "NONE" BY AttributeHere, Before
<1> QED BY <1>7, <1>8 DEF Outcome, GoesOn

LEMMA EndAttributeNameFollows ==
  ASSUME NEW c, ReadOne(c), NEW w, NEW s, NEW n, At(w, s, n, c), TagReading(w, s, n), EndAttributeName(c)
  PROVE  Outcome(w, s, n + 1)
<1>0. PICK p \in AttributePaths :
        /\ state = p.name /\ c \in Spaces \cup {"="} /\ attributeName' = buffer
        /\ state' = IF c = "=" THEN p.valueStart ELSE p.afterName
        /\ UNCHANGED <<error, currentToken, emitted>>
  BY DEF EndAttributeName
<1>1. n \in Int /\ w[n + 1] = c BY DEF At
<1>2. ASSUME NEW a \in Int, a <= n, AttributeRead(w, p, a, n) PROVE AttributeRead(w, p, a, n + 1)'
  <2>0. IsName(w, a, n) /\ buffer = SubSeq(w, a, n)
    <3>1. AttributeRead(w, p, a, n) /\ state = p.name BY <1>0, <1>2
    <3> QED BY <3>1, AttributePartsRead
  <2>1. IsName(w, a, n) /\ attributeName' = SubSeq(w, a, n) BY <1>0, <2>0
  <2>2. n \in a .. n + 1 /\ n < n + 1 /\ n + 1 \in n + 1 .. n + 1 BY <1>1, <1>2
  <2>3. CASE c = "="
    <3>1. AreSpaces(w, n + 1, (n + 1) - 1) /\ AreSpaces(w, (n + 1) + 1, n + 1)
      <4>1. /\ \A k \in n + 1 .. (n + 1) - 1 : FALSE
            /\ \A k \in (n + 1) + 1 .. n + 1 : FALSE
        BY <1>1
      <4> QED BY <4>1 DEF AreSpaces
    <3>2. state' = p.valueStart BY <1>0, <2>3
    <3> QED BY <1>1, <2>1, <2>2, <2>3, <3>1, <3>2 DEF AttributeRead
  <2>4. CASE c \in Spaces
    <3>1. AreSpaces(w, n + 1, n + 1)
      <4>1. \A k \in n + 1 .. n + 1 : k = n + 1 BY <1>1
      <4> QED BY <1>1, <2>4, <4>1 DEF AreSpaces
    <3>2. state' = p.afterName BY <1>0, <2>4, Classes
    <3> QED BY <2>1, <2>2, <3>1, <3>2 DEF AttributeRead
  <2> QED BY <1>0, <2>3, <2>4
<1> QED BY <1>0, <1>2, AttributeStep

LEMMA StartValueFollows ==
  ASSUME NEW c, ReadOne(c), NEW w, NEW s, NEW n, At(w, s, n, c), TagReading(w, s, n), StartValue(c)
  PROVE  Outcome(w, s, n + 1)
<1>0. PICK p \in AttributePaths :
        /\ state = p.valueStart /\ c \in Quotes /\ quote' = c /\ buffer' = <<>> /\ state' = p.value
        /\ UNCHANGED <<attributeName, error, currentToken, emitted>>
  BY DEF StartValue
<1>1. /\ n \in Int /\ w[n + 1] = c /\ w \in Text /\ 1 <= n /\ n + 1 <= Len(w) /\ Len(w) \in Nat
  BY TextFacts DEF At
<1>2. ASSUME NEW a \in Int, a <= n, AttributeRead(w, p, a, n) PROVE AttributeRead(w, p, a, n + 1)'
  <2>1. PICK b \in a .. n :
          /\ IsName(w, a, b) /\ attributeName = SubSeq(w, a, b)
          /\ \E e \in b + 1 .. n :
               AreSpaces(w, b + 1, e - 1) /\ w[e] = "=" /\ AreSpaces(w, e + 1, n)
    BY <1>0, <1>2, AttributePartsRead
  <2>2. PICK e \in b + 1 .. n : AreSpaces(w, b + 1, e - 1) /\ w[e] = "=" /\ AreSpaces(w, e + 1, n)
    BY <2>1
  <2>3. /\ b \in a .. n + 1 /\ e \in b + 1 .. n + 1 /\ n + 1 \in e + 1 .. n + 1 /\ (n + 1) - 1 = n
        /\ \A k \in (n + 1) + 1 .. n + 1 : FALSE
    BY <1>1
  <2>4. SubSeq(w, (n + 1) + 1, n + 1) = <<>>
    <3>1. (n + 1) + 1 \in Int /\ 1 <= (n + 1) + 1 /\ (n + 1) + 1 <= Len(w) + 1
          /\ ((n + 1) + 1) - 1 = n + 1
      BY <1>1
    <3> QED BY <1>1, <3>1, NoPart
  <2>5. ValueRead(w, e, n + 1)' BY <1>0, <1>1, <2>2, <2>3, <2>4 DEF ValueRead
  <2> QED BY <1>0, <2>1, <2>2, <2>3, <2>5 DEF AttributeRead
<1> QED BY <1>0, <1>2, AttributeStep

-----------------------------------------------------------------------------
LEMMA ReadValueFollows ==
  ASSUME NEW c, ReadOne(c), NEW w, NEW s, NEW n, At(w, s, n, c), TagReading(w, s, n), ReadValue(c)
  PROVE  Outcome(w, s, n + 1)
<1>0. PICK p \in AttributePaths :
        /\ state = p.value
        /\ \/ /\ c = quote
              /\ currentToken' = [currentToken EXCEPT !.attributes = Set(@, attributeName, buffer)]
              /\ buffer' = <<>> /\ state' = p.body /\ error' = error
           \/ /\ c # quote /\ Grow(c)
              /\ UNCHANGED <<state, attributeName, currentToken>>
        /\ quote' = quote /\ emitted' = emitted
  BY DEF ReadValue
<1>1. /\ w \in Text /\ s \in Int /\ n \in Int /\ 1 <= s /\ s <= n /\ w[n + 1] = c
      /\ Len(w) \in Nat /\ n + 1 <= Len(w)
  BY TextFacts DEF At
<1>13. \A k \in 1 .. n + 1 : Grows(w, k, n, c) BY BuffersGrow
<1>2. PICK f \in {s + 1, s + 2}, type \in {"OPEN_TAG", "DECLARATION"} :
        /\ Lead(w, s, p, f, type)
        /\ \E m \in f .. n : \E a \in m + 2 .. n :
             HeadRead(w, f, m, a, type) /\ AttributeRead(w, p, a, n)
  BY <1>0, AttributeHere
<1>3. PICK m \in f .. n : \E a \in m + 2 .. n :
        HeadRead(w, f, m, a, type) /\ AttributeRead(w, p, a, n)
  BY <1>2
<1>4. PICK a \in m + 2 .. n : HeadRead(w, f, m, a, type) /\ AttributeRead(w, p, a, n) BY <1>3
<1>5. Markup(w, s, n + 1) = {} BY <1>0, AttributeHere
<1>6. PICK b \in a .. n :
        /\ IsName(w, a, b) /\ attributeName = SubSeq(w, a, b)
        /\ \E e \in b + 1 .. n : AreSpaces(w, b + 1, e - 1) /\ w[e] = "=" /\ ValueRead(w, e, n)
  BY <1>0, <1>4, AttributePartsRead
<1>7. PICK e \in b + 1 .. n : AreSpaces(w, b + 1, e - 1) /\ w[e] = "=" /\ ValueRead(w, e, n)
  BY <1>6
<1>8. PICK q \in e + 1 .. n :
        /\ AreSpaces(w, e + 1, q - 1) /\ w[q] = quote /\ quote \in Quotes
        /\ buffer = SubSeq(w, q + 1, n) /\ \A k \in q + 1 .. n : w[k] # quote
  BY <1>7 DEF ValueRead
<1>9. /\ f \in Int /\ m \in Int /\ a \in Int /\ b \in Int /\ e \in Int /\ q \in Int
      /\ 1 <= a /\ a <= b /\ b < e /\ e < q /\ q <= n /\ m + 1 < a /\ f <= m /\ 1 <= q + 1 /\ q + 1 <= n + 1
  BY <1>1
<1>10. /\ Len(buffer) = n - q
       /\ SubSeq(w, q + 1, n + 1) = Append(buffer, c)
  <2>1. PICK k \in Int : k = q + 1 BY <1>9
  <2>2. k \in 1 .. n + 1 BY <1>1, <1>9, <2>1
  <2>3. SubSeq(w, k, n + 1) = Append(SubSeq(w, k, n), c) /\ Len(SubSeq(w, k, n)) = n - k + 1
    BY <1>13, <2>2 DEF Grows
  <2>4. n - k + 1 = n - q BY <1>1, <1>9, <2>1
  <2> QED BY <1>8, <2>1, <2>3, <2>4
<1>11. CASE c # quote /\ Grow(c) /\ UNCHANGED <<state, attributeName, currentToken>>
  <2>1. CASE error' # "NONE"
    <3>1. state \notin {"TEXT", "CDATA"} BY ReadingOf
    <3> QED BY <1>0, <1>5, <1>11, <2>1, <3>1, TagIsNotCdata DEF Outcome, Failed
  <2>2. CASE error' = "NONE"
    <3>1. buffer' = SubSeq(w, q + 1, n + 1) BY <1>10, <1>11 DEF Grow
    <3>2. \A k \in q + 1 .. n + 1 : w[k] # quote
      <4> SUFFICES ASSUME NEW k \in q + 1 .. n + 1 PROVE w[k] # quote OBVIOUS
      <4>1. CASE k = n + 1 BY <1>1, <1>11, <4>1
      <4>2. CASE k # n + 1
        <5>1. k \in q + 1 .. n BY <1>1, <1>9, <4>2
        <5> QED BY <1>8, <5>1
      <4> QED BY <4>1, <4>2
    <3>3. b \in a .. n + 1 /\ e \in b + 1 .. n + 1 /\ q \in e + 1 .. n + 1 /\ a \in m + 2 .. n + 1
      BY <1>1, <1>9
    <3>4. ValueRead(w, e, n + 1)' BY <1>0, <1>8, <3>1, <3>2, <3>3 DEF ValueRead
    <3>5. AttributeRead(w, p, a, n + 1)'
      BY <1>0, <1>6, <1>7, <1>11, <3>3, <3>4 DEF AttributeRead
    <3>6. TagReading(w, s, n + 1)' BY <1>1, <1>2, <1>4, <1>11, <3>3, <3>5, AttributeGoesOn
    <3> QED BY <1>0, <1>5, <2>2, <3>6 DEF Outcome, GoesOn
  <2> QED BY <2>1, <2>2
<1>12. CASE /\ c = quote
            /\ currentToken' = [currentToken EXCEPT !.attributes = Set(@, attributeName, buffer)]
            /\ buffer' = <<>> /\ state' = p.body /\ error' = error
  <2>1. IsAttributeOf(w, a, b, q, n + 1)
    <3>1. \E g \in b + 1 .. q - 1 : AreSpaces(w, b + 1, g - 1) /\ w[g] = "=" /\ AreSpaces(w, g + 1, q - 1)
      <4>1. e \in b + 1 .. q - 1 BY <1>9
      <4> QED BY <1>7, <1>8, <4>1
    <3>2. w[q] \in Quotes /\ w[n + 1] = w[q] BY <1>1, <1>8, <1>12
    <3>3. \A k \in q + 1 .. (n + 1) - 1 : w[k] # w[q]
      <4>1. (n + 1) - 1 = n BY <1>1
      <4> QED BY <1>8, <4>1
    <3>4. (n + 1) - q - 1 <= MaxBuffer
      <4>1. Len(buffer) <= MaxBuffer /\ MaxBuffer \in Nat BY Before
      <4> QED BY <1>1, <1>9, <1>10, <4>1
    <3> QED BY <1>6, <3>1, <3>2, <3>3, <3>4 DEF IsAttributeOf
  <2>2. /\ m + 1 \in Int /\ m + 1 <= a /\ n + 1 \in Int /\ q < n + 1 /\ (n + 1) - 1 = n /\ a <= n + 1
    BY <1>1, <1>9
  <2>3. /\ IsName(w, f, m) /\ w[m + 1] \in Spaces /\ IsBody(w, m + 1, a - 1)
        /\ currentToken = Tag(type, w, f, m, a - 1)
    BY <1>4 DEF HeadRead
  <2>4. IsBody(w, m + 1, n + 1)
    <3>1. IsAttribute(w, a, n + 1) BY <1>9, <2>1, <2>2, AttributeOf
    <3> QED BY <1>9, <2>2, <2>3, <3>1, BodyAddsAttribute
  <2>5. Attributes(w, m + 1, n + 1)
          = {x \in Attributes(w, m + 1, a - 1) : x[1] # SubSeq(w, a, b)}
              \cup {<<SubSeq(w, a, b), SubSeq(w, q + 1, (n + 1) - 1)>>}
    <3>1. LaterCounts(w, m + 1, a, b, q, n + 1) BY <1>9, <2>1, <2>2, <2>3, AttributesPastAttribute
    <3> QED BY <3>1 DEF LaterCounts
  <2>6. Attributes(w, m + 1, n + 1) = Set(Attributes(w, m + 1, a - 1), attributeName, buffer)
    BY <1>6, <1>8, <2>2, <2>5 DEF Set
  <2>7. currentToken' = Tag(type, w, f, m, n + 1)
    <3>1. currentToken.attributes = Attributes(w, m + 1, a - 1) BY <2>3 DEF Tag, Item
    <3>2. currentToken' = [currentToken EXCEPT !.attributes = Attributes(w, m + 1, n + 1)]
      BY <1>12, <2>6, <3>1
    <3> QED BY <2>3, <3>2 DEF Tag, Item
  <2>8. m \in f .. n + 1 /\ m + 1 < (n + 1) + 1 /\ ((n + 1) + 1) - 1 = n + 1 BY <1>9, <2>2
  <2>9. HeadRead(w, f, m, (n + 1) + 1, type)' BY <2>3, <2>4, <2>7, <2>8 DEF HeadRead
  <2>10. BodyReading(w, s, n + 1)' BY <1>2, <1>12, <2>8, <2>9 DEF BodyReading
  <2>11. TagReading(w, s, n + 1)' BY <2>10 DEF TagReading
  <2> QED BY <1>0, <1>5, <1>12, <2>11, Before DEF Outcome, GoesOn
<1> QED BY <1>0, <1>11, <1>12

-----------------------------------------------------------------------------
(* Characters that lead on, and those that end a tag.                       *)

LEMMA HowMoves ==
  ASSUME NEW c, Move(c)
  PROVE  /\ UNCHANGED <<buffer, attributeName, specialPrefix, quote, error, currentToken, emitted>>
         /\ \/ state = "END_TAG_BODY" /\ c = " " /\ state' = state
            \/ \E p \in AttributePaths :
                 \/ state = p.body /\ c = " " /\ state' = state
                 \/ state = p.afterName /\ c = " " /\ state' = state
                 \/ state = p.afterName /\ c = "=" /\ state' = p.valueStart
                 \/ state = p.valueStart /\ c = " " /\ state' = state
                 \/ p.body = "START_TAG_BODY" /\ state = p.body /\ c = "/" /\ state' = "SELF_CLOSING"
                 \/ /\ p.body = "DECLARATION_BODY" /\ state = p.body /\ c = "?"
                    /\ state' = "DECLARATION_QUESTION"
<1>1. PICK m \in Moves :
        /\ state = m[1] /\ c = m[2] /\ state' = m[3]
        /\ UNCHANGED <<buffer, attributeName, specialPrefix, quote, error, currentToken, emitted>>
  BY DEF Move
<1>2. \/ \E s \in {"START_TAG_BODY", "END_TAG_BODY", "DECLARATION_BODY"} : m = <<s, " ", s>>
      \/ \E p \in AttributePaths : \/ m = <<p.afterName, " ", p.afterName>>
                                   \/ m = <<p.afterName, "=", p.valueStart>>
                                   \/ m = <<p.valueStart, " ", p.valueStart>>
      \/ m = <<"START_TAG_BODY", "/", "SELF_CLOSING">>
      \/ m = <<"DECLARATION_BODY", "?", "DECLARATION_QUESTION">>
  BY DEF Moves
<1>3. PICK tag \in AttributePaths : tag.body = "START_TAG_BODY" BY PathOfStates
<1>4. PICK declaration \in AttributePaths : declaration.body = "DECLARATION_BODY" BY PathOfStates
<1>5. ASSUME NEW p \in AttributePaths, \/ m = <<p.afterName, " ", p.afterName>>
                                       \/ m = <<p.afterName, "=", p.valueStart>>
                                       \/ m = <<p.valueStart, " ", p.valueStart>>
      PROVE  \/ state = p.afterName /\ c = " " /\ state' = state
             \/ state = p.afterName /\ c = "=" /\ state' = p.valueStart
             \/ state = p.valueStart /\ c = " " /\ state' = state
  <2>1. CASE m = <<p.afterName, " ", p.afterName>> BY <1>1, <2>1
  <2>2. CASE m = <<p.afterName, "=", p.valueStart>> BY <1>1, <2>2
  <2>3. CASE m = <<p.valueStart, " ", p.valueStart>> BY <1>1, <2>3
  <2> QED BY <1>5, <2>1, <2>2, <2>3
<1>6. ASSUME NEW s \in {"START_TAG_BODY", "END_TAG_BODY", "DECLARATION_BODY"}, m = <<s, " ", s>>
      PROVE  \/ state = "END_TAG_BODY" /\ c = " " /\ state' = state
             \/ state = tag.body /\ c = " " /\ state' = state
             \/ state = declaration.body /\ c = " " /\ state' = state
  BY <1>1, <1>3, <1>4, <1>6
<1>7. CASE m = <<"START_TAG_BODY", "/", "SELF_CLOSING">> BY <1>1, <1>3, <1>7
<1>8. CASE m = <<"DECLARATION_BODY", "?", "DECLARATION_QUESTION">> BY <1>1, <1>4, <1>8
<1> QED BY <1>1, <1>2, <1>3, <1>4, <1>5, <1>6, <1>7, <1>8

(* A space more in a body. *)
LEMMA BodyGoesOn ==
  ASSUME NEW w, NEW s \in Int, NEW n \in Int, NEW p \in AttributePaths, NEW f \in {s + 1, s + 2},
         NEW type \in {"OPEN_TAG", "DECLARATION"}, Lead(w, s, p, f, type),
         NEW m \in f .. n, HeadRead(w, f, m, n + 1, type), w[n + 1] \in Spaces,
         state' = p.body, currentToken' = currentToken
  PROVE  TagReading(w, s, n + 1)'
<1>1. /\ m \in Int /\ m + 1 < n + 1 /\ m + 1 \in Int /\ m + 1 <= n + 1 /\ m \in f .. n + 1
      /\ (n + 1) - 1 = n /\ m + 1 < (n + 1) + 1 /\ ((n + 1) + 1) - 1 = n + 1
  BY DEF HeadRead
<1>2. /\ IsName(w, f, m) /\ w[m + 1] \in Spaces /\ IsBody(w, m + 1, n)
      /\ currentToken = Tag(type, w, f, m, n)
  BY <1>1 DEF HeadRead
<1>3. IsBody(w, m + 1, n + 1) /\ Attributes(w, m + 1, n + 1) = Attributes(w, m + 1, n)
  BY <1>1, <1>2, BodyAddsSpace, AttributesPastSpace
<1>4. HeadRead(w, f, m, (n + 1) + 1, type)' BY <1>1, <1>2, <1>3 DEF HeadRead, Tag
<1>5. BodyReading(w, s, n + 1)' BY <1>1, <1>4 DEF BodyReading
<1> QED BY <1>5 DEF TagReading

(* A body read is a body. *)
LEMMA HeadIsWhole ==
  ASSUME NEW w, NEW f \in Int, NEW m \in Int, NEW n \in Int, NEW type, HeadRead(w, f, m, n + 1, type)
  PROVE  /\ m < n /\ IsNameAndBody(w, f, m, n)
         /\ currentToken = Tag(type, w, f, m, n)
<1>1. m < n /\ (n + 1) - 1 = n BY DEF HeadRead
<1> QED BY <1>1 DEF HeadRead, IsNameAndBody

LEMMA MoveFollows ==
  ASSUME NEW c, ReadOne(c), NEW w, NEW s, NEW n, At(w, s, n, c), TagReading(w, s, n), Move(c)
  PROVE  Outcome(w, s, n + 1)
<1>0. UNCHANGED <<buffer, attributeName, quote, error, currentToken, emitted>> BY HowMoves
<1>1. s \in Int /\ n \in Int /\ 1 <= s /\ s <= n /\ w[n + 1] = c BY DEF At
<1>2. c \in {" ", "=", "/", "?"} BY HowMoves
<1>3. Markup(w, s, n + 1) = {} /\ error' = "NONE" BY <1>0, <1>2, Before, NotTheEnd
<1>4. " " \in Spaces BY DEF Spaces
<1>5. ASSUME TagReading(w, s, n + 1)' PROVE Outcome(w, s, n + 1)
  BY <1>0, <1>3, <1>5 DEF Outcome, GoesOn
<1>6. CASE state = "END_TAG_BODY" /\ c = " " /\ state' = state
  <2>1. CloseReading(w, s, n) BY <1>6, ReadingOf
  <2>2. PICK m \in s + 1 .. n - 1 :
          /\ IsName(w, s + 2, m) \/ m = s + 1
          /\ AreSpaces(w, m + 1, n)
          /\ currentToken = Item("CLOSE_TAG", SubSeq(w, s + 2, m), NoAttributes)
    BY <2>1 DEF CloseReading
  <2>3. AreSpaces(w, m + 1, n + 1)
    <3>1. ASSUME NEW k \in m + 1 .. n + 1 PROVE w[k] \in Spaces
      <4>1. CASE k = n + 1 BY <1>1, <1>4, <1>6, <4>1
      <4>2. CASE k # n + 1
        <5>1. k \in m + 1 .. n BY <1>1, <4>2
        <5> QED BY <2>2, <5>1 DEF AreSpaces
      <4> QED BY <4>1, <4>2
    <3> QED BY <3>1 DEF AreSpaces
  <2>4. m \in s + 1 .. (n + 1) - 1 BY <1>1
  <2>5. CloseReading(w, s, n + 1)' BY <1>0, <2>1, <2>2, <2>3, <2>4 DEF CloseReading
  <2> QED BY <1>5, <1>6, <2>5 DEF TagReading
<1>7. ASSUME NEW p \in AttributePaths, state = p.body,
             \/ c = " " /\ state' = state
             \/ p.body = "START_TAG_BODY" /\ c = "/" /\ state' = "SELF_CLOSING"
             \/ p.body = "DECLARATION_BODY" /\ c = "?" /\ state' = "DECLARATION_QUESTION"
      PROVE  Outcome(w, s, n + 1)
  <2>1. PICK f \in {s + 1, s + 2}, type \in {"OPEN_TAG", "DECLARATION"} :
          Lead(w, s, p, f, type) /\ \E m \in f .. n : HeadRead(w, f, m, n + 1, type)
    BY <1>7, BodyRead
  <2>2. PICK m \in f .. n : HeadRead(w, f, m, n + 1, type) BY <2>1
  <2>3. CASE c = " " /\ state' = state
    BY <1>0, <1>1, <1>4, <1>5, <1>7, <2>1, <2>2, <2>3, BodyGoesOn
  <2>4. m < n /\ IsNameAndBody(w, f, m, n) /\ currentToken = Tag(type, w, f, m, n)
    BY <1>1, <2>2, HeadIsWhole
  <2>5. m \in f .. (n + 1) - 1 /\ (n + 1) - 1 = n BY <1>1, <2>4
  <2>6. CASE p.body = "START_TAG_BODY" /\ c = "/" /\ state' = "SELF_CLOSING"
    <3>1. f = s + 1 /\ type = "OPEN_TAG" BY <2>1, <2>6 DEF Lead
    <3>2. MarkReading(w, s + 1, n + 1, "OPEN_TAG", "/")'
      BY <1>0, <1>1, <2>4, <2>5, <2>6, <3>1 DEF MarkReading
    <3> QED BY <1>5, <2>6, <3>2 DEF TagReading
  <2>7. CASE p.body = "DECLARATION_BODY" /\ c = "?" /\ state' = "DECLARATION_QUESTION"
    <3>1. f = s + 2 /\ type = "DECLARATION" /\ w[s + 1] = "?" BY <2>1, <2>7 DEF Lead
    <3>2. MarkReading(w, s + 2, n + 1, "DECLARATION", "?")'
      BY <1>0, <1>1, <2>4, <2>5, <2>7, <3>1 DEF MarkReading
    <3> QED BY <1>5, <2>7, <3>1, <3>2 DEF TagReading
  <2> QED BY <1>7, <2>3, <2>6, <2>7
<1>8. ASSUME NEW p \in AttributePaths,
             \/ state = p.afterName /\ c = " " /\ state' = state
             \/ state = p.afterName /\ c = "=" /\ state' = p.valueStart
             \/ state = p.valueStart /\ c = " " /\ state' = state
      PROVE  Outcome(w, s, n + 1)
  <2>0. ASSUME NEW x \in Int, AreSpaces(w, x, n), c = " " PROVE AreSpaces(w, x, n + 1)
    <3>1. ASSUME NEW k \in x .. n + 1 PROVE w[k] \in Spaces
      <4>1. CASE k = n + 1 BY <1>1, <1>4, <2>0, <4>1
      <4>2. CASE k # n + 1
        <5>1. k \in x .. n BY <1>1, <4>2
        <5> QED BY <2>0, <5>1 DEF AreSpaces
      <4> QED BY <4>1, <4>2
    <3> QED BY <3>1 DEF AreSpaces
  <2>1. ASSUME NEW a \in Int, 1 <= a, a <= n, AttributeRead(w, p, a, n)
        PROVE  AttributeRead(w, p, a, n + 1)'
    <3>1. CASE state = p.afterName
      <4>1. AttributeRead(w, p, a, n) /\ state = p.afterName BY <2>1, <3>1
      <4>2. PICK b \in a .. n :
              /\ IsName(w, a, b) /\ attributeName = SubSeq(w, a, b)
              /\ b < n /\ AreSpaces(w, b + 1, n)
        BY <4>1, AttributePartsRead
      <4>3. b \in Int /\ b + 1 \in Int /\ b \in a .. n + 1 /\ b < n + 1 /\ n + 1 \in b + 1 .. n + 1
        BY <1>1
      <4>4. CASE c = " " /\ state' = state
        <5>1. AreSpaces(w, b + 1, n + 1) BY <2>0, <4>2, <4>3, <4>4
        <5> QED BY <1>0, <3>1, <4>2, <4>3, <4>4, <5>1 DEF AttributeRead
      <4>5. CASE c = "=" /\ state' = p.valueStart
        <5>1. AreSpaces(w, b + 1, (n + 1) - 1)
          <6>1. (n + 1) - 1 = n BY <1>1
          <6> QED BY <4>2, <6>1
        <5>2. AreSpaces(w, (n + 1) + 1, n + 1)
          <6>1. \A k \in (n + 1) + 1 .. n + 1 : FALSE BY <1>1
          <6> QED BY <6>1 DEF AreSpaces
        <5> QED BY <1>0, <1>1, <4>2, <4>3, <4>5, <5>1, <5>2 DEF AttributeRead
      <4>6. state # p.valueStart BY <3>1, Paths
      <4> QED BY <1>8, <4>4, <4>5, <4>6
    <3>2. CASE state = p.valueStart
      <4>1. AttributeRead(w, p, a, n) /\ state = p.valueStart BY <2>1, <3>2
      <4>2. PICK b \in a .. n :
              /\ IsName(w, a, b) /\ attributeName = SubSeq(w, a, b)
              /\ \E e \in b + 1 .. n :
                   AreSpaces(w, b + 1, e - 1) /\ w[e] = "=" /\ AreSpaces(w, e + 1, n)
        BY <4>1, AttributePartsRead
      <4>3. PICK e \in b + 1 .. n : AreSpaces(w, b + 1, e - 1) /\ w[e] = "=" /\ AreSpaces(w, e + 1, n)
        BY <4>2
      <4>4. e + 1 \in Int /\ b \in a .. n + 1 /\ e \in b + 1 .. n + 1 BY <1>1
      <4>5. state # p.afterName BY <3>2, Paths
      <4>6. c = " " /\ state' = state BY <1>8, <4>5
      <4>7. AreSpaces(w, e + 1, n + 1) BY <2>0, <4>3, <4>4, <4>6
      <4> QED BY <1>0, <3>2, <4>2, <4>3, <4>4, <4>6, <4>7 DEF AttributeRead
    <3> QED BY <1>8, <3>1, <3>2
  <2> QED BY <1>0, <1>8, <2>1, AttributeStep
<1> QED BY <1>6, <1>7, <1>8, HowMoves

(* The tag or the declaration that ends with a sign and ">".                *)
LEMMA EndTagFollows ==
  ASSUME NEW c, ReadOne(c), NEW w, NEW s, NEW n, At(w, s, n, c), TagReading(w, s, n), EndTag(c)
  PROVE  Outcome(w, s, n + 1)
<1>0. /\ state \in EndStates /\ c = ">" /\ Emit(currentToken') /\ state' = "TEXT"
      /\ buffer' = buffer /\ error' = "NONE"
      /\ currentToken' = IF state = "SELF_CLOSING" THEN [currentToken EXCEPT !.type = "EMPTY_TAG"]
                                                   ELSE currentToken
  BY Before DEF EndTag
<1>1. /\ w \in Text /\ s \in Int /\ n \in Int /\ 1 <= s /\ s <= n /\ w[n + 1] = ">"
      /\ (n - 1) + 1 = n /\ (n - 1) + 2 = n + 1 /\ n - 1 \in Int
  BY <1>0 DEF At
<1>2. buffer' = <<>>
  <2>1. state \notin Collecting BY <1>0 DEF EndStates, Collecting
  <2> QED BY <1>0, <2>1, Before
<1>3. currentToken' \in Tokens
  <2>1. currentToken \in Tokens BY Before
  <2>2. [currentToken EXCEPT !.type = "EMPTY_TAG"] \in Tokens BY <2>1 DEF Tokens, TokenTypes
  <2> QED BY <1>0, <2>1, <2>2
<1>4. ASSUME Markup(w, s, n + 1) = {<<currentToken'>>}, currentToken'.type # "TEXT_CONTENT"
      PROVE  Outcome(w, s, n + 1)
  BY <1>0, <1>2, <1>3, <1>4 DEF Outcome, Ended
<1>5. CASE state = "START_TAG_BODY"
  <2>1. PICK p \in AttributePaths : p.body = "START_TAG_BODY" BY PathOfStates
  <2>2. PICK f \in {s + 1, s + 2}, type \in {"OPEN_TAG", "DECLARATION"} :
          Lead(w, s, p, f, type) /\ \E m \in f .. n : HeadRead(w, f, m, n + 1, type)
    BY <1>5, <2>1, BodyRead
  <2>3. PICK m \in f .. n : HeadRead(w, f, m, n + 1, type) BY <2>2
  <2>4. f = s + 1 /\ type = "OPEN_TAG" BY <2>1, <2>2 DEF Lead
  <2>5. m \in Int /\ f \in Int BY <1>1
  <2>6. m < n /\ IsNameAndBody(w, s + 1, m, n) /\ currentToken = Tag("OPEN_TAG", w, s + 1, m, n)
    BY <1>1, <2>3, <2>4, <2>5, HeadIsWhole
  <2>7. Markup(w, s, n + 1) = {<<Tag("OPEN_TAG", w, s + 1, m, n)>>}
    <3>1. m <= n BY <1>1
    <3> QED BY <1>1, <2>5, <2>6, <3>1, OpenTagIs
  <2>8. currentToken' = Tag("OPEN_TAG", w, s + 1, m, n) BY <1>0, <1>5, <2>6
  <2>9. currentToken'.type # "TEXT_CONTENT" BY <2>8 DEF Tag, Item
  <2> QED BY <1>4, <2>7, <2>8, <2>9
<1>6. CASE state = "END_TAG_BODY"
  <2>1. w[s + 1] = "/" /\ CloseReading(w, s, n) BY <1>6, ReadingOf DEF CloseReading
  <2>2. PICK m \in s + 1 .. n - 1 :
          /\ IsName(w, s + 2, m) \/ m = s + 1
          /\ AreSpaces(w, m + 1, n)
          /\ currentToken = Item("CLOSE_TAG", SubSeq(w, s + 2, m), NoAttributes)
    BY <2>1 DEF CloseReading
  <2>3. m \in Int /\ m <= n /\ m < n BY <1>1
  <2>4. Markup(w, s, n + 1) = {<<Item("CLOSE_TAG", SubSeq(w, s + 2, m), NoAttributes)>>}
    BY <1>1, <2>1, <2>2, <2>3, CloseTagIs
  <2>5. currentToken' = Item("CLOSE_TAG", SubSeq(w, s + 2, m), NoAttributes) BY <1>0, <1>6, <2>2
  <2>6. currentToken'.type # "TEXT_CONTENT" BY <2>5 DEF Item
  <2> QED BY <1>4, <2>4, <2>5, <2>6
<1>7. CASE state = "SELF_CLOSING"
  <2>1. w[n] = "/" /\ MarkReading(w, s + 1, n, "OPEN_TAG", "/")
    BY <1>7, ReadingOf DEF MarkReading
  <2>2. PICK m \in s + 1 .. n - 1 :
          /\ IsNameAndBody(w, s + 1, m, n - 1)
          /\ currentToken = Tag("OPEN_TAG", w, s + 1, m, n - 1)
    BY <2>1 DEF MarkReading
  <2>3. PICK x \in Int : x = n - 1 BY <1>1
  <2>4. m \in Int /\ m <= x /\ x + 1 = n /\ x + 2 = n + 1 BY <1>1, <2>3
  <2>5. Markup(w, s, x + 2) = {<<Tag("EMPTY_TAG", w, s + 1, m, x)>>}
    <3>1. IsNameAndBody(w, s + 1, m, x) /\ w[x + 1] = "/" /\ w[x + 2] = ">"
      BY <1>1, <2>1, <2>2, <2>3, <2>4
    <3> QED BY <1>1, <2>4, <3>1, EmptyTagIs
  <2>6. currentToken' = Tag("EMPTY_TAG", w, s + 1, m, x)
    <3>1. currentToken' = [currentToken EXCEPT !.type = "EMPTY_TAG"] BY <1>0, <1>7
    <3> QED BY <2>2, <2>3, <3>1 DEF Tag, Item
  <2>7. currentToken'.type # "TEXT_CONTENT" BY <2>6 DEF Tag, Item
  <2>8. Markup(w, s, n + 1) = {<<currentToken'>>} BY <2>4, <2>5, <2>6
  <2> QED BY <1>4, <2>7, <2>8
<1>8. CASE state = "DECLARATION_QUESTION"
  <2>1. w[s + 1] = "?" /\ w[n] = "?" /\ MarkReading(w, s + 2, n, "DECLARATION", "?")
    BY <1>8, ReadingOf DEF MarkReading
  <2>2. PICK m \in s + 2 .. n - 1 :
          /\ IsNameAndBody(w, s + 2, m, n - 1)
          /\ currentToken = Tag("DECLARATION", w, s + 2, m, n - 1)
    BY <2>1 DEF MarkReading
  <2>3. PICK x \in Int : x = n - 1 BY <1>1
  <2>4. m \in Int /\ m <= x /\ x + 1 = n /\ x + 2 = n + 1 BY <1>1, <2>3
  <2>5. Markup(w, s, x + 2) = {<<Tag("DECLARATION", w, s + 2, m, x)>>}
    <3>1. IsNameAndBody(w, s + 2, m, x) /\ w[x + 1] = "?" /\ w[x + 2] = ">"
      BY <1>1, <2>1, <2>2, <2>3, <2>4
    <3> QED BY <1>1, <2>1, <2>4, <3>1, DeclarationIs
  <2>6. currentToken' = Tag("DECLARATION", w, s + 2, m, x) BY <1>0, <1>8, <2>2, <2>3
  <2>7. currentToken'.type # "TEXT_CONTENT" BY <2>6 DEF Tag, Item
  <2>8. Markup(w, s, n + 1) = {<<currentToken'>>} BY <2>4, <2>5, <2>6
  <2> QED BY <1>4, <2>7, <2>8
<1> QED BY <1>0, <1>5, <1>6, <1>7, <1>8 DEF EndStates

-----------------------------------------------------------------------------
(* What begins or ends a text.                                              *)

LEMMA ReverseIs ==
  ASSUME NEW s \in Text
  PROVE  /\ Reverse(s) \in Text /\ Len(Reverse(s)) = Len(s)
         /\ \A k \in 1 .. Len(s) : Reverse(s)[k] = s[Len(s) - k + 1]
<1>1. Len(s) \in Nat /\ \A k \in 1 .. Len(s) : s[k] \in Chars BY TextFacts
<1>2. Reverse(s) = [k \in 1 .. Len(s) |-> s[(Len(s) - k) + 1]] BY DEF Reverse
<1>3. \A k \in 1 .. Len(s) : (Len(s) - k) + 1 \in 1 .. Len(s) BY <1>1
<1>4. Reverse(s) \in [1 .. Len(s) -> Chars] BY <1>1, <1>2, <1>3
<1>5. Reverse(s) \in Seq(Chars) BY <1>1, <1>4
<1>6. Len(Reverse(s)) = Len(s)
  <2>1. DOMAIN Reverse(s) = 1 .. Len(s) BY <1>2
  <2> QED BY <1>1, <1>5, <2>1
<1> QED BY <1>2, <1>5, <1>6 DEF Text

LEMMA PrefixIs ==
  ASSUME NEW s \in Text, NEW t \in Text
  PROVE  IsPrefix(s, t) <=> Len(s) <= Len(t) /\ \A k \in 1 .. Len(s) : s[k] = t[k]
<1>1. Len(s) \in Nat /\ Len(t) \in Nat BY TextFacts
<1>2. CASE Len(s) <= Len(t)
  <2>1. /\ 1 \in Int /\ Len(s) \in Int /\ 1 <= Len(s) + 1 /\ Len(s) - 1 + 1 = Len(s)
        /\ Len(s) <= Len(s)
    BY <1>1
  <2>2. /\ SubSeq(s, 1, Len(s)) \in Text /\ Len(SubSeq(s, 1, Len(s))) = Len(s) - 1 + 1
        /\ \A k \in 1 .. Len(s) - 1 + 1 : SubSeq(s, 1, Len(s))[k] = s[1 + k - 1]
    BY <2>1, PartOfText
  <2>3. /\ SubSeq(t, 1, Len(s)) \in Text /\ Len(SubSeq(t, 1, Len(s))) = Len(s) - 1 + 1
        /\ \A k \in 1 .. Len(s) - 1 + 1 : SubSeq(t, 1, Len(s))[k] = t[1 + k - 1]
    BY <1>2, <2>1, PartOfText
  <2>4. \A k \in 1 .. Len(s) : 1 + k - 1 = k BY <1>1
  <2> DEFINE a == SubSeq(s, 1, Len(s))
             b == SubSeq(t, 1, Len(s))
  <2>5. a \in Text /\ Len(a) = Len(s) /\ \A k \in 1 .. Len(s) : a[k] = s[k] BY <2>1, <2>2, <2>4
  <2>6. b \in Text /\ Len(b) = Len(s) /\ \A k \in 1 .. Len(s) : b[k] = t[k] BY <2>1, <2>3, <2>4
  <2>7. IsPrefix(s, t) <=> a = b BY <1>2 DEF IsPrefix
  <2> HIDE DEF a, b
  <2>8. a = b <=> \A k \in 1 .. Len(s) : a[k] = b[k] BY <2>5, <2>6, TextsEqual
  <2> QED BY <1>2, <2>5, <2>6, <2>7, <2>8
<1>3. CASE ~(Len(s) <= Len(t)) BY <1>3 DEF IsPrefix
<1> QED BY <1>2, <1>3

(* A text ends with a mark of three characters when it stands last in it.   *)
LEMMA SuffixIs ==
  ASSUME NEW s \in Text, NEW end \in Text, Len(end) = 3
  PROVE  IsSuffix(end, s) <=> /\ Len(s) >= 3
                              /\ s[Len(s) - 2] = end[1] /\ s[Len(s) - 1] = end[2]
                              /\ s[Len(s)] = end[3]
<1>1. Len(s) \in Nat BY TextFacts
<1> DEFINE r == Reverse(end)
           t == Reverse(s)
<1>2. r \in Text /\ Len(r) = 3 /\ \A k \in 1 .. 3 : r[k] = end[3 - k + 1] BY ReverseIs
<1>3. t \in Text /\ Len(t) = Len(s) /\ \A k \in 1 .. Len(s) : t[k] = s[Len(s) - k + 1] BY ReverseIs
<1>4. IsSuffix(end, s) <=> IsPrefix(r, t) BY DEF IsSuffix
<1> HIDE DEF r, t
<1>5. IsPrefix(r, t) <=> 3 <= Len(s) /\ \A k \in 1 .. 3 : r[k] = t[k]
  <2>1. r \in Text /\ t \in Text BY <1>2, <1>3
  <2>2. IsPrefix(r, t) <=> Len(r) <= Len(t) /\ \A k \in 1 .. Len(r) : r[k] = t[k]
    BY <2>1, PrefixIs
  <2> QED BY <1>2, <1>3, <2>2
<1>6. (\A k \in 1 .. 3 : r[k] = t[k]) <=> r[1] = t[1] /\ r[2] = t[2] /\ r[3] = t[3]
  <2>1. \A k \in 1 .. 3 : k = 1 \/ k = 2 \/ k = 3 OBVIOUS
  <2>2. 1 \in 1 .. 3 /\ 2 \in 1 .. 3 /\ 3 \in 1 .. 3 OBVIOUS
  <2> QED BY <2>1, <2>2
<1>7. r[1] = end[3] /\ r[2] = end[2] /\ r[3] = end[1]
  <2>1. 1 \in 1 .. 3 /\ 2 \in 1 .. 3 /\ 3 \in 1 .. 3 OBVIOUS
  <2> QED BY <1>2, <2>1
<1>8. Len(s) >= 3 => t[1] = s[Len(s)] /\ t[2] = s[Len(s) - 1] /\ t[3] = s[Len(s) - 2]
  <2> SUFFICES ASSUME Len(s) >= 3
               PROVE  t[1] = s[Len(s)] /\ t[2] = s[Len(s) - 1] /\ t[3] = s[Len(s) - 2]
    OBVIOUS
  <2>1. 1 \in 1 .. Len(s) /\ 2 \in 1 .. Len(s) /\ 3 \in 1 .. Len(s) BY <1>1
  <2>2. Len(s) - 1 + 1 = Len(s) /\ Len(s) - 2 + 1 = Len(s) - 1 /\ Len(s) - 3 + 1 = Len(s) - 2
    BY <1>1
  <2>3. t[1] = s[Len(s) - 1 + 1] /\ t[2] = s[Len(s) - 2 + 1] /\ t[3] = s[Len(s) - 3 + 1]
    BY <1>3, <2>1
  <2> QED BY <2>2, <2>3
<1>9. Len(s) >= 3 <=> 3 <= Len(s) BY <1>1
<1> QED BY <1>4, <1>5, <1>6, <1>7, <1>8, <1>9

LEMMA SuffixOfPart ==
  ASSUME NEW w \in Text, NEW a \in Int, NEW b \in Int, 1 <= a, a <= b + 1, b <= Len(w),
         NEW end \in Text, Len(end) = 3
  PROVE  IsSuffix(end, SubSeq(w, a, b)) <=> a <= b - 2 /\ IsIn(w, b - 2, end)
<1>0. Len(w) \in Nat BY TextFacts
<1> DEFINE s == SubSeq(w, a, b)
<1>1. s \in Text /\ Len(s) = b - a + 1 /\ \A k \in 1 .. b - a + 1 : s[k] = w[a + k - 1]
  BY PartOfText
<1> HIDE DEF s
<1>2. IsSuffix(end, s) <=> /\ Len(s) >= 3
                           /\ s[Len(s) - 2] = end[1] /\ s[Len(s) - 1] = end[2] /\ s[Len(s)] = end[3]
  BY <1>1, SuffixIs
<1>3. Len(s) >= 3 <=> a <= b - 2 BY <1>1
<1>4. CASE a <= b - 2
  <2>1. /\ Len(s) - 2 \in 1 .. b - a + 1 /\ Len(s) - 1 \in 1 .. b - a + 1 /\ Len(s) \in 1 .. b - a + 1
        /\ a + (Len(s) - 2) - 1 = b - 2 /\ a + (Len(s) - 1) - 1 = b - 1 /\ a + Len(s) - 1 = b
    BY <1>1, <1>4
  <2>2. s[Len(s) - 2] = w[b - 2] /\ s[Len(s) - 1] = w[b - 1] /\ s[Len(s)] = w[b]
    <3>1. /\ s[Len(s) - 2] = w[a + (Len(s) - 2) - 1]
          /\ s[Len(s) - 1] = w[a + (Len(s) - 1) - 1]
          /\ s[Len(s)] = w[a + Len(s) - 1]
      BY <1>1, <2>1
    <3> QED BY <2>1, <3>1
  <2>3. PICK i \in Int : i = b - 2 OBVIOUS
  <2>4. 1 <= i /\ i + 1 = b - 1 /\ i + 2 = b /\ i + 2 <= Len(w) BY <1>0, <1>4, <2>3
  <2>5. IsIn(w, i, end) <=> i + 2 <= Len(w) /\ w[i] = end[1] /\ w[i + 1] = end[2] /\ w[i + 2] = end[3]
    BY <2>4, ThreeIn
  <2>6. IsIn(w, b - 2, end) <=> w[b - 2] = end[1] /\ w[b - 1] = end[2] /\ w[b] = end[3]
    BY <2>3, <2>4, <2>5
  <2> QED BY <1>2, <1>3, <1>4, <2>2, <2>6 DEF s
<1>5. CASE ~(a <= b - 2) BY <1>2, <1>3, <1>5 DEF s
<1> QED BY <1>4, <1>5

LEMMA PartOfPart ==
  ASSUME NEW w \in Text, NEW a \in Int, NEW b \in Int, 1 <= a, a <= b + 1, b <= Len(w),
         NEW i \in Int, NEW j \in Int, 1 <= i, i <= j + 1, j <= b - a + 1
  PROVE  SubSeq(SubSeq(w, a, b), i, j) = SubSeq(w, a + i - 1, a + j - 1)
<1> DEFINE s == SubSeq(w, a, b)
           l == SubSeq(s, i, j)
           r == SubSeq(w, a + i - 1, a + j - 1)
<1>0. Len(w) \in Nat BY TextFacts
<1>1. s \in Text /\ Len(s) = b - a + 1 /\ \A k \in 1 .. b - a + 1 : s[k] = w[a + k - 1]
  BY PartOfText
<1> HIDE DEF s
<1>2. l \in Text /\ Len(l) = j - i + 1 /\ \A k \in 1 .. j - i + 1 : l[k] = s[i + k - 1]
  BY <1>1, PartOfText
<1>3. PICK x \in Int, y \in Int : x = a + i - 1 /\ y = a + j - 1 OBVIOUS
<1>4. 1 <= x /\ x <= y + 1 /\ y <= Len(w) /\ y - x + 1 = j - i + 1 BY <1>0, <1>3
<1>5. /\ SubSeq(w, x, y) \in Text /\ Len(SubSeq(w, x, y)) = y - x + 1
      /\ \A k \in 1 .. y - x + 1 : SubSeq(w, x, y)[k] = w[x + k - 1]
  BY <1>4, PartOfText
<1>6. r = SubSeq(w, x, y) BY <1>3
<1> HIDE DEF l, r
<1>7. ASSUME NEW k \in 1 .. Len(l) PROVE l[k] = r[k]
  <2>0. k \in 1 .. j - i + 1 /\ k \in 1 .. y - x + 1 BY <1>2, <1>4
  <2>1. l[k] = s[i + k - 1] /\ r[k] = w[x + k - 1] BY <1>2, <1>5, <1>6, <2>0
  <2>2. i + k - 1 \in 1 .. b - a + 1 /\ a + (i + k - 1) - 1 = x + k - 1 BY <1>3, <2>0
  <2>3. s[i + k - 1] = w[a + (i + k - 1) - 1] BY <1>1, <2>2
  <2> QED BY <2>1, <2>2, <2>3
<1>8. l = r BY <1>2, <1>4, <1>5, <1>6, <1>7, TextsEqual
<1> QED BY <1>8 DEF l, r, s

-----------------------------------------------------------------------------
(* One character further in a comment, or in what "<!" begins.              *)

CommentRead(w, s, n, c) ==
  /\ s + 3 <= n /\ w[s + 1] = "!" /\ w[s + 2] = "-" /\ w[s + 3] = "-"
  /\ buffer = SubSeq(w, s + 4, n) /\ Append(buffer, c) = SubSeq(w, s + 4, n + 1)
  /\ Len(buffer) = n - s - 3
  /\ \A k \in s + 4 .. n - 2 : ~IsIn(w, k, CommentEnd)
  /\ IsSuffix(CommentEnd, Append(buffer, c)) <=> s + 4 <= n - 1 /\ IsIn(w, n - 1, CommentEnd)
  /\ Markup(w, s, n + 1)
       = IF s + 4 <= n - 1 /\ IsIn(w, n - 1, CommentEnd)
         THEN {<<Item("COMMENT", SubSeq(w, s + 4, n - 2), NoAttributes)>>} ELSE {}

LEMMA CommentStep ==
  ASSUME NEW c, ReadOne(c), NEW w, NEW s, NEW n, At(w, s, n, c), SpecialReading(w, s, n),
         state = "COMMENT"
  PROVE  CommentRead(w, s, n, c)
<1>0. /\ w \in Text /\ s \in Int /\ n \in Int /\ 1 <= s /\ s <= n /\ w[n + 1] = c
      /\ Len(w) \in Nat /\ n + 1 <= Len(w)
  BY TextFacts DEF At
<1>1. /\ s + 3 <= n /\ w[s + 1] = "!" /\ w[s + 2] = "-" /\ w[s + 3] = "-"
      /\ buffer = SubSeq(w, s + 4, n)
      /\ \A k \in s + 4 .. n - 2 : ~IsIn(w, k, CommentEnd)
  BY DEF SpecialReading
<1>2. Append(buffer, c) = SubSeq(w, s + 4, n + 1) /\ Len(buffer) = n - s - 3
  <2>1. PICK k \in Int : k = s + 4 BY <1>0
  <2>2. k \in 1 .. n + 1 /\ n - k + 1 = n - s - 3 BY <1>0, <1>1, <2>1
  <2>3. Grows(w, k, n, c) BY <2>2, BuffersGrow
  <2> QED BY <1>1, <2>1, <2>2, <2>3 DEF Grows
<1>3. IsSuffix(CommentEnd, Append(buffer, c)) <=> s + 4 <= n - 1 /\ IsIn(w, n - 1, CommentEnd)
  <2>1. PICK a \in Int, b \in Int : a = s + 4 /\ b = n + 1 BY <1>0
  <2>2. 1 <= a /\ a <= b + 1 /\ b <= Len(w) /\ b - 2 = n - 1 BY <1>0, <1>1, <2>1
  <2>3. IsSuffix(CommentEnd, SubSeq(w, a, b)) <=> a <= b - 2 /\ IsIn(w, b - 2, CommentEnd)
    BY <1>0, <2>2, SuffixOfPart, Marks
  <2> QED BY <1>2, <2>1, <2>2, <2>3
<1>4. IsSection(w, s, n + 1, CommentStart, CommentEnd)
      <=> s + 4 <= n - 1 /\ IsIn(w, n - 1, CommentEnd)
  <2>1. PICK j \in Int : j = n + 1 BY <1>0
  <2>2. /\ s + 3 <= Len(w) /\ j - 2 = n - 1 /\ j - 3 = n - 2 /\ (s + 6 <= j <=> s + 4 <= n - 1)
    BY <1>0, <1>1, <2>1
  <2>3. IsSection(w, s, j, CommentStart, CommentEnd)
        <=> /\ w[s + 1] = "!" /\ s + 3 <= Len(w) /\ w[s + 2] = "-" /\ w[s + 3] = "-"
            /\ s + 6 <= j /\ IsIn(w, j - 2, CommentEnd)
            /\ \A k \in s + 4 .. j - 3 : ~IsIn(w, k, CommentEnd)
    BY <1>0, CommentIs
  <2> QED BY <1>1, <2>1, <2>2, <2>3
<1>5. Markup(w, s, n + 1)
        = IF s + 4 <= n - 1 /\ IsIn(w, n - 1, CommentEnd)
          THEN {<<Item("COMMENT", SubSeq(w, s + 4, n - 2), NoAttributes)>>} ELSE {}
  <2>1. PICK j \in Int : j = n + 1 BY <1>0
  <2>2. j - 3 = n - 2 /\ j - s - 4 = Len(buffer) BY <1>0, <1>2, <2>1
  <2>3. j - s - 4 <= MaxBuffer BY <2>2, Before
  <2>4. Markup(w, s, j) = IF IsSection(w, s, j, CommentStart, CommentEnd) /\ j - s - 4 <= MaxBuffer
                          THEN {<<Item("COMMENT", SubSeq(w, s + 4, j - 3), NoAttributes)>>}
                          ELSE {}
    BY <1>0, <1>1, CommentMarkup
  <2> QED BY <1>4, <2>1, <2>2, <2>3, <2>4
<1> QED BY <1>1, <1>2, <1>3, <1>5 DEF CommentRead

LEMMA ReadCommentFollows ==
  ASSUME NEW c, ReadOne(c), NEW w, NEW s, NEW n, At(w, s, n, c), SpecialReading(w, s, n),
         ReadComment(c)
  PROVE  Outcome(w, s, n + 1)
<1>0. state = "COMMENT" /\ specialPrefix' = specialPrefix BY DEF ReadComment
<1>1. /\ w \in Text /\ s \in Int /\ n \in Int /\ 1 <= s /\ s <= n /\ w[n + 1] = c
      /\ Len(w) \in Nat /\ n + 1 <= Len(w)
  BY TextFacts DEF At
<1>7. CommentRead(w, s, n, c) BY <1>0, CommentStep
<1>2. /\ s + 3 <= n /\ w[s + 1] = "!" /\ w[s + 2] = "-" /\ w[s + 3] = "-"
      /\ buffer = SubSeq(w, s + 4, n) /\ Append(buffer, c) = SubSeq(w, s + 4, n + 1)
      /\ Len(buffer) = n - s - 3
      /\ \A k \in s + 4 .. n - 2 : ~IsIn(w, k, CommentEnd)
  BY <1>7 DEF CommentRead
<1>3. /\ IsSuffix(CommentEnd, Append(buffer, c)) <=> s + 4 <= n - 1 /\ IsIn(w, n - 1, CommentEnd)
      /\ Markup(w, s, n + 1)
           = IF s + 4 <= n - 1 /\ IsIn(w, n - 1, CommentEnd)
             THEN {<<Item("COMMENT", SubSeq(w, s + 4, n - 2), NoAttributes)>>} ELSE {}
  BY <1>7 DEF CommentRead
<1> DEFINE read == Append(buffer, c)
<1>4. read \in Text /\ Len(read) = n - s - 2
  <2>1. read \in Seq(Chars) /\ Len(read) = Len(buffer) + 1 BY ReadIs
  <2> QED BY <1>1, <1>2, <2>1 DEF Text
<1>5. CASE /\ IsSuffix(CommentEnd, read)
           /\ Emit(Item("COMMENT", SubSeq(read, 1, Len(read) - 3), NoAttributes))
           /\ buffer' = <<>> /\ state' = "TEXT" /\ UNCHANGED error
  <2>0. IsSuffix(CommentEnd, Append(buffer, c)) BY <1>5
  <2>1. s + 4 <= n - 1 /\ IsIn(w, n - 1, CommentEnd) BY <1>3, <2>0
  <2>2. Markup(w, s, n + 1) = {<<Item("COMMENT", SubSeq(w, s + 4, n - 2), NoAttributes)>>}
    BY <1>3, <2>1
  <2>3. SubSeq(read, 1, Len(read) - 3) = SubSeq(w, s + 4, n - 2) /\ SubSeq(w, s + 4, n - 2) \in Text
    <3>1. PICK a \in Int, b \in Int, j \in Int : a = s + 4 /\ b = n + 1 /\ j = n - s - 5 BY <1>1
    <3>2. /\ 1 <= a /\ a <= b + 1 /\ b <= Len(w) /\ 1 \in Int /\ 1 <= 1 /\ 1 <= j + 1 /\ j <= b - a + 1
          /\ a + 1 - 1 = s + 4 /\ a + j - 1 = n - 2 /\ Len(read) - 3 = j
      BY <1>1, <1>2, <1>4, <2>1, <3>1
    <3>3. SubSeq(SubSeq(w, a, b), 1, j) = SubSeq(w, a + 1 - 1, a + j - 1)
      BY <1>1, <3>2, PartOfPart
    <3>4. SubSeq(w, a, n - 2) \in Text
      <4>1. n - 2 \in Int /\ a <= (n - 2) + 1 /\ n - 2 <= Len(w) BY <1>1, <2>1, <3>1
      <4> QED BY <1>1, <3>2, <4>1, PartOfText
    <3> QED BY <1>2, <3>1, <3>2, <3>3, <3>4
  <2>4. Emit(Item("COMMENT", SubSeq(w, s + 4, n - 2), NoAttributes)) BY <1>5, <2>3
  <2>5. /\ Item("COMMENT", SubSeq(w, s + 4, n - 2), NoAttributes) \in Tokens
        /\ Item("COMMENT", SubSeq(w, s + 4, n - 2), NoAttributes).type # "TEXT_CONTENT"
    BY <2>3 DEF Item, Tokens, TokenTypes, NoAttributes, Text
  <2> QED BY <1>5, <2>2, <2>4, <2>5, Before DEF Outcome, Ended
<1>6. CASE ~IsSuffix(CommentEnd, read) /\ Grow(c) /\ UNCHANGED <<state, emitted>>
  <2>0. ~IsSuffix(CommentEnd, Append(buffer, c)) BY <1>6
  <2>1. Markup(w, s, n + 1) = {} BY <1>3, <2>0
  <2>2. CASE error' # "NONE"
    <3>1. ~CdataBegun(w, s, n + 1) BY <1>2 DEF CdataBegun
    <3> QED BY <1>0, <1>6, <2>1, <2>2, <3>1 DEF Outcome, Failed
  <2>3. CASE error' = "NONE"
    <3>1. buffer' = SubSeq(w, s + 4, n + 1) BY <1>2, <1>6 DEF Grow
    <3>2. ASSUME NEW k \in s + 4 .. (n + 1) - 2 PROVE ~IsIn(w, k, CommentEnd)
      <4>1. CASE k = n - 1 BY <1>1, <1>3, <2>0, <4>1
      <4>2. CASE k # n - 1
        <5>1. k \in s + 4 .. n - 2 BY <1>1, <4>2
        <5> QED BY <1>2, <5>1
      <4> QED BY <4>1, <4>2
    <3>3. s + 3 <= n + 1 BY <1>1, <1>2
    <3>4. SpecialReading(w, s, n + 1)' BY <1>0, <1>2, <1>6, <3>1, <3>2, <3>3 DEF SpecialReading
    <3> QED BY <1>6, <2>1, <2>3, <3>4 DEF Outcome, GoesOn
  <2> QED BY <2>2, <2>3
<1> QED BY <1>5, <1>6 DEF ReadComment

(* No markup ends within "<!--" or "<![CDATA[".                             *)
LEMMA NoEndInMark ==
  ASSUME NEW w \in Text, NEW s \in Int, 1 <= s, NEW j \in Int, j <= s + 4, w[s + 1] = "!"
  PROVE  Markup(w, s, j) = {}
<1>1. CASE w[s + 2] = "-"
  <2>1. ~IsSection(w, s, j, CommentStart, CommentEnd)
    <3>1. ~(s + 6 <= j) OBVIOUS
    <3> QED BY <3>1, CommentIs
  <2> QED BY <1>1, <2>1, CommentMarkup
<1>2. CASE w[s + 2] = "["
  <2>1. ~IsSection(w, s, j, CdataStart, CdataEnd)
    <3>1. ~(s + 7 <= j) OBVIOUS
    <3> QED BY <3>1, CdataIs
  <2> QED BY <1>2, <2>1, CdataMarkup
<1>3. CASE w[s + 2] \notin {"-", "["} BY <1>3, MarkupOfKind
<1> QED BY <1>1, <1>2, <1>3

(* The beginnings of the two marks.                                         *)
LEMMA ShortMarks ==
  ASSUME NEW s \in Text, Len(s) >= 1,
         IsStrictPrefix(s, CommentStart) \/ IsStrictPrefix(s, CdataStart)
  PROVE  s \in {<<"-">>, <<"[">>, <<"[", "CDATA">>}
<1>1. PICK l \in Nat : l = Len(s) BY TextFacts
<1>4. l >= 1 BY <1>1
<1>2. ASSUME IsStrictPrefix(s, CommentStart) PROVE s = <<"-">>
  <2>1. IsPrefix(s, CommentStart) /\ s # CommentStart BY <1>2 DEF IsStrictPrefix
  <2>2. Len(s) <= Len(CommentStart) /\ \A k \in 1 .. Len(s) : s[k] = CommentStart[k]
    BY <2>1, PrefixIs, Marks
  <2>3. Len(s) # 2 BY <2>1, <2>2, Marks, TextsEqual
  <2>6. l <= 2 /\ l # 2 BY <1>1, <2>2, <2>3, Marks
  <2>7. l = 1 BY <1>4, <2>6
  <2>4. Len(s) = 1 /\ 1 \in 1 .. Len(s) BY <1>1, <2>7
  <2>5. s[1] = "-" BY <2>2, <2>4, Marks
  <2> QED BY <2>4, <2>5 DEF Text
<1>3. ASSUME IsStrictPrefix(s, CdataStart) PROVE s \in {<<"[">>, <<"[", "CDATA">>}
  <2>1. IsPrefix(s, CdataStart) /\ s # CdataStart BY <1>3 DEF IsStrictPrefix
  <2>2. Len(s) <= Len(CdataStart) /\ \A k \in 1 .. Len(s) : s[k] = CdataStart[k]
    BY <2>1, PrefixIs, Marks
  <2>3. Len(s) # 3 BY <2>1, <2>2, Marks, TextsEqual
  <2>8. l <= 3 /\ l # 3 BY <1>1, <2>2, <2>3, Marks
  <2>9. 1 \in 1 .. l /\ (l = 1 \/ l = 2) BY <1>4, <2>8
  <2>4. 1 \in 1 .. Len(s) /\ (Len(s) = 1 \/ Len(s) = 2) BY <1>1, <2>9
  <2>5. s[1] = "[" BY <2>2, <2>4, Marks
  <2>6. CASE Len(s) = 1 BY <2>5, <2>6 DEF Text
  <2>7. CASE Len(s) = 2
    <3>1. 2 \in 1 .. Len(s) BY <2>7
    <3>2. s[2] = "CDATA" BY <2>2, <3>1, Marks
    <3> QED BY <2>5, <2>7, <3>2 DEF Text
  <2> QED BY <2>4, <2>6, <2>7
<1> QED BY <1>2, <1>3

LEMMA ReadSpecialFollows ==
  ASSUME NEW c, ReadOne(c), NEW w, NEW s, NEW n, At(w, s, n, c), SpecialReading(w, s, n),
         ReadSpecial(c)
  PROVE  Outcome(w, s, n + 1)
<1>0. /\ state = "SPECIAL" /\ specialPrefix' = Append(specialPrefix, c) /\ emitted' = emitted
      /\ error = "NONE"
  BY Before DEF ReadSpecial
<1>1. /\ w \in Text /\ s \in Int /\ n \in Int /\ 1 <= s /\ s <= n /\ w[n + 1] = c
      /\ Len(w) \in Nat /\ n + 1 <= Len(w) /\ n <= Len(w)
  BY TextFacts DEF At
<1>2. /\ w[s + 1] = "!" /\ s < n /\ specialPrefix = SubSeq(w, s + 2, n)
      /\ specialPrefix \in {<<>>, <<"-">>, <<"[">>, <<"[", "CDATA">>}
  BY <1>0 DEF SpecialReading
<1>3. PICK a \in Int : a = s + 2 BY <1>1
<1>4. a \in 1 .. n + 1 /\ 1 <= a /\ a <= n + 1 BY <1>1, <1>2, <1>3
<1>5. /\ Len(specialPrefix) = n - a + 1
      /\ \A k \in 1 .. n - a + 1 : specialPrefix[k] = w[a + k - 1]
  BY <1>1, <1>2, <1>3, <1>4, PartOfText
<1>6. n + 1 <= s + 4
  <2>2. Len(<<>>) <= 2 /\ Len(<<"-">>) <= 2 /\ Len(<<"[">>) <= 2 /\ Len(<<"[", "CDATA">>) <= 2
    OBVIOUS
  <2>1. Len(specialPrefix) <= 2 BY <1>2, <2>2
  <2> QED BY <1>1, <1>3, <1>5, <2>1
<1>7. Markup(w, s, n + 1) = {}
  <2>1. n + 1 \in Int BY <1>1
  <2> QED BY <1>1, <1>2, <1>6, <2>1, NoEndInMark
<1>8. specialPrefix' = SubSeq(w, a, n + 1)
  <2>1. Grows(w, a, n, c) BY <1>4, BuffersGrow
  <2> QED BY <1>0, <1>2, <1>3, <2>1 DEF Grows
<1>9. /\ specialPrefix' \in Text /\ Len(specialPrefix') = n - a + 2 /\ Len(specialPrefix') >= 1
      /\ \A k \in 1 .. n - a + 2 : specialPrefix'[k] = w[a + k - 1]
  <2>1. PICK b \in Int : b = n + 1 BY <1>1
  <2>2. a <= b + 1 /\ b <= Len(w) /\ b - a + 1 = n - a + 2 BY <1>1, <1>4, <2>1
  <2>3. /\ SubSeq(w, a, b) \in Text /\ Len(SubSeq(w, a, b)) = b - a + 1
        /\ \A k \in 1 .. b - a + 1 : SubSeq(w, a, b)[k] = w[a + k - 1]
    BY <1>1, <1>4, <2>2, PartOfText
  <2>4. n - a + 2 >= 1 BY <1>1, <1>4
  <2> QED BY <1>8, <2>1, <2>2, <2>3, <2>4
<1>10. CASE specialPrefix' = CommentStart /\ state' = "COMMENT" /\ buffer' = <<>> /\ error' = error
  <2>1. n - a + 2 = 2 BY <1>9, <1>10, Marks
  <2>2. n = s + 2 BY <1>1, <1>3, <2>1
  <2>3. 1 \in 1 .. n - a + 2 /\ 2 \in 1 .. n - a + 2 /\ a + 1 - 1 = s + 2 /\ a + 2 - 1 = s + 3
    BY <1>1, <1>3, <2>1
  <2>4. w[s + 2] = "-" /\ w[s + 3] = "-"
    <3>1. specialPrefix'[1] = w[a + 1 - 1] /\ specialPrefix'[2] = w[a + 2 - 1] BY <1>9, <2>3
    <3> QED BY <1>10, <2>3, <3>1, Marks
  <2>5. buffer' = SubSeq(w, s + 4, n + 1)
    <3>1. PICK x \in Int : x = s + 4 BY <1>1
    <3>2. 1 <= x /\ x <= Len(w) + 1 /\ x - 1 = n + 1 BY <1>1, <2>2, <3>1
    <3>3. SubSeq(w, x, x - 1) = <<>> BY <1>1, <3>2, NoPart
    <3> QED BY <1>10, <3>1, <3>2, <3>3
  <2>6. s + 3 <= n + 1 /\ \A k \in s + 4 .. (n + 1) - 2 : FALSE BY <1>1, <2>2
  <2>7. SpecialReading(w, s, n + 1)' BY <1>2, <1>10, <2>4, <2>5, <2>6 DEF SpecialReading
  <2> QED BY <1>0, <1>7, <1>10, <2>7 DEF Outcome, GoesOn
<1>11. CASE specialPrefix' = CdataStart /\ state' = "CDATA" /\ buffer' = <<>> /\ error' = error
  <2>1. n - a + 2 = 3 BY <1>9, <1>11, Marks
  <2>2. n = s + 3 /\ n + 1 = s + 4 BY <1>1, <1>3, <2>1
  <2>3. /\ 1 \in 1 .. n - a + 2 /\ 2 \in 1 .. n - a + 2 /\ 3 \in 1 .. n - a + 2
        /\ a + 1 - 1 = s + 2 /\ a + 2 - 1 = s + 3 /\ a + 3 - 1 = s + 4
    BY <1>1, <1>3, <2>1
  <2>4. w[s + 2] = "[" /\ w[s + 3] = "CDATA" /\ w[s + 4] = "["
    <3>1. /\ specialPrefix'[1] = w[a + 1 - 1] /\ specialPrefix'[2] = w[a + 2 - 1]
          /\ specialPrefix'[3] = w[a + 3 - 1]
      BY <1>9, <2>3
    <3> QED BY <1>11, <2>3, <3>1, Marks
  <2>5. Len(buffer') = 0 BY <1>11
  <2>6. buffer' = SubSeq(w, (n + 1) - Len(buffer') + 1, n + 1)
    <3>1. PICK x \in Int : x = n + 2 BY <1>1
    <3>2. 1 <= x /\ x <= Len(w) + 1 /\ x - 1 = n + 1 /\ (n + 1) - Len(buffer') + 1 = x
      BY <1>1, <2>2, <2>5, <3>1
    <3>3. SubSeq(w, x, x - 1) = <<>> BY <1>1, <3>2, NoPart
    <3> QED BY <1>11, <3>2, <3>3
  <2>7. /\ s + 4 <= n + 1 /\ s + 4 + Len(buffer') <= n + 1 /\ ~(s + 4 < n + 1) /\ ~(s + 5 < n + 1)
        /\ \A k \in s + 5 .. (n + 1) - 2 : FALSE
    BY <1>1, <2>2, <2>5
  <2>8. CdataReading(w, s, n + 1)' BY <1>2, <1>11, <2>4, <2>6, <2>7 DEF CdataReading
  <2> QED BY <1>0, <1>7, <1>11, <2>2, <2>8 DEF Outcome, GoesOn
<1>12. CASE /\ IsStrictPrefix(specialPrefix', CommentStart) \/ IsStrictPrefix(specialPrefix', CdataStart)
            /\ UNCHANGED <<state, buffer, error>>
  <2>1. specialPrefix' \in {<<"-">>, <<"[">>, <<"[", "CDATA">>} BY <1>9, <1>12, ShortMarks
  <2>2. s < n + 1 /\ specialPrefix' = SubSeq(w, s + 2, n + 1) BY <1>1, <1>2, <1>3, <1>8
  <2>3. SpecialReading(w, s, n + 1)' BY <1>0, <1>2, <1>12, <2>1, <2>2 DEF SpecialReading
  <2> QED BY <1>0, <1>7, <1>12, <2>3 DEF Outcome, GoesOn
<1>13. CASE /\ ~IsPrefix(specialPrefix', CdataStart)
            /\ error' = "MALFORMED_INPUT" /\ UNCHANGED <<state, buffer>>
  <2>1. ASSUME CdataBegun(w, s, n + 1) PROVE FALSE
    <3>1. n = s + 3 BY <1>1, <1>6, <2>1 DEF CdataBegun
    <3>2. n - a + 2 = 3 /\ a + 1 - 1 = s + 2 /\ a + 2 - 1 = s + 3 /\ a + 3 - 1 = s + 4
          /\ 1 \in 1 .. n - a + 2 /\ 2 \in 1 .. n - a + 2 /\ 3 \in 1 .. n - a + 2
      BY <1>1, <1>3, <3>1
    <3>3. /\ specialPrefix'[1] = w[a + 1 - 1] /\ specialPrefix'[2] = w[a + 2 - 1]
          /\ specialPrefix'[3] = w[a + 3 - 1]
      BY <1>9, <3>2
    <3>4. specialPrefix'[1] = "[" /\ specialPrefix'[2] = "CDATA" /\ specialPrefix'[3] = "["
      BY <2>1, <3>2, <3>3 DEF CdataBegun
    <3>5. \A k \in 1 .. 3 : k = 1 \/ k = 2 \/ k = 3 OBVIOUS
    <3>6. Len(specialPrefix') = 3 BY <1>9, <3>2
    <3>7. \A k \in 1 .. 3 : specialPrefix'[k] = CdataStart[k] BY <3>4, <3>5, Marks
    <3>8. IsPrefix(specialPrefix', CdataStart)
      <4>1. /\ specialPrefix' \in Text /\ CdataStart \in Text
            /\ Len(specialPrefix') <= Len(CdataStart)
            /\ \A k \in 1 .. Len(specialPrefix') : specialPrefix'[k] = CdataStart[k]
        <5>1. Len(specialPrefix') <= Len(CdataStart) BY <3>6, Marks
        <5>2. \A k \in 1 .. Len(specialPrefix') : specialPrefix'[k] = CdataStart[k]
          BY <3>6, <3>7
        <5> QED BY <1>9, <5>1, <5>2, Marks
      <4> QED BY <4>1, PrefixIs
    <3> QED BY <1>13, <3>8
  <2> QED BY <1>0, <1>7, <1>13, <2>1 DEF Outcome, Failed
<1> QED BY <1>10, <1>11, <1>12, <1>13 DEF ReadSpecial

-----------------------------------------------------------------------------
(* What the tokenizer rejects ends no markup.                               *)

LEMMA Untaken ==
  ASSUME NEW c, ~Taken(c), c = ">"
  PROVE  /\ state \notin EndStates \cup {"TEXT", "SPECIAL", "COMMENT", "CDATA"}
         /\ state = "START_TAG_NAME" => buffer = <<>>
         /\ state = "END_TAG_NAME" => buffer = <<>>
<1>1. state \notin EndStates \cup {"TEXT", "SPECIAL", "COMMENT", "CDATA"} BY DEF Taken
<1>2. ~TagNameEndsWith(c, "TEXT")
  <2>1. "TEXT" \in States BY DEF States, TagStates
  <2> QED BY <2>1 DEF Taken
<1>3. ASSUME state = "START_TAG_NAME", buffer # <<>> PROVE FALSE
  <2>1. <<c, "TEXT">> \in TagNameEnds[state].mark /\ state \in DOMAIN TagNameEnds
    BY <1>3 DEF TagNameEnds
  <2> QED BY <1>2, <1>3, <2>1 DEF TagNameEndsWith
<1>4. ASSUME state = "END_TAG_NAME", buffer # <<>> PROVE FALSE
  <2>1. <<c, "TEXT">> \in TagNameEnds[state].mark /\ state \in DOMAIN TagNameEnds
    BY <1>4 DEF TagNameEnds
  <2> QED BY <1>2, <1>4, <2>1 DEF TagNameEndsWith
<1> QED BY <1>1, <1>3, <1>4

LEMMA RejectFollows ==
  ASSUME NEW c, ReadOne(c), NEW w, NEW s, NEW n, At(w, s, n, c), TagReading(w, s, n), Reject(c)
  PROVE  Outcome(w, s, n + 1)
<1>0. ~Taken(c) /\ error' # "NONE" /\ state' = state /\ emitted' = emitted BY DEF Reject
<1>1. /\ w \in Text /\ s \in Int /\ n \in Int /\ 1 <= s /\ s <= n /\ w[n + 1] = c
      /\ Len(w) \in Nat /\ n + 1 <= Len(w) /\ n <= Len(w)
  BY TextFacts DEF At
<1>2. state' \notin {"TEXT", "CDATA"} /\ ~CdataBegun(w, s, n + 1) BY <1>0, ReadingOf, TagIsNotCdata
<1>3. Markup(w, s, n + 1) = {}
  <2>1. CASE c # ">" BY <2>1, NotTheEnd
  <2>2. CASE c = ">"
    <3>1. /\ state \notin EndStates
          /\ state = "START_TAG_NAME" => buffer = <<>>
          /\ state = "END_TAG_NAME" => buffer = <<>>
      BY <1>0, <2>2, Untaken
    <3>2. CASE state = "AFTER_OPEN"
      <4>1. s = n BY <3>2, ReadingOf
      <4>2. w[s + 1] \notin NameCharacters \cup {"?", "/", "!"}
        <5>1. w[s + 1] = ">" BY <1>1, <2>2, <4>1
        <5> QED BY <5>1, Classes
      <4>3. n + 1 \in Int BY <1>1
      <4> QED BY <1>1, <4>2, <4>3, MarkupOfKind
    <3>3. CASE state = "START_TAG_NAME"
      <4>1. s < n /\ NameRead(w, s + 1, n) BY <3>3, ReadingOf
      <4>2. PICK a \in Int : a = s + 1 BY <1>1
      <4>3. 1 <= a /\ a <= n + 1 /\ n - a + 1 >= 1 BY <1>1, <4>1, <4>2
      <4>4. Len(SubSeq(w, a, n)) = n - a + 1 BY <1>1, <4>3, PartOfText
      <4>5. SubSeq(w, a, n) = <<>> BY <3>1, <3>3, <4>1, <4>2 DEF NameRead
      <4>6. Len(SubSeq(w, a, n)) = 0 BY <4>5
      <4>7. n - a + 1 = 0 BY <4>4, <4>6
      <4> QED BY <4>3, <4>7
    <3>4. CASE state = "END_TAG_NAME"
      <4>1. s < n /\ w[s + 1] = "/" /\ NameRead(w, s + 2, n) BY <3>4, ReadingOf
      <4>2. PICK a \in Int : a = s + 2 BY <1>1
      <4>3. 1 <= a /\ a <= n + 1 BY <1>1, <4>1, <4>2
      <4>4. Len(SubSeq(w, a, n)) = n - a + 1 BY <1>1, <4>3, PartOfText
      <4>5. SubSeq(w, a, n) = <<>> BY <3>1, <3>4, <4>1, <4>2 DEF NameRead
      <4>6. Len(SubSeq(w, a, n)) = 0 BY <4>5
      <4>7. n + 1 = s + 2 BY <1>1, <4>2, <4>4, <4>6
      <4> QED BY <1>1, <4>1, <4>7, NoCloseTagYet
    <3>5. CASE state = "DECLARATION_NAME"
      <4>1. s < n /\ w[s + 1] = "?" /\ NameRead(w, s + 2, n) BY <3>5, ReadingOf
      <4>2. w[n] = "?" => \A m \in s + 2 .. n - 1 : ~IsNameAndBody(w, s + 2, m, n - 1)
        <5>1. CASE n = (s + 2) - 1
          <6>1. \A m \in s + 2 .. n - 1 : FALSE BY <1>1, <5>1
          <6> QED BY <6>1
        <5>2. CASE IsName(w, s + 2, n)
          <6>1. s + 2 \in Int BY <1>1
          <6>2. w[n] \in NameCharacters BY <1>1, <5>2, <6>1, NamesAre
          <6> QED BY <6>2, Classes
        <5> QED BY <4>1, <5>1, <5>2 DEF NameRead
      <4> QED BY <1>1, <4>1, <4>2, NoDeclaration
    <3>6. ASSUME NEW p \in AttributePaths, state \in {p.name, p.afterName, p.valueStart, p.value}
          PROVE  Markup(w, s, n + 1) = {}
      BY <3>6, AttributeHere
    <3>7. CASE state = "DECLARATION_BODY"
      <4>1. PICK p \in AttributePaths : p.body = "DECLARATION_BODY" BY PathOfStates
      <4>2. PICK f \in {s + 1, s + 2}, type \in {"OPEN_TAG", "DECLARATION"} :
              Lead(w, s, p, f, type) /\ \E m \in f .. n : HeadRead(w, f, m, n + 1, type)
        BY <3>7, <4>1, BodyRead
      <4>3. PICK m \in f .. n : HeadRead(w, f, m, n + 1, type) BY <4>2
      <4>4. m + 1 < n + 1 /\ IsBody(w, m + 1, n)
        <5>1. (n + 1) - 1 = n BY <1>1
        <5> QED BY <4>3, <5>1 DEF HeadRead
      <4>5. m + 1 \in Int /\ m + 1 <= n BY <1>1, <4>4
      <4>6. w[n] \in Spaces \cup Quotes BY <1>1, <4>4, <4>5, BodyLast
      <4>7. w[n] # "?" BY <4>6, Classes
      <4>8. w[s + 1] = "?" BY <4>1, <4>2 DEF Lead
      <4> QED BY <1>1, <4>7, <4>8, NoDeclaration
    <3>8. \/ state \in {"AFTER_OPEN", "START_TAG_NAME", "END_TAG_NAME", "DECLARATION_NAME",
                        "DECLARATION_BODY"}
          \/ \E p \in AttributePaths : state \in {p.name, p.afterName, p.valueStart, p.value}
      <4>1. state \in States /\ state \notin {"TEXT", "SPECIAL", "COMMENT", "CDATA"} /\ state \notin EndStates
        BY <3>1, ReadingOf, Before
      <4>2. state \in AttributeStates
            => \E p \in AttributePaths : state \in {p.name, p.afterName, p.valueStart, p.value}
        BY DEF AttributeStates, AttributePaths, AttributesOf
      <4> QED BY <4>1, <4>2 DEF States, TagStates, EndStates
    <3> QED BY <3>2, <3>3, <3>4, <3>5, <3>6, <3>7, <3>8
  <2> QED BY <2>1, <2>2
<1> QED BY <1>0, <1>2, <1>3 DEF Outcome, Failed

-----------------------------------------------------------------------------
(* Whatever takes the next character of a markup.                           *)

LEMMA TagActions ==
  ASSUME NEW c, state \in {"TEXT", "SPECIAL", "COMMENT", "CDATA"}
  PROVE  /\ ~OpenMarkup(c) /\ ~GrowName(c) /\ ~EndTagName(c) /\ ~StartAttribute(c)
         /\ ~EndAttributeName(c) /\ ~StartValue(c) /\ ~ReadValue(c) /\ ~Move(c) /\ ~EndTag(c)
         /\ ~Reject(c)
<1>1. ~OpenMarkup(c) BY DEF OpenMarkup
<1>2. ~GrowName(c) BY DEF GrowName, NameStates
<1>3. ~EndTagName(c) BY DEF EndTagName, TagNameEndsWith, TagNameEnds
<1>4. ~StartAttribute(c) BY Paths DEF StartAttribute
<1>5. ~EndAttributeName(c) BY Paths DEF EndAttributeName
<1>6. ~StartValue(c) BY Paths DEF StartValue
<1>7. ~ReadValue(c) BY Paths DEF ReadValue
<1>8. ~Move(c)
  <2> SUFFICES ASSUME Move(c) PROVE FALSE OBVIOUS
  <2>1. \/ state = "END_TAG_BODY"
        \/ \E p \in AttributePaths : state \in {p.body, p.afterName, p.valueStart}
    BY HowMoves
  <2> QED BY <2>1, Paths
<1>9. ~EndTag(c) BY DEF EndTag, EndStates
<1>10. ~Reject(c) BY DEF Reject, Taken
<1> QED BY <1>1, <1>2, <1>3, <1>4, <1>5, <1>6, <1>7, <1>8, <1>9, <1>10

LEMMA MarkupFollows ==
  ASSUME NEW c, ReadOne(c), NEW w, NEW s, NEW n, At(w, s, n, c), Consume(c),
         TagReading(w, s, n) \/ SpecialReading(w, s, n)
  PROVE  Outcome(w, s, n + 1)
<1>1. CASE TagReading(w, s, n)
  <2>1. state \notin {"TEXT", "SPECIAL", "COMMENT", "CDATA"} BY <1>1, ReadingOf
  <2>2. ~ReadText(c) /\ ~ReadSpecial(c) /\ ~ReadComment(c) /\ ~ReadCdata(c)
    BY <2>1 DEF ReadText, ReadSpecial, ReadComment, ReadCdata
  <2>3. CASE OpenMarkup(c) BY <1>1, <2>3, OpenMarkupFollows
  <2>4. CASE GrowName(c) BY <1>1, <2>4, GrowNameFollows
  <2>5. CASE EndTagName(c) BY <1>1, <2>5, EndTagNameFollows
  <2>6. CASE StartAttribute(c) BY <1>1, <2>6, StartAttributeFollows
  <2>7. CASE EndAttributeName(c) BY <1>1, <2>7, EndAttributeNameFollows
  <2>8. CASE StartValue(c) BY <1>1, <2>8, StartValueFollows
  <2>9. CASE ReadValue(c) BY <1>1, <2>9, ReadValueFollows
  <2>10. CASE Move(c) BY <1>1, <2>10, MoveFollows
  <2>11. CASE EndTag(c) BY <1>1, <2>11, EndTagFollows
  <2>12. CASE Reject(c) BY <1>1, <2>12, RejectFollows
  <2> QED
    BY <2>2, <2>3, <2>4, <2>5, <2>6, <2>7, <2>8, <2>9, <2>10, <2>11, <2>12 DEF Consume
<1>2. CASE SpecialReading(w, s, n)
  <2>1. state \in {"SPECIAL", "COMMENT"} BY <1>2 DEF SpecialReading
  <2>2. ~ReadText(c) /\ ~ReadCdata(c) BY <2>1 DEF ReadText, ReadCdata
  <2>3. CASE ReadSpecial(c) BY <1>2, <2>3, ReadSpecialFollows
  <2>4. CASE ReadComment(c) BY <1>2, <2>4, ReadCommentFollows
  <2> QED BY <2>1, <2>2, <2>3, <2>4, TagActions DEF Consume
<1> QED BY <1>1, <1>2

-----------------------------------------------------------------------------
(* What is emitted.                                                         *)

LEMMA Joins ==
  ASSUME NEW r \in Seq(AnItem), NEW s \in Seq(AnItem), NEW t \in Seq(AnItem)
  PROVE  (r \o s) \o t = r \o (s \o t)
  OBVIOUS

LEMMA JoinsNothing ==
  ASSUME NEW s \in Seq(AnItem)
  PROVE  s \o <<>> = s /\ <<>> \o s = s /\ <<>> \in Seq(AnItem)
  OBVIOUS

LEMMA TokensAreAllItems == Tokens = AnItem
  BY DEF Tokens, AnItem, Text

LEMMA ItemsOfToken ==
  ASSUME NEW token \in Tokens
  PROVE  /\ ItemsOf(token) \in Seq(AnItem)
         /\ token.type # "TEXT_CONTENT" => ItemsOf(token) = <<token>>
<1>1. token.content \in Text /\ token \in AnItem BY TokensAreAllItems DEF Tokens, Text
<1>2. CASE token.type = "TEXT_CONTENT" BY <1>1, <1>2, TextIsItems DEF ItemsOf
<1>3. CASE token.type # "TEXT_CONTENT" BY <1>1, <1>3 DEF ItemsOf
<1> QED BY <1>2, <1>3

ItemsEmitted == [k \in DOMAIN emitted |-> ItemsOf(emitted[k])]

LEMMA FlatItems ==
  ASSUME emitted \in Seq(Tokens)
  PROVE  ItemsEmitted \in Seq(Seq(AnItem)) /\ Flat \in Seq(AnItem) /\ Flat = FlattenSeq(ItemsEmitted)
<1>1. \A k \in 1 .. Len(emitted) : ItemsOf(emitted[k]) \in Seq(AnItem) BY ItemsOfToken
<1>2. ItemsEmitted \in Seq(Seq(AnItem))
  <2>1. DOMAIN emitted = 1 .. Len(emitted) /\ Len(emitted) \in Nat OBVIOUS
  <2>2. ItemsEmitted = [k \in 1 .. Len(emitted) |-> ItemsOf(emitted[k])]
    BY <2>1, Zenon DEF ItemsEmitted
  <2> QED BY <1>1, <2>1, <2>2
<1>3. Flat = FlattenSeq(ItemsEmitted) BY Zenon DEF Flat, ItemsEmitted
<1> QED BY <1>2, <1>3, FlattenIsItems

LEMMA FlatGrows ==
  ASSUME emitted \in Seq(Tokens), NEW token \in Tokens, Emit(token)
  PROVE  Flat' = Flat \o ItemsOf(token)
<1>1. emitted' = Append(emitted, token) BY DEF Emit
<1>2. /\ Len(emitted') = Len(emitted) + 1 /\ Len(emitted) \in Nat
      /\ DOMAIN emitted = 1 .. Len(emitted) /\ DOMAIN emitted' = 1 .. Len(emitted) + 1
      /\ \A k \in 1 .. Len(emitted) : emitted'[k] = emitted[k]
      /\ emitted'[Len(emitted) + 1] = token
  BY <1>1
<1>3. PICK l \in Nat : l = Len(emitted) BY <1>2
<1>4. /\ ItemsEmitted = [k \in 1 .. l |-> ItemsOf(emitted[k])]
      /\ ItemsEmitted' = [k \in 1 .. l + 1 |-> ItemsOf(emitted'[k])]
  BY <1>2, <1>3, Zenon DEF ItemsEmitted, ItemsOf
<1>5. ItemsEmitted \in Seq(Seq(AnItem)) /\ Flat = FlattenSeq(ItemsEmitted) BY FlatItems
<1>6. ItemsOf(token) \in Seq(AnItem) BY ItemsOfToken
<1>7. ItemsEmitted' = Append(ItemsEmitted, ItemsOf(token))
  <2> DEFINE a == ItemsEmitted
             b == ItemsEmitted'
             e == ItemsOf(token)
             it(x) == ItemsOf(x)
  <2>1. a = [k \in 1 .. l |-> it(emitted[k])] /\ b = [k \in 1 .. l + 1 |-> it(emitted'[k])] BY <1>4
  <2>2. /\ \A k \in 1 .. l : it(emitted'[k]) = it(emitted[k])
        /\ it(emitted'[l + 1]) = e
    BY <1>2, <1>3
  <2>3. \A k \in 1 .. l : b[k] = a[k]
    <3> SUFFICES ASSUME NEW k \in 1 .. l PROVE b[k] = a[k] OBVIOUS
    <3>1. k \in 1 .. l + 1 OBVIOUS
    <3>2. b[k] = it(emitted'[k]) /\ a[k] = it(emitted[k]) BY <2>1, <3>1, Zenon
    <3> QED BY <2>2, <3>2
  <2>4. b[l + 1] = e
    <3>1. l + 1 \in 1 .. l + 1 OBVIOUS
    <3>2. b[l + 1] = it(emitted'[l + 1]) BY <2>1, <3>1, Zenon
    <3> QED BY <2>2, <3>2
  <2>5. a \in Seq(Seq(AnItem)) /\ e \in Seq(AnItem) BY <1>5, <1>6
  <2>6. b \in Seq(Seq(AnItem)) /\ Len(b) = l + 1
    <3>1. \A k \in 1 .. l + 1 : it(emitted'[k]) \in Seq(AnItem)
      <4> SUFFICES ASSUME NEW k \in 1 .. l + 1 PROVE it(emitted'[k]) \in Seq(AnItem) OBVIOUS
      <4>1. emitted'[k] \in Tokens BY <1>1, <1>2, <1>3
      <4> QED BY <4>1, ItemsOfToken
    <3> HIDE DEF it
    <3> QED BY <2>1, <3>1
  <2>7. Len(a) = l
    <3> HIDE DEF it
    <3> QED BY <2>1
  <2> HIDE DEF a, b, e, it
  <2>8. Append(a, e) \in Seq(Seq(AnItem)) /\ Len(Append(a, e)) = l + 1 BY <2>5, <2>7
  <2>9. \A k \in 1 .. l + 1 : Append(a, e)[k] = IF k = l + 1 THEN e ELSE a[k] BY <2>5, <2>7
  <2>10. \A k \in 1 .. l + 1 : b[k] = Append(a, e)[k]
    <3> SUFFICES ASSUME NEW k \in 1 .. l + 1 PROVE b[k] = Append(a, e)[k] OBVIOUS
    <3>1. Append(a, e)[k] = IF k = l + 1 THEN e ELSE a[k] BY <2>9
    <3>2. CASE k = l + 1 BY <2>4, <3>1, <3>2
    <3>3. CASE k # l + 1
      <4>1. k \in 1 .. l BY <3>3
      <4>2. b[k] = a[k] BY <2>3, <4>1
      <4> QED BY <3>1, <3>3, <4>2
    <3> QED BY <3>2, <3>3
  <2>11. b = Append(a, e) BY <2>6, <2>8, <2>10, SameItems
  <2> QED BY <2>11 DEF a, b, e
<1>8. Flat' = FlattenSeq(ItemsEmitted') BY Zenon DEF Flat, ItemsEmitted
<1> QED BY <1>5, <1>6, <1>7, <1>8, FlattenAppend

LEMMA TextFlatGrows ==
  ASSUME emitted \in Seq(Tokens), NEW s \in Text, EmitText(s)
  PROVE  Flat' = Flat \o TextItems(s)
<1>1. CASE s = <<>>
  <2>1. emitted' = emitted BY <1>1 DEF EmitText
  <2>2. Flat' = Flat BY <2>1 DEF Flat, ItemsOf
  <2> QED BY <1>1, <2>2, NoTextNoItems, FlatItems, JoinsNothing
<1>2. CASE s # <<>>
  <2> DEFINE token == Item("TEXT_CONTENT", s, NoAttributes)
  <2>1. token \in Tokens BY TextIsToken DEF Text
  <2>2. Emit(token) BY <1>2 DEF EmitText, Emit
  <2>3. ItemsOf(token) = TextItems(s) BY DEF ItemsOf, Item
  <2> HIDE DEF token
  <2> QED BY <2>1, <2>2, <2>3, FlatGrows
<1> QED BY <1>1, <1>2

LEMMA FlatStays ==
  ASSUME emitted' = emitted
  PROVE  Flat' = Flat
  BY DEF Flat, ItemsOf

(* The items of two stretches, the second right after the first. *)
Joined(w, a, b, d) ==
  TextItems(SubSeq(w, a, b)) \o TextItems(SubSeq(w, b + 1, d)) = TextItems(SubSeq(w, a, d))
LEMMA StretchesJoined ==
  ASSUME NEW w \in Text, NEW a \in Int, NEW b \in Int, NEW d \in Int,
         1 <= a, a <= b + 1, b <= d, d <= Len(w)
  PROVE  Joined(w, a, b, d)
<1>0. Len(w) \in Nat BY TextFacts
<1>1. /\ SubSeq(w, a, b) \in Text /\ Len(SubSeq(w, a, b)) = b - a + 1
      /\ \A k \in 1 .. b - a + 1 : SubSeq(w, a, b)[k] = w[a + k - 1]
  BY <1>0, PartOfText
<1>2. /\ SubSeq(w, b + 1, d) \in Text /\ Len(SubSeq(w, b + 1, d)) = d - b
      /\ \A k \in 1 .. d - b : SubSeq(w, b + 1, d)[k] = w[b + k]
  <2>1. PICK e \in Int : e = b + 1 BY <1>0
  <2>2. 1 <= e /\ e <= d + 1 /\ d - e + 1 = d - b BY <2>1
  <2>3. /\ SubSeq(w, e, d) \in Text /\ Len(SubSeq(w, e, d)) = d - e + 1
        /\ \A k \in 1 .. d - e + 1 : SubSeq(w, e, d)[k] = w[e + k - 1]
    BY <2>2, PartOfText
  <2>4. \A k \in 1 .. d - b : e + k - 1 = b + k BY <2>1
  <2>5. \A k \in 1 .. d - b : SubSeq(w, e, d)[k] = w[b + k] BY <2>2, <2>3, <2>4
  <2> QED BY <2>1, <2>2, <2>3, <2>5
<1>3. /\ SubSeq(w, a, d) \in Text /\ Len(SubSeq(w, a, d)) = d - a + 1
      /\ \A k \in 1 .. d - a + 1 : SubSeq(w, a, d)[k] = w[a + k - 1]
  <2>1. a <= d + 1 OBVIOUS
  <2> QED BY <1>0, <2>1, PartOfText
<1> DEFINE x == SubSeq(w, a, b)
           y == SubSeq(w, b + 1, d)
           z == SubSeq(w, a, d)
           it(e) == Item("TEXT_CONTENT", <<e>>, NoAttributes)
<1>4. /\ TextItems(x) \in Seq(AnItem) /\ Len(TextItems(x)) = b - a + 1
      /\ \A k \in 1 .. b - a + 1 : TextItems(x)[k] = it(w[a + k - 1])
  <2>1. x \in Text /\ Len(x) = b - a + 1 BY <1>1
  <2>2. /\ TextItems(x) \in Seq(AnItem) /\ Len(TextItems(x)) = Len(x)
        /\ \A k \in 1 .. Len(x) : TextItems(x)[k] = it(x[k])
    BY <2>1, TextIsItems
  <2> QED BY <1>1, <2>1, <2>2
<1>5. /\ TextItems(y) \in Seq(AnItem) /\ Len(TextItems(y)) = d - b
      /\ \A k \in 1 .. d - b : TextItems(y)[k] = it(w[b + k])
  <2>1. y \in Text /\ Len(y) = d - b BY <1>2
  <2>2. /\ TextItems(y) \in Seq(AnItem) /\ Len(TextItems(y)) = Len(y)
        /\ \A k \in 1 .. Len(y) : TextItems(y)[k] = it(y[k])
    BY <2>1, TextIsItems
  <2> QED BY <1>2, <2>1, <2>2
<1>6. /\ TextItems(z) \in Seq(AnItem) /\ Len(TextItems(z)) = d - a + 1
      /\ \A k \in 1 .. d - a + 1 : TextItems(z)[k] = it(w[a + k - 1])
  <2>1. z \in Text /\ Len(z) = d - a + 1 BY <1>3
  <2>2. /\ TextItems(z) \in Seq(AnItem) /\ Len(TextItems(z)) = Len(z)
        /\ \A k \in 1 .. Len(z) : TextItems(z)[k] = it(z[k])
    BY <2>1, TextIsItems
  <2> QED BY <1>3, <2>1, <2>2
<1>7. PICK r \in Seq(AnItem), s \in Seq(AnItem), t \in Seq(AnItem) :
        r = TextItems(x) /\ s = TextItems(y) /\ t = TextItems(z)
  BY <1>4, <1>5, <1>6
<1>8. /\ r \o s \in Seq(AnItem) /\ Len(r \o s) = Len(r) + Len(s)
      /\ \A k \in 1 .. Len(r) : (r \o s)[k] = r[k]
      /\ \A k \in 1 .. Len(s) : (r \o s)[Len(r) + k] = s[k]
  BY ItemsJoined
<1>9. PICK u \in Seq(AnItem) : u = r \o s BY <1>8
<1>10. /\ Len(r) = b - a + 1 /\ Len(s) = d - b /\ Len(t) = d - a + 1
       /\ \A k \in 1 .. b - a + 1 : r[k] = it(w[a + k - 1])
       /\ \A k \in 1 .. d - b : s[k] = it(w[b + k])
       /\ \A k \in 1 .. d - a + 1 : t[k] = it(w[a + k - 1])
  BY <1>4, <1>5, <1>6, <1>7
<1> HIDE DEF it, x, y, z
<1>11. Len(u) = d - a + 1
  <2>1. Len(u) = (b - a + 1) + (d - b) BY <1>8, <1>9, <1>10
  <2> QED BY <2>1
<1>12. ASSUME NEW k \in 1 .. d - a + 1 PROVE u[k] = t[k]
  <2>1. CASE k <= b - a + 1
    <3>1. k \in 1 .. b - a + 1 BY <2>1
    <3>2. u[k] = r[k] BY <1>8, <1>9, <1>10, <3>1
    <3> QED BY <1>10, <3>1, <3>2
  <2>2. CASE k > b - a + 1
    <3>1. PICK l \in Int : l = k - (b - a + 1) BY <1>0
    <3>2. l \in 1 .. d - b /\ (b - a + 1) + l = k /\ b + l = a + k - 1 BY <2>2, <3>1
    <3>3. u[k] = s[l] BY <1>8, <1>9, <1>10, <3>2
    <3> QED BY <1>10, <3>2, <3>3
  <2> QED BY <2>1, <2>2
<1>13. u = t BY <1>10, <1>11, <1>12, SameItems
<1> QED BY <1>7, <1>9, <1>13 DEF x, y, z, Joined

-----------------------------------------------------------------------------
(* One character further in a CDATA section: what is read from a on is held. *)

CdataRead(w, s, n, c, a, h) ==
  /\ w \in Text /\ s \in Int /\ n \in Int /\ a \in Int /\ h \in Nat /\ Len(w) \in Nat
  /\ 1 <= s /\ s + 4 <= n /\ n + 1 <= Len(w) /\ a = n - h + 1 /\ s + 5 <= a
  /\ s + 4 < n => h >= 1
  /\ s + 5 < n => h >= 2
  /\ Len(buffer) = h /\ buffer = SubSeq(w, a, n) /\ Append(buffer, c) = SubSeq(w, a, n + 1)
  /\ Len(Append(buffer, c)) = h + 1
  /\ \A k \in s + 5 .. n - 2 : ~IsIn(w, k, CdataEnd)
  /\ IsSuffix(CdataEnd, Append(buffer, c)) <=> s + 6 <= n /\ IsIn(w, n - 1, CdataEnd)
  /\ Markup(w, s, n + 1) = IF s + 6 <= n /\ IsIn(w, n - 1, CdataEnd)
                           THEN {TextItems(SubSeq(w, s + 5, n - 2))} ELSE {}

LEMMA CdataStep ==
  ASSUME NEW c, ReadOne(c), NEW w, NEW s, NEW n, At(w, s, n, c), CdataReading(w, s, n)
  PROVE  \E h \in Nat : \E a \in Int : CdataRead(w, s, n, c, a, h)
<1>0. /\ w \in Text /\ s \in Int /\ n \in Int /\ 1 <= s /\ s <= n /\ w[n + 1] = c
      /\ Len(w) \in Nat /\ n + 1 <= Len(w)
  BY TextFacts DEF At
<1>1. PICK h \in Nat : h = Len(buffer) BY Before
<1>2. PICK a \in Int : a = n - h + 1 BY <1>0
<1>3. /\ s + 4 <= n /\ s + 4 + h <= n /\ buffer = SubSeq(w, a, n)
      /\ w[s + 1] = "!" /\ w[s + 2] = "[" /\ w[s + 3] = "CDATA" /\ w[s + 4] = "["
      /\ s + 4 < n => h >= 1
      /\ s + 5 < n => h >= 2
      /\ \A k \in s + 5 .. n - 2 : ~IsIn(w, k, CdataEnd)
  BY <1>1, <1>2 DEF CdataReading
<1>4. s + 5 <= a /\ a \in 1 .. n + 1 /\ (a <= n - 1 <=> s + 6 <= n) BY <1>0, <1>2, <1>3
<1>5. Append(buffer, c) = SubSeq(w, a, n + 1) /\ Len(Append(buffer, c)) = h + 1
  <2>1. Grows(w, a, n, c) BY <1>4, BuffersGrow
  <2>2. Len(Append(buffer, c)) = Len(buffer) + 1 BY ReadIs
  <2> QED BY <1>1, <1>3, <2>1, <2>2 DEF Grows
<1>6. IsSuffix(CdataEnd, Append(buffer, c)) <=> s + 6 <= n /\ IsIn(w, n - 1, CdataEnd)
  <2>1. PICK b \in Int : b = n + 1 BY <1>0
  <2>2. 1 <= a /\ a <= b + 1 /\ b <= Len(w) /\ b - 2 = n - 1 BY <1>0, <1>4, <2>1
  <2>3. IsSuffix(CdataEnd, SubSeq(w, a, b)) <=> a <= b - 2 /\ IsIn(w, b - 2, CdataEnd)
    BY <1>0, <2>2, SuffixOfPart, Marks
  <2> QED BY <1>4, <1>5, <2>1, <2>2, <2>3
<1>7. Markup(w, s, n + 1) = IF s + 6 <= n /\ IsIn(w, n - 1, CdataEnd)
                            THEN {TextItems(SubSeq(w, s + 5, n - 2))} ELSE {}
  <2>1. PICK j \in Int : j = n + 1 BY <1>0
  <2>2. s + 4 <= Len(w) /\ j - 2 = n - 1 /\ j - 3 = n - 2 /\ (s + 7 <= j <=> s + 6 <= n)
    BY <1>0, <1>3, <2>1
  <2>3. IsSection(w, s, j, CdataStart, CdataEnd)
        <=> /\ w[s + 1] = "!" /\ s + 4 <= Len(w)
            /\ w[s + 2] = "[" /\ w[s + 3] = "CDATA" /\ w[s + 4] = "["
            /\ s + 7 <= j /\ IsIn(w, j - 2, CdataEnd)
            /\ \A k \in s + 5 .. j - 3 : ~IsIn(w, k, CdataEnd)
    BY <1>0, CdataIs
  <2>4. IsSection(w, s, j, CdataStart, CdataEnd) <=> s + 6 <= n /\ IsIn(w, n - 1, CdataEnd)
    BY <1>3, <2>2, <2>3
  <2>5. Markup(w, s, j) = IF IsSection(w, s, j, CdataStart, CdataEnd)
                          THEN {TextItems(SubSeq(w, s + 5, j - 3))} ELSE {}
    BY <1>0, <1>3, CdataMarkup
  <2> QED BY <2>1, <2>2, <2>4, <2>5
<1> QED BY <1>0, <1>1, <1>2, <1>3, <1>4, <1>5, <1>6, <1>7 DEF CdataRead

(* What the section has handed on up to e; that the text held from a to d is  *)
(* handed on in this step; what has been handed on after it.                 *)
HandedSoFar(w, s, e, done) == Flat = done \o TextItems(SubSeq(w, s + 5, e))
HandsOn(c, a, d) == EmitText(SubSeq(Append(buffer, c), 1, d - a + 1))
NowHanded(w, s, d, done) == Flat' = done \o TextItems(SubSeq(w, s + 5, d))

(* The part of what is held that is handed on, and what it adds to the items. *)
LEMMA PartHanded ==
  ASSUME NEW c, NEW w, NEW s, NEW n, NEW a, NEW h, CdataRead(w, s, n, c, a, h),
         NEW d \in Int, a <= d + 1, d <= n, emitted \in Seq(Tokens), NEW done \in Seq(AnItem),
         HandedSoFar(w, s, n - h, done), HandsOn(c, a, d)
  PROVE  NowHanded(w, s, d, done)
<1>0. /\ w \in Text /\ s \in Int /\ n \in Int /\ a \in Int /\ h \in Nat /\ Len(w) \in Nat
      /\ 1 <= s /\ s + 4 <= n /\ n + 1 <= Len(w) /\ a = n - h + 1 /\ s + 5 <= a
      /\ Append(buffer, c) = SubSeq(w, a, n + 1)
  BY DEF CdataRead
<1>1. PICK j \in Int, b \in Int, i \in Int : j = d - a + 1 /\ b = n + 1 /\ i = 1 BY <1>0
<1>2. SubSeq(SubSeq(w, a, b), i, j) = SubSeq(w, a + i - 1, a + j - 1)
  <2>1. 1 <= a /\ a <= b + 1 /\ b <= Len(w) /\ 1 <= i /\ i <= j + 1 /\ j <= b - a + 1
    BY <1>0, <1>1
  <2> QED BY <1>0, <2>1, PartOfPart
<1>3. SubSeq(w, a, d) = SubSeq(Append(buffer, c), 1, d - a + 1)
  <2>1. a + i - 1 = a /\ a + j - 1 = d BY <1>0, <1>1
  <2> QED BY <1>0, <1>1, <1>2, <2>1
<1>4. PICK f \in Int, e \in Int : f = s + 5 /\ e = n - h BY <1>0
<1>5. 1 <= f /\ f <= e + 1 /\ e + 1 = a /\ e <= d /\ d <= Len(w) /\ e <= Len(w) /\ f <= d + 1
      /\ 1 <= a
  BY <1>0, <1>4
<1>6. TextItems(SubSeq(w, f, e)) \o TextItems(SubSeq(w, e + 1, d)) = TextItems(SubSeq(w, f, d))
  <2>1. Joined(w, f, e, d) BY <1>0, <1>5, StretchesJoined
  <2> QED BY <2>1 DEF Joined
<1>7. SubSeq(w, a, d) \in Text /\ SubSeq(w, f, e) \in Text
  BY <1>0, <1>5, PartOfText
<1>8. Flat' = Flat \o TextItems(SubSeq(w, a, d))
  <2>1. EmitText(SubSeq(w, a, d)) BY <1>3 DEF HandsOn
  <2> QED BY <1>7, <2>1, TextFlatGrows
<1>9. TextItems(SubSeq(w, a, d)) \in Seq(AnItem) /\ TextItems(SubSeq(w, f, e)) \in Seq(AnItem)
  BY <1>7, TextIsItems
<1>10. PICK x \in Seq(AnItem), y \in Seq(AnItem) :
         x = TextItems(SubSeq(w, f, e)) /\ y = TextItems(SubSeq(w, a, d))
  BY <1>9
<1>11. (done \o x) \o y = done \o (x \o y) BY Joins
<1>12. Flat = done \o TextItems(SubSeq(w, f, e)) BY <1>4 DEF HandedSoFar
<1>13. Flat' = done \o TextItems(SubSeq(w, f, d)) BY <1>5, <1>6, <1>8, <1>10, <1>11, <1>12
<1> QED BY <1>4, <1>13 DEF NowHanded

CdataEnded(w, s, n, done) ==
  /\ state' = "TEXT" /\ buffer' = <<>>
  /\ \E m : Markup(w, s, n) = {m} /\ Flat' = done \o m
CdataGoesOn(w, s, n, done) ==
  /\ Markup(w, s, n) = {} /\ CdataReading(w, s, n)'
  /\ Flat' = done \o TextItems(SubSeq(w, s + 5, n - Len(buffer')))

LEMMA ReadCdataFollows ==
  ASSUME NEW c, ReadOne(c), NEW w, NEW s, NEW n, At(w, s, n, c), CdataReading(w, s, n),
         ReadCdata(c), NEW done \in Seq(AnItem),
         Flat = done \o TextItems(SubSeq(w, s + 5, n - Len(buffer)))
  PROVE  error' = "NONE" /\ (CdataEnded(w, s, n + 1, done) \/ CdataGoesOn(w, s, n + 1, done))
<1>0. error' = "NONE" /\ state = "CDATA" /\ emitted \in Seq(Tokens) /\ MaxBuffer \in Nat /\ MaxBuffer >= 2
  BY Before DEF ReadCdata
<1>1. PICK h \in Nat, a \in Int : CdataRead(w, s, n, c, a, h) BY CdataStep
<1>2. /\ w \in Text /\ s \in Int /\ n \in Int /\ a \in Int /\ h \in Nat /\ Len(w) \in Nat
      /\ 1 <= s /\ s + 4 <= n /\ n + 1 <= Len(w) /\ a = n - h + 1 /\ s + 5 <= a
      /\ s + 4 < n => h >= 1
      /\ s + 5 < n => h >= 2
  BY <1>1 DEF CdataRead
<1>3. /\ Len(buffer) = h /\ Append(buffer, c) = SubSeq(w, a, n + 1)
      /\ Len(Append(buffer, c)) = h + 1
      /\ \A k \in s + 5 .. n - 2 : ~IsIn(w, k, CdataEnd)
      /\ IsSuffix(CdataEnd, Append(buffer, c)) <=> s + 6 <= n /\ IsIn(w, n - 1, CdataEnd)
      /\ Markup(w, s, n + 1) = IF s + 6 <= n /\ IsIn(w, n - 1, CdataEnd)
                               THEN {TextItems(SubSeq(w, s + 5, n - 2))} ELSE {}
  BY <1>1 DEF CdataRead
<1>4. Flat = done \o TextItems(SubSeq(w, s + 5, n - h)) BY <1>3
<1>14. HandedSoFar(w, s, n - h, done) BY <1>4 DEF HandedSoFar
<1>5. w[s + 1] = "!" /\ w[s + 2] = "[" /\ w[s + 3] = "CDATA" /\ w[s + 4] = "[" BY DEF CdataReading
<1> DEFINE read == Append(buffer, c)
           noEnd == \A k \in s + 5 .. (n + 1) - 2 : ~IsIn(w, k, CdataEnd)
<1>6. ASSUME ~IsSuffix(CdataEnd, read) PROVE Markup(w, s, n + 1) = {} /\ noEnd
  <2>0. ~IsSuffix(CdataEnd, Append(buffer, c)) BY <1>6
  <2>1. ~(s + 6 <= n /\ IsIn(w, n - 1, CdataEnd)) BY <1>3, <2>0
  <2>2. Markup(w, s, n + 1) = {} BY <1>3, <2>1
  <2>3. ASSUME NEW k \in s + 5 .. (n + 1) - 2 PROVE ~IsIn(w, k, CdataEnd)
    <3>1. CASE k = n - 1
      <4>1. s + 6 <= n BY <1>2, <3>1
      <4> QED BY <2>1, <3>1, <4>1
    <3>2. CASE k # n - 1
      <4>1. k \in s + 5 .. n - 2 BY <1>2, <3>2
      <4> QED BY <1>3, <4>1
    <3> QED BY <3>1, <3>2
  <2> QED BY <2>2, <2>3
<1>7. CASE /\ IsSuffix(CdataEnd, read)
           /\ EmitText(SubSeq(read, 1, Len(read) - 3))
           /\ buffer' = <<>> /\ state' = "TEXT"
  <2>0. IsSuffix(CdataEnd, Append(buffer, c)) BY <1>7
  <2>1. s + 6 <= n /\ Markup(w, s, n + 1) = {TextItems(SubSeq(w, s + 5, n - 2))}
    BY <1>3, <2>0
  <2>2. PICK d \in Int : d = n - 2 BY <1>2
  <2>3. a <= d + 1 /\ d <= n /\ (h + 1) - 3 = d - a + 1 BY <1>2, <2>1, <2>2
  <2>4. EmitText(SubSeq(Append(buffer, c), 1, d - a + 1)) BY <1>3, <1>7, <2>3
  <2>5. Flat' = done \o TextItems(SubSeq(w, s + 5, d))
    <3>1. HandsOn(c, a, d) BY <2>4 DEF HandsOn
    <3>2. NowHanded(w, s, d, done) BY <1>0, <1>1, <1>14, <2>3, <3>1, PartHanded
    <3> QED BY <3>2 DEF NowHanded
  <2> QED BY <1>0, <1>7, <2>1, <2>2, <2>5 DEF CdataEnded
<1>8. CASE ~IsSuffix(CdataEnd, read) /\ buffer' = read /\ UNCHANGED <<state, emitted>>
  <2>1. Len(buffer') = h + 1 /\ buffer' = SubSeq(w, a, n + 1) BY <1>3, <1>8
  <2>2. /\ (n + 1) - (h + 1) + 1 = a /\ s + 4 + (h + 1) <= n + 1 /\ s + 4 <= n + 1 /\ h + 1 >= 1
        /\ s + 5 < n + 1 => h + 1 >= 2
        /\ (n + 1) - (h + 1) = n - h
    BY <1>2
  <2>3. CdataReading(w, s, n + 1)' BY <1>0, <1>5, <1>6, <1>8, <2>1, <2>2 DEF CdataReading
  <2>4. Flat' = Flat BY <1>8, FlatStays
  <2>5. Flat' = done \o TextItems(SubSeq(w, s + 5, (n + 1) - Len(buffer')))
    BY <1>4, <2>1, <2>2, <2>4
  <2> QED BY <1>0, <1>6, <1>8, <2>3, <2>5 DEF CdataGoesOn
<1>9. CASE /\ ~IsSuffix(CdataEnd, read) /\ Len(read) >= MaxBuffer
           /\ EmitText(SubSeq(read, 1, Len(read) - 2))
           /\ buffer' = Rest(read) /\ UNCHANGED state
  <2>1. h + 1 >= 2
    <3>1. h + 1 >= MaxBuffer BY <1>3, <1>9
    <3> QED BY <1>0, <3>1
  <2>2. PICK d \in Int, b \in Int, j \in Int : d = n - 1 /\ b = n + 1 /\ j = h + 1 BY <1>2
  <2>3. a <= d + 1 /\ d <= n /\ (h + 1) - 2 = d - a + 1 BY <1>2, <2>1, <2>2
  <2>10. d = (n + 1) - 2 /\ (h + 1) - 1 = h /\ n = (n + 1) - 2 + 1 BY <1>2, <2>2
  <2>4. EmitText(SubSeq(Append(buffer, c), 1, d - a + 1)) BY <1>3, <1>9, <2>3
  <2>14. a <= d + 1 /\ d <= n BY <2>3
  <2>5. Flat' = done \o TextItems(SubSeq(w, s + 5, d))
    <3>1. HandsOn(c, a, d) BY <2>4 DEF HandsOn
    <3>2. NowHanded(w, s, d, done) BY <1>0, <1>1, <1>14, <2>14, <3>1, PartHanded
    <3> QED BY <3>2 DEF NowHanded
  <2>6. buffer' = SubSeq(w, n, n + 1) /\ Len(buffer') = 2
    <3>1. buffer' = SubSeq(SubSeq(w, a, b), h, j)
      BY <1>3, <1>9, <2>2, <2>10 DEF Rest
    <3>2. 1 <= a /\ a <= b + 1 /\ b <= Len(w) /\ 1 <= h /\ h <= j + 1 /\ j <= b - a + 1
          /\ a + h - 1 = n /\ a + j - 1 = n + 1
      BY <1>2, <2>1, <2>2
    <3>3. SubSeq(SubSeq(w, a, b), h, j) = SubSeq(w, a + h - 1, a + j - 1)
      BY <1>2, <3>2, PartOfPart
    <3>4. 1 <= n /\ n <= b + 1 /\ b - n + 1 = 2 BY <1>2, <2>2
    <3>5. Len(SubSeq(w, n, b)) = b - n + 1 BY <1>2, <3>2, <3>4, PartOfText
    <3> QED BY <2>2, <3>1, <3>2, <3>3, <3>4, <3>5
  <2>7. s + 4 + 2 <= n + 1 /\ s + 4 <= n + 1 BY <1>2, <2>1
  <2>11. buffer' = SubSeq(w, (n + 1) - Len(buffer') + 1, n + 1) /\ s + 4 + Len(buffer') <= n + 1
    BY <2>6, <2>7, <2>10
  <2>13. Len(buffer') = 2 BY <2>6
  <2>12. Len(buffer') >= 1 /\ Len(buffer') >= 2 BY <2>13
  <2>8. CdataReading(w, s, n + 1)'
    BY <1>0, <1>5, <1>6, <1>9, <2>7, <2>11, <2>12 DEF CdataReading
  <2>9. Flat' = done \o TextItems(SubSeq(w, s + 5, (n + 1) - Len(buffer')))
    BY <2>5, <2>6, <2>10
  <2> QED BY <1>0, <1>6, <1>9, <2>8, <2>9 DEF CdataGoesOn
<1> QED BY <1>0, <1>7, <1>8, <1>9 DEF ReadCdata

-----------------------------------------------------------------------------
(* One character further, wherever the tokenizer stands.                    *)

(* Past the end of a markup, or past a character of text. *)
LEMMA FollowsPast ==
  ASSUME NEW w \in Text, NEW s \in Int, NEW n \in Int, 1 <= s, s <= n + 1, n + 1 <= Len(w),
         NEW done \in Seq(AnItem), NEW m \in Seq(AnItem), Items(w) = done \o ItemsFrom(w, s),
         ItemsFrom(w, s) = m \o ItemsFrom(w, n + 2),
         state' = "TEXT", Flat' \o TextItems(buffer') = done \o m
  PROVE  Follows(w, n + 1)'
<1>1. PICK x \in Int : x = n + 2 OBVIOUS
<1>2. Len(w) \in Nat /\ 1 <= x /\ x <= Len(w) + 1 /\ x \in 1 .. (n + 1) + 1 /\ x = (n + 1) + 1
  BY <1>1, TextFacts
<1>3. ItemsFrom(w, x) \in Seq(AnItem) BY <1>2, ItemsFromIs
<1>4. PICK rest \in Seq(AnItem) : rest = ItemsFrom(w, x) BY <1>3
<1>5. (done \o m) \o rest = done \o (m \o rest) BY Joins
<1>6. Items(w) = (done \o m) \o ItemsFrom(w, x) BY <1>1, <1>4, <1>5
<1>7. PICK all \in Seq(AnItem) : all = done \o m BY ItemsJoined
<1>8. Stage(w, x, n + 1, all)' BY <1>2, <1>7 DEF Stage
<1>9. Items(w) = all \o ItemsFrom(w, x) BY <1>6, <1>7
<1> QED BY <1>2, <1>8, <1>9 DEF Follows

LEMMA FollowsEnd ==
  ASSUME NEW c, NEW w, NEW s, NEW n, At(w, s, n, c), \A k \in s + 1 .. n : Markup(w, s, k) = {},
         NEW m, Markup(w, s, n + 1) = {m}, NEW done \in Seq(AnItem),
         Items(w) = done \o ItemsFrom(w, s),
         state' = "TEXT", buffer' = <<>>, emitted' \in Seq(Tokens), Flat' = done \o m
  PROVE  Follows(w, n + 1)'
<1>1. /\ w \in Text /\ s \in Int /\ n \in Int /\ 1 <= s /\ s <= n /\ n + 1 <= Len(w) /\ w[s] = "<"
      /\ s <= n + 1
  BY DEF At
<1>2. PICK j \in Int : j = n + 1 BY <1>1
<1>3. s < j /\ j <= Len(w) /\ j - 1 = n /\ j + 1 = n + 2 BY <1>1, <1>2
<1>4. ItemsFrom(w, s) = m \o ItemsFrom(w, j + 1) /\ m \in Seq(AnItem)
  <2>1. (\A k \in s + 1 .. j - 1 : Markup(w, s, k) = {}) /\ Markup(w, s, j) = {m} BY <1>2, <1>3
  <2>2. w \in Text /\ s \in Int /\ 1 <= s /\ s < j /\ j <= Len(w) /\ w[s] = "<" BY <1>1, <1>3
  <2> QED BY <2>1, <2>2, ItemsPastMarkup
<1>5. Flat' \in Seq(AnItem)
  <2>1. done \o m \in Seq(AnItem) BY <1>4, ItemsJoined
  <2> QED BY <2>1
<1>6. Flat' \o TextItems(buffer') = done \o m BY <1>5, NoTextNoItems, JoinsNothing
<1>7. ItemsFrom(w, s) = m \o ItemsFrom(w, n + 2) BY <1>3, <1>4
<1> QED BY <1>1, <1>4, <1>6, <1>7, FollowsPast

LEMMA TextFollows ==
  ASSUME NEW c, ReadOne(c), NEW w \in Text, NEW n \in Nat, n + 1 <= Len(w), w[n + 1] = c,
         ReadText(c), Items(w) = (Flat \o TextItems(buffer)) \o ItemsFrom(w, n + 1)
  PROVE  Follows(w, n + 1)'
<1>0. /\ emitted \in Seq(Tokens) /\ buffer \in Text /\ c \in Chars /\ state = "TEXT"
      /\ Flat \in Seq(AnItem)
  <2>1. emitted \in Seq(Tokens) /\ buffer \in Seq(Chars) /\ c \in Chars BY Before
  <2> QED BY <2>1, FlatItems DEF ReadText, Text
<1>1. TextItems(buffer) \in Seq(AnItem) BY <1>0, TextIsItems
<1>2. PICK done \in Seq(AnItem) : done = Flat \o TextItems(buffer) BY <1>0, <1>1, ItemsJoined
<1>3. PICK x \in Int : x = n + 1 OBVIOUS
<1>4. Len(w) \in Nat /\ 1 <= x /\ x <= Len(w) /\ x + 1 = n + 2 BY <1>3, TextFacts
<1>5. CASE c = "<" /\ EmitText(buffer) /\ state' = "AFTER_OPEN"
  <2>1. Flat' = done BY <1>0, <1>2, <1>5, TextFlatGrows
  <2>2. x \in 1 .. (n + 1) + 1 /\ x <= n + 1 /\ \A k \in x + 1 .. n + 1 : FALSE BY <1>3
  <2>3. TagReading(w, x, n + 1)' BY <1>3, <1>5 DEF TagReading
  <2>4. Stage(w, x, n + 1, done)' BY <1>3, <1>5, <2>1, <2>2, <2>3 DEF Stage
  <2>5. Items(w) = done \o ItemsFrom(w, x) BY <1>2, <1>3
  <2> QED BY <2>2, <2>4, <2>5 DEF Follows
<1>6. ASSUME c # "<", state' = "TEXT",
             Flat' \o TextItems(buffer') = Flat \o TextItems(Append(buffer, c))
      PROVE  Follows(w, n + 1)'
  <2>1. TextItems(Append(buffer, c)) = TextItems(buffer) \o TextItems(<<c>>)
    BY <1>0, MoreTextMoreItems
  <2>2. <<c>> \in Text BY <1>0 DEF Text
  <2>3. TextItems(<<c>>) \in Seq(AnItem) BY <2>2, TextIsItems
  <2>4. PICK m \in Seq(AnItem) : m = TextItems(<<c>>) BY <2>3
  <2>5. PICK b \in Seq(AnItem), f \in Seq(AnItem) : b = TextItems(buffer) /\ f = Flat
    BY <1>0, <1>1
  <2>6. (f \o b) \o m = f \o (b \o m) BY Joins
  <2>7. Flat' \o TextItems(buffer') = done \o m BY <1>2, <1>6, <2>1, <2>4, <2>5, <2>6
  <2>8. ItemsFrom(w, x) = m \o ItemsFrom(w, x + 1)
    <3>1. w[x] # "<" /\ w[x] = c BY <1>3, <1>6
    <3>2. ItemsFrom(w, x) = TextItems(<<w[x]>>) \o ItemsFrom(w, x + 1) BY <1>4, <3>1, ItemsPastText
    <3> QED BY <2>4, <3>1, <3>2
  <2>9. ItemsFrom(w, x) = m \o ItemsFrom(w, n + 2) BY <1>4, <2>8
  <2>10. Items(w) = done \o ItemsFrom(w, x) BY <1>2, <1>3
  <2>11. x <= n + 1 /\ n \in Int BY <1>3
  <2> QED BY <1>4, <1>6, <2>7, <2>9, <2>10, <2>11, FollowsPast
<1>7. CASE c # "<" /\ buffer' = Append(buffer, c) /\ UNCHANGED <<state, emitted>>
  <2>1. Flat' = Flat BY <1>7, FlatStays
  <2> QED BY <1>0, <1>6, <1>7, <2>1
<1>8. CASE c # "<" /\ EmitText(Append(buffer, c)) /\ buffer' = <<>> /\ UNCHANGED state
  <2>1. Append(buffer, c) \in Text BY <1>0, MoreTextMoreItems
  <2>2. Flat' = Flat \o TextItems(Append(buffer, c)) BY <1>0, <1>8, <2>1, TextFlatGrows
  <2>3. TextItems(Append(buffer, c)) \in Seq(AnItem) BY <2>1, TextIsItems
  <2>4. Flat' \in Seq(AnItem)
    <3>1. Flat \o TextItems(Append(buffer, c)) \in Seq(AnItem) BY <1>0, <2>3, ItemsJoined
    <3> QED BY <2>2, <3>1
  <2>5. Flat' \o TextItems(buffer') = Flat' BY <1>8, <2>4, NoTextNoItems, JoinsNothing
  <2> QED BY <1>0, <1>6, <1>8, <2>2, <2>5
<1> QED BY <1>5, <1>6, <1>7, <1>8 DEF ReadText

LEMMA SectionFollows ==
  ASSUME NEW c, ReadOne(c), Inv', NEW w, NEW s, NEW n, At(w, s, n, c),
         \A k \in s + 1 .. n : Markup(w, s, k) = {},
         CdataReading(w, s, n), ReadCdata(c), NEW done \in Seq(AnItem),
         Flat = done \o TextItems(SubSeq(w, s + 5, n - Len(buffer))),
         Items(w) = done \o ItemsFrom(w, s)
  PROVE  error' = "NONE" /\ Follows(w, n + 1)'
<1>0. emitted' \in Seq(Tokens) BY DEF Inv, TypeOK
<1>1. error' = "NONE" /\ (CdataEnded(w, s, n + 1, done) \/ CdataGoesOn(w, s, n + 1, done))
  BY ReadCdataFollows
<1>2. CASE CdataEnded(w, s, n + 1, done)
  <2>1. PICK m : Markup(w, s, n + 1) = {m} /\ Flat' = done \o m BY <1>2 DEF CdataEnded
  <2>2. state' = "TEXT" /\ buffer' = <<>> BY <1>2 DEF CdataEnded
  <2> QED BY <1>0, <1>1, <2>1, <2>2, FollowsEnd
<1>3. CASE CdataGoesOn(w, s, n + 1, done)
  <2>1. s \in 1 .. (n + 1) + 1 /\ s <= n + 1 /\ w[s] = "<" /\ n \in Int /\ s \in Int BY DEF At
  <2>2. \A k \in s + 1 .. n + 1 : Markup(w, s, k) = {}
    <3> SUFFICES ASSUME NEW k \in s + 1 .. n + 1 PROVE Markup(w, s, k) = {} OBVIOUS
    <3>1. CASE k = n + 1 BY <1>3, <3>1 DEF CdataGoesOn
    <3>2. CASE k # n + 1
      <4>1. k \in s + 1 .. n BY <2>1, <3>2
      <4> QED BY <4>1
    <3> QED BY <3>1, <3>2
  <2>3. /\ CdataReading(w, s, n + 1)'
        /\ Flat' = done \o TextItems(SubSeq(w, s + 5, (n + 1) - Len(buffer')))
    BY <1>3 DEF CdataGoesOn
  <2>4. Stage(w, s, n + 1, done)' BY <2>1, <2>2, <2>3 DEF Stage
  <2> QED BY <1>1, <2>1, <2>4 DEF Follows
<1> QED BY <1>1, <1>2, <1>3

(* Where the tokenizer fails, what began is nothing yet.                    *)
LEMMA FailureAgrees ==
  ASSUME NEW c, NEW w, NEW s, NEW n, At(w, s, n, c), \A k \in s + 1 .. n : Markup(w, s, k) = {},
         Failed(w, s, n + 1), emitted \in Seq(Tokens), Items(w) = Flat \o ItemsFrom(w, s),
         Len(w) = n + 1
  PROVE  Flat' \o Pending' = Items(w)
<1>1. /\ w \in Text /\ s \in Int /\ n \in Int /\ 1 <= s /\ s <= n /\ n + 1 <= Len(w) /\ w[s] = "<"
      /\ s <= Len(w)
  BY DEF At
<1>2. ASSUME NEW k \in s + 1 .. Len(w) PROVE Markup(w, s, k) = {}
  <2>1. k \in s + 1 .. n + 1 BY <1>2
  <2>2. CASE k = n + 1 BY <2>2 DEF Failed
  <2>3. CASE k # n + 1
    <3>1. k \in s + 1 .. n BY <1>1, <2>1, <2>3
    <3> QED BY <3>1
  <2> QED BY <2>2, <2>3
<1>3. ItemsFrom(w, s) = Unfinished(w, s) BY <1>1, <1>2, ItemsUnfinished
<1>4. Unfinished(w, s) = <<>>
  <2>1. ~CdataBegun(w, s, Len(w)) BY DEF Failed
  <2>2. ~IsIn(w, s, <<"<", "!">> \o CdataStart) BY <1>1, <2>1, CdataMark DEF CdataBegun
  <2> QED BY <2>2 DEF Unfinished
<1>5. Flat \in Seq(AnItem) BY FlatItems
<1>6. Flat' = Flat BY FlatStays DEF Failed
<1>7. Pending' = <<>> BY DEF Failed, Pending
<1> QED BY <1>3, <1>4, <1>5, <1>6, <1>7

LEMMA OutcomeFollows ==
  ASSUME NEW c, ReadOne(c), Inv', NEW w, NEW s, NEW n, At(w, s, n, c),
         \A k \in s + 1 .. n : Markup(w, s, k) = {},
         Outcome(w, s, n + 1), Items(w) = Flat \o ItemsFrom(w, s)
  PROVE  /\ error' = "NONE" => Follows(w, n + 1)'
         /\ error' # "NONE" /\ Len(w) = n + 1 => Flat' \o Pending' = Items(w)
<1>0. emitted \in Seq(Tokens) /\ emitted' \in Seq(Tokens) BY Before DEF Inv, TypeOK
<1>1. Flat \in Seq(AnItem) BY <1>0, FlatItems
<1>2. CASE GoesOn(w, s, n + 1)
  <2>1. s \in 1 .. (n + 1) + 1 /\ s <= n + 1 /\ w[s] = "<" /\ n \in Int /\ s \in Int BY DEF At
  <2>2. \A k \in s + 1 .. n + 1 : Markup(w, s, k) = {}
    <3> SUFFICES ASSUME NEW k \in s + 1 .. n + 1 PROVE Markup(w, s, k) = {} OBVIOUS
    <3>1. CASE k = n + 1 BY <1>2, <3>1 DEF GoesOn
    <3>2. CASE k # n + 1
      <4>1. k \in s + 1 .. n BY <2>1, <3>2
      <4> QED BY <4>1
    <3> QED BY <3>1, <3>2
  <2>3. Flat' = Flat /\ error' = "NONE" BY <1>2, FlatStays DEF GoesOn
  <2>4. PICK done \in Seq(AnItem) : done = Flat BY <1>1
  <2>5. Stage(w, s, n + 1, done)'
    <3>1. CASE TagReading(w, s, n + 1)' \/ SpecialReading(w, s, n + 1)'
      BY <2>1, <2>2, <2>3, <2>4, <3>1 DEF Stage
    <3>2. CASE CdataReading(w, s, n + 1)' /\ n + 1 = s + 4 /\ buffer' = <<>>
      <4>1. PICK x \in Int : x = s + 5 BY <2>1
      <4>2. w \in Text /\ 1 <= x /\ x <= Len(w) + 1 /\ x - 1 = n + 1
        BY <2>1, <3>2, <4>1, TextFacts DEF At
      <4>3. SubSeq(w, x, x - 1) = <<>> BY <4>2, NoPart
      <4>4. Len(buffer') = 0 BY <3>2
      <4>5. (n + 1) - Len(buffer') = x - 1 BY <2>1, <4>2, <4>4
      <4>6. TextItems(SubSeq(w, s + 5, (n + 1) - Len(buffer'))) = <<>>
        BY <4>1, <4>3, <4>5, NoTextNoItems
      <4>7. Flat' = done \o TextItems(SubSeq(w, s + 5, (n + 1) - Len(buffer')))
        BY <2>3, <2>4, <4>6, JoinsNothing
      <4> QED BY <2>1, <2>2, <3>2, <4>7 DEF Stage
    <3> QED BY <1>2, <3>1, <3>2 DEF GoesOn
  <2>6. Items(w) = done \o ItemsFrom(w, s) BY <2>4
  <2> QED BY <2>1, <2>3, <2>5, <2>6 DEF Follows
<1>3. CASE Ended(w, s, n + 1)
  <2>1. /\ state' = "TEXT" /\ buffer' = <<>> /\ error' = "NONE"
        /\ \E token \in Tokens : /\ token.type # "TEXT_CONTENT" /\ Emit(token)
                                 /\ Markup(w, s, n + 1) = {<<token>>}
    BY <1>3 DEF Ended
  <2>2. PICK token \in Tokens :
          token.type # "TEXT_CONTENT" /\ Emit(token) /\ Markup(w, s, n + 1) = {<<token>>}
    BY <2>1
  <2>3. Flat' = Flat \o <<token>> BY <1>0, <2>2, FlatGrows, ItemsOfToken
  <2>4. PICK done \in Seq(AnItem) : done = Flat BY <1>1
  <2>5. Items(w) = done \o ItemsFrom(w, s) /\ Flat' = done \o <<token>> BY <2>3, <2>4
  <2>6. Follows(w, n + 1)' BY <1>0, <2>1, <2>2, <2>5, FollowsEnd
  <2> QED BY <2>1, <2>6
<1>4. CASE Failed(w, s, n + 1)
  <2>1. error' # "NONE" BY <1>4 DEF Failed
  <2> QED BY <1>0, <1>4, <2>1, FailureAgrees
<1> QED BY <1>2, <1>3, <1>4 DEF Outcome

-----------------------------------------------------------------------------
(* The invariant.                                                           *)

LEMMA AgreeInit == Init => AgreeInv
<1> SUFFICES ASSUME Init PROVE AgreeInv OBVIOUS
<1>1. input = <<>> /\ emitted = <<>> /\ state = "TEXT" /\ buffer = <<>> /\ error = "NONE" BY DEF Init
<1>2. ASSUME NEW w \in Text PROVE Follows(w, 0)
  <2>1. Flat = <<>>
    <3>1. ItemsEmitted = <<>> BY <1>1 DEF ItemsEmitted
    <3>2. FlattenSeq(<<>>) = <<>> BY DEF FlattenSeq
    <3>3. emitted \in Seq(Tokens) BY <1>1
    <3> QED BY <3>1, <3>2, <3>3, FlatItems
  <2>2. Flat \o TextItems(buffer) = <<>> BY <1>1, <2>1, NoTextNoItems, JoinsNothing
  <2>7. <<>> \in Seq(AnItem) OBVIOUS
  <2>3. PICK done \in Seq(AnItem) : done = <<>> BY <2>7
  <2>4. Stage(w, 1, 0, done) BY <1>1, <2>2, <2>3 DEF Stage
  <2>5. Items(w) = done \o ItemsFrom(w, 1)
    <3>1. PICK i \in Int : i = 1 OBVIOUS
    <3>2. 1 <= i /\ i <= Len(w) + 1 BY <3>1, TextFacts
    <3>3. ItemsFrom(w, i) \in Seq(AnItem) BY <3>2, ItemsFromIs
    <3> QED BY <2>3, <3>1, <3>3, ItemsStart, JoinsNothing
  <2>6. 1 \in 1 .. 0 + 1 OBVIOUS
  <2> QED BY <2>4, <2>5, <2>6 DEF Follows
<1>3. Len(input) = 0 BY <1>1
<1> QED BY <1>1, <1>2, <1>3 DEF AgreeInv

LEMMA FollowsStep ==
  ASSUME NEW c, ReadOne(c), Inv', Consume(c), NEW w \in Text, NEW n \in Nat, n + 1 <= Len(w),
         w[n + 1] = c, Follows(w, n)
  PROVE  /\ error' = "NONE" => Follows(w, n + 1)'
         /\ error' # "NONE" /\ Len(w) = n + 1 => Flat' \o Pending' = Items(w)
<1>1. PICK s \in 1 .. n + 1, done \in Seq(AnItem) :
        Items(w) = done \o ItemsFrom(w, s) /\ Stage(w, s, n, done)
  BY DEF Follows
<1>2. CASE state = "TEXT" /\ s = n + 1 /\ done = Flat \o TextItems(buffer)
  <2>1. ~ReadSpecial(c) /\ ~ReadComment(c) /\ ~ReadCdata(c)
    BY <1>2 DEF ReadSpecial, ReadComment, ReadCdata
  <2>2. ReadText(c) BY <1>2, <2>1, TagActions DEF Consume
  <2>3. Items(w) = (Flat \o TextItems(buffer)) \o ItemsFrom(w, n + 1) BY <1>1, <1>2
  <2>4. Follows(w, n + 1)' BY <2>2, <2>3, TextFollows
  <2>5. error' = "NONE" BY <2>2, Before DEF ReadText
  <2> QED BY <2>4, <2>5
<1>3. CASE /\ s <= n /\ w[s] = "<" /\ \A k \in s + 1 .. n : Markup(w, s, k) = {}
           /\ TagReading(w, s, n) \/ SpecialReading(w, s, n)
           /\ done = Flat
  <2>1. At(w, s, n, c) BY <1>3 DEF At
  <2>2. Outcome(w, s, n + 1) BY <1>3, <2>1, MarkupFollows
  <2>3. Items(w) = Flat \o ItemsFrom(w, s) BY <1>1, <1>3
  <2> QED BY <1>3, <2>1, <2>2, <2>3, OutcomeFollows
<1>4. CASE /\ s <= n /\ w[s] = "<" /\ \A k \in s + 1 .. n : Markup(w, s, k) = {}
           /\ CdataReading(w, s, n)
           /\ Flat = done \o TextItems(SubSeq(w, s + 5, n - Len(buffer)))
  <2>1. At(w, s, n, c) BY <1>4 DEF At
  <2>2. state = "CDATA" BY <1>4 DEF CdataReading
  <2>3. ~ReadText(c) /\ ~ReadSpecial(c) /\ ~ReadComment(c)
    BY <2>2 DEF ReadText, ReadSpecial, ReadComment
  <2>4. ReadCdata(c) BY <2>2, <2>3, TagActions DEF Consume
  <2>5. error' = "NONE" /\ Follows(w, n + 1)' BY <1>1, <1>4, <2>1, <2>4, SectionFollows
  <2> QED BY <2>5
<1> QED BY <1>1, <1>2, <1>3, <1>4 DEF Stage

(* A text that goes on from what is read after a character goes on from what *)
(* was read before, with that character.                                    *)
LEMMA ContinuesStep ==
  ASSUME input \in Text, NEW c \in Chars, input' = Append(input, c), NEW n \in Nat, n = Len(input),
         NEW w \in Text, Continues(w)'
  PROVE  Continues(w) /\ n + 1 <= Len(w) /\ w[n + 1] = c
<1>1. /\ Len(input') = n + 1 /\ input'[n + 1] = c
      /\ \A k \in 1 .. n : input'[k] = input[k]
  BY DEF Text
<1>2. n + 1 <= Len(w) /\ \A k \in 1 .. n + 1 : w[k] = input'[k] BY <1>1 DEF Continues
<1>3. n + 1 \in 1 .. n + 1 OBVIOUS
<1>4. w[n + 1] = c BY <1>1, <1>2, <1>3
<1>5. n <= Len(w)
  <2>1. Len(w) \in Nat BY TextFacts
  <2> QED BY <1>2, <2>1
<1>6. ASSUME NEW k \in 1 .. n PROVE w[k] = input[k]
  <2>1. k \in 1 .. n + 1 OBVIOUS
  <2> QED BY <1>1, <1>2, <2>1
<1> QED BY <1>2, <1>4, <1>5, <1>6 DEF Continues

LEMMA AgreesIsFlat == TokensAgree <=> Flat \o Pending = Items(input)
  BY Zenon DEF TokensAgree, Flat

LEMMA AgreeStep == Inv /\ Inv' /\ AgreeInv /\ [Next]_vars => AgreeInv'
<1> SUFFICES ASSUME Inv, Inv', AgreeInv, [Next]_vars PROVE AgreeInv' OBVIOUS
<1>1. CASE UNCHANGED vars
  <2>0. /\ state' = state /\ buffer' = buffer /\ attributeName' = attributeName
        /\ specialPrefix' = specialPrefix /\ quote' = quote /\ error' = error
        /\ currentToken' = currentToken /\ emitted' = emitted /\ input' = input
    BY <1>1 DEF vars, members
  <2>1. Flat' = Flat /\ Pending' = Pending BY <2>0, FlatStays DEF Pending
  <2>2. ASSUME NEW w, NEW s, NEW n, TagReading(w, s, n) PROVE TagReading(w, s, n)'
    <3>1. CASE BodyReading(w, s, n)
      <4>1. ASSUME NEW f, NEW m, NEW a, NEW type, HeadRead(w, f, m, a, type)
            PROVE  HeadRead(w, f, m, a, type)'
        BY <2>0, <4>1 DEF HeadRead
      <4>2. ASSUME NEW e, ValueRead(w, e, n) PROVE ValueRead(w, e, n)'
        BY <2>0, <4>2 DEF ValueRead
      <4>3. ASSUME NEW p, NEW a, AttributeRead(w, p, a, n) PROVE AttributeRead(w, p, a, n)'
        BY <2>0, <4>2, <4>3 DEF AttributeRead
      <4>4. BodyReading(w, s, n)' BY <2>0, <3>1, <4>1, <4>3 DEF BodyReading
      <4> QED BY <4>4 DEF TagReading
    <3>2. CASE ~BodyReading(w, s, n)
      BY <2>0, <2>2, <3>2 DEF TagReading, NameRead, CloseReading, MarkReading
    <3> QED BY <3>1, <3>2
  <2>3. ASSUME NEW w, NEW s, NEW n, SpecialReading(w, s, n) PROVE SpecialReading(w, s, n)'
    BY <2>0, <2>3 DEF SpecialReading
  <2>4. ASSUME NEW w, NEW s, NEW n, CdataReading(w, s, n) PROVE CdataReading(w, s, n)'
    BY <2>0, <2>4 DEF CdataReading
  <2>5. ASSUME NEW w, NEW s, NEW n, NEW done, Stage(w, s, n, done) PROVE Stage(w, s, n, done)'
    BY <2>0, <2>1, <2>2, <2>3, <2>4, <2>5 DEF Stage
  <2>6. ASSUME NEW w, NEW n, Follows(w, n) PROVE Follows(w, n)'
    BY <2>5, <2>6 DEF Follows
  <2>7. TokensAgree => TokensAgree'
    BY <2>0, <2>1, AgreesIsFlat, Zenon DEF TokensAgree, Flat
  <2>8. CASE error = "NONE"
    <3>1. ASSUME NEW w \in Text, Continues(w)' PROVE Follows(w, Len(input))'
      <4>1. Continues(w) BY <2>0, <3>1 DEF Continues
      <4>2. PICK n : n = Len(input) OBVIOUS
      <4>3. Follows(w, n) BY <2>8, <4>1, <4>2 DEF AgreeInv
      <4>4. Follows(w, n)' BY <2>6, <4>3
      <4>5. n = Len(input') BY <2>0, <4>2
      <4> QED BY <4>4, <4>5
    <3> QED BY <2>0, <2>8, <3>1 DEF AgreeInv
  <2>9. CASE error # "NONE" BY <2>0, <2>7, <2>9 DEF AgreeInv
  <2> QED BY <2>8, <2>9
<1>2. CASE Next
  <2>0. PICK c \in Chars :
        /\ error = "NONE" /\ Consume(c)
        /\ input' = Append(input, c) /\ opening' = opening
    BY <1>2 DEF Next
  <2>1. ReadOne(c) BY <2>0 DEF ReadOne
  <2>2. input \in Text /\ input' \in Text BY DEF Inv, TypeOK, Text
  <2>3. PICK n \in Nat : n = Len(input) BY <2>2, TextFacts
  <2>4. Len(input') = n + 1 BY <2>0, <2>2, <2>3 DEF Text
  <2>5. ASSUME NEW w \in Text, Continues(w)'
        PROVE  n + 1 <= Len(w) /\ w[n + 1] = c /\ Follows(w, n)
    <3>1. Continues(w) /\ n + 1 <= Len(w) /\ w[n + 1] = c BY <2>0, <2>2, <2>3, <2>5, ContinuesStep
    <3>2. Follows(w, n) BY <2>0, <2>3, <3>1 DEF AgreeInv
    <3> QED BY <3>1, <3>2
  <2>6. CASE error' = "NONE"
    <3>1. ASSUME NEW w \in Text, Continues(w)' PROVE Follows(w, n + 1)'
      BY <2>0, <2>1, <2>5, <2>6, <3>1, FollowsStep
    <3>2. \A w \in Text : Continues(w)' => Follows(w, Len(input))'
      <4> SUFFICES ASSUME NEW w \in Text, Continues(w)' PROVE Follows(w, Len(input))' OBVIOUS
      <4>1. Follows(w, n + 1)' BY <3>1
      <4> QED BY <2>4, <4>1
    <3> QED BY <2>6, <3>2 DEF AgreeInv
  <2>7. CASE error' # "NONE"
    <3>1. PICK w \in Text : w = input' BY <2>2
    <3>2. Continues(w)'
      <4>1. Len(input') <= Len(w) BY <2>4, <3>1
      <4> QED BY <3>1, <4>1 DEF Continues
    <3>3. Len(w) = n + 1 BY <2>4, <3>1
    <3>4. n + 1 <= Len(w) /\ w[n + 1] = c /\ Follows(w, n) BY <2>5, <3>2
    <3>5. Flat' \o Pending' = Items(w) BY <2>0, <2>1, <2>7, <3>3, <3>4, FollowsStep
    <3>6. TokensAgree' BY <3>1, <3>5, Zenon DEF TokensAgree, Flat
    <3> QED BY <2>7, <3>6 DEF AgreeInv
  <2> QED BY <2>6, <2>7
<1> QED BY <1>1, <1>2 DEF vars

(* A CDATA section that has begun is read as one. *)
LEMMA SpecialIsNotCdata ==
  ASSUME NEW w \in Text, NEW s \in Int, 1 <= s, NEW n \in Int, n <= Len(w), SpecialReading(w, s, n)
  PROVE  ~CdataBegun(w, s, n)
<1> SUFFICES ASSUME s + 4 <= n, w[s + 2] = "[" PROVE FALSE BY DEF CdataBegun
<1>1. CASE state = "COMMENT" BY <1>1 DEF SpecialReading
<1>2. CASE state # "COMMENT"
  <2>1. /\ specialPrefix = SubSeq(w, s + 2, n)
        /\ specialPrefix \in {<<>>, <<"-">>, <<"[">>, <<"[", "CDATA">>}
    BY <1>2 DEF SpecialReading
  <2>2. Len(<<>>) <= 2 /\ Len(<<"-">>) <= 2 /\ Len(<<"[">>) <= 2 /\ Len(<<"[", "CDATA">>) <= 2
    OBVIOUS
  <2>3. Len(specialPrefix) <= 2 BY <2>1, <2>2
  <2>4. PICK a \in Int : a = s + 2 OBVIOUS
  <2>5. 1 <= a /\ a <= n + 1 BY <2>4
  <2>6. Len(SubSeq(w, a, n)) = n - a + 1 BY <2>5, PartOfText
  <2>7. n - a + 1 <= 2 BY <2>1, <2>3, <2>4, <2>6
  <2> QED BY <2>4, <2>7
<1> QED BY <1>1, <1>2

LEMMA AgreeImplies == Inv /\ AgreeInv => TokensAgree
<1> SUFFICES ASSUME Inv, AgreeInv, error = "NONE" PROVE TokensAgree BY DEF AgreeInv
<1>0. emitted \in Seq(Tokens) /\ buffer \in Text /\ input \in Text BY DEF Inv, TypeOK, Text
<1>1. PICK w \in Text : w = input BY <1>0
<1>2. PICK n \in Nat : n = Len(w) BY TextFacts
<1>3. Follows(w, n)
  <2>1. Continues(w)
    <3>1. Len(input) <= Len(w) BY <1>1, <1>2
    <3> QED BY <1>1, <3>1 DEF Continues
  <2> QED BY <1>1, <1>2, <2>1 DEF AgreeInv
<1>4. PICK s \in 1 .. n + 1, done \in Seq(AnItem) :
        Items(w) = done \o ItemsFrom(w, s) /\ Stage(w, s, n, done)
  BY <1>3 DEF Follows
<1>5. Flat \in Seq(AnItem) BY <1>0, FlatItems
<1>6. Flat \o Pending = Items(w)
  <2>1. CASE state = "TEXT" /\ s = n + 1 /\ done = Flat \o TextItems(buffer)
    <3>1. Pending = TextItems(buffer) BY <2>1 DEF Pending
    <3>2. ItemsFrom(w, s) = <<>>
      <4>1. s \in Int /\ 1 <= s /\ s <= Len(w) + 1 /\ s > Len(w) BY <1>2, <2>1
      <4> QED BY <4>1, ItemsFromIs
    <3> QED BY <1>4, <2>1, <3>1, <3>2, JoinsNothing
  <2>2. CASE s <= n /\ w[s] = "<" /\ \A k \in s + 1 .. n : Markup(w, s, k) = {}
    <3>0. s \in Int /\ 1 <= s /\ s <= Len(w) BY <1>2, <2>2
    <3>1. ItemsFrom(w, s) = Unfinished(w, s) BY <1>2, <2>2, <3>0, ItemsUnfinished
    <3>2. IsIn(w, s, <<"<", "!">> \o CdataStart) <=> CdataBegun(w, s, n)
      BY <1>2, <2>2, <3>0, CdataMark DEF CdataBegun
    <3>3. CASE (TagReading(w, s, n) \/ SpecialReading(w, s, n)) /\ done = Flat
      <4>1. ~CdataBegun(w, s, n)
        <5>1. CASE TagReading(w, s, n)
          <6>1. s + 4 <= n => s < n BY <3>0
          <6> QED BY <3>0, <5>1, <6>1, TagHasNoMark DEF CdataBegun
        <5>2. CASE SpecialReading(w, s, n) BY <1>2, <3>0, <5>2, SpecialIsNotCdata
        <5> QED BY <3>3, <5>1, <5>2
      <4>2. Pending = <<>>
        <5>1. state \notin {"TEXT", "CDATA"} BY <3>3, ReadingOf DEF SpecialReading
        <5> QED BY <5>1 DEF Pending
      <4>3. Unfinished(w, s) = <<>> BY <3>2, <4>1 DEF Unfinished
      <4> QED BY <1>4, <3>1, <3>3, <4>2, <4>3
    <3>4. CASE /\ CdataReading(w, s, n)
               /\ Flat = done \o TextItems(SubSeq(w, s + 5, n - Len(buffer)))
      <4>1. PICK h \in Nat : h = Len(buffer) BY <1>0, TextFacts
      <4>2. CdataBegun(w, s, n) BY <3>4 DEF CdataReading, CdataBegun
      <4>3. s + 4 + h <= n /\ buffer = SubSeq(w, n - h + 1, n) /\ Pending = TextItems(buffer)
        BY <3>4, <4>1 DEF CdataReading, Pending
      <4>4. Unfinished(w, s) = TextItems(SubSeq(w, s + 5, n)) BY <1>2, <3>2, <4>2 DEF Unfinished
      <4>5. PICK f \in Int, e \in Int : f = s + 5 /\ e = n - h BY <3>0
      <4>6. 1 <= f /\ f <= e + 1 /\ e <= n /\ n <= Len(w) /\ e <= Len(w) /\ n - h + 1 = e + 1
        BY <1>2, <3>0, <4>3, <4>5
      <4>7. TextItems(SubSeq(w, f, e)) \o TextItems(SubSeq(w, e + 1, n)) = TextItems(SubSeq(w, f, n))
        <5>1. Joined(w, f, e, n) BY <4>6, StretchesJoined
        <5> QED BY <5>1 DEF Joined
      <4>8. SubSeq(w, f, e) \in Text BY <4>6, PartOfText
      <4>9. PICK x \in Seq(AnItem), y \in Seq(AnItem) :
              x = TextItems(SubSeq(w, f, e)) /\ y = TextItems(buffer)
        BY <1>0, <4>8, TextIsItems
      <4>10. buffer = SubSeq(w, e + 1, n) BY <4>3, <4>6
      <4>11. x \o y = Unfinished(w, s) BY <4>4, <4>5, <4>7, <4>9, <4>10
      <4>12. Flat = done \o x BY <3>4, <4>1, <4>5, <4>9
      <4>13. (done \o x) \o y = done \o (x \o y) BY Joins
      <4> QED BY <1>4, <3>1, <4>3, <4>9, <4>11, <4>12, <4>13
    <3>5. state # "TEXT" \/ s # n + 1 BY <2>2, <3>0, <1>2
    <3> QED BY <1>4, <3>3, <3>4, <3>5 DEF Stage
  <2> QED BY <1>4, <2>1, <2>2 DEF Stage
<1> QED BY <1>1, <1>6, AgreesIsFlat

(* What the tokens and the pending text amount to is what the text read so   *)
(* far stands for, for every text, every split and every buffer's size: no   *)
(* character is lost, repeated, reordered or attributed to another tag       *)
(* (XmlStreamTokenizer.cpp:53-391).                                          *)
THEOREM TokensAreItems == Spec => []TokensAgree
<1>1. Init => Inv /\ AgreeInv BY InvInit, AgreeInit
<1>2. Inv /\ AgreeInv /\ [Next]_vars => (Inv /\ AgreeInv)' BY InvStep, AgreeStep
<1>3. Inv /\ AgreeInv => TokensAgree BY AgreeImplies
<1> QED BY <1>1, <1>2, <1>3, PTL DEF Spec
=============================================================================
