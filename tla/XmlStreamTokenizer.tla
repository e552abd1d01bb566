-------------------------- MODULE XmlStreamTokenizer --------------------------
(***************************************************************************)
(* XmlStreamTokenizer::process (src/xml/tokenizer/XmlStreamTokenizer.cpp),   *)
(* one action for what its states do alike with a character.  All that it    *)
(* remembers between two characters is in its members, so it makes no        *)
(* difference where one chunk of the stream ends and the next begins.        *)
(***************************************************************************)
EXTENDS XmlGrammar

CONSTANTS
  Openings,  \* what the streams may start with
  MaxInput   \* bound: characters that follow an opening

ASSUME OpeningsAssumption == Openings \subseteq Seq(Chars) /\ MaxInput \in Nat

VARIABLES
  state, buffer, attributeName, specialPrefix, quote, error,  \* the members
  currentToken,
  emitted,     \* the tokens handed to onXmlToken
  input,       \* the characters consumed
  opening      \* the one this stream starts with

members == <<state, buffer, attributeName, specialPrefix, quote, error, currentToken>>
vars == <<members, emitted, input, opening>>

Token(type) == Item(type, <<>>, NoAttributes)

TagStates ==
  {"TEXT", "AFTER_OPEN", "START_TAG_NAME", "START_TAG_BODY", "END_TAG_NAME", "END_TAG_BODY",
   "DECLARATION_NAME", "DECLARATION_BODY", "DECLARATION_QUESTION", "SELF_CLOSING"}
AttributeStates ==
  {"ATTRIBUTE_NAME", "ATTRIBUTE_AFTER_NAME", "ATTRIBUTE_VALUE_START", "ATTRIBUTE_VALUE",
   "DECLARATION_ATTRIBUTE_NAME", "DECLARATION_ATTRIBUTE_AFTER_NAME",
   "DECLARATION_ATTRIBUTE_VALUE_START", "DECLARATION_ATTRIBUTE_VALUE"}
States == TagStates \cup AttributeStates \cup {"SPECIAL", "COMMENT", "CDATA"}
Errors == {"NONE", "MALFORMED_INPUT", "BUFFER_SIZE_EXHAUSTED"}

Tokens ==
  [type : TokenTypes, content : Seq(Chars), attributes : SUBSET (Seq(Chars) \X Seq(Chars))]

(* The states that collect characters in the buffer; the others leave it     *)
(* empty.                                                                    *)
Collecting ==
  {"TEXT", "START_TAG_NAME", "END_TAG_NAME", "DECLARATION_NAME", "ATTRIBUTE_NAME",
   "ATTRIBUTE_VALUE", "DECLARATION_ATTRIBUTE_NAME", "DECLARATION_ATTRIBUTE_VALUE",
   "COMMENT", "CDATA"}

TypeOK ==
  /\ state \in States
  /\ buffer \in Seq(Chars) /\ attributeName \in Seq(Chars) /\ specialPrefix \in Seq(Chars)
  /\ state \notin Collecting => buffer = <<>>
  /\ quote \in Quotes \cup {"none"}
  /\ error \in Errors
  /\ currentToken \in Tokens
  /\ emitted \in Seq(Tokens)
  /\ input \in Seq(Chars)
  /\ opening \in Openings

Init ==
  /\ state = "TEXT" /\ buffer = <<>> /\ attributeName = <<>> /\ specialPrefix = <<>>
  /\ quote = "none" /\ error = "NONE" /\ currentToken = Token("OPEN_TAG")
  /\ emitted = <<>> /\ input = <<>>
  /\ opening \in Openings

-----------------------------------------------------------------------------
Emit(token) == emitted' = Append(emitted, token)
EmitText(s) ==
  emitted' = IF s = <<>> THEN emitted
                         ELSE Append(emitted, Item("TEXT_CONTENT", s, NoAttributes))

(* A name or a value takes one more character. *)
Grow_OneTooMany(c) ==                                              \* mutant
  /\ buffer' = Append(buffer, c)
  /\ error' = IF Len(buffer') > MaxBuffer + 1 THEN "BUFFER_SIZE_EXHAUSTED" ELSE error
Grow(c) ==
  /\ buffer' = Append(buffer, c)
  /\ error' = IF Len(buffer') > MaxBuffer THEN "BUFFER_SIZE_EXHAUSTED" ELSE error

ReadText(c) ==
  /\ state = "TEXT"
  /\ \/ /\ c = "<"
        /\ EmitText(buffer)
        /\ buffer' = <<>>
        /\ state' = "AFTER_OPEN"
     \/ /\ c # "<" /\ Len(buffer) + 1 < MaxBuffer
        /\ buffer' = Append(buffer, c)
        /\ UNCHANGED <<state, emitted>>
     \/ /\ c # "<" /\ Len(buffer) + 1 >= MaxBuffer
        /\ EmitText(Append(buffer, c))
        /\ buffer' = <<>>
        /\ UNCHANGED state
  /\ UNCHANGED <<attributeName, specialPrefix, quote, error, currentToken>>

(* The character after a "<" tells what begins. *)
Begin(next, type, name) ==
  /\ state' = next
  /\ currentToken' = Token(type)
  /\ buffer' = name
OpenMarkup(c) ==
  /\ state = "AFTER_OPEN"
  /\ \/ c = "/" /\ Begin("END_TAG_NAME", "CLOSE_TAG", <<>>) /\ UNCHANGED specialPrefix
     \/ c = "?" /\ Begin("DECLARATION_NAME", "DECLARATION", <<>>) /\ UNCHANGED specialPrefix
     \/ c = "!" /\ Begin("SPECIAL", "OPEN_TAG", buffer) /\ specialPrefix' = <<>>
     \/ /\ c \in NameCharacters
        /\ Begin("START_TAG_NAME", "OPEN_TAG", <<c>>) /\ UNCHANGED specialPrefix
  /\ UNCHANGED <<attributeName, quote, error, emitted>>

NameStates ==
  {"START_TAG_NAME", "END_TAG_NAME", "DECLARATION_NAME",
   "ATTRIBUTE_NAME", "DECLARATION_ATTRIBUTE_NAME"}
GrowName(c) ==
  /\ state \in NameStates /\ c \in NameCharacters
  /\ Grow(c)
  /\ UNCHANGED <<state, attributeName, specialPrefix, quote, currentToken, emitted>>

(* The name of a tag or a declaration ends, and with ">" the tag too.  Only  *)
(* the name of a close tag that a space ends may be empty.                   *)
TagNameEnds ==
  [START_TAG_NAME   |-> [space |-> "START_TAG_BODY", mark |-> {<<"/", "SELF_CLOSING">>, <<">", "TEXT">>}],
   END_TAG_NAME     |-> [space |-> "END_TAG_BODY", mark |-> {<<">", "TEXT">>}],
   DECLARATION_NAME |-> [space |-> "DECLARATION_BODY", mark |-> {<<"?", "DECLARATION_QUESTION">>}]]
TagNameEndsWith(c, next) ==
  /\ state \in DOMAIN TagNameEnds
  /\ \/ c \in Spaces /\ next = TagNameEnds[state].space
     \/ <<c, next>> \in TagNameEnds[state].mark
  /\ buffer # <<>> \/ (state = "END_TAG_NAME" /\ c \in Spaces)
EndTagName(c) ==
  \E next \in States :
    /\ TagNameEndsWith(c, next)
    /\ state' = next
    /\ currentToken' = [currentToken EXCEPT !.content = buffer]
    /\ buffer' = <<>>
    /\ IF next = "TEXT" THEN Emit(currentToken') ELSE UNCHANGED emitted
    /\ UNCHANGED <<attributeName, specialPrefix, quote, error>>

(* Attributes: those of a tag and those of a declaration go through states   *)
(* of their own, in the same way.                                            *)
AttributesOf(body, name, afterName, valueStart, value) ==
  [body |-> body, name |-> name, afterName |-> afterName,
   valueStart |-> valueStart, value |-> value]
AttributePaths ==
  {AttributesOf("START_TAG_BODY", "ATTRIBUTE_NAME", "ATTRIBUTE_AFTER_NAME",
                "ATTRIBUTE_VALUE_START", "ATTRIBUTE_VALUE"),
   AttributesOf("DECLARATION_BODY", "DECLARATION_ATTRIBUTE_NAME",
                "DECLARATION_ATTRIBUTE_AFTER_NAME", "DECLARATION_ATTRIBUTE_VALUE_START",
                "DECLARATION_ATTRIBUTE_VALUE")}

StartAttribute(c) ==
  \E p \in AttributePaths :
    /\ state = p.body /\ c \in NameCharacters
    /\ buffer' = <<c>>
    /\ state' = p.name
    /\ UNCHANGED <<attributeName, specialPrefix, quote, error, currentToken, emitted>>

EndAttributeName_KeepsBuffer(c) ==                                 \* mutant
  \E p \in AttributePaths :
    /\ state = p.name /\ c \in Spaces \cup {"="}
    /\ attributeName' = buffer
    /\ state' = IF c = "=" THEN p.valueStart ELSE p.afterName
    /\ UNCHANGED <<buffer, specialPrefix, quote, error, currentToken, emitted>>

EndAttributeName(c) ==
  \E p \in AttributePaths :
    /\ state = p.name /\ c \in Spaces \cup {"="}
    /\ attributeName' = buffer
    /\ buffer' = <<>>
    /\ state' = IF c = "=" THEN p.valueStart ELSE p.afterName
    /\ UNCHANGED <<specialPrefix, quote, error, currentToken, emitted>>

StartValue(c) ==
  \E p \in AttributePaths :
    /\ state = p.valueStart /\ c \in Quotes
    /\ quote' = c
    /\ buffer' = <<>>
    /\ state' = p.value
    /\ UNCHANGED <<attributeName, specialPrefix, error, currentToken, emitted>>

Set(attributes, name, value) ==
  {a \in attributes : a[1] # name} \cup {<<name, value>>}
ReadValue(c) ==
  \E p \in AttributePaths :
    /\ state = p.value
    /\ \/ /\ c = quote
          /\ currentToken' = [currentToken EXCEPT !.attributes = Set(@, attributeName, buffer)]
          /\ attributeName' = <<>>
          /\ buffer' = <<>>
          /\ state' = p.body
          /\ UNCHANGED error
       \/ /\ c # quote
          /\ Grow(c)
          /\ UNCHANGED <<state, attributeName, currentToken>>
    /\ UNCHANGED <<specialPrefix, quote, emitted>>

(* Characters that only lead on, or are skipped. *)
Moves ==
  {<<s, " ", s>> : s \in {"START_TAG_BODY", "END_TAG_BODY", "DECLARATION_BODY"}}
  \cup (UNION {{<<p.afterName, " ", p.afterName>>, <<p.afterName, "=", p.valueStart>>,
                <<p.valueStart, " ", p.valueStart>>} : p \in AttributePaths})
  \cup {<<"START_TAG_BODY", "/", "SELF_CLOSING">>,
        <<"DECLARATION_BODY", "?", "DECLARATION_QUESTION">>}
Move(c) ==
  \E m \in Moves :
    /\ state = m[1] /\ c = m[2]
    /\ state' = m[3]
    /\ UNCHANGED <<buffer, attributeName, specialPrefix, quote, error, currentToken, emitted>>

EndStates == {"START_TAG_BODY", "END_TAG_BODY", "DECLARATION_QUESTION", "SELF_CLOSING"}
EndTag(c) ==
  /\ state \in EndStates /\ c = ">"
  /\ currentToken' = IF state = "SELF_CLOSING" THEN [currentToken EXCEPT !.type = "EMPTY_TAG"]
                                               ELSE currentToken
  /\ Emit(currentToken')
  /\ state' = "TEXT"
  /\ UNCHANGED <<buffer, attributeName, specialPrefix, quote, error>>

(* "<!" begins a comment or a CDATA section. *)
ReadSpecial(c) ==
  /\ state = "SPECIAL"
  /\ specialPrefix' = Append(specialPrefix, c)
  /\ \/ /\ specialPrefix' = CommentStart
        /\ state' = "COMMENT" /\ buffer' = <<>> /\ UNCHANGED error
     \/ /\ specialPrefix' = CdataStart
        /\ state' = "CDATA" /\ buffer' = <<>> /\ UNCHANGED error
     \/ /\ IsStrictPrefix(specialPrefix', CommentStart) \/ IsStrictPrefix(specialPrefix', CdataStart)
        /\ UNCHANGED <<state, buffer, error>>
     \/ /\ ~IsPrefix(specialPrefix', CommentStart) /\ ~IsPrefix(specialPrefix', CdataStart)
        /\ error' = "MALFORMED_INPUT" /\ UNCHANGED <<state, buffer>>
  /\ UNCHANGED <<attributeName, quote, currentToken, emitted>>

ReadComment(c) ==
  /\ state = "COMMENT"
  /\ LET read == Append(buffer, c)
     IN  \/ /\ IsSuffix(CommentEnd, read)
            /\ Emit(Item("COMMENT", SubSeq(read, 1, Len(read) - 3), NoAttributes))
            /\ buffer' = <<>>
            /\ state' = "TEXT"
            /\ UNCHANGED error
         \/ /\ ~IsSuffix(CommentEnd, read)
            /\ Grow(c)
            /\ UNCHANGED <<state, emitted>>
  /\ UNCHANGED <<attributeName, specialPrefix, quote, currentToken>>

(* A full buffer is handed on, but for the two characters that may begin the *)
(* section's end.                                                            *)
Rest_LastOne(s) == <<s[Len(s)]>>                                   \* mutant
Rest(s) == SubSeq(s, Len(s) - 1, Len(s))
ReadCdata(c) ==
  /\ state = "CDATA"
  /\ LET read == Append(buffer, c)
     IN  \/ /\ IsSuffix(CdataEnd, read)
            /\ EmitText(SubSeq(read, 1, Len(read) - 3))
            /\ buffer' = <<>>
            /\ state' = "TEXT"
         \/ /\ ~IsSuffix(CdataEnd, read) /\ Len(read) < MaxBuffer
            /\ buffer' = read
            /\ UNCHANGED <<state, emitted>>
         \/ /\ ~IsSuffix(CdataEnd, read) /\ Len(read) >= MaxBuffer
            /\ EmitText(SubSeq(read, 1, Len(read) - 2))
            /\ buffer' = Rest(read)
            /\ UNCHANGED state
  /\ UNCHANGED <<attributeName, specialPrefix, quote, error, currentToken>>

(* What no state above takes is malformed. *)
Taken(c) ==
  \/ state \in {"TEXT", "SPECIAL", "COMMENT", "CDATA"}
  \/ state = "AFTER_OPEN" /\ c \in NameCharacters \cup {"/", "?", "!"}
  \/ state \in NameStates /\ c \in NameCharacters
  \/ \E next \in States : TagNameEndsWith(c, next)
  \/ \E p \in AttributePaths : \/ state = p.body /\ c \in NameCharacters
                               \/ state = p.name /\ c \in Spaces \cup {"="}
                               \/ state = p.valueStart /\ c \in Quotes
                               \/ state = p.value
  \/ \E m \in Moves : state = m[1] /\ c = m[2]
  \/ state \in EndStates /\ c = ">"
Reject(c) ==
  /\ ~Taken(c)
  /\ error' = "MALFORMED_INPUT"
  /\ currentToken' = IF state = "AFTER_OPEN" THEN Token("OPEN_TAG") ELSE currentToken
  /\ UNCHANGED <<state, buffer, attributeName, specialPrefix, quote, emitted>>

Consume(c) ==
  \/ ReadText(c) \/ OpenMarkup(c) \/ GrowName(c) \/ EndTagName(c) \/ StartAttribute(c)
  \/ EndAttributeName(c) \/ StartValue(c) \/ ReadValue(c) \/ Move(c) \/ EndTag(c)
  \/ ReadSpecial(c) \/ ReadComment(c) \/ ReadCdata(c) \/ Reject(c)

(* The next character of the stream; after an error none is read any more.  *)
Stream(c) ==
  /\ Len(input) < Len(opening) + MaxInput
  /\ Len(input) < Len(opening) => c = opening[Len(input) + 1]
Next ==
  \E c \in Chars :
    /\ error = "NONE" /\ Stream(c)
    /\ Consume(c)
    /\ input' = Append(input, c)
    /\ UNCHANGED opening

Spec == Init /\ [][Next]_vars

-----------------------------------------------------------------------------
(* What the tokens and the text still in the buffer amount to is what the    *)
(* text read so far stands for: nothing is lost, repeated, reordered or       *)
(* attributed to another tag, wherever a full buffer is handed on and         *)
(* wherever a markup breaks off (XmlStreamTokenizer.cpp:53-391).             *)
ItemsOf(token) == IF token.type = "TEXT_CONTENT" THEN TextItems(token.content) ELSE <<token>>
Pending == IF state \in {"TEXT", "CDATA"} THEN TextItems(buffer) ELSE <<>>
TokensAgree ==
  FlattenSeq([k \in DOMAIN emitted |-> ItemsOf(emitted[k])]) \o Pending = Items(input)

(* The buffer never outgrows its bound, but by the character that makes the  *)
(* tokenizer fail, and no token's content does (XmlStreamTokenizer.hpp:13).  *)
FitsBuffer ==
  /\ Len(buffer) <= IF error = "BUFFER_SIZE_EXHAUSTED" THEN MaxBuffer + 1 ELSE MaxBuffer
  /\ \A k \in DOMAIN emitted : Len(emitted[k].content) <= MaxBuffer
=============================================================================
