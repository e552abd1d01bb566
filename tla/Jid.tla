--------------------------------- MODULE Jid ---------------------------------
(***************************************************************************)
(* Jid (src/xmpp/Jid.cpp): parsing, printing and comparing JIDs, as          *)
(* operators, and a caller that parses a text, prints what it got and takes  *)
(* the bare JID.  Jids are compared and hashed by what is printed.           *)
(***************************************************************************)
EXTENDS Naturals, Sequences, SequencesExt, FiniteSetsExt

CONSTANTS
  Characters,     \* bytes, of which texts consist
  LowerOf,        \* from capitals to letters
  Continuations,  \* bytes that continue a character of UTF-8
  Texts,          \* what callers parse, ...
  Parts,          \* ... and what they make Jids of
  MaxPart         \* 1023 code points

ASSUME MaxPartAssumption == MaxPart \in Nat \ {0}
ASSUME TextsAssumption == Texts \subseteq Seq(Characters) /\ Parts \subseteq Seq(Characters)
ASSUME CharactersAssumption ==
  /\ {"@", "/", " "} \subseteq Characters
  /\ \A c \in DOMAIN LowerOf :
       LowerOf[c] \in Characters \ (DOMAIN LowerOf \cup {"@", "/", " "})
  /\ DOMAIN LowerOf \cap {"@", "/", " "} = {}

VARIABLES
  jid,    \* the Jid of the caller, or Malformed
  parsed  \* was it made of a text, and not of parts?

vars == <<jid, parsed>>

JidOf(local, domain, resource) == [local |-> local, domain |-> domain, resource |-> resource]

(* No Jid but an exception: every Jid has a domain. *)
Malformed == JidOf(<<>>, <<>>, <<>>)

(* trim, toLowerCase and countUtf8CodePoints of utils/String.hpp *)
Trim_Once(s) ==                                                    \* mutant
  LET from == IF s # <<>> /\ s[1] = " " THEN 2 ELSE 1
  IN  SubSeq(s, from, IF Len(s) > from /\ Last(s) = " " THEN Len(s) - 1 ELSE Len(s))
Trim(s) ==
  LET kept == {i \in DOMAIN s : s[i] # " "}
  IN  IF kept = {} THEN <<>> ELSE SubSeq(s, Min(kept), Max(kept))
ToLowerCase(s) == [i \in DOMAIN s |-> IF s[i] \in DOMAIN LowerOf THEN LowerOf[s[i]] ELSE s[i]]
CodePoints(s) == Cardinality({i \in DOMAIN s : s[i] \notin Continuations})

ParseLocalPart(s) == Trim(ToLowerCase(s))
ParseDomainPart(s) == Trim(ToLowerCase(s))
ParseResourcePart(s) == Trim(s)

(* The parts are bounded, and a domain there must be. *)
FromParts_AnyResource(local, domain, resource) ==                  \* mutant
  LET made == JidOf(ParseLocalPart(local), ParseDomainPart(domain), ParseResourcePart(resource))
  IN  IF made.domain # <<>> /\ \A part \in {"local", "domain"} : CodePoints(made[part]) <= MaxPart
      THEN made ELSE Malformed
FromParts(local, domain, resource) ==
  LET made == JidOf(ParseLocalPart(local), ParseDomainPart(domain), ParseResourcePart(resource))
  IN  IF made.domain # <<>> /\ \A part \in DOMAIN made : CodePoints(made[part]) <= MaxPart
      THEN made ELSE Malformed

(* parseFullJid: the resource is what follows the first "/", the local part   *)
(* what precedes the first "@" before that.                                  *)
Position(s, c) == LET found == {i \in DOMAIN s : s[i] = c} IN IF found = {} THEN 0 ELSE Min(found)
Before(s, i) == SubSeq(s, 1, i - 1)
After(s, i) == SubSeq(s, i + 1, Len(s))
Parse_AtFirst(text) ==                                             \* mutant
  LET s == Trim(text)
      at == Position(s, "@")
      rest == After(s, at)
      slash == Position(rest, "/")
  IN  FromParts(IF at = 0 THEN <<>> ELSE Before(s, at),
                IF slash = 0 THEN rest ELSE Before(rest, slash),
                IF slash = 0 THEN <<>> ELSE After(rest, slash))
Parse(text) ==
  LET s == Trim(text)
      slash == Position(s, "/")
      bare == IF slash = 0 THEN s ELSE Before(s, slash)
      at == Position(bare, "@")
  IN  FromParts(IF at = 0 THEN <<>> ELSE Before(bare, at), After(bare, at),
                IF slash = 0 THEN <<>> ELSE After(s, slash))

(* rebuildCachedFullJid; Jids are compared and hashed by it. *)
Str(j) ==
  (IF j.local = <<>> THEN <<>> ELSE j.local \o <<"@">>) \o j.domain
    \o (IF j.resource = <<>> THEN <<>> ELSE <<"/">> \o j.resource)

ToBareJid(j) == FromParts(j.local, j.domain, <<>>)

-----------------------------------------------------------------------------
Init == jid = Malformed /\ parsed = FALSE

ParseText == jid = Malformed /\ \E text \in Texts : jid' = Parse(text) /\ parsed' = TRUE
MakeOfParts ==
  /\ jid = Malformed
  /\ \E local, domain, resource \in Parts :
       jid' = FromParts(local, domain, resource) /\ parsed' = FALSE
TakeBare == jid # Malformed /\ jid' = ToBareJid(jid) /\ UNCHANGED parsed
Reread == jid # Malformed /\ jid' = Parse(Str(jid)) /\ parsed' = TRUE

Next == ParseText \/ MakeOfParts \/ TakeBare \/ Reread
Spec == Init /\ [][Next]_vars

-----------------------------------------------------------------------------
Lowered(s) == \A i \in DOMAIN s : s[i] \notin DOMAIN LowerOf
Trimmed(s) == s # <<>> => s[1] # " " /\ s[Len(s)] # " "
(* The length of a part is in code points, which is what the code counts.    *)
TypeOK ==
  /\ parsed \in BOOLEAN /\ DOMAIN jid = {"local", "domain", "resource"}
  /\ jid.domain = <<>> => jid = Malformed
  /\ Lowered(jid.local) /\ Lowered(jid.domain)
  /\ \A part \in DOMAIN jid : Trimmed(jid[part]) /\ CodePoints(jid[part]) <= MaxPart

(* The one Jid that is read otherwise than it is printed: of a text such as   *)
(* "@b@c", whose local part is empty and whose domain keeps an "@".          *)
Ambiguous == jid.local = <<>> /\ "@" \in ToSet(jid.domain)

(* A Jid that was parsed is what its text is parsed to: so two of them are    *)
(* equal, and the same key of a map, only with equal parts (Jid.cpp:12-76,   *)
(* Jid.hpp:101-109, 157-162).                                                *)
ReadsBack == parsed /\ jid # Malformed /\ ~Ambiguous => Parse(Str(jid)) = jid

(* toBareJid, which may not throw, finds the parts of every Jid acceptable    *)
(* again and keeps them; and of a parsed one the bare text is the full text  *)
(* up to its first "/" (Jid.hpp:48-58).                                      *)
BareKeeps ==
  jid # Malformed =>
    /\ ToBareJid(jid) = JidOf(jid.local, jid.domain, <<>>)
    /\ parsed => LET text == Str(jid)
                     slash == Position(text, "/")
                 IN  Str(ToBareJid(jid)) = IF slash = 0 THEN text ELSE Before(text, slash)

(* Each part is at most 1023 octets long (rfc7622.txt:312-314, 375-376,      *)
(* 474-475); the code has the bound, but counts code points (Jid.cpp:82-106). *)
PartsFitOctets == \A part \in DOMAIN jid : Len(jid[part]) <= MaxPart
=============================================================================
