------------------------- MODULE MCXmlStreamTokenizer -------------------------
EXTENDS XmlStreamTokenizer

(* Streams that start with nothing, in a text, inside each kind of markup. *)
MCOpenings ==
  {<<>>,
   <<"<", "a", " ">>,
   <<"<", "a", " ", "a", "=", "apos">>,
   <<"<", "a", " ", "a", "=", "apos", "-", "apos", "a", "=", "quot">>,
   <<"<", "/", "a">>,
   <<"<", "?", "a">>,
   <<"<", "?", "a", " ", "a", "=">>,
   <<"<", "!", "-", "-">>,
   <<"<", "!", "[", "CDATA", "[", "a">>}
=============================================================================
