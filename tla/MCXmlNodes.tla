------------------------------ MODULE MCXmlNodes ------------------------------
EXTENDS XmlNodes

(* Names of a declaration that serve for tags too, and one that is none.     *)
MCTagNames == {<<"xml">>, <<"-", "xml">>}
MCKeys == {<<"version">>, <<"-", "xml">>}
MCContents == {<<"1.0">>, <<"<", "tab", ">", "quot", "&">>, <<"bell">>}
=============================================================================
