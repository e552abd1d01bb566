--------------------------------- MODULE MCJid ---------------------------------
EXTENDS Jid

CONSTANT MaxText

MCCharacters == {"a", "A", "@", "/", " ", "cont"}
MCLowerOf == [c \in {"A"} |-> "a"]
TextsTo(length) == UNION {[1 .. n -> Characters] : n \in 0 .. length}
MCTexts == TextsTo(MaxText)
MCParts == TextsTo(2)
=============================================================================
