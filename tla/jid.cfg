SPECIFICATION Spec
CONSTANTS
  Characters <- MCCharacters
  LowerOf <- MCLowerOf
  Continuations = {"cont"}
  Texts <- MCTexts
  Parts <- MCParts
  MaxText = 6
  MaxPart = 2
INVARIANTS TypeOK ReadsBack BareKeeps
