SPECIFICATION Spec
CONSTANTS
  Letters = {"a"}
  MaxBuffer = 3
  Openings <- MCOpenings
  MaxInput = 4
INVARIANTS TypeOK TokensAgree FitsBuffer
CHECK_DEADLOCK FALSE
