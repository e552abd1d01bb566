SPECIFICATION Spec
CONSTANTS
  None = None
  Letters = {"xml", "version", "encoding", "standalone"}
  NameStarts = {"xml", "version", "encoding", "standalone"}
  MaxBuffer = 8
  MaxNodes = 4
  MaxAttributes = 1
  MaxContent = 2
  TagNames <- MCTagNames
  Keys <- MCKeys
  Contents <- MCContents
INVARIANTS TypeOK OwnedOnce ParentsTell ReadsBack
CHECK_DEADLOCK FALSE
