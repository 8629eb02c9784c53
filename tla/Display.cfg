SPECIFICATION Spec
CONSTANTS
  Writers = {"w1", "w2"}
  Texts <- MCTexts
  NL = "nl"
  Width = 5
  Pages = 2
  FontWidth = 1
  Nibble = 2
  MaxEvents = 4
  MaxInside = 2
  Core = "core"
INVARIANTS NodeMeansReady SuccessShowsText CursorInSync
CHECK_DEADLOCK FALSE
