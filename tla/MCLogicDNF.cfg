SPECIFICATION Spec
CHECK_DEADLOCK FALSE
CONSTANTS
  AllowEmptyArglist = TRUE
  Domain = {1, 2}
  Texts <- MCTexts
  LaterTexts <- MCLaterTexts
  PlainTexts <- MCPlainTexts
  CharTexts <- MCCharTexts
  MaxParses = 2
  MaxHeight = 40
  Identifiers <- MCIdentifiers
INVARIANTS
  DisjunctionKept
