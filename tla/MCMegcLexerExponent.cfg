SPECIFICATION Spec
CONSTANTS
  Texts <- NumberTexts
  StrMax = 2
  NumMax = 3
PROPERTIES ExponentHasNone
CHECK_DEADLOCK FALSE
