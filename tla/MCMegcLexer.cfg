SPECIFICATION Spec
CONSTANTS
  Texts <- MixedTexts
  StrMax = 2
  NumMax = 3
INVARIANTS TypeOK Located LineBreaksAccounted InvalReported DigitsKept
PROPERTIES Terminates
CHECK_DEADLOCK FALSE
