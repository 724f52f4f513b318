SPECIFICATION Spec
CONSTANTS
  Texts <- AllTexts
  Declared <- InScope
INVARIANTS TextAccountedFor EvaluationFollowsTypes LiteralExact
CHECK_DEADLOCK FALSE
