SPECIFICATION Spec
CONSTANTS
  FirstTemp = 6
  LastTemp = 11
  MaxNodes = 8
INVARIANTS TypeOK RegistersAgree ValuesKept StackBalanced
CHECK_DEADLOCK FALSE
