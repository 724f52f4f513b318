SPECIFICATION Spec
CONSTANTS
  b1 = b1  b2 = b2  small = small  big = big
  Nil = Nil
  Blocks <- TwoBlocks
  Classes <- TwoClasses
  Capacity <- SlotsOfClass
  NPages = 2
  MaxLive = 5
INVARIANTS TypeOK SlotsAccounted PagesAccounted PartialServes
CHECK_DEADLOCK FALSE
SYMMETRY BlocksAlike
