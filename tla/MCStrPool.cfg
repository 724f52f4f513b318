SPECIFICATION Spec
CONSTANTS
  a = a  b = b  c = c  d = d  e = e
  NoStr = NoStr
  Strs <- FiveStrs
  HashOf <- FiveHash
  SizeOf <- FiveSize
  InitialSize = 2
INVARIANTS TypeOK LoadExact ChainUnbroken Owned
PROPERTIES CallReturns ImplementsInterning
CHECK_DEADLOCK FALSE
