SPECIFICATION Spec
CONSTANTS
  a = a  b = b  c = c  d = d  e = e  f = f
  NoDecl = NoDecl
  Decls <- SixDecls
  HashOf <- SixHash
  InitialSize = 2
INVARIANTS TypeOK SearchReaches FreedOnce
PROPERTIES CallReturns ImplementsDeclarations
CHECK_DEADLOCK FALSE
