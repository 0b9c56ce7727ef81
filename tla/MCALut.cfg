CONSTANTS
  Clients = {c1, c2, c3}
  Reqs <- MCReqs
  MaxArray = 2
  ArrayOffset = 256
  LoSpan = 4
  SegSize = 2
  NSeg = 3
SPECIFICATION Spec
INVARIANT TypeOK
INVARIANT TranslationCorrect
INVARIANT NoOrphanWindow
INVARIANT RefsMatchHolders
PROPERTY EventuallyRevoked
PROPERTY WindowsSpec
