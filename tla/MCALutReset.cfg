CONSTANTS
  Clients = {c1, c2}
  Reqs <- MCReqs
  MaxArray = 2
  ArrayOffset = 256
  LoSpan = 4
  SegSize = 2
  NSeg = 3
SPECIFICATION SpecWithReset
INVARIANT InitClearsTable
