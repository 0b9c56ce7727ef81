\* The largest image: its size exceeds what the u16 loop offset counts to.
CONSTANTS
  H = 4
  CrcXor = 7
  StartCrc = 4
  Align = 6
  ValidSig = 2
  Erased = 15
  Faults = FALSE
  Files <- MCFilesWrap
SPECIFICATION Spec
PROPERTY UpdateReturns
