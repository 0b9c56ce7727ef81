\* Images up to 14 bytes; the chip may time out and lose writes.
CONSTANTS
  H = 4
  CrcXor = 7
  StartCrc = 4
  Align = 6
  ValidSig = 2
  Erased = 15
  Faults = TRUE
  Files <- MCFiles
SPECIFICATION Spec
INVARIANTS CrcMatchesReference UpdateOkMeansWritten UpdateKeepsRest
PROPERTIES UpdateReturns
