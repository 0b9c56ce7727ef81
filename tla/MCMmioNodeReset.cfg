\* One node: two GPIO callers reset the same CPU while an EEPROM update
\* holds the mmio_lock their releases wait for.
CONSTANTS
  Threads = {t1, t2, t3}
  EepCaller = t3
  EepNode = 0
  NumCpus = 1
  CallerNodes = {0}
  ResetPulse = 1
  TogglePulse = 1
  HoldPulse = 2
  DefWait = 1
  ResetGrace = 2
  DefGpioVal <- MCDefGpioVal
  InitGpio <- MCInitGpio
  H = 4
  CrcXor = 7
  StartCrc = 4
  Align = 6
  ValidSig = 2
  Erased = 15
  Faults = FALSE
  Files <- MCNodeFiles
SPECIFICATION NodeSpec
INVARIANT ResetPulseHeld
