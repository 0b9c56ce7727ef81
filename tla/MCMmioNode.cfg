\* One node: two threads make GPIO calls, one of them EEPROM updates too;
\* the images are a valid one and one with a wrong CRC.
CONSTANTS
  Threads = {t1, t3}
  EepCaller = t3
  EepNode = 0
  NumCpus = 1
  CallerNodes = {0}
  ResetPulse = 1
  TogglePulse = 1
  HoldPulse = 2
  DefWait = 1
  ResetGrace = 2
  DefGpioVal <- MCDefGpioVal
  InitGpio <- MCInitGpio
  H = 4
  CrcXor = 7
  StartCrc = 4
  Align = 6
  ValidSig = 2
  Erased = 15
  Faults = FALSE
  Files <- MCNodeFiles
SPECIFICATION NodeSpec
INVARIANTS NodeTypeOK GpioNoLostUpdate
PROPERTY NodeCallsReturn
