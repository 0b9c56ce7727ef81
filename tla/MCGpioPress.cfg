\* One node; two callers press the same power button.
CONSTANTS
  Threads = {t1, t2}
  NumCpus = 1
  CallerNodes = {0}
  ResetPulse = 1
  TogglePulse = 1
  HoldPulse = 2
  DefWait = 1
  ResetGrace = 2
  DefGpioVal <- MCDefGpioVal
  InitGpio <- MCInitGpio
SPECIFICATION Spec
INVARIANT PowerPulseHeld
