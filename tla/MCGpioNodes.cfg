\* Two nodes' drivers take calls: each caller holds only its own node's
\* mmio_lock while it updates the card-wide GPIO_REG.
CONSTANTS
  Threads = {t1, t2}
  NumCpus = 2
  CallerNodes = {0, 1}
  ResetPulse = 1
  TogglePulse = 1
  HoldPulse = 2
  DefWait = 1
  ResetGrace = 2
  DefGpioVal <- MCDefGpioVal
  InitGpio <- MCInitGpio
SPECIFICATION Spec
INVARIANT GpioNoLostUpdate
