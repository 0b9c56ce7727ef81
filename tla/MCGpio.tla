------------------------------- MODULE MCGpio -------------------------------
(* Model of an MV card: two callers, times in ticks with the order of   *)
(* the real ones (reset pulse < grace period, toggle < hold).           *)
EXTENDS Gpio

(* A fresh card: every line low, PLX_CARD_RESET_BIT too.                *)
MCInitGpio == {}

(* PLX_MV_DEF_GPIO_VAL: every line de-asserted (high).                  *)
MCDefGpioVal == Bits
=============================================================================
