------------------------------ MODULE MCMmioNode ------------------------------
(* One node of an MV card whose two threads make GPIO calls, one of     *)
(* them EEPROM updates too.  The image body is all erased cells, so the *)
(* update changes no EEPROM contents and adds only its control states.  *)
EXTENDS MmioNode

MCInitGpio == {}
MCDefGpioVal == Bits

(* A valid 14-byte image (header <<2, 6>>, three erased halfwords, its  *)
(* CRC) and the same image with a wrong CRC, written out so that TLC    *)
(* does not recompute the CRC each time it reads Files; the ASSUME      *)
(* checks they are the images MCEeprom builds.                          *)
MCNodeFiles == { <<2, 6, 15, 15, 15, 13, 2>>, <<2, 6, 15, 15, 15, 12, 2>> }

M == INSTANCE MCEeprom WITH pc <- epc
ASSUME MCNodeFiles = { M!MkImage(2, 6, <<15, 15, 15>>, flip) : flip \in {0, 1} }
=============================================================================
