------------------------------- MODULE MmioNode -------------------------------
(***************************************************************************)
(* One node's device context with both users of its mmio_lock: the GPIO   *)
(* operations of Gpio and plx_update_eeprom of Eeprom.  plx_update_eeprom *)
(* validates the image without the lock, then holds mmio_lock from before *)
(* its PLX_EEP_ADDRESS_BYTE fix-up to the unlock label: across every      *)
(* EEPROM command, poll and usleep_range of the write loop.  A GPIO      *)
(* read-modify-write of the same node waits for it, and it waits for     *)
(* them (plx_init_vca_g2_gpios keeps the lock across its msleep).        *)
(*                                                                         *)
(* The EEPROM update runs in EepCaller, one of Threads, which makes GPIO *)
(* calls too when it is not updating: a thread is in at most one call.  *)
(* Eeprom's pc is renamed epc.                                           *)
(***************************************************************************)
EXTENDS Gpio

CONSTANTS
  EepCaller,    \* the thread running plx_update_eeprom
  EepNode,      \* the node whose device context it is called on
  H, CrcXor, StartCrc, Align, ValidSig, Files, Erased, Faults

ASSUME EepCaller \in Threads /\ EepNode \in CallerNodes

VARIABLES eeprom, before, file, offset, ret, epc

E == INSTANCE Eeprom WITH pc <- epc

evars == <<eeprom, before, file, offset, ret, epc>>
nvars == <<vars, evars>>

NodeInit == Init /\ E!Init

(* What the GPIO threads and time do, the EEPROM untouched.              *)
GpioStep(t) == Step(t) /\ UNCHANGED evars
GpioTick == Tick /\ UNCHANGED evars

GpioNext ==
  \/ \E t \in Threads :
       \/ GpioStep(t)
       \/ Call(t) /\ (t = EepCaller => epc = "idle") /\ UNCHANGED evars
       \/ signal_bit_interrupted(t) /\ UNCHANGED evars
  \/ GpioTick

(* The update is an ioctl of a probed node, made by EepCaller while it   *)
(* is in no GPIO call.                                                   *)
EepCall == E!Call /\ probe[EepNode] = "done" /\ pc[EepCaller] = "idle" /\ UNCHANGED vars

(* Steps of plx_update_eeprom that neither take nor drop the lock.       *)
EepOwn == (E!eeprom_validate \/ E!update_write \/ E!update_verify)
          /\ UNCHANGED vars

(* eeprom_check_crc of each image the update may be handed, computed    *)
(* once: Eeprom's CrcOk, taken through the instance E, is not.          *)
NodeCrcOk == [f \in Files |-> E!eeprom_check_crc(f)]

(* eeprom_validate's CRC check (Eeprom's eeprom_crc) and, once it        *)
(* accepted the image, mutex_lock(&xdev->mmio_lock), the                 *)
(* PLX_EEP_ADDRESS_BYTE fix-up (abstracted) and the start of the loop at *)
(* offset 0.  The CRC check touches no shared state, so it is folded     *)
(* into the mutex_lock step.  A rejected CRC returns unlocked.           *)
plx_update_eeprom_lock ==
  /\ epc = "check_crc"
  /\ IF NodeCrcOk[file]
     THEN /\ mmioLock[EepNode] = None
          /\ mmioLock' = [mmioLock EXCEPT ![EepNode] = EepCaller]
          /\ epc' = "write" /\ offset' = 0 /\ UNCHANGED ret
     ELSE /\ epc' = "done" /\ ret' = E!INTERNAL
          /\ UNCHANGED <<mmioLock, offset>>
  /\ UNCHANGED <<eeprom, before, file>>
  /\ UNCHANGED <<gpio, intent, probe, sinceReset, pc, op, xdev, cpu, bit, rem, data>>

(* Mutant: the unlock label without its mutex_unlock.                  *)
plx_update_eeprom_unlock_nounlock ==
  /\ E!Return
  /\ UNCHANGED mmioLock
  /\ UNCHANGED <<gpio, intent, probe, sinceReset, pc, op, xdev, cpu, bit, rem, data>>

(* unlock: mutex_unlock(&xdev->mmio_lock); return ret.  Every exit of the *)
(* loop (a timeout, a mismatch, the end) goes through it; the returns    *)
(* before mutex_lock do not.                                             *)
plx_update_eeprom_unlock ==
  /\ E!Return
  /\ IF mmioLock[EepNode] = EepCaller
     THEN mmioLock' = [mmioLock EXCEPT ![EepNode] = None]
     ELSE UNCHANGED mmioLock
  /\ UNCHANGED <<gpio, intent, probe, sinceReset, pc, op, xdev, cpu, bit, rem, data>>

EepStep == EepOwn \/ plx_update_eeprom_lock \/ plx_update_eeprom_unlock

NodeNext == GpioNext \/ EepCall \/ EepStep

(* Gpio's fairness for its threads and for time.  The update, once       *)
(* called, runs on: its steps are strongly fair, since its mutex_lock is  *)
(* enabled only while no GPIO operation holds the lock and the mutex      *)
(* hands off to a waiter.                                                *)
NodeSpec ==
  /\ NodeInit /\ [][NodeNext]_nvars
  /\ \A t \in Threads : SF_nvars(GpioStep(t))
  /\ SF_nvars(GpioTick)
  /\ SF_nvars(EepStep)

-----------------------------------------------------------------------------
(* Properties                                                           *)

NodeTypeOK == TypeOK /\ E!TypeOK

(* Every GPIO operation on the node returns although plx_update_eeprom   *)
(* holds the node's mmio_lock across the whole EEPROM write, and every   *)
(* update returns although GPIO operations (plx_init_vca_g2_gpios across *)
(* its msleep) hold it: no path of either keeps the lock for good.      *)
NodeCallsReturn ==
  /\ \A t \in Threads : pc[t] # "idle" ~> pc[t] = "idle"
  /\ epc = "validate" ~> epc = "idle"

=============================================================================
