------------------------------- MODULE Eeprom -------------------------------
(***************************************************************************)
(* plx_update_eeprom (plx_hw.c): validate a user-supplied EEPROM image     *)
(* (eeprom_validate, eeprom_check_crc), then write it dword by dword       *)
(* through the chip's EEPROM command interface and read each dword back.  *)
(*                                                                         *)
(* Widths are scaled: the code's 16-bit halfword, its u16 byte offset and  *)
(* its u16 configuration_size all become H bits, its 32-bit dword and CRC  *)
(* register 2H bits.  Keeping the offset and the size field at the SAME   *)
(* width keeps the relation between them that decides whether the write   *)
(* loop terminates.  The image is a sequence of halfwords, little endian:  *)
(* byte offset o is in halfword o \div 2 + 1.                             *)
(***************************************************************************)
EXTENDS Integers, Sequences, SequencesExt, Bitwise

CONSTANTS
  H,            \* bits of a u16 (16 in the code)
  CrcXor,       \* PLX_EEP_CONST_CRC_XOR_VALUE, scaled to 2H bits
  StartCrc,     \* PLX_EEP_START_CRC_OFFSET, in bytes
  Align,        \* PLX_EEP_CONFIGURATION_ALIGNMENT_BYTE
  ValidSig,     \* PLX_EEP_VALIDATION_HEADER (the low byte of halfword 1)
  Files,        \* images a caller may pass (sequences of halfwords)
  Erased,       \* the halfword value of an unwritten EEPROM cell
  Faults        \* TRUE: commands may time out and writes may be lost

B == 2 * H                         \* bits of a u32
HalfVal == 0 .. 2^H - 1
HeaderLen == 4                     \* PLX_EEP_HEADER_LENGTH_BYTE
CrcLen == 4                        \* PLX_EEP_CRC_LENGTH_BYTE
EepCells == 0 .. 2^(H - 1) - 1     \* halfwords a u16 byte offset reaches

ASSUME H \in Nat /\ H >= 2 /\ CrcXor \in 0 .. 2^B - 1 /\ Erased \in HalfVal
ASSUME \A f \in Files : f \in Seq(HalfVal)

(* Loads from the image: *(u16 * )(data + o) and *(u32 * )(data + o).      *)
Size(f) == 2 * Len(f)
Half(f, o) == f[o \div 2 + 1]
FileDword(f, o) == Half(f, o) + Half(f, o + 2) * 2^H

(* struct eeprom_header over the first dword.                           *)
Signature(f) == f[1] % 2^(H \div 2)
ConfigSize(f) == f[2]

-----------------------------------------------------------------------------
(* eeprom_check_crc                                                       *)

(* One pass of the inner loop: the top bit of crc ^ (value << i) decides *)
(* whether the shifted register is xor-ed with the constant.            *)
CrcShift(crc, v, i) ==
  LET x == IF ((crc ^^ ((v * 2^i) % 2^B)) & 2^(B - 1)) # 0 THEN CrcXor ELSE 0
  IN  ((crc * 2) % 2^B) ^^ x

(* Mutant: the inner loop one pass short.                               *)
RECURSIVE CrcBitsShort(_, _, _)
CrcBitsShort(crc, v, i) ==
  IF i = B - 1 THEN crc ELSE CrcBitsShort(CrcShift(crc, v, i), v, i + 1)

(* for (i = 0; i < 32; ++i)                                             *)
RECURSIVE CrcBits(_, _, _)
CrcBits(crc, v, i) == IF i = B THEN crc ELSE CrcBits(CrcShift(crc, v, i), v, i + 1)

(* next_crc_value: a u16 when two bytes remain before the CRC, else u32. *)
CrcWord(f, o, end) == IF end - o = 2 THEN Half(f, o) ELSE FileDword(f, o)

(* The outer loop, crc_offset from PLX_EEP_START_CRC_OFFSET by 4.       *)
RECURSIVE CrcLoop(_, _, _, _)
CrcLoop(crc, f, o, end) ==
  IF o >= end THEN crc
  ELSE CrcLoop(CrcBits(crc, CrcWord(f, o, end), 0), f, o + 4, end)

CrcEnd(f) == Size(f) - CrcLen

eeprom_check_crc(f) == CrcLoop(2^B - 1, f, StartCrc, CrcEnd(f)) = FileDword(f, CrcEnd(f))

(* Reference: the CRC as polynomial arithmetic over GF(2).  With         *)
(* generator G = x^B + CrcXor and register r, feeding a B-bit word w     *)
(* MSB first gives ((r + w) * x^B) mod G.                                *)
RECURSIVE Degree(_)
Degree(p) == IF p < 2 THEN 0 ELSE 1 + Degree(p \div 2)

RECURSIVE PolyMod(_)
PolyMod(p) == IF p < 2^B THEN p
              ELSE PolyMod(p ^^ ((2^B + CrcXor) * 2^(Degree(p) - B)))

(* The data as B-bit words from StartCrc, the last one cut short at the *)
(* CRC (its missing bytes zero).                                         *)
CrcWords(f) ==
  [k \in 1 .. ((CrcEnd(f) - StartCrc + 3) \div 4) |->
     LET o == StartCrc + 4 * (k - 1)
     IN  IF o + 4 > CrcEnd(f) THEN Half(f, o) ELSE FileDword(f, o)]

RefCrc(f) == FoldLeft(LAMBDA r, w : PolyMod((r ^^ w) * 2^B), 2^B - 1, CrcWords(f))

RefCrcOk(f) == RefCrc(f) = FileDword(f, CrcEnd(f))

(* eeprom_check_crc of every image a caller may pass.  A constant, so   *)
(* TLC computes it once (ENABLED, for fairness, would otherwise redo    *)
(* the recursion without sharing its arguments).                        *)
CrcOk == [f \in Files |-> eeprom_check_crc(f)]

-----------------------------------------------------------------------------
(* eeprom_validate: the checks before any write, in the code's order,   *)
(* each an early return of PLX_EEP_INTERNAL_ERROR.                      *)
HeaderOk(f) ==
  /\ Size(f) > HeaderLen + CrcLen
  /\ ConfigSize(f) % Align = 0
  /\ Size(f) - HeaderLen - CrcLen = ConfigSize(f)
  /\ Signature(f) = ValidSig

-----------------------------------------------------------------------------
(* The chip's EEPROM, as halfwords at byte offsets 2*c, and the u32     *)
(* commands on it.  A block address is the byte offset / 4.             *)

(* PLX_EEP_CMD_WRITE of value_32 to block o / 4.                        *)
StoreDword(e, o, v) ==
  [e EXCEPT ![o \div 2] = v % 2^H, ![o \div 2 + 1] = v \div 2^H]

(* PLX_EEP_CMD_READ of block o / 4, then the PLX_EEP_BUFFER read.        *)
LoadDword(e, o) == e[o \div 2] + e[o \div 2 + 1] * 2^H

(* eeprom_read16: value_32 >> 16 at an offset not dword-aligned, else   *)
(* its low 16 bits.                                                     *)
LoadHalf(e, o) ==
  LET v == LoadDword(e, o - (o % 4))
  IN  IF o % 4 # 0 THEN v \div 2^H ELSE v % 2^H

(* Mutant: eeprom_write16 dropping the half it should keep.             *)
MergeHalfNoKeep(e, o, v16) == v16

(* eeprom_write16: read the dword, replace the addressed half, keep the *)
(* other.                                                               *)
MergeHalf(e, o, v16) ==
  LET v == LoadDword(e, o - (o % 4))
  IN  IF o % 4 # 0 THEN v16 * 2^H + (v % 2^H)
                   ELSE v16 + (v \div 2^H) * 2^H

(* How an eeprom_write32 ends.  wait_for_access_ready and send_cmd poll   *)
(* the status a bounded number of times: PLX_EEP_TIMEOUT may come before *)
(* the WRITE was issued or after the chip took it.  A chip may also      *)
(* report a write done that did not store (what the read-back is for).  *)
WriteOutcomes == IF Faults THEN {"ok", "lost", "timeout_stored", "timeout_lost"}
                           ELSE {"ok"}

(* How an eeprom_read32 ends.                                            *)
ReadOutcomes == IF Faults THEN {"ok", "timeout"} ELSE {"ok"}

OK == "PLX_EEP_STATUS_OK"
TIMEOUT == "PLX_EEP_TIMEOUT"
INTERNAL == "PLX_EEP_INTERNAL_ERROR"

VARIABLES
  eeprom,    \* the chip's EEPROM cells
  before,    \* the EEPROM when the update started (for properties)
  file,      \* eeprom_data
  offset,    \* the u16 loop offset
  ret,       \* the plx_eep_retval so far
  pc         \* where plx_update_eeprom is

vars == <<eeprom, before, file, offset, ret, pc>>

Init ==
  /\ eeprom = [c \in EepCells |-> Erased]
  /\ before = eeprom
  /\ file = <<>>
  /\ offset = 0
  /\ ret = OK
  /\ pc = "idle"

(* A caller hands plx_update_eeprom an image.                           *)
Call ==
  /\ pc = "idle"
  /\ \E f \in Files : file' = f
  /\ before' = eeprom
  /\ pc' = "validate"
  /\ UNCHANGED <<eeprom, offset, ret>>

(* eeprom_validate's header checks.                                     *)
eeprom_validate ==
  /\ pc = "validate"
  /\ IF HeaderOk(file) THEN pc' = "check_crc" /\ UNCHANGED ret
                       ELSE pc' = "done" /\ ret' = INTERNAL
  /\ UNCHANGED <<eeprom, before, file, offset>>

(* eeprom_validate's CRC check; on success plx_update_eeprom takes       *)
(* mmio_lock, fixes PLX_EEP_ADDRESS_BYTE and starts at offset 0.         *)
eeprom_crc ==
  /\ pc = "check_crc"
  /\ IF CrcOk[file] THEN pc' = "write" /\ offset' = 0 /\ UNCHANGED ret
                               ELSE pc' = "done" /\ ret' = INTERNAL /\ UNCHANGED offset
  /\ UNCHANGED <<eeprom, before, file>>

(* The tail of an image that is not dword-aligned.                      *)
IsTail == Size(file) - offset = 2

(* The dword the iteration writes: the image's, or for a 2-byte tail    *)
(* the EEPROM's dword with its low half replaced (eeprom_write16).      *)
NewDword == IF IsTail THEN MergeHalf(eeprom, offset, Half(file, offset))
                      ELSE FileDword(file, offset)

(* One iteration's write: eeprom_write32 or eeprom_write16.  The for    *)
(* condition offset < eeprom_size ends the loop with ret as it is.     *)
update_write ==
  /\ pc = "write"
  /\ IF offset >= Size(file)
     THEN pc' = "done" /\ UNCHANGED <<eeprom, ret>>
     ELSE \E w \in WriteOutcomes, r \in ReadOutcomes :
            \* eeprom_write16's read32 may time out before anything is written
            /\ eeprom' = IF w \in {"ok", "timeout_stored"} /\ (IsTail => r = "ok")
                         THEN StoreDword(eeprom, offset, NewDword) ELSE eeprom
            /\ IF w \in {"timeout_stored", "timeout_lost"} \/ (IsTail /\ r = "timeout")
               THEN pc' = "done" /\ ret' = TIMEOUT
               ELSE pc' = "verify" /\ UNCHANGED ret
  /\ UNCHANGED <<before, file, offset>>

(* Mutant: the read-back value never compared with the file's.          *)
update_verify_nocheck ==
  /\ pc = "verify"
  /\ \E r \in ReadOutcomes :
       IF r = "timeout" THEN pc' = "done" /\ ret' = TIMEOUT /\ UNCHANGED offset
       ELSE IF IsTail THEN pc' = "done" /\ UNCHANGED <<ret, offset>>
       ELSE /\ offset' = (offset + 4) % 2^H
            /\ pc' = "write" /\ UNCHANGED ret
  /\ UNCHANGED <<eeprom, before, file>>

(* Mutant: the loop's offset += sizeof(u32) left out.                   *)
update_verify_noadvance ==
  /\ pc = "verify"
  /\ \E r \in ReadOutcomes :
       IF r = "timeout" THEN pc' = "done" /\ ret' = TIMEOUT
       ELSE IF IF IsTail THEN LoadHalf(eeprom, offset) # Half(file, offset)
                         ELSE LoadDword(eeprom, offset) # FileDword(file, offset)
       THEN pc' = "done" /\ ret' = INTERNAL
       ELSE IF IsTail THEN pc' = "done" /\ UNCHANGED ret
       ELSE pc' = "write" /\ UNCHANGED ret
  /\ UNCHANGED <<eeprom, before, file, offset>>

(* The read-back (eeprom_read32, or eeprom_read16 for the tail) and its *)
(* comparison; after the tail the loop breaks; else offset += 4, in u16. *)
update_verify ==
  /\ pc = "verify"
  /\ \E r \in ReadOutcomes :
       IF r = "timeout" THEN pc' = "done" /\ ret' = TIMEOUT /\ UNCHANGED offset
       ELSE IF IF IsTail THEN LoadHalf(eeprom, offset) # Half(file, offset)
                         ELSE LoadDword(eeprom, offset) # FileDword(file, offset)
       THEN pc' = "done" /\ ret' = INTERNAL /\ UNCHANGED offset
       ELSE IF IsTail THEN pc' = "done" /\ UNCHANGED <<ret, offset>>
       ELSE /\ offset' = (offset + 4) % 2^H
            /\ pc' = "write" /\ UNCHANGED ret
  /\ UNCHANGED <<eeprom, before, file>>

(* mutex_unlock and return ret.                                         *)
Return ==
  /\ pc = "done"
  /\ pc' = "idle" /\ ret' = OK /\ file' = <<>> /\ offset' = 0
  /\ UNCHANGED <<eeprom, before>>

Step == eeprom_validate \/ eeprom_crc \/ update_write \/ update_verify \/ Return

Next == Call \/ Step

(* The call runs to its end on its own: weak fairness on its steps.     *)
(* A caller need not call.                                             *)
Spec == Init /\ [][Next]_vars /\ WF_vars(Step)

-----------------------------------------------------------------------------
(* Properties                                                           *)

TypeOK ==
  /\ eeprom \in [EepCells -> HalfVal] /\ before \in [EepCells -> HalfVal]
  /\ file \in Seq(HalfVal)
  /\ offset \in 0 .. 2^H - 1
  /\ ret \in {OK, TIMEOUT, INTERNAL}
  /\ pc \in {"idle", "validate", "check_crc", "write", "verify", "done"}

(* The CRC eeprom_validate computes bit by bit (eeprom_check_crc) is the *)
(* remainder of the image's data by the generator polynomial: an image  *)
(* is accepted exactly when its stored CRC is the reference one.        *)
CrcMatchesReference ==
  pc = "check_crc" => (CrcOk[file] <=> RefCrcOk(file))

(* When plx_update_eeprom returns PLX_EEP_STATUS_OK, the EEPROM holds    *)
(* the whole image, whatever writes the chip lost or timed out on: the  *)
(* read-back of every dword is what guarantees it.                      *)
UpdateOkMeansWritten ==
  pc = "done" /\ ret = OK =>
    \A i \in 1 .. Len(file) : eeprom[(i - 1) % 2^(H - 1)] = file[i]

(* An update, successful or not, changes no EEPROM cell past the end of *)
(* the image: eeprom_write16 keeps the half after a 2-byte tail.        *)
UpdateKeepsRest ==
  pc = "done" =>
    \A c \in EepCells : c >= Len(file) => eeprom[c] = before[c]

(* Every call of plx_update_eeprom returns (and drops mmio_lock).        *)
UpdateReturns == pc = "validate" ~> pc = "idle"

=============================================================================
