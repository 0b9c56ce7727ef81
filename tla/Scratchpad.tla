----------------------------- MODULE Scratchpad -----------------------------
(***************************************************************************)
(* Doorbells and scratchpads of the NT port (plx_hw.c).  One side rings   *)
(* the other's doorbells (plx_send_intr) and publishes the boot-params    *)
(* address in two 32-bit scratchpads (plx_set_dp_addr); the other side's  *)
(* interrupt handler acknowledges its doorbells (plx_ack_interrupt: read  *)
(* DBIC, write the value back to clear those bits) and, on the boot-      *)
(* params doorbell, reads the address (plx_get_dp_addr: lo, then hi).     *)
(* Interrupts are masked and unmasked as a whole (plx_disable_interrupts  *)
(* and plx_enable_interrupts write 0xFFFF to DBIMS / DBIMC).              *)
(*                                                                         *)
(* A scratchpad holds H bits (32 in the code); an address 2H bits.        *)
(***************************************************************************)
EXTENDS Integers, FiniteSets

CONSTANTS
  Bits,       \* doorbell numbers
  DpBit,      \* the doorbell rung after the address is published
  Addrs,      \* boot-params addresses the writer may publish
  H,          \* bits of a scratchpad register
  MaxSets     \* bound on the plx_set_dp_addr calls in a behaviour

ASSUME DpBit \in Bits /\ Addrs \subseteq 0 .. 2^(2 * H) - 1

VARIABLES
  db,         \* the receiving side's doorbell bits (DBIC reads them)
  masked,     \* its doorbell interrupts are masked
  spad,                \* the scratchpad registers, by index
  wpc, wval, sets,     \* the plx_set_dp_addr caller
  ipc, ireg, ilo, iaddr,  \* the interrupt handler: where it is, the DBIC
                          \* value read, the lo read, the address read
  rung,       \* history: doorbells rung and not yet returned by an ack
  published   \* history: addresses the scratchpads held completely

vars == <<db, masked, spad, wpc, wval, sets, ipc, ireg, ilo, iaddr, rung, published>>
hvars == <<rung, published>>

(* The scratchpads the boot-params address goes to.                      *)
PLX_DPLO_SPAD == "dplo"
PLX_DPHI_SPAD == "dphi"
Spads == {PLX_DPLO_SPAD, PLX_DPHI_SPAD}

(* plx_write_spad(idx, val): one MMIO write of the u32 val, so a wider   *)
(* argument is truncated to its low H bits.                              *)
plx_write_spad(idx, val) == spad' = [spad EXCEPT ![idx] = val % 2^H]

(* plx_read_spad(idx): one MMIO read.                                    *)
plx_read_spad(idx) == spad[idx]

Init ==
  /\ db = {} /\ masked = TRUE
  /\ spad = [i \in Spads |-> 0]
  /\ wpc = "idle" /\ wval = 0 /\ sets = 0
  /\ ipc = "idle" /\ ireg = {} /\ ilo = 0 /\ iaddr = 0
  /\ rung = {} /\ published = {0}

-----------------------------------------------------------------------------
(* The ringing side                                                      *)

(* plx_send_intr: a write of DB_TO_MASK(doorbell) to the peer's DBIS.     *)
Ring(d) == db' = db \cup {d} /\ rung' = rung \cup {d}

(* Some other caller rings a doorbell.                                    *)
plx_send_intr ==
  /\ \E d \in Bits \ {DpBit} : Ring(d)
  /\ UNCHANGED <<masked, spad, wpc, wval, sets, ipc, ireg, ilo, iaddr, published>>

(* plx_set_dp_addr: plx_write_spad(PLX_DPLO_SPAD, dp_addr), which keeps  *)
(* the low half.                                                         *)
plx_set_dp_addr ==
  /\ wpc = "idle" /\ sets < MaxSets
  /\ \E v \in Addrs : wval' = v /\ plx_write_spad(PLX_DPLO_SPAD, v)
  /\ sets' = sets + 1
  /\ wpc' = "hi"
  /\ UNCHANGED <<db, masked, ipc, ireg, ilo, iaddr, hvars>>

(* Mutant: the high half written without the shift.                      *)
set_dp_hi_noshift ==
  /\ wpc = "hi"
  /\ plx_write_spad(PLX_DPHI_SPAD, wval)
  /\ published' = published \cup {wval}
  /\ wpc' = "ring"
  /\ UNCHANGED <<db, masked, wval, sets, ipc, ireg, ilo, iaddr, rung>>

(* plx_write_spad(PLX_DPHI_SPAD, dp_addr >> 32).                          *)
set_dp_hi ==
  /\ wpc = "hi"
  /\ plx_write_spad(PLX_DPHI_SPAD, wval \div 2^H)
  /\ published' = published \cup {wval}
  /\ wpc' = "ring"
  /\ UNCHANGED <<db, masked, wval, sets, ipc, ireg, ilo, iaddr, rung>>

(* The caller then rings the boot-params doorbell.                        *)
ring_dp ==
  /\ wpc = "ring"
  /\ Ring(DpBit)
  /\ wpc' = "idle"
  /\ UNCHANGED <<masked, spad, wval, sets, ipc, ireg, ilo, iaddr, published>>

-----------------------------------------------------------------------------
(* The receiving side                                                    *)

(* Mutant: DBIMS written instead of DBIMC: the mask is never cleared.     *)
plx_enable_interrupts_ims ==
  /\ masked' = TRUE
  /\ UNCHANGED <<db, spad, wpc, wval, sets, ipc, ireg, ilo, iaddr, hvars>>

(* plx_enable_interrupts: 0xFFFF to DBIMC clears every mask bit.          *)
plx_enable_interrupts ==
  /\ masked' = FALSE
  /\ UNCHANGED <<db, spad, wpc, wval, sets, ipc, ireg, ilo, iaddr, hvars>>

(* plx_disable_interrupts: 0xFFFF to DBIMS sets them.                     *)
plx_disable_interrupts ==
  /\ ~masked
  /\ masked' = TRUE
  /\ UNCHANGED <<db, spad, wpc, wval, sets, ipc, ireg, ilo, iaddr, hvars>>

(* The interrupt is raised while an unmasked doorbell bit is set; the     *)
(* handler's plx_ack_interrupt reads DBIC.                                *)
ack_read ==
  /\ ipc = "idle" /\ ~masked /\ db # {}
  /\ ireg' = db
  /\ ipc' = "ack"
  /\ UNCHANGED <<db, masked, spad, wpc, wval, sets, ilo, iaddr, hvars>>

(* Mutant: 0xFFFF written back instead of the value read.                 *)
ack_write_all ==
  /\ ipc = "ack"
  /\ db' = {}
  /\ rung' = rung \ ireg
  /\ ipc' = IF DpBit \in ireg THEN "lo" ELSE "idle"
  /\ UNCHANGED <<masked, spad, wpc, wval, sets, ireg, ilo, iaddr, published>>

(* ... writes the value read back to DBIC, clearing exactly those bits,  *)
(* and returns it; the handler reads the address if DpBit is in it.     *)
ack_write ==
  /\ ipc = "ack"
  /\ db' = db \ ireg
  /\ rung' = rung \ ireg
  /\ ipc' = IF DpBit \in ireg THEN "lo" ELSE "idle"
  /\ UNCHANGED <<masked, spad, wpc, wval, sets, ireg, ilo, iaddr, published>>

(* plx_get_dp_addr: lo = plx_read_spad(PLX_DPLO_SPAD) ...                 *)
get_dp_lo ==
  /\ ipc = "lo"
  /\ ilo' = plx_read_spad(PLX_DPLO_SPAD)
  /\ ipc' = "hi"
  /\ UNCHANGED <<db, masked, spad, wpc, wval, sets, ireg, iaddr, hvars>>

(* ... hi = plx_read_spad(PLX_DPHI_SPAD); dp_addr = lo | (hi << 32).      *)
get_dp_hi ==
  /\ ipc = "hi"
  /\ iaddr' = ilo + plx_read_spad(PLX_DPHI_SPAD) * 2^H
  /\ ipc' = "got"
  /\ UNCHANGED <<db, masked, spad, wpc, wval, sets, ireg, ilo, hvars>>

(* The handler returns.                                                   *)
handler_done ==
  /\ ipc = "got"
  /\ ipc' = "idle"
  /\ UNCHANGED <<db, masked, spad, wpc, wval, sets, ireg, ilo, iaddr, hvars>>

Writer == plx_set_dp_addr \/ set_dp_hi \/ ring_dp
Handler == ack_read \/ ack_write \/ get_dp_lo \/ get_dp_hi \/ handler_done

Next ==
  \/ plx_send_intr \/ Writer \/ Handler
  \/ plx_enable_interrupts \/ plx_disable_interrupts

(* A doorbell bit stays set while masked, so the interrupt is taken once  *)
(* it is unmasked even if it is masked again later: strong fairness on   *)
(* ack_read.  The handler and the writer finish what they started, and   *)
(* the driver does not keep interrupts masked forever.                   *)
Spec == /\ Init /\ [][Next]_vars
        /\ SF_vars(ack_read) /\ WF_vars(Handler)
        /\ WF_vars(set_dp_hi \/ ring_dp) /\ WF_vars(plx_enable_interrupts)

-----------------------------------------------------------------------------
(* Properties                                                           *)

(* plx_ack_interrupt clears only the bits it returns: a doorbell rung    *)
(* while the handler is between its read and its write of DBIC stays    *)
(* set, so every doorbell rung and not yet returned is still pending.    *)
DoorbellNotLost == rung \subseteq db \cup (IF ipc = "ack" THEN ireg ELSE {})

(* Every doorbell rung is eventually returned by a plx_ack_interrupt.    *)
DoorbellDelivered == \A d \in Bits : d \in rung ~> d \notin rung

(* The address plx_get_dp_addr assembles from the two scratchpads is one *)
(* that plx_set_dp_addr published (or the reset value), not halves of    *)
(* two.                                                                  *)
DpAddrNotTorn == ipc = "got" => iaddr \in published

=============================================================================
