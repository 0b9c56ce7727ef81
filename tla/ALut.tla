-------------------------------- MODULE ALut --------------------------------
(***************************************************************************)
(* The A-LUT translation path of the PLX87xx NTB driver (plx_hw.c):       *)
(*   plx_hw_init / plx_hw_deinit     - attach and detach of one NT port,  *)
(*   plx_add_a_lut_entry (ioremap)   - map [addr, addr+size) for the peer, *)
(*   plx_del_a_lut_entry (iounmap)   - drop one reference to a mapping,   *)
(*   plx_get_a_lut_entry_offset      - the two-array register layout,     *)
(* composed with the segment manager of ALutManager.                       *)
(*                                                                         *)
(* Register writes are posted: plx_mmio_write returns before the chip     *)
(* applies the write.  Writes to the chip reach it in program order       *)
(* (PCIe posted writes do not pass each other), so they are a FIFO queue  *)
(* that the chip drains one write at a time (ChipApply); a register read  *)
(* completes only after every earlier write, so it empties the queue.     *)
(* Every map/unmap critical section runs under alm_lock, a spinlock, so   *)
(* each is one atomic step of its caller.                                 *)
(***************************************************************************)
EXTENDS Naturals, Sequences, SequencesExt, FiniteSets

CONSTANTS
  Clients,     \* callers of plx_ioremap / plx_iounmap
  Reqs,        \* the [addr, size] ranges callers ask to map
  MaxArray,    \* PLX_A_LUT_MAX_ARRAY: entries per physical array
  ArrayOffset, \* PLX_A_LUT_ARRAY_OFFSET: base of the second array
  LoSpan,      \* 2^32 scaled to granules: lower remap register span
  SegSize,
  NSeg

ASSUME Reqs \subseteq [addr : Nat, size : Nat \ {0}]
ASSUME MaxArray \in Nat \ {0} /\ ArrayOffset \in Nat /\ LoSpan \in Nat \ {0}

Alm == INSTANCE ALutManager

VARIABLES
  attached,    \* plx_hw_init has completed and plx_hw_deinit has not run
  segmentsNum, \* a_lut_manager.segments_num as plx_hw.c reads it
  alm,         \* a_lut_manager bookkeeping (see ALutManager)
  hw,          \* the A-LUT entries as the chip currently applies them
  posted,      \* register writes issued but not yet applied by the chip
  pc,          \* "idle" or "mapped", per caller
  held         \* the range a caller mapped and the address it got back

vars == <<attached, segmentsNum, alm, hw, posted, pc, held>>

(* Value the permission sub-field gets: READ_ENABLE | WRITE_ENABLE.       *)
PermRW == 1

(* plx_get_a_lut_entry_offset: entries at or above PLX_A_LUT_MAX_ARRAY    *)
(* live in the second array, (idx % MAX_ARRAY) u32 words past its base.   *)
plx_get_a_lut_entry_offset(idx) ==
  (IF idx >= MaxArray THEN ArrayOffset ELSE 0) + ((idx % MaxArray) * 4)

Offsets == { plx_get_a_lut_entry_offset(i) : i \in Alm!Segments }

Fields == {"perm", "hi", "lo"}

ZeroEntry == [perm |-> 0, hi |-> 0, lo |-> 0]

(* One plx_mmio_write to a sub-field of the entry at offset off.          *)
W(off, fld, val) == [off |-> off, fld |-> fld, val |-> val]

(* The chip applies one write; a write outside the table is lost.         *)
ApplyWrite(h, w) ==
  IF w.off \in DOMAIN h THEN [h EXCEPT ![w.off][w.fld] = w.val] ELSE h

(* Mutant: the programming loop runs once more than the run is long.     *)
ProgramWritesOverrun(id, num, addrMasked) ==
  LET Entry(k) ==
        LET off == plx_get_a_lut_entry_offset(id + k)
            a   == addrMasked + k * SegSize
        IN  << W(off, "hi", a \div LoSpan), W(off, "lo", a % LoSpan),
               W(off, "perm", PermRW) >>
  IN  FoldLeft(LAMBDA acc, k : acc \o Entry(k), << >>, [k \in 1 .. num + 1 |-> k - 1])

(* The writes of the programming loop of plx_add_a_lut_entry for the run *)
(* [id, id+num): higher remap, lower remap, wmb, permission, with        *)
(* addr_masked advanced by one segment per entry.                         *)
ProgramWrites(id, num, addrMasked) ==
  LET Entry(k) ==
        LET off == plx_get_a_lut_entry_offset(id + k)
            a   == addrMasked + k * SegSize
        IN  << W(off, "hi", a \div LoSpan), W(off, "lo", a % LoSpan),
               W(off, "perm", PermRW) >>
  IN  FoldLeft(LAMBDA acc, k : acc \o Entry(k), << >>, [k \in 1 .. num |-> k - 1])

(* Mutants of the clear loop: it stops one entry short, or it clears the *)
(* first entry of the run over and over.                                 *)
ClearWritesShort(start, num) ==
  [k \in 1 .. num - 1 |-> W(plx_get_a_lut_entry_offset(start + k - 1), "perm", 0)]
ClearWritesNoAdvance(start, num) ==
  [k \in 1 .. num |-> W(plx_get_a_lut_entry_offset(start), "perm", 0)]

(* The permission clears of plx_del_a_lut_entry for [start, start+num).  *)
ClearWrites(start, num) ==
  [k \in 1 .. num |-> W(plx_get_a_lut_entry_offset(start + k - 1), "perm", 0)]

(* The three clears per entry of plx_a_lut_clear for the first n entries. *)
ClearAllWrites(n) ==
  FoldLeft(LAMBDA acc, i :
             acc \o << W(plx_get_a_lut_entry_offset(i), "perm", 0),
                       W(plx_get_a_lut_entry_offset(i), "hi", 0),
                       W(plx_get_a_lut_entry_offset(i), "lo", 0) >>,
           << >>, [k \in 1 .. n |-> k - 1])

(* mb() then plx_mmio_read of the last permission register: the read     *)
(* completes only once every posted write has reached the chip.         *)
Drain(h, q) == FoldLeft(ApplyWrite, h, q)

NoHeld == [addr |-> 0, size |-> 0, t |-> 0]

-----------------------------------------------------------------------------

Init ==
  /\ attached = FALSE
  /\ segmentsNum = 0
  /\ alm = Alm!AlmEmpty
  /\ hw = [o \in Offsets |-> ZeroEntry]
  /\ posted = << >>
  /\ pc = [c \in Clients |-> "idle"]
  /\ held = [c \in Clients |-> NoHeld]

(* plx_hw_init.  _plx_a_lut_enable takes alm_lock, resets the manager    *)
(* and, in plx_a_lut_clear, clears the entries 0 .. segments_num-1 with  *)
(* segments_num as it is BEFORE plx_alm_init; plx_alm_init then sets it. *)
(* RID LUT and A-LUT control writes touch no entry and are left out.     *)
plx_hw_init ==
  /\ ~attached
  /\ posted' = posted \o ClearAllWrites(segmentsNum)
  /\ alm' = Alm!AlmEmpty
  /\ segmentsNum' = NSeg
  /\ attached' = TRUE
  /\ UNCHANGED <<hw, pc, held>>

(* plx_hw_deinit: plx_alm_release under alm_lock; the entries and the    *)
(* A-LUT control are left as they are.  The device context is freed at   *)
(* remove, and the next probe starts from a zeroed one: segments_num 0.  *)
(* Remove runs once the users of plx_ioremap are gone.                   *)
plx_hw_deinit ==
  /\ attached
  /\ \A c \in Clients : pc[c] = "idle"
  /\ attached' = FALSE
  /\ alm' = Alm!AlmEmpty
  /\ segmentsNum' = 0
  /\ UNCHANGED <<hw, posted, pc, held>>

(* Mutant: the mb() and read-back are dropped, so the map returns with  *)
(* its programming writes still posted.                                  *)
plx_add_a_lut_entry_noreadback(c, r) ==
  /\ attached
  /\ pc[c] = "idle"
  /\ LET res == Alm!AlmAddEntry(alm, segmentsNum, r.addr, r.size)
     IN  /\ res.err # "ENOMEM"
         /\ alm' = res.alm
         /\ IF res.err = "OK"
            THEN posted' = posted \o ProgramWrites(res.id, res.num, Alm!Masked(r.addr))
            ELSE UNCHANGED posted
         /\ pc' = [pc EXCEPT ![c] = "mapped"]
         /\ held' = [held EXCEPT ![c] =
                       [addr |-> r.addr, size |-> r.size,
                        t |-> res.id * SegSize + (r.addr % SegSize)]]
  /\ UNCHANGED <<attached, segmentsNum, hw>>

(* plx_add_a_lut_entry(addr, size), reached through plx_ioremap.  On     *)
(* ENOMEM the lock is dropped and no state changes (a stuttering step);  *)
(* on EEXIST the entries are not rewritten; on a new run they are        *)
(* programmed and the read-back drains the posted writes before the lock *)
(* is dropped.  *addr_out = segment_id * segment_size + (addr & mask).   *)
plx_add_a_lut_entry(c, r) ==
  /\ attached
  /\ pc[c] = "idle"
  /\ LET res == Alm!AlmAddEntry(alm, segmentsNum, r.addr, r.size)
     IN  /\ res.err # "ENOMEM"
         /\ alm' = res.alm
         /\ IF res.err = "OK"
            THEN /\ hw' = Drain(hw, posted \o ProgramWrites(res.id, res.num,
                                                           Alm!Masked(r.addr)))
                 /\ posted' = << >>
            ELSE UNCHANGED <<hw, posted>>
         /\ pc' = [pc EXCEPT ![c] = "mapped"]
         /\ held' = [held EXCEPT ![c] =
                       [addr |-> r.addr, size |-> r.size,
                        t |-> res.id * SegSize + (r.addr % SegSize)]]
  /\ UNCHANGED <<attached, segmentsNum>>

(* Mutant: the range check rejects the last segment (off by one), so    *)
(* unmaps of mappings in it are dropped and their references leak.     *)
plx_del_a_lut_entry_rangeoff(c, addr) ==
  /\ attached
  /\ pc[c] = "mapped"
  /\ LET res == Alm!AlmDelEntry(alm, addr \div SegSize)
     IN  IF addr + SegSize >= segmentsNum * SegSize
         THEN UNCHANGED <<alm, posted>>
         ELSE /\ alm' = res.alm
              /\ posted' = posted \o ClearWrites(res.start, res.num)
  /\ pc' = [pc EXCEPT ![c] = "idle"]
  /\ held' = [held EXCEPT ![c] = NoHeld]
  /\ UNCHANGED <<attached, segmentsNum, hw>>

(* plx_del_a_lut_entry(addr), called by caller c from plx_iounmap.  The  *)
(* range check reads the manager before the lock; the freed entries get *)
(* their permission cleared and the lock is dropped with no read-back.  *)
plx_del_a_lut_entry(c, addr) ==
  /\ attached
  /\ pc[c] = "mapped"
  /\ LET res == Alm!AlmDelEntry(alm, addr \div SegSize)
     IN  IF addr >= segmentsNum * SegSize
         THEN UNCHANGED <<alm, posted>>
         ELSE /\ alm' = res.alm
              /\ posted' = posted \o ClearWrites(res.start, res.num)
  /\ pc' = [pc EXCEPT ![c] = "idle"]
  /\ held' = [held EXCEPT ![c] = NoHeld]
  /\ UNCHANGED <<attached, segmentsNum, hw>>

(* plx_ioremap(pa, len) on the A-LUT side (xdev->a_lut): NULL when      *)
(* plx_add_a_lut_entry fails, which changes nothing, else aper.va +     *)
(* pa_out, kept as held[c].t.                                            *)
plx_ioremap(c, r) == plx_add_a_lut_entry(c, r)

(* Mutant: the unmap passes the caller's original address, not the one  *)
(* plx_ioremap translated it to.                                         *)
plx_iounmap_origaddr(c) == plx_del_a_lut_entry(c, held[c].addr)

(* plx_iounmap(va) on the A-LUT side: pa = va - aper.va is the translated *)
(* address plx_ioremap returned (aper.va + pa_out), and it goes to       *)
(* plx_del_a_lut_entry.                                                  *)
plx_iounmap(c) == plx_del_a_lut_entry(c, held[c].t)

(* The chip applies the oldest posted write.                            *)
ChipApply ==
  /\ posted # << >>
  /\ hw' = ApplyWrite(hw, Head(posted))
  /\ posted' = Tail(posted)
  /\ UNCHANGED <<attached, segmentsNum, alm, pc, held>>

Next ==
  \/ plx_hw_init
  \/ plx_hw_deinit
  \/ \E c \in Clients, r \in Reqs : plx_ioremap(c, r)
  \/ \E c \in Clients : plx_iounmap(c)
  \/ ChipApply

(* The chip keeps draining posted writes; callers need not act.         *)
Spec == Init /\ [][Next]_vars /\ WF_vars(ChipApply)

(* The CPU running this driver is reset (plx_card_reset from the other   *)
(* side, or a crash) with no plx_hw_deinit: its driver state is gone and *)
(* the next boot probes from a zeroed context.  The PLX chip is not      *)
(* reset: posted writes already on the wire land, the rest are lost,    *)
(* and the A-LUT keeps its entries.                                      *)
NodeReset ==
  /\ \E n \in 0 .. Len(posted) : hw' = Drain(hw, SubSeq(posted, 1, n))
  /\ posted' = << >>
  /\ attached' = FALSE
  /\ segmentsNum' = 0
  /\ alm' = Alm!AlmEmpty
  /\ pc' = [c \in Clients |-> "idle"]
  /\ held' = [c \in Clients |-> NoHeld]

NextWithReset == Next \/ NodeReset

SpecWithReset == Init /\ [][NextWithReset]_vars /\ WF_vars(ChipApply)

-----------------------------------------------------------------------------

TypeOK ==
  /\ attached \in BOOLEAN
  /\ segmentsNum \in {0, NSeg}
  /\ alm \in [Alm!Segments -> [ref : 0 .. Cardinality(Clients),
                               start : Alm!Segments, len : 0 .. NSeg,
                               base : Nat]]
  /\ hw \in [Offsets -> [Fields -> Nat]]
  /\ posted \in Seq([off : Offsets, fld : Fields, val : Nat])
  /\ pc \in [Clients -> {"idle", "mapped"}]
  /\ held \in [Clients -> [addr : Nat, size : Nat, t : Nat]]

(* What the peer reaches through translated granule g: the entry of its  *)
(* segment, if its permission is set, remaps it to hi:lo plus the offset *)
(* inside the segment.                                                   *)
Blocked == -1
PeerTranslate(g) ==
  LET e == hw[plx_get_a_lut_entry_offset(g \div SegSize)]
  IN  IF e.perm # 0 THEN e.hi * LoSpan + e.lo + (g % SegSize) ELSE Blocked

(* The translation the peer sees through every granule of the aperture.  *)
Aperture == 0 .. NSeg * SegSize - 1
Window == [g \in Aperture |-> PeerTranslate(g)]

Windows == INSTANCE ALutWindows WITH Gran <- Aperture, win <- Window

(* ALut implements ALutWindows: with the peer's view of the A-LUT as the *)
(* window, every step of plx_hw_init, plx_hw_deinit, plx_add_a_lut_entry, *)
(* plx_del_a_lut_entry and of the chip draining posted writes is a step   *)
(* the abstract specification allows.  In particular a map never re-points *)
(* a granule another caller holds, an unmap closes no window itself, and  *)
(* a posted write reaching the chip only ever closes windows nobody holds.*)
WindowsSpec == Windows!Spec

(* Every caller holding a mapping reaches exactly the memory it mapped:  *)
(* each granule of [t, t+size) translates to the matching granule of     *)
(* [addr, addr+size).  Breaks if an EEXIST share is not counted, if one  *)
(* caller's unmap clears a run another still uses, if the programming    *)
(* loop does not advance addr_masked, if two indices share one register  *)
(* entry, or if a map returns before its writes reach the chip.          *)
TranslationCorrect ==
  \A c \in Clients : pc[c] = "mapped" =>
    \A k \in 0 .. held[c].size - 1 :
      PeerTranslate(held[c].t + k) = held[c].addr + k

(* An entry the chip lets the peer use belongs to an allocated segment,  *)
(* or a write clearing its permission is already posted: unmap and      *)
(* re-init never leave an orphaned window open to the peer.             *)
PendingClear(o) == \E n \in 1 .. Len(posted) : posted[n] = W(o, "perm", 0)
NoOrphanWindow ==
  \A i \in Alm!Segments :
    LET o == plx_get_a_lut_entry_offset(i)
    IN  hw[o].perm # 0 => alm[i].ref > 0 \/ PendingClear(o)

(* Spec section 3: the manager is reset with "all ref counts zeroed,     *)
(* hardware entries cleared".  Once plx_hw_init has run, no entry grants *)
(* the peer access that the fresh manager does not know of, unless its   *)
(* clear is already posted -- whatever the chip held before the probe.   *)
InitClearsTable == attached => NoOrphanWindow

(* Once the last reference to a run is dropped, the chip eventually      *)
(* stops granting access through its entries (unless they are mapped    *)
(* again): plx_del_a_lut_entry returns without a read-back, so this      *)
(* rests on the posted permission clears reaching the chip.             *)
EventuallyRevoked ==
  \A i \in Alm!Segments :
    LET o == plx_get_a_lut_entry_offset(i)
    IN  (hw[o].perm # 0 /\ alm[i].ref = 0) ~> (hw[o].perm = 0 \/ alm[i].ref > 0)

(* Spec section 8: the reference count of a run equals the number of    *)
(* outstanding maps of it, and no caller holds a translated address in a *)
(* FREE segment.  plx_iounmap must hand back the segment plx_ioremap     *)
(* returned, an EEXIST share must count, and an unmap the range check  *)
(* drops leaks a reference for good.                                    *)
SegOf(c) == held[c].t \div SegSize
RefsMatchHolders ==
  /\ \A c \in Clients : pc[c] = "mapped" => alm[SegOf(c)].ref > 0
  /\ \A i \in Alm!Segments :
       alm[i].ref = Cardinality({c \in Clients :
                                  pc[c] = "mapped" /\ i \in Alm!Run(alm, alm[SegOf(c)].start)})

=============================================================================
