# TLA+ models of the PLX87xx NTB hardware driver

The models cover `src/node-drivers/base-driver/drivers/vca/plx87xx/plx_hw.c`.
This is the register-level driver for the PLX87xx non-transparent bridge of a
VCA card. Each node CPU of the card has its own device context
(`struct plx_device`, one per `plx_contexts[card][cpu]`). Each context has:

- an MMIO mapping of the chip;
- an `mmio_lock` mutex;
- a `reset_lock` mutex and a `reset_ts` stamp;
- an A-LUT segment manager guarded by the `alm_lock` spinlock.

## The system and its parts

| Part | Code | State it changes | Concurrency and hard behaviour |
|---|---|---|---|
| A-LUT translation facade | `plx_add_a_lut_entry`, `plx_del_a_lut_entry` (called by `plx_ioremap` / `plx_iounmap`) | segment bookkeeping, A-LUT registers | concurrent mappers; the `alm_lock` section; posted MMIO writes, made visible by `mb()` and a read-back in add only |
| A-LUT programmer | `plx_get_a_lut_entry_offset`, `plx_a_lut_clear`, the write loops | A-LUT hi/lo/permission registers of two physical arrays | index split across arrays; clears that the chip applies later |
| A-LUT segment manager | `plx_alm_*` (not under `src/`) | per-segment ref counts | sharing of a run by equal requests (EEXIST), first fit, ENOMEM |
| Init / deinit | `plx_hw_init`, `plx_hw_deinit` | manager size, table clear | order of `plx_a_lut_clear` and `plx_alm_init`; a node reset without deinit |
| GPIO sequencing | `signal_bit`, `_set_bit`, `_clear_bit`, `plx_init_vca_g2_gpios`, `plx_card_reset`, `plx_card_press_power_button`, `plx_turn_rcv_mode`, `plx_enable/disable_bios_recovery_mode`, `plx_set_SMB_id` | the card-wide `GPIO_REG`, `reset_ts`, `power_ts` | read-modify-writes under a per-node lock; pulses held across sleeps that can be interrupted; debounce; a lock held across `msleep` |
| EEPROM | `eeprom_*`, `plx_update_eeprom`, `eeprom_check_crc` | on-board EEPROM | command / status polling with a bounded number of tries; a u16 offset; CRC over dwords and a 16-bit tail |
| Doorbells, scratchpads | `plx_send_intr`, `plx_ack_interrupt`, `plx_set_dp_addr`, `plx_get_dp_addr` | doorbell and scratchpad registers | write-1-to-clear; a 64-bit value in two 32-bit registers read by the peer |
| Config-file buffer | `plx_set_config_file`, `plx_clear_dma_mapped_mem`, `plx_read_dma_mapped_mem` | DMA buffer, its address and size in scratchpads | buffer freed while the peer may hold its address |
| RID LUT, DMA filter, link status, identification | `plx_program_rid_lut*`, `plx_dma_filter`, `plx_link_*`, `plx_get_cpu_num`, `plx_identify_cpu_id` | one write or none | stateless |

How the parts interact:

- Mappings live in the A-LUT of the node's own chip port.
- Every node's context reaches the same `GPIO_REG`. The comment in
  `plx_init_vca_g2_gpios` says it is initialised "only once for all 3 nodes".
  A reset or power press issued through any node's context drives the bits of
  the target CPU.
- A node's `mmio_lock` has two kinds of users:
  - the GPIO read-modify-writes, one of which (`plx_init_vca_g2_gpios`) sleeps
    holding it;
  - `plx_update_eeprom`, which holds it across its whole write loop.
  A GPIO call through a node waits behind an EEPROM update of that node, and
  the other way round.

## Modules

| Module | Models | Kind |
|---|---|---|
| `ALutManager` | `plx_alm_add_entry` / `_del_entry` / `_reset` as pure operators over a segment table | spec-modelled: the code is not under `src/` |
| `ALut` | the A-LUT facade, programmer and init/deinit, plus a node reset | state machine; instances `ALutManager` as `Alm` and `ALutWindows` as `Windows` |
| `ALutWindows` | what a map and an unmap promise the peer | abstract specification, refined by `ALut` |
| `MCALut` | constants for TLC (the request set) | MC module |
| `Gpio` | GPIO sequencing of an MV card | state machine |
| `MCGpio` | constants for TLC (initial and default register values) | MC module |
| `MmioNode` | one node's `mmio_lock` shared by `Gpio`'s callers and `plx_update_eeprom` | composition: extends `Gpio`, instances `Eeprom` as `E` |
| `MCMmioNode` | the images the update is given | MC module |
| `Eeprom` | `plx_update_eeprom`, `eeprom_validate`, `eeprom_check_crc` and the `eeprom_*` command helpers | state machine; the CRC as RECURSIVE operators with a reference |
| `MCEeprom` | the images a caller passes, built with the reference CRC | MC module |
| `ConfigFile` | `plx_set_config_file` and, on the other side of the link, `plx_read_dma_mapped_mem` | state machine of a writer and a reader |
| `MCConfigFile` | file sizes and output-buffer sizes | MC module |
| `Scratchpad` | doorbells (`plx_send_intr`, `plx_ack_interrupt`, the interrupt mask) and the boot-params address in two scratchpads (`plx_set_dp_addr`, `plx_get_dp_addr`) | state machine of a writer, other ringers and the peer's handler |
| `MCScratchpad` | the addresses published | MC module |

### ALut

State:

- `attached`, `segmentsNum`: the driver's lifecycle and the manager's size.
- `alm`: the manager's segment table.
- `hw`: the A-LUT registers, as offset to `[perm, hi, lo]`.
- `posted`: the FIFO of MMIO writes the chip has not applied yet.
- `pc`, `held`: per caller, what it is doing and the mapping it holds.

Actions:

- `plx_add_a_lut_entry` and `plx_del_a_lut_entry` are each one step, because
  the whole function body runs under the `alm_lock` spinlock and does not sleep.
- Add appends its writes and then drains the whole queue. This models the
  `mb()` plus the read-back of the last permission register.
- Delete appends its clears and does not drain.
- `ChipApply` applies the oldest posted write.
- `plx_hw_init` queues `plx_a_lut_clear` over the current `segmentsNum`, then
  sets `segmentsNum`, which is what `plx_alm_init` does. This order is the
  code's.
- `NodeReset` loses the driver state and part of the posted queue. It keeps the
  chip's registers.
- `plx_ioremap` is add; it returns the translated address `aper.va + pa_out`,
  held as `held[c].t`. `plx_iounmap` passes `va - aper.va`, the translated
  offset, to delete, which recovers the segment from it. This is why
  `RefsMatchHolders` compares each segment's reference count with the callers
  whose translated address falls in its run.

### ALutWindows and the refinement

`ALutWindows` is what the A-LUT path promises the peer, with no segments,
registers or posted writes. Its state is `attached`, `pc`, `held` and `win`,
the address each translated granule reaches (or `Blocked`).

- `Map(c, r)` returns a start `t`. Then `[t, t+size)` reaches
  `[addr, addr+size)`. Any other granule it opens is on the same translation.
  It leaves every granule another caller holds as it was. It may close
  windows nobody holds.
- `Unmap(c)` closes nothing.
- `Revoke` closes some windows nobody holds.
- `Attach` and `Detach` change no window.

`ALut` instantiates it as `Windows` with `win <- Window`, the peer's
translation of every granule computed from `hw` (`PeerTranslate`). The other
variables map to themselves. `WindowsSpec == Windows!Spec` is checked as a
PROPERTY of `alut_core`. Here is how each `ALut` step maps to an abstract one:

| `ALut` step | `ALutWindows` step |
|---|---|
| a map that programs a run | `Map`, also closing windows whose posted clears it drains |
| a map that shares a run (EEXIST) | `Map` |
| a map that gets ENOMEM | a stutter |
| `plx_del_a_lut_entry` | `Unmap` |
| `ChipApply` | `Revoke` or a stutter |
| `plx_hw_init`, `plx_hw_deinit` | `Attach`, `Detach` |

### Gpio

State:

- `gpio`: the set of high bits of `GPIO_REG`.
- `intent`: a history variable. It holds the value the register would have if
  every read-modify-write were atomic.
- `mmioLock`: the holder of each node's `mmio_lock`.
- `probe`: each node's probe status.
- `sinceReset`: ticks since `reset_ts`, capped at the grace period.
- Per thread: `pc`, `op`, `xdev`, `cpu`, `bit`, `rem` (sleep left) and `data`
  (the value read).

Actions:

- Every `mutex_lock` + `plx_mmio_read` pair is one step (`mmio_lock_read`).
- Every `plx_mmio_write` + `mutex_unlock` pair is the next step of that thread.
  Other nodes' callers can run in between.
- The `reset_lock` sections are single steps, because they never sleep.
- Time is discrete (`Tick`). A code step takes no time, so time passes only when
  no thread can run.
- `signal_bit_interrupted` models `wait_for_completion_interruptible_timeout`
  returning early, on a signal or on the unload completion.

### MmioNode

`MmioNode` composes `Gpio` and `Eeprom` on one node, `EepNode`.

- State: all of `Gpio`'s variables, plus `Eeprom`'s with its `pc` renamed `epc`.
- `EepCaller` is one of `Threads`. It makes GPIO calls too, but never while it
  is in an update, and it starts an update (`EepCall`) only on a probed node.
- `plx_update_eeprom_lock` is `eeprom_validate`'s CRC check together with the
  `mutex_lock` that follows it; the check touches no shared state. A rejected
  image returns without the lock.
- `plx_update_eeprom_unlock` is the `unlock:` label, which every exit after
  `mutex_lock` goes through.
- The loop's own steps are `Eeprom`'s, run while the lock is held, and time
  (`Tick`) passes across them as it does across any sleep.
- `NodeCrcOk` is `Eeprom`'s `CrcOk`. It is recomputed in `MmioNode` because
  TLC does not cache a definition taken through an instance. For the same
  reason `MCMmioNode` writes its images out literally, and an ASSUME checks
  them against `MCEeprom`'s `MkImage`.

### Eeprom

Widths are scaled. The code's u16 (the loop `offset`, `configuration_size`)
becomes `H` bits and its u32 (dwords, the CRC register) `2H` bits. The offset
and the size field keep the same width, so the relation that decides whether
the write loop ends is the code's. An image is a sequence of halfwords.

State:

- `eeprom`: the chip's EEPROM, as halfwords at the cells a u16 offset reaches.
- `file`, `offset`, `ret`, `pc`: the call in progress.
- `before`: the EEPROM when the call started, for the properties.

Actions:

- `Call`: a caller passes an image.
- `eeprom_validate`: the header checks, in the code's order.
- `eeprom_crc`: the CRC check; on success `mmio_lock` is taken and the loop
  starts at offset 0.
- `update_write`: one iteration's `eeprom_write32`, or `eeprom_write16` for a
  2-byte tail (read the dword, replace one half, write it back). The loop's
  `offset < eeprom_size` exit is its first branch.
- `update_verify`: the read-back, the comparison, the tail's `break` and
  `offset += 4` in u16.
- `Return`: `mutex_unlock` and return.

The command helpers poll the status register a bounded number of tries. They
are modelled by the outcomes that polling can end in. A write may succeed,
time out before the chip took it, time out after it stored the value, or
report success for a value the chip lost. A read may time out.

`eeprom_check_crc` is `CrcLoop` over `CrcBits`, the 32 shift passes, written
from the code. `RefCrc` is the reference. It treats the data as B-bit words,
the last one cut at the CRC, and divides by the generator `x^B + CrcXor` over
GF(2) with `FoldLeft`. `CrcOk` evaluates the code's CRC once per image,
because Files is a constant.

### ConfigFile

`plx_set_config_file` publishes a file through two fields, `*dma_addr` and
`*size`. The other side reads them in `plx_read_dma_mapped_mem`. The model has
one writer and one reader. Each runs the function's stores and loads as
separate steps, so the reader's loads can fall between the writer's stores.

State:

- `mem`, `cap`, `bytes`: each page block of the pool. Whether it is allocated,
  its size, and its bytes (`"c"`, `"nl"` or `"nul"`).
- `dmaAddr`, `size`, `virtAddr`: the three fields. 0 is the null address.
- `touched`: the indices `plx_set_config_file` read or wrote in each block.
- The writer's `wpc`, `wcount` and `wnl`, and the reader's `rpc`, `rout`,
  `rsz`, `raddr` and `rres`.
- `current`: a history variable holding the text last written.

Writer steps:

- `set_free_old`: unmap and free the old block.
- `set_zero`: zero the three fields.
- `set_alloc`: `__get_dma_pages`, which may fail, then the copy and the `'\0'`.
- `set_publish`: `*dma_addr`, then `*size = count + 1`. `dma_map_single`
  (`DmaMapSingle`) yields the block, or, when `MapFails`, the error cookie
  `MapErr`, which the code logs and publishes anyway.
- `plx_clear_dma_mapped_mem`: the writer's last call. If the size gives a
  page count it unmaps and frees the block (`ReleaseOld`, shared with
  `set_free_old`); it leaves the three fields as they were.

`mapped` holds the bus addresses mapped and not yet unmapped, so
`PublishedValid` can say that between calls exactly the published block is
mapped, and after the clear nothing is. The config turns deadlock checking off:
once the writer has cleared and the reader is done, the driver has stopped.

Reader steps:

- `plx_read_dma_mapped_mem`: the `readq` of the size, then
  `min(size, out_buf_size - 1)`.
- `read_map`: the address, mapped by `plx_ioremap`, which may fail.
- `read_copy`: `memcpy_fromio` and `strnlen`.

`get_order` is modelled by what it does: the smallest order whose pages hold
the given number of bytes. The code passes it a page count.

### Scratchpad

One side rings the other's doorbells and publishes the boot-params address;
the other side's interrupt handler acknowledges the doorbells and reads the
address. Every MMIO access is its own step.

State:

- `db`: the receiving side's doorbell bits. `masked`: its mask, which the code
  only ever sets or clears as a whole (0xFFFF to DBIMS / DBIMC).
- `spad`: the scratchpads `PLX_DPLO_SPAD` and `PLX_DPHI_SPAD`, written by
  `plx_write_spad` (truncated to `H` bits, 32 in the code) and read by
  `plx_read_spad`. An address has `2H` bits.
- The writer's `wpc`, `wval`, `sets`; the handler's `ipc`, `ireg` (the DBIC
  value read), `ilo`, `iaddr`.
- History: `rung` (doorbells rung and not yet returned by an ack) and
  `published` (addresses the writer completed).

Steps:

- `plx_send_intr`: another caller rings a doorbell (DBIS).
- `plx_set_dp_addr` (the low scratchpad, truncated), `set_dp_hi`
  (`dp_addr >> 32`), then `ring_dp`, the caller's `plx_send_intr` of the
  boot-params doorbell.
- `plx_enable_interrupts`, `plx_disable_interrupts`.
- `ack_read` and `ack_write`: the read of DBIC when an unmasked bit is set, and
  the write of that value back.
- `get_dp_lo`, `get_dp_hi`: `plx_get_dp_addr`, if the boot-params bit was
  among those acknowledged. `handler_done` returns.

## Runs

| Run | Config | Expect | What it shows |
|---|---|---|---|
| `alut_core` | `MCALut.cfg` | pass | Three callers map and unmap overlapping ranges of three segments spread over two arrays, with posted writes and attach/detach. It checks six properties. `WindowsSpec`: `ALut` refines `ALutWindows`, so no step re-points a granule someone holds and a posted write landing only closes windows. `TranslationCorrect`: every held mapping translates each address of its range to the right peer address. `NoOrphanWindow`: no open window lacks bookkeeping or a pending clear. `RefsMatchHolders`: each segment's reference count equals the number of callers holding a mapping into its run, through `plx_iounmap`'s translated offset. `EventuallyRevoked`: every freed window is eventually closed. Plus `TypeOK`. |
| `alut_node_reset` | `MCALutReset.cfg` | violation | `InitClearsTable` fails: after a node reset, `plx_hw_init` clears nothing, because `segments_num` is still 0 when `plx_a_lut_clear` runs (line 276, before line 496). Old windows stay open to the peer. |
| `node_core` | `MCMmioNode.cfg` | pass | Two threads use one node. Both probe it, reset, press hold and toggle, and switch recovery mode, with out-of-range cpu ids and interrupted sleeps. One of them also runs repeated EEPROM updates, with a valid image and one `eeprom_validate` rejects. It checks three properties. `GpioNoLostUpdate`: no update of the register is lost. `NodeCallsReturn`: every GPIO call and every update returns, so no path keeps `mmio_lock`. Plus `NodeTypeOK`. |
| `node_reset` | `MCMmioNodeReset.cfg` | violation | `ResetPulseHeld` fails. It takes three threads: two reset the same CPU while the third runs an EEPROM update. The first reset's release waits for `mmio_lock` while the update holds it, and time passes past the grace period counted from the stamp at line 1096. The second reset then passes the debounce, and one release drives the line high while the other pulse still sleeps. |
| `gpio_nodes` | `MCGpioNodes.cfg` | violation | `GpioNoLostUpdate` fails when callers use two nodes' contexts. Each holds only its own `mmio_lock` while it updates the card-wide register. |
| `eeprom_core` | `MCEeprom.cfg` | pass | Repeated updates, with 8 valid images and one of each way `eeprom_validate` rejects one, on a chip that times out and loses writes. It checks four properties. `CrcMatchesReference`: the bit-serial CRC accepts exactly the images whose CRC is the polynomial remainder. `UpdateOkMeansWritten`: a success means the whole image is in the EEPROM. `UpdateKeepsRest`: no cell past the image changes, including the half `eeprom_write16` keeps. `UpdateReturns`: every call returns. `Eeprom`'s `TypeOK` is not checked on its own here (it is part of `NodeTypeOK` in `node_core`): no driver bug could break it, because the model's cells are set only by the chip's commands. |
| `eeprom_wrap` | `MCEepromWrap.cfg` | violation | `UpdateReturns` fails. The largest image `eeprom_validate` accepts (`configuration_size` 65532, 65540 bytes) is longer than the u16 offset counts. The offset wraps to 0 and the loop rewrites the EEPROM forever, holding `mmio_lock`. |
| `config_core` | `MCConfigFile.cfg` | pass | Repeated writes of 1 to 3 bytes, with or without a trailing newline and with allocation failures, and reads into output buffers of 0, 2 and 5 bytes. The writer and the reader do not overlap. The writer ends with `plx_clear_dma_mapped_mem`. It checks three properties. `BufferAccessInBounds`: the writer stays inside its pages. `PublishedValid`: between calls, the fields name exactly the one allocated and DMA-mapped block, and after the clear nothing stays allocated or mapped. `ReadGetsFile`: a read returns the text written, without its newline and cut to the output buffer. The reader's bounds (`ReadWithinBuffer`) are not checked here: with the sides serialized they follow from `PublishedValid`; `config_oob` checks them where the sides overlap. |
| `config_oob` | `MCConfigFileOob.cfg` | violation | `ConfigAccessInBounds` (`BufferAccessInBounds` and `ReadWithinBuffer` together) fails in five ways. The trace TLC shows is the shortest: `readq` makes the 32 bits after `*size` part of the size, so with nothing published the reader takes a nonzero size and copies from the null address. The others are found with other constants. With `Concurrent = FALSE` and `HighWords = {0}`: an empty write touches `config_file[count - 1]`, the byte before the buffer. With `Counts = {4}` as well: a file of `PAGE_SIZE` bytes gets its `'\0'` past the one page `get_order(pages_num)` allocates. With `Counts <- MCCounts` and `HighWords = {0}`: the reader copies from the block the writer just freed. With `Concurrent = FALSE`, `HighWords = {0}` and `Counts <- MCCounts` (`MapFails` is TRUE in this config): `dma_map_single` fails, the cookie is published with a non-zero size, and the reader copies from it. |
| `scratchpad_core` | `MCScratchpad.cfg` | pass | Doorbells 0 and 1 rung by two callers, the address published once, the mask switched on and off. `DoorbellNotLost`: a doorbell rung between the handler's read and write of DBIC stays set. `DoorbellDelivered`: every doorbell rung is eventually acknowledged, masked or not when it was rung. `DpAddrNotTorn`: the address read is one that was published. |
| `scratchpad_torn` | `MCScratchpadTorn.cfg` | violation | `DpAddrNotTorn` fails when the address is published again before the handler has taken the first doorbell. The writer has stored the new low half (2) but not yet the high half when the handler reads both: `plx_get_dp_addr` combines the new low half with the old high half (2 + 2·4 = 10, neither 9 nor 14). |
| `gpio_press` | `MCGpioPress.cfg` | violation | `PowerPulseHeld` fails: two presses of one CPU's power button overlap, and the first release cuts the second pulse short. |

Each property of a passing run has a mutant in `PROJECT.json`. The mutant is a
plausible bug in the modelled code, and TLC finds the property violated with it
under the run's config. Examples: the range check written with `<=`, the read
without `mutex_lock`, the `unlock:` label of `plx_update_eeprom` without its
`mutex_unlock`, the del loop writing one entry too few, a clear that does not
advance.

## Bounds and why they are enough

**ALut.**

- `NSeg = 3` segments of `SegSize = 2` granules, with `MaxArray = 2` entries per
  physical array. The third segment lands in the second array, so the
  array-split arithmetic is exercised.
- Requests start at granules 0..3 with sizes 1..3, so they cover:
  - unaligned starts;
  - requests spanning one or two segments;
  - equal masked starts that share a run (EEXIST);
  - ENOMEM.
- There are three callers, so two can share a run while a third competes for
  space.
- `LoSpan = 4` makes the hi/lo split of the remap address non-trivial.

**Gpio.**

- Two threads, because every hazard is between two callers.
- Pulse, wait and grace times are kept in the code's order:
  - reset pulse (24 ms) shorter than the grace period;
  - toggle (208 ms) shorter than hold (5208 ms).
  Only their order matters to the interleavings.
- The pass run has one node's driver loaded. Its cpu ids range over -1..1, so
  the range checks reject both ends.
- The two-node run adds a second node and a second CPU's bits.

**MmioNode.**

- `node_core` uses two threads, and one of them is also the EEPROM caller.
  Together they give two GPIO writers on the node and an update that
  interleaves with either.
- There are two 14-byte images, one valid and one with its CRC off by a bit.
  One takes the lock and one returns before it.
- The chip does not fail (`Faults = FALSE`), which keeps the liveness run
  within reach. The update's error exits through `unlock:` are checked in
  `eeprom_core`, without the lock.
- `node_reset` needs a third thread: two resets of one CPU, plus the update.

**Eeprom.**

- `H = 4`. A configuration size is at most 15, so with `Align = 6` it is at
  most 12, and the largest image is 20 bytes. The offset counts to 16. This is
  the code's relation: 65532 + 8 > 65535.
- The valid images have 14 bytes, so the loop writes two dwords and a 2-byte
  tail, and the CRC covers a dword and a 16-bit tail.
- The constants the repository does not define are chosen: `CrcXor = 7`,
  `StartCrc = 4` (after the header), `Align = 6` (the "(2B, 4B) pairs" of the
  header comment), `ValidSig = 2`, and an erased cell of all ones.
- Each update starts from the EEPROM the previous ones left. Lost and
  timed-out writes therefore meet cells written before.

**ConfigFile.**

- `PAGE_SIZE` is scaled to 4 bytes.
- Files of 1 to 3 bytes fit a page with their terminator. The violation runs
  use 4 bytes and 0 bytes.
- Two page blocks. The allocator can then hand back the block it just freed,
  or the other one, so an old address may point at the new file.
- Output buffers of 0 (the early return), 2 (shorter than the text) and 5
  (longer than a page) bytes.

**Scratchpad.**

- `H = 2`, and the two addresses (9 and 14) differ in both halves, so a torn
  read and a missing shift both give an address nobody published.
- Two doorbells: the boot-params one and another, so an ack can race a ring
  of a different bit.
- `MaxSets = 1` in the pass run (the address is published once, as at boot)
  and 2 in the violation run.

## Fairness

**ALut.** `WF_vars(ChipApply)`: the chip drains its posted-write queue on its
own. Callers are not fair, because a user need not unmap.

**Gpio.**

- `SF_vars(Step(t))` for each thread. A thread waiting for a mutex is enabled
  only intermittently, and the kernel mutex hands off to a waiting thread
  rather than starving it.
- `SF_vars(Tick)`. In the model, time can advance only when no thread can run.
  Real time is not held back by code that takes no time, so an endless run of
  zero-time steps must not hold `Tick` off.
- Calls and interrupted sleeps have no fairness.

**MmioNode.**

- Gpio's strong fairness for each thread's GPIO steps and for `Tick`.
- `SF_nvars(EepStep)` on the update's steps. Its `mutex_lock` is enabled only
  while no GPIO call holds the lock, and the mutex hands off to a waiter.
- Calls have no fairness.

**Eeprom.** `WF_vars(Step)` on the call's own steps. A call runs without
waiting on anything but the chip, whose polling is bounded. Callers are not
fair.

**ConfigFile.** No fairness. Its properties are all safety properties.

**Scratchpad.**

- `SF_vars(ack_read)`. A doorbell bit stays set while masked, so the hardware
  raises the interrupt whenever the mask is cleared; a handler enabled
  infinitely often runs.
- `WF_vars(Handler)` and `WF_vars(set_dp_hi \/ ring_dp)`: a started handler
  or publication finishes.
- `WF_vars(plx_enable_interrupts)`: the driver does not leave doorbell
  interrupts masked for good. This is an assumption about the callers, which
  are outside this file.
- Ringing, publishing and masking have no fairness.

## What is not modelled, and why

- **`plx_alm_*` internals.** The code is outside `src/`. It is modelled from
  spec.md §4.1, and its map entries are marked spec-modelled.
- **`plx_set_SMB_id`.** VV cards only; the GPIO model is of an MV card.
- **`power_ts`.** It is only read, by `plx_card_check_power_button_state`,
  which changes nothing.
- **`plx_lbp_reset_start/stop`.** Defined outside this file.
- **The `msleep(100)` after a reset.** It touches no state.
- **RID LUT, DMA filter, link status, identification.** Single register writes
  or pure reads, with nothing to interleave.
- **Register-base arithmetic and the A-LUT enable bit.** One write each at init.
- **Use after `plx_clear_dma_mapped_mem`.** The clear is modelled as the
  writer's last call. It leaves the fields stale, and a later call would free
  the pages again, but its callers are outside `src/`, so nothing in this file
  says whether one can follow. Listed as a hazard.
- **RID LUT (`plx_program_rid_lut`, `plx_program_rid_lut_dma`).** A value
  packed once at probe and written to two registers, with nothing to
  interleave. Reading it showed that `plx_rid_lut` masks the 5-bit
  `PCI_SLOT` with `0x0f`, so a root port at device 16 or above gets the wrong
  entry. It is recorded as a hazard (line 130) and not given a run: the
  project's runs are spent on the interleaving questions.
- **`plx_intr_init`, `plx_read_straps`.** Table set-up and a pure read.
- **`plx_program_bar23_at`.** Two 32-bit writes of one 64-bit translation.
  Its callers are outside `src/` and nothing else in the file uses BAR 2/3. The
  torn-write hazard is listed; the same pattern is checked for the DP address
  (`DpAddrNotTorn`).
- **EEPROM register layouts.** The status register's bit fields, the block
  address and the `PLX_EEP_ADDRESS_BYTE` fix-up are abstracted to what a command
  does to the EEPROM.

## Plan

Order of work, with the state of each item:

1. **`ALut` + `ALutManager`.** Done.
2. **`Gpio`.** Done, except `plx_set_SMB_id`.
3. **`Eeprom`.** Done.
4. **`ConfigFile`.** Done.
   **`Scratchpad`.** Done, except `plx_intr_init` and `plx_program_bar23_at`.
5. **`ALutWindows`.** Done: `ALut` refines it, checked in `alut_core`. The
   liveness side (windows nobody holds eventually close) is `EventuallyRevoked`
   in `ALut`, not part of the abstract specification.
6. **`MmioNode`.** Done. It composes `Eeprom` with `Gpio` through the shared
   `mmio_lock`. `gpio_core` became `node_core`, and `ResetPulseHeld`, which
   held only while every other lock holder was brief, became the `node_reset`
   finding.
7. **Hazards.** Done: `:1755` (the error cookie, `MapFails`, in
   `config_oob` and `PublishedValid`), `:519` (`RefsMatchHolders`), and the
   teardown `plx_clear_dma_mapped_mem` in `ConfigFile`. The scratchpads are
   now one `spad` function written and read through `plx_write_spad` and
   `plx_read_spad`.
8. **Left.** `:635` and `:1223` depend on callers outside `src/`;
   `plx_set_SMB_id` needs a VV card dimension in `Gpio`; the RID LUT masking
   (line 130) and the BAR 2/3 torn write (line 844) would each need a run of
   their own.
