----------------------------- MODULE ConfigFile -----------------------------
(***************************************************************************)
(* The config-file buffer (plx_hw.c): plx_set_config_file copies a file   *)
(* into fresh DMA pages and publishes their bus address and size in two   *)
(* fields *dma_addr and *size that   the other side of the link reads; there *)
(* plx_read_dma_mapped_mem reads the size (readq), then the address,      *)
(* maps the buffer through the A-LUT and copies it out as a string.       *)
(*                                                                         *)
(* A buffer is a number in Bufs (0 is the null address); its bytes are    *)
(* "c" (a character of the file), "nl" or "nul".  Page is PAGE_SIZE,      *)
(* scaled; the size fields keep their W-bit width.  dma_map_single gives *)
(* the buffer's own number as its bus address, or the error cookie      *)
(* MapErr when the mapping fails (MapFails).                            *)
(***************************************************************************)
EXTENDS Integers, Sequences

CONSTANTS
  Page,         \* PAGE_SIZE in bytes
  NBufs,        \* free page blocks the allocator can hand out
  Counts,       \* sizes of files a caller may write
  OutSizes,     \* out_buf_size values a reader may pass
  HighWords,    \* the 32 bits after *size that readq(dma_size) also reads
  W,            \* bits of the __u32 size field
  Concurrent,   \* FALSE: the callers never run the writer and the reader at once
  MapFails      \* TRUE: dma_map_single may fail

Bufs == 1 .. NBufs
Null == 0
MapErr == -1    \* DMA_MAPPING_ERROR: no buffer's bus address

ASSUME Page \in Nat \ {0} /\ Counts \subseteq Nat /\ OutSizes \subseteq Nat

(* DIV_ROUND_UP(n, PAGE_SIZE)                                             *)
PagesNum(n) == (n + Page - 1) \div Page

(* get_order(n): the smallest order whose 2^order pages hold n bytes.     *)
GetOrder(n) == CHOOSE o \in 0 .. n : Page * 2^o >= n /\ (o = 0 \/ Page * 2^(o - 1) < n)

Cells == 0 .. Page * 2^GetOrder(PagesNum(Page + 1)) - 1

(* The file a caller writes: count characters, the last a newline or not. *)
FileBytes(count, nl) == [i \in 0 .. count - 1 |-> IF nl /\ i = count - 1 THEN "nl" ELSE "c"]

(* strnlen: the index of the first "nul" among the first n bytes, else n. *)
StrnLen(s, n) ==
  IF \E i \in 0 .. n - 1 : s[i] = "nul"
  THEN CHOOSE i \in 0 .. n - 1 : s[i] = "nul" /\ \A j \in 0 .. i - 1 : s[j] # "nul"
  ELSE n

MinOf(a, b) == IF a < b THEN a ELSE b

VARIABLES
  mem,        \* each buffer: "free" or "alloc"
  cap,        \* each buffer's size in bytes when allocated
  bytes,      \* each buffer's contents
  touched,    \* indices plx_set_config_file accessed in each buffer
  dmaAddr,    \* *dma_addr, read by the peer
  size,       \* *size, read by the peer
  virtAddr,   \* *virt_addr
  mapped,     \* bus addresses dma_map_single handed out and not yet unmapped
  wpc, wcount, wnl,            \* the writer: where it is, count, last byte
  rpc, rout, rsz, raddr, rres, \* the reader: where it is, out_buf_size,
                               \* size, the address read, the result
  current     \* history: the text of the file last written, or <<>> if none

vars == <<mem, cap, bytes, touched, dmaAddr, size, virtAddr, mapped,
          wpc, wcount, wnl, rpc, rout, rsz, raddr, rres, current>>
wvars == <<wpc, wcount, wnl>>
rvars == <<rpc, rout, rsz, raddr, rres>>

Init ==
  /\ mem = [b \in Bufs |-> "free"]
  /\ cap = [b \in Bufs |-> 0]
  /\ bytes = [b \in Bufs |-> [i \in Cells |-> "nul"]]
  /\ touched = [b \in Bufs |-> {}]
  /\ dmaAddr = Null /\ size = 0 /\ virtAddr = Null /\ mapped = {}
  /\ wpc = "idle" /\ wcount = 0 /\ wnl = FALSE
  /\ rpc = "idle" /\ rout = 0 /\ rsz = 0 /\ raddr = Null /\ rres = 0
  /\ current = <<>>

-----------------------------------------------------------------------------
(* plx_set_config_file                                                   *)

(* A store into the sysfs-like attribute: count bytes, and whether the   *)
(* byte at count - 1 is a newline (for count = 0, the byte before).      *)
plx_set_config_file ==
  /\ wpc = "idle"
  /\ Concurrent \/ rpc = "idle"
  /\ \E c \in Counts, nl \in BOOLEAN : wcount' = c /\ wnl' = nl
  /\ wpc' = "free"
  /\ UNCHANGED <<mem, cap, bytes, touched, mapped, dmaAddr, size, virtAddr, rvars, current>>

(* Mutant: *size left as it was.                                       *)
set_zero_keepsize ==
  /\ wpc = "zero"
  /\ dmaAddr' = Null /\ virtAddr' = Null
  /\ current' = <<>>
  /\ wpc' = "alloc"
  /\ UNCHANGED <<mem, cap, bytes, touched, mapped, size, wcount, wnl, rvars>>

(* dma_unmap_single of *dma_addr and free_pages of *virt_addr: the old *)
(* buffer's DMA mapping and its pages go.                               *)
ReleaseOld ==
  /\ mapped' = mapped \ {dmaAddr}
  /\ mem' = [mem EXCEPT ![virtAddr] = "free"]

(* if *size is set: dma_unmap_single and free_pages of the old buffer.        *)
set_free_old ==
  /\ wpc = "free"
  /\ IF size # 0 THEN ReleaseOld /\ wpc' = "zero"
                 ELSE UNCHANGED <<mem, mapped>> /\ wpc' = "alloc"
  /\ UNCHANGED <<cap, bytes, touched, dmaAddr, size, virtAddr, wcount, wnl, rvars, current>>

(* *dma_addr = 0; *virt_addr = 0; *size = 0.                             *)
set_zero ==
  /\ wpc = "zero"
  /\ dmaAddr' = Null /\ virtAddr' = Null /\ size' = 0
  /\ current' = <<>>
  /\ wpc' = "alloc"
  /\ UNCHANGED <<mem, cap, bytes, touched, mapped, wcount, wnl, rvars>>

(* Mutant: the '\0' one byte further on.                                 *)
AccessedOffByOne(count, nl) == (0 .. count - 1) \cup {count - 1, IF nl THEN count - 1 ELSE count + 1}

(* Mutant: the newline kept, the '\0' always after the file.            *)
WrittenKeepNl(count, nl) ==
  [i \in Cells |-> IF i = count THEN "nul"
                   ELSE IF i < count THEN FileBytes(count, nl)[i] ELSE "nul"]

(* The bytes plx_set_config_file accesses: memcpy_toio over 0..count-1,  *)
(* the test of config_file[count - 1], and the '\0' at count - 1 or count. *)
Accessed(count, nl) == (0 .. count - 1) \cup {count - 1, IF nl THEN count - 1 ELSE count}

(* The contents after memcpy_toio and the terminator, in zeroed pages.   *)
Written(count, nl) ==
  [i \in Cells |-> IF i = (IF nl THEN count - 1 ELSE count) THEN "nul"
                   ELSE IF i < count THEN FileBytes(count, nl)[i] ELSE "nul"]

(* The text a reader should get: the file without its trailing newline. *)
Text(count, nl) == [i \in 1 .. (IF nl THEN count - 1 ELSE count) |-> "c"]

(* __get_dma_pages(GFP_ZERO, get_order(pages_num)); -ENOMEM on failure;  *)
(* else the copy, the terminator, and *virt_addr.                       *)
set_alloc ==
  /\ wpc = "alloc"
  /\ \/ /\ wpc' = "idle"
        /\ UNCHANGED <<mem, cap, bytes, touched, virtAddr>>
     \/ \E b \in Bufs :
          /\ mem[b] = "free"
          /\ mem' = [mem EXCEPT ![b] = "alloc"]
          /\ cap' = [cap EXCEPT ![b] = Page * 2^GetOrder(PagesNum(wcount + 1))]
          /\ bytes' = [bytes EXCEPT ![b] = Written(wcount, wnl)]
          /\ touched' = [touched EXCEPT ![b] = Accessed(wcount, wnl)]
          /\ virtAddr' = b
          /\ wpc' = "publish"
  /\ UNCHANGED <<dmaAddr, mapped, size, wcount, wnl, rvars, current>>

(* dma_map_single: the buffer's bus address, now mapped, or the error    *)
(* cookie, with nothing mapped.                                         *)
DmaMapSingle(b) ==
  \/ dmaAddr' = b /\ mapped' = mapped \cup {b}
  \/ MapFails /\ dmaAddr' = MapErr /\ UNCHANGED mapped

(* *dma_addr = dma_map_single(...); *size = count + 1; a failed mapping  *)
(* (dma_mapping_error) is only logged, and smp_wmb publishes either way. *)
set_publish ==
  /\ wpc = "publish"
  /\ DmaMapSingle(virtAddr)
  /\ size' = (wcount + 1) % 2^W
  /\ current' = Text(wcount, wnl)
  /\ wpc' = "idle"
  /\ UNCHANGED <<mem, cap, bytes, touched, virtAddr, wcount, wnl, rvars>>

(* DIV_ROUND_UP of *size by PAGE_SIZE is nonzero: there is a buffer to drop. *)
ClearPages == PagesNum(size) # 0

(* plx_clear_dma_mapped_mem, the writer side's teardown: if *size names *)
(* pages, dma_unmap_single and free_pages; *dma_addr, *size and          *)
(* *virt_addr are left as they were.  Nothing in this file writes the   *)
(* config file after it: the writer stops.                              *)
plx_clear_dma_mapped_mem ==
  /\ wpc = "idle"
  /\ Concurrent \/ rpc = "idle"
  /\ IF ClearPages THEN ReleaseOld ELSE UNCHANGED <<mem, mapped>>
  /\ wpc' = "cleared"
  /\ UNCHANGED <<cap, bytes, touched, dmaAddr, size, virtAddr, wcount, wnl, rvars, current>>

-----------------------------------------------------------------------------
(* plx_read_dma_mapped_mem, on the other side of the link                *)

(* readq(dma_size) and size = min(dma_size_read, out_buf_size - 1); an   *)
(* empty output buffer returns 0.                                        *)
plx_read_dma_mapped_mem ==
  /\ rpc = "idle"
  /\ Concurrent \/ wpc = "idle"
  /\ \E out \in OutSizes, hi \in HighWords :
       /\ rout' = out
       /\ rsz' = MinOf(size + hi * 2^W, out - 1)
       /\ IF out = 0 THEN rpc' = "failed" /\ rres' = 0 ELSE rpc' = "map" /\ UNCHANGED rres
  /\ UNCHANGED <<raddr, mem, cap, bytes, touched, mapped, dmaAddr, size, virtAddr, wvars, current>>

(* plx_ioremap(xdev, *dma_addr, size): NULL (no A-LUT room) returns 0.    *)
read_map ==
  /\ rpc = "map"
  /\ raddr' = dmaAddr
  /\ \/ rpc' = "copy" /\ UNCHANGED rres
     \/ rpc' = "failed" /\ rres' = 0
  /\ UNCHANGED <<rout, rsz, mem, cap, bytes, touched, mapped, dmaAddr, size, virtAddr, wvars, current>>

(* A copy is sound when it reads only an allocated buffer's bytes.       *)
CopySound == rsz = 0 \/ (raddr \in Bufs /\ mem[raddr] = "alloc" /\ rsz <= cap[raddr])

(* memcpy_fromio, out_buf[size] = 0, strnlen, plx_iounmap.  What a copy  *)
(* that is not sound returns is whatever the memory held.                *)
read_copy ==
  /\ rpc = "copy"
  /\ IF CopySound
     THEN rres' = StrnLen(IF rsz = 0 THEN <<>> ELSE bytes[raddr], rsz)
     ELSE rres' \in 0 .. rsz
  /\ rpc' = "copied"
  /\ UNCHANGED <<rout, rsz, raddr, mem, cap, bytes, touched, mapped, dmaAddr, size, virtAddr, wvars, current>>

(* The return of plx_read_dma_mapped_mem.                               *)
read_return ==
  /\ rpc \in {"copied", "failed"}
  /\ rpc' = "idle"
  /\ UNCHANGED <<rout, rsz, raddr, rres, mem, cap, bytes, touched, mapped, dmaAddr, size, virtAddr, wvars, current>>

Next ==
  \/ plx_set_config_file \/ set_free_old \/ set_zero \/ set_alloc \/ set_publish
  \/ plx_clear_dma_mapped_mem
  \/ plx_read_dma_mapped_mem \/ read_map \/ read_copy \/ read_return

Spec == Init /\ [][Next]_vars

-----------------------------------------------------------------------------
(* Properties                                                           *)

(* plx_set_config_file reads and writes only bytes of the pages it        *)
(* allocated: the copy, the test of the last byte and the terminator.     *)
BufferAccessInBounds == \A b \in Bufs : touched[b] \subseteq 0 .. cap[b] - 1

(* Between calls, a nonzero *size names an allocated buffer, at a       *)
(* *dma_addr dma_map_single really mapped, that holds it; no page block *)
(* is allocated or mapped but the published one; and after             *)
(* plx_clear_dma_mapped_mem nothing is.  So every dma_unmap_single of   *)
(* *dma_addr unmaps a live mapping, and the peer is never given a bus   *)
(* address that is not one.                                             *)
Live == {b \in Bufs : mem[b] = "alloc"}
PublishedValid ==
  /\ wpc = "idle" =>
       /\ (size # 0 => dmaAddr \in mapped /\ mem[dmaAddr] = "alloc" /\ size <= cap[dmaAddr])
       /\ Live = IF size = 0 THEN {} ELSE {dmaAddr}
       /\ mapped = Live
  /\ wpc = "cleared" => Live = {} /\ mapped = {}

(* The reader's memcpy_fromio reads only bytes of an allocated buffer.    *)
ReadWithinBuffer == rpc = "copy" => CopySound

(* Neither side of the config file touches memory outside an allocated *)
(* buffer: plx_set_config_file's copy, last-byte test and terminator,   *)
(* and plx_read_dma_mapped_mem's memcpy_fromio.                         *)
ConfigAccessInBounds == BufferAccessInBounds /\ ReadWithinBuffer

(* A read that copied returns the text last written, without its         *)
(* trailing newline, cut to out_buf_size - 1: what a caller of           *)
(* plx_read_dma_mapped_mem gets for what was passed to plx_set_config_file. *)
ReadGetsFile == rpc = "copied" => rres = MinOf(Len(current), rout - 1)

=============================================================================
