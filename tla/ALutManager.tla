---------------------------- MODULE ALutManager ----------------------------
(***************************************************************************)
(* The A-LUT segment manager (plx_alm_init / _reset / _add_entry /         *)
(* _del_entry / _release).  Its code is not part of src/ (plx_hw.c only    *)
(* calls it), so these operators are written from spec.md section 4.1.     *)
(*                                                                         *)
(* The bookkeeping is a function from segment index to a record:          *)
(*   ref   - reference count of the run the segment belongs to (0 = FREE), *)
(*   start - index of the first segment of that run,                      *)
(*   len   - number of segments of that run,                              *)
(*   base  - the masked DMA address the run was allocated for.            *)
(* Addresses are counted in granules; a segment is SegSize granules.      *)
(***************************************************************************)
EXTENDS Naturals, FiniteSetsExt

CONSTANTS
  SegSize,   \* segment_size, in address granules
  NSeg       \* segments_num that plx_alm_init derives from the aperture

ASSUME SegSize \in Nat \ {0} /\ NSeg \in Nat \ {0}

Segments == 0 .. NSeg - 1

FreeSeg == [ref |-> 0, start |-> 0, len |-> 0, base |-> 0]

(* plx_alm_reset / plx_alm_init / plx_alm_release: all segments FREE.     *)
AlmEmpty == [i \in Segments |-> FreeSeg]

(* The address masked down to its segment, and the number of segments    *)
(* the range [addr, addr+size) spans once masked.                         *)
Masked(addr) == addr - (addr % SegSize)
SegmentsNeeded(addr, size) == ((addr % SegSize) + size + SegSize - 1) \div SegSize

(* The run of segments starting at s.                                     *)
Run(m, s) == s .. s + m[s].len - 1

(* Allocated runs starting at the same masked address that cover the     *)
(* request: add_entry returns "already exists" for the first of them.     *)
Covering(m, n, addr, size) ==
  { s \in 0 .. n - 1 : /\ m[s].ref > 0
                       /\ m[s].start = s
                       /\ m[s].base = Masked(addr)
                       /\ m[s].len >= SegmentsNeeded(addr, size) }

(* First-fit: the start indices of contiguous FREE runs of length k     *)
(* inside the n segments the manager was initialised with.              *)
FreeRuns(m, n, k) ==
  { s \in 0 .. n - k : \A j \in s .. s + k - 1 : m[j].ref = 0 }

(* plx_alm_add_entry(addr, size) -> err, segment_id, segments_num.       *)
(* err is "OK" (new run, ref 1), "EEXIST" (ref of an existing run + 1)  *)
(* or "ENOMEM" (no contiguous free run of the length needed).           *)
AlmAddEntry(m, n, addr, size) ==
  LET k == SegmentsNeeded(addr, size)
      cov == Covering(m, n, addr, size)
      fit == FreeRuns(m, n, k)
  IN  IF cov # {}
      THEN LET s == Min(cov)
           IN [err |-> "EEXIST", id |-> s, num |-> m[s].len,
               alm |-> [j \in DOMAIN m |->
                          IF j \in Run(m, s) THEN [m[j] EXCEPT !.ref = @ + 1]
                                             ELSE m[j]]]
      ELSE IF fit # {}
      THEN LET s == Min(fit)
           IN [err |-> "OK", id |-> s, num |-> k,
               alm |-> [j \in DOMAIN m |->
                          IF j \in s .. s + k - 1
                          THEN [ref |-> 1, start |-> s, len |-> k,
                                base |-> Masked(addr)]
                          ELSE m[j]]]
      ELSE [err |-> "ENOMEM", id |-> 0, num |-> 0, alm |-> m]

(* plx_alm_del_entry(segment_id) -> start_segment, segments_num.  The   *)
(* run containing segment_id loses one reference; the freed range is    *)
(* reported only when the count reaches zero.  A FREE segment is left   *)
(* alone and nothing is reported.                                       *)
AlmDelEntry(m, id) ==
  IF m[id].ref = 0
  THEN [start |-> 0, num |-> 0, alm |-> m]
  ELSE LET s == m[id].start
           r == m[id].ref - 1
           run == Run(m, s)
       IN [start |-> s,
           num   |-> IF r = 0 THEN m[s].len ELSE 0,
           alm   |-> [j \in DOMAIN m |->
                        IF j \notin run THEN m[j]
                        ELSE IF r = 0 THEN FreeSeg
                        ELSE [m[j] EXCEPT !.ref = r]]]

=============================================================================
