---------------------------- MODULE MCConfigFile ----------------------------
(* The config-file buffer with PAGE_SIZE scaled to 4 bytes and an 8-bit *)
(* size field.                                                          *)
EXTENDS ConfigFile

(* Files that fit the one page get_order hands out, and the sizes of   *)
(* the reader's output buffer: none, shorter than a file, larger.      *)
MCCounts == 1 .. 3
MCOutSizes == {0, 2, 5}

(* The edges of the count: an empty write, and a file that fills the   *)
(* page with no room left for the '\0'.                                 *)
MCCountsEdge == {0, 4}

(* Output buffers shorter than a file and larger than the page.         *)
MCOutSizesLarge == {2, 6}
=============================================================================
