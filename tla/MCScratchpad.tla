---------------------------- MODULE MCScratchpad ----------------------------
(* Doorbells 0 (boot params) and 1; 2-bit scratchpads, and two addresses *)
(* that differ in both halves.                                          *)
EXTENDS Scratchpad

MCAddrs == {1 + 2 * 4, 2 + 3 * 4}
=============================================================================
