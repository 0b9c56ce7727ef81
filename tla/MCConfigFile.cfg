\* Writer and reader serialized by their callers; files fit in a page;
\* dma_map_single succeeds.
CONSTANTS
  Page = 4
  NBufs = 2
  W = 8
  Counts <- MCCounts
  OutSizes <- MCOutSizes
  HighWords = {0}
  Concurrent = FALSE
  MapFails = FALSE
\* plx_clear_dma_mapped_mem is the writer's last call; once the reader is
\* done too, the driver has stopped.
CHECK_DEADLOCK FALSE
SPECIFICATION Spec
INVARIANTS BufferAccessInBounds PublishedValid ReadGetsFile
