\* Empty and page-sized writes, the reader running beside the writer, and
\* readq taking nonzero bits after *size into an output buffer larger than a page.
CONSTANTS
  Page = 4
  NBufs = 2
  W = 8
  Counts <- MCCountsEdge
  OutSizes <- MCOutSizesLarge
  HighWords = {0, 1}
  Concurrent = TRUE
  MapFails = TRUE
SPECIFICATION Spec
INVARIANT ConfigAccessInBounds
