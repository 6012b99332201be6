\* A record of three lines: its last ones may be written after the chunk is read.
SPECIFICATION Spec
CONSTANTS
  Size = 8
  Newlines = {2, 4, 6, 8}
  Starts = {1, 7}
  MaxChunk = 7
  MaxFiles = 3
INVARIANT NeverSplits
CHECK_DEADLOCK FALSE
