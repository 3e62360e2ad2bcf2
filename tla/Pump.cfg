\* Bodies longer than the buffer and lines longer than MaxScan.
SPECIFICATION FairSpec
CONSTANTS
  MaxBody = 4
  Bodies <- AllBodies
  BufSize = 2
  MaxScan = 1
  MaxPings = 2
INVARIANTS RawStream LinesOnce
PROPERTIES ReaderExits HangUpEnds NeverSilent
CHECK_DEADLOCK FALSE
