\* Expected to be violated.
SPECIFICATION Spec
CONSTANTS
  MaxBody = 4
  Bodies <- AllBodies
  BufSize = 2
  MaxScan = 9
  MaxPings = 1
INVARIANT CommentsInvisible
CHECK_DEADLOCK FALSE
