\* Expected to be violated.
SPECIFICATION Spec
CONSTANTS
  N = 1
  Statuses <- SomeStatuses
  MaxBody = 3
  LogCap = 2
  StatusCap = 1
INVARIANT CanceledMeansHangUp
CHECK_DEADLOCK FALSE
