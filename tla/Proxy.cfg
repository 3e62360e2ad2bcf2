\* Three providers; bodies longer than either cap.
SPECIFICATION FairSpec
CONSTANTS
  N = 3
  Statuses <- SomeStatuses
  MaxBody = 3
  LogCap = 2
  StatusCap = 1
INVARIANTS RowPerAttempt AnswerFitsLog BlobIsCopy
PROPERTIES NothingAfterHead KeepsPromise HangUpEnds
CHECK_DEADLOCK FALSE
