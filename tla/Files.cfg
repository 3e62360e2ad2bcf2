\* Limits that most bodies keep and some outgrow with their placeholders.
SPECIFICATION FilesSpec
CONSTANTS
  Digest <- SomeDigest
  Length <- SomeLength
  MarkLength = 3
  MaxMediumBlob = 17
  Requests <- SomeRequests
  Responses <- SomeResponses
  Retain = TRUE
  Gone = gone
INVARIANTS OnlyFilesReplaced PlaceholdersAreFiles NoPayloadLeft
CHECK_DEADLOCK FALSE
