\* Two handlers that record calls; windows that slide between two pages.
SPECIFICATION AdminSpec
CONSTANTS
  Browsers = {"chrome"}
  Reader = "chrome"
  Creds <- TwoCreds
  TTL = 86400
  Start <- Now
  Instants <- SomeInstants
  MaxRestarts = 1
  NoCookie = none
  Writers = {"v", "w"}
  Models = {"a"}
  Queries <- SomeQueries
  Histories <- SomeHistories
  PageSize = 2
  MaxCalls = 4
  AnyModel = any
  Bad = bad
INVARIANTS ChartAddsUp ListReadWhole
PROPERTIES ServedToLoggedIn
CHECK_DEADLOCK FALSE
