\* Every vendor, every bill of up to two tokens of each kind.
SPECIFICATION Spec
CONSTANTS
  Dialects <- AllDialects
  Amounts = {0, 1, 2}
  MaxLines = 4
INVARIANTS RecordedAsBilled AddsUp
PROPERTIES NothingForgotten
CHECK_DEADLOCK FALSE
