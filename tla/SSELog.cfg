\* Runs of up to three deltas, other events between them, and events longer
\* than MaxHold.
SPECIFICATION Spec
CONSTANTS
  Fields <- DeltaFields
  Text = {"content", "reasoning"}
  Latest = {"finish"}
  MaxHold = 4
  MaxChunk = 3
  MaxLen = 9
INVARIANTS TextPreserved LatestPreserved ChunksDoNotMatter
CHECK_DEADLOCK FALSE
