\* The prune counter and its mutex, prunes on every second insert, in a
\* process that is asked to stop, fails or is killed.
SPECIFICATION LifeFairSpec
CONSTANTS
  Calls = {c1, c2, c3}
  Shas = {}
  Retain = 0
  PruneEveryN = 2
  StoreBound = 0
  MaxClock = 1
  MaxRestarts = 1
INVARIANTS PruneExclusive PruneNotEarly RecordsSurviveShutdown
PROPERTIES OnlyPrunesAreCut RecordEnds MutexReleased DrainsUnlessStreaming
CHECK_DEADLOCK FALSE
