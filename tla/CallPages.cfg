\* Two Records that may share files, each followed by a prune; leftovers of an
\* earlier process, statements that fail, and a process that ends in between;
\* and an administrator who reads their pages.
SPECIFICATION PageSpec
CONSTANTS
  Calls = {c1, c2}
  NoCall = none
  Shas = {s1, s2}
  Retain = 2
  PruneEveryN = 1
  StoreBound = 1
  MaxClock = 4
  MaxRestarts = 1
SYMMETRY Symmetry
INVARIANTS TypeOK JoinsHaveFiles DetailComplete SweptBeforeFiles LinksResolve
PROPERTIES DetailKept PageComplete
CHECK_DEADLOCK FALSE
