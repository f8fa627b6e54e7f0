\* Two cases, one at a time: the first may end before its session does.
SPECIFICATION FairSpec
CONSTANTS
  Cases = {k1, k2}
  Concurrency = 1
  NONE = NONE
INVARIANTS Inv ReportsAreTrue NothingIsLeftUnsaid AtMostConcurrency
PROPERTIES EveryCaseEnds
\* Every case has been reported.
CHECK_DEADLOCK FALSE
