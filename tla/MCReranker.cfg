\* Three runs and the warm-up; two calls to the model may raise.
SPECIFICATION FairSpec
CONSTANTS
  Runs = {r1, r2, r3}
  WarmUp = warm
  CLASS = class
  MaxFailures = 2
  NONE = NONE
  ERROR = ERROR
INVARIANTS Inv LoadsAreExclusive
PROPERTIES SharesOneModel CallsReturn
\* The calls have returned.
CHECK_DEADLOCK FALSE
