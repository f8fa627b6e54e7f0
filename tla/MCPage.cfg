\* Two sessions, two overlapping polls, two decisions in flight.
SPECIFICATION Spec
CONSTANTS
  Sessions = {A, B}
  Loops = {l1, l2}
  Clicks = {c1, c2}
  NOT_FOUND_PATIENCE = 2
  NONE = NONE
SYMMETRY PageSymmetry
INVARIANTS PageInv OneLoop NeverFrozen DecisionIsShown
PROPERTIES NeverGoesBack
\* A page nobody has left may be at rest.
CHECK_DEADLOCK FALSE
