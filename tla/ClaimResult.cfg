\* The page is taken from one session to another.
SPECIFICATION Spec
CONSTANTS
  Sessions = {A, B}
  Loops = {l1, l2}
  Clicks = {c1}
  NOT_FOUND_PATIENCE = 2
  NONE = NONE
INVARIANT ResultIsOfSession
CHECK_DEADLOCK FALSE
