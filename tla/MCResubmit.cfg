\* The session id is submitted again, before or after it settled.
SPECIFICATION Spec
CONSTANTS
  NULL = NULL
  Submissions = {s1, s2}
  Requests = {q1}
  Edits = {e1}
  Blank = blank
  BlankQuery = s2
  RouteChoices <- OneRoute
  ConfScores <- HighConfScores
  JudgeScores <- MCJudgeScores
  Faulty <- SomeFaulty
  MaxFaults = 0
  MaxCrashes = 0
INVARIANTS Inv AutoApprovedHasOutput
\* A session that has settled takes no further step.
CHECK_DEADLOCK FALSE
