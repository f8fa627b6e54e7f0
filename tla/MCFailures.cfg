\* One reviewer; a run may die between an effect and its checkpoint.
SPECIFICATION Spec
CONSTANTS
  NULL = NULL
  Submissions = {s1}
  Requests = {q1}
  Edits = {e1, blank}
  Blank = blank
  BlankQuery = NULL
  RouteChoices <- BothRoutes
  ConfScores <- MCConfScores
  JudgeScores <- MCJudgeScores
  Faulty <- AllFaulty
  MaxFaults = 1
  MaxCrashes = 1
INVARIANTS SessionInv KnowledgeMatchesRelease
PROPERTIES PauseIsDurable
\* A session that has settled takes no further step.
CHECK_DEADLOCK FALSE
