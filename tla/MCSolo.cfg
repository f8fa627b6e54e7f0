\* One submission, one approval request, every external call may fail.
SPECIFICATION FairSpec
CONSTANTS
  NULL = NULL
  Submissions = {s1}
  Requests = {q1}
  Edits = {e1, blank}
  Blank = blank
  BlankQuery = NULL
  RouteChoices <- BothRoutes
  ConfScores <- MCConfScores
  JudgeScores <- MCJudgeScores
  Faulty <- AllFaulty
  MaxFaults = 0
  MaxCrashes = 0
INVARIANTS ReleasedAnswerIsDecided AuditedOrReported
PROPERTIES ImplementsLifecycle DecisionTakesEffect
\* A session that has settled takes no further step.
CHECK_DEADLOCK FALSE
