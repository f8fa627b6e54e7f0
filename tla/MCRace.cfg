\* Two reviewers decide at the same time.
SPECIFICATION Spec
CONSTANTS
  NULL = NULL
  Submissions = {s1}
  Requests = {q1, q2}
  Edits = {e1, blank}
  Blank = blank
  BlankQuery = NULL
  RouteChoices <- BothRoutes
  ConfScores <- MCConfScores
  JudgeScores <- MCJudgeScores
  Faulty <- SomeFaulty
  MaxFaults = 0
  MaxCrashes = 0
SYMMETRY ReviewerSymmetry
INVARIANTS ReleaseAuthorized KnowledgeReviewed RunningIsBacked
\* A session that has settled takes no further step.
CHECK_DEADLOCK FALSE
