\* Up to three hits, two of them ranked; the scores lie on both sides of the
\* thresholds 0.5 (relevant) and 0.7 (triage), one distance exceeds 1.  No score
\* is a reported confidence: 0.80006 and 0.50006 are rounded away from, 0.49995
\* lies on a tie whose upper neighbour is the bound of relevance.
SPECIFICATION FairSpec
CONSTANTS
  TopK = 3
  TopN = 2
  MaxAttempts = 3
  Distances = {19994, 150000}
  ModelScores = {49995, 50006}
  LlmScores = {0, 70000}
  MaxCites = 1
  MaxMarks = 1
  Grain = 10
  NULL = NULL
INVARIANTS Inv ConfidenceWithinEvidence BestAreKept CitationsAreScored ConfidentAnswersConsult UncitedAnswersSaySo
PROPERTIES GenerationEnds
\* The pipeline ends with its output.
CHECK_DEADLOCK FALSE
