----------------------------- MODULE MCWorkflow -----------------------------
(***************************************************************************)
(* Instances of a session for TLC.                                         *)
(***************************************************************************)
EXTENDS SessionProperties, TLC

\* Scores on both sides of the gate's and the judge's thresholds: with the
\* weights 2:3:5 only an answer confidence of HIGH can open the gate.
MCConfScores == {2000, 10000}
MCJudgeScores == {5999, 6000}
HighConfScores == {10000}
OneRoute == {"research"}
BothRoutes == {"research", "support"}

AllFaulty ==
  {"router", "retriever", "reranker", "context_eval", "generator",
   "structured_output", "groundedness", "llm_judge", "checkpoint",
   "web_search", "knowledge_update"}
SomeFaulty == {"router", "generator", "llm_judge", "knowledge_update"}

ReviewerSymmetry == Permutations(Requests)
=============================================================================
