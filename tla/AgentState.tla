----------------------------- MODULE AgentState -----------------------------
(***************************************************************************)
(* The state that LangGraph passes between the nodes of the workflow, the  *)
(* node bodies, the conditional edges and the status derived from a        *)
(* snapshot (backend/app/graph, backend/app/services).  Everything here is *)
(* a pure operator: a node body maps a state to the set of states it may   *)
(* return.  WorkflowThread.tla runs these bodies.                          *)
(*                                                                         *)
(* Data kept: what the edges, the gate, the release and the review         *)
(* properties can tell apart.  A text is named by its origin: the text     *)
(* generated for the query of submission s is s itself, the text a         *)
(* reviewer typed is a member of Edits.  Scores are in 1/10000, the        *)
(* resolution of confidence._clamp.                                        *)
(***************************************************************************)
EXTENDS Integers

CONSTANTS
  NULL,          \* Python's None
  Submissions,   \* calls of POST /workflow for the session, each with its query
  Requests,      \* calls of POST /workflow/{id}/approve, each by its reviewer
  Edits,         \* texts a reviewer may send as edited_answer
  Blank,         \* the empty text, a possible edited_answer
  BlankQuery,    \* a submission whose query is only white space, or NULL
  RouteChoices,  \* routes the router's LLM may choose in this instance
  ConfScores,    \* confidences the agents and the retrieval may report
  JudgeScores,   \* overall scores the LLM judge may give
  Faulty         \* nodes whose external call may fail in this instance

SYSTEM == "system"
Routes == {"research", "support"}
MaxScore == 10000
Score == 0 .. MaxScore
Answers == Submissions \cup Edits

StructuredOutputs == [answer : Answers, cites : {NULL} \cup Submissions]
Verdicts == [answer : Answers, score : Score]
Records == [reviewer : Requests \cup {SYSTEM}, action : {"approved", "rejected"}]
FinalResponses ==
  [answer : Answers, cites : {NULL} \cup Submissions, auto : BOOLEAN,
   reviewer : Requests \cup {SYSTEM, NULL}, overall : Score,
   grounded : {NULL} \cup Answers, judge : {NULL} \cup Verdicts]

ASSUME ConstantsAssumption ==
  /\ RouteChoices \subseteq Routes
  /\ ConfScores \subseteq Score
  /\ JudgeScores \subseteq Score
  /\ SYSTEM \notin Requests
  /\ Submissions \cap Edits = {}
  /\ Submissions \cap Requests = {}
  /\ Blank \notin Submissions

ASSUME NullAssumption ==
  /\ NULL \notin Score
  /\ NULL \notin Answers
  /\ NULL \notin Requests \cup {SYSTEM}
  /\ NULL \notin Routes
  /\ NULL \notin StructuredOutputs
  /\ NULL \notin Verdicts
  /\ NULL \notin Records
  /\ NULL \notin FinalResponses

(***************************************************************************)
(* AppState.  "errors" keeps whether the error list is non-empty, "docs"   *)
(* and "ranked" whether the document lists are.                            *)
(***************************************************************************)
AppStates ==
  [query : Submissions,
   route : {NULL} \cup Routes,
   docs : BOOLEAN,
   ranked : BOOLEAN,
   draft : {NULL} \cup Submissions,
   so : {NULL} \cup StructuredOutputs,
   status : {"pending", "approved", "rejected"},
   record : {NULL} \cup Records,
   auto : BOOLEAN,
   kbUpdated : BOOLEAN,
   final : {NULL} \cup FinalResponses,
   errors : BOOLEAN,
   routerConf : {NULL} \cup Score,
   retrievalConf : {NULL} \cup Score,
   answerConf : {NULL} \cup Score,
   grounded : {NULL} \cup Answers,
   judge : {NULL} \cup Verdicts,
   steps : Nat]

InitialState(s) ==
  [query |-> s, route |-> NULL, docs |-> FALSE, ranked |-> FALSE,
   draft |-> NULL, so |-> NULL, status |-> "pending", record |-> NULL,
   auto |-> FALSE, kbUpdated |-> FALSE, final |-> NULL, errors |-> FALSE,
   routerConf |-> NULL, retrievalConf |-> NULL, answerConf |-> NULL,
   grounded |-> NULL, judge |-> NULL, steps |-> 0]

-----------------------------------------------------------------------------
(***************************************************************************)
(* confidence.py and the auto-approval gate                                *)
(***************************************************************************)
OrZero(c) == IF c = NULL THEN 0 ELSE c

\* Weights 0.2, 0.3 and 0.5, rounded to the resolution of a score.  Python
\* rounds an exact tie by its float representation; here a tie goes up.
ScoreOverall(router, retrieval, answer) ==
  (2 * router + 3 * retrieval + 5 * answer + 5) \div 10

Overall(v) == ScoreOverall(OrZero(v.routerConf), OrZero(v.retrievalConf),
                           OrZero(v.answerConf))

AutoApproveThreshold == 7000
JudgeThreshold == 6000

JudgePassed(judge) == judge = NULL \/ judge.score >= JudgeThreshold

GateOpen(overall, judge) == overall >= AutoApproveThreshold /\ JudgePassed(judge)

-----------------------------------------------------------------------------
(***************************************************************************)
(* Node bodies: the set of states a body may return.  No body raises; the  *)
(* failure of an external call is caught and appended to "errors".         *)
(***************************************************************************)
Stepped(v) == [v EXCEPT !.steps = @ + 1]
WithError(v) == [v EXCEPT !.errors = TRUE]

\* Mutant: the exception is caught and not recorded.
MayFailSilently(n, v) == IF n \in Faulty THEN {v} ELSE {}

MayFail(n, v) == IF n \in Faulty THEN {WithError(v)} ELSE {}

Classifications == [route : RouteChoices, confidence : ConfScores]

RouterOutcomes(v) ==
  {[v EXCEPT !.route = d.route, !.routerConf = d.confidence] : d \in Classifications}
    \cup MayFail("router", v)

\* research.py and support.py only mark the branch taken.
BranchOutcomes(v) == {v}

\* An empty result is a success with retrieval confidence 0; a blank query is
\* not embedded.
RetrieverOutcomes(v) ==
  IF v.query = BlankQuery
  THEN {WithError(v)}
  ELSE {[v EXCEPT !.docs = TRUE, !.retrievalConf = c] : c \in ConfScores}
       \cup {[v EXCEPT !.docs = FALSE, !.retrievalConf = 0]}
       \cup MayFail("retriever", v)

RerankerOutcomes(v) ==
  IF v.query = BlankQuery
  THEN {WithError(v)}
  ELSE {[v EXCEPT !.ranked = v.docs]} \cup
       (IF v.docs THEN MayFail("reranker", v) ELSE {})

ContextEvalOutcomes(v) ==
  {v} \cup (IF v.ranked THEN MayFail("context_eval", v) ELSE {})

\* The support agent refuses a blank query, the research agent does not.
GeneratorOutcomes(v) ==
  IF v.query = BlankQuery /\ v.route = "support"
  THEN {WithError(v)}
  ELSE {[v EXCEPT !.draft = v.query]} \cup MayFail("generator", v)

\* The confidence of an answer written without documents is 0.
AnswerScores(v) == IF v.ranked THEN ConfScores ELSE {0}

StructuredOutputOutcomes(v) ==
  IF v.draft = NULL
  THEN {WithError(v)}
  ELSE {[v EXCEPT !.so = [answer |-> v.draft, cites |-> v.draft],
                  !.answerConf = c] : c \in AnswerScores(v)}
       \cup MayFail("structured_output", v)

HasAnswer(v) == v.so # NULL /\ v.so.answer # Blank

GroundednessOutcomes(v) ==
  IF HasAnswer(v)
  THEN {[v EXCEPT !.grounded = v.so.answer]} \cup MayFail("groundedness", v)
  ELSE {v}

LlmJudgeOutcomes(v) ==
  IF HasAnswer(v)
  THEN {[v EXCEPT !.judge = [answer |-> v.so.answer, score |-> s]] : s \in JudgeScores}
       \cup MayFail("llm_judge", v)
  ELSE {v}

\* Mutant: a missing confidence counts as certain instead of as zero.
GateTrustingMissing(v) ==
  LET known(c) == IF c = NULL THEN 10000 ELSE c
      overall == ScoreOverall(known(v.routerConf), known(v.retrievalConf),
                              known(v.answerConf))
  IN {IF GateOpen(overall, v.judge)
      THEN [v EXCEPT !.status = "approved", !.auto = TRUE,
                     !.record = [reviewer |-> SYSTEM, action |-> "approved"]]
      ELSE [v EXCEPT !.auto = FALSE]}

AutoApprovalGateOutcomes(v) ==
  {IF GateOpen(Overall(v), v.judge)
   THEN [v EXCEPT !.status = "approved", !.auto = TRUE,
                  !.record = [reviewer |-> SYSTEM, action |-> "approved"]]
   ELSE [v EXCEPT !.auto = FALSE]}

\* The search results are only shown to the reviewer and are not kept here.
WebSearchOutcomes(v) ==
  {v} \cup (IF v.query = BlankQuery THEN {} ELSE MayFail("web_search", v))

HumanApprovalOutcomes(v) ==
  IF v.status = "pending" THEN {WithError(v)} ELSE {v}

Assemble(v) ==
  [answer |-> v.so.answer, cites |-> v.so.cites, auto |-> v.auto,
   reviewer |-> IF v.record = NULL THEN NULL ELSE v.record.reviewer,
   overall |-> Overall(v), grounded |-> v.grounded, judge |-> v.judge]

FinalResponseOutcomes(v) ==
  IF v.so = NULL THEN {WithError(v)} ELSE {[v EXCEPT !.final = Assemble(v)]}

\* What knowledge_update would ingest, if anything.
Ingestable(v) ==
  v.final # NULL /\ v.query # BlankQuery /\ v.final.answer # Blank

\* Mutant: what the generator drafted is learned, not what was released.
IngestedDraft(v) == [route |-> IF v.route = NULL THEN "shared" ELSE v.route,
                     query |-> v.query, answer |-> v.draft,
                     reviewer |-> IF v.final.reviewer = NULL THEN "human"
                                                             ELSE v.final.reviewer]

\* The collection is the route's, or the shared one when there is no route.
Ingested(v) == [route |-> IF v.route = NULL THEN "shared" ELSE v.route,
                query |-> v.query, answer |-> v.final.answer,
                reviewer |-> IF v.final.reviewer = NULL THEN "human"
                                                        ELSE v.final.reviewer]

\* The row checkpoint_node writes to workflow_checkpoints.
DetermineStage(v) ==
  CASE v.so # NULL \/ v.draft # NULL -> "generation"
    [] v.so = NULL /\ v.draft = NULL /\ v.ranked -> "reranking"
    [] v.so = NULL /\ v.draft = NULL /\ ~v.ranked /\ v.docs -> "retrieval"
    [] OTHER -> "routing"

AuditRow(v) ==
  [query |-> v.query, stage |-> DetermineStage(v), draft |-> v.draft # NULL,
   output |-> v.so # NULL, errors |-> v.errors]

AuditRows ==
  [query : Submissions, stage : {"generation", "reranking", "retrieval", "routing"},
   draft : BOOLEAN, output : BOOLEAN, errors : BOOLEAN]

KnowledgeDocs ==
  [route : Routes \cup {"shared"}, query : Submissions, answer : Answers,
   reviewer : Requests \cup {SYSTEM, "human"}]

-----------------------------------------------------------------------------
(***************************************************************************)
(* Edges of the graph (workflow.py).                                       *)
(***************************************************************************)
START == "__start__"
END == "__end__"

NodeNames ==
  {"router", "research", "support", "retriever", "reranker", "context_eval",
   "generator", "structured_output", "groundedness", "llm_judge", "checkpoint",
   "auto_approval_gate", "web_search", "human_approval", "final_response",
   "knowledge_update"}

RouteDecision(v) ==
  IF v.errors THEN END ELSE IF v.route \in Routes THEN v.route ELSE END

PreApprovalDecision(v) ==
  IF v.status = "approved" THEN "final_response" ELSE "web_search"

\* Mutant: only "pending" is tested, a rejection is released.
ApprovalDecisionNotPending(v) ==
  IF v.status = "pending" THEN "human_approval" ELSE "final_response"

\* Mutant: a rejection goes back to the pause instead of ending the run.
ApprovalDecisionLooping(v) ==
  IF v.status = "approved" THEN "final_response" ELSE "human_approval"

ApprovalDecision(v) ==
  CASE v.status = "approved" -> "final_response"
    [] v.status = "rejected" -> END
    [] OTHER -> "human_approval"

\* Mutant: the knowledge base is fed by the automatic path too.
PostFinalAlwaysLearn(v) == "knowledge_update"

PostFinalDecision(v) == IF v.auto THEN END ELSE "knowledge_update"

StaticEdge ==
  [n \in {START, "research", "support", "retriever", "reranker", "context_eval",
          "generator", "structured_output", "groundedness", "llm_judge",
          "checkpoint", "web_search", "knowledge_update"} |->
     CASE n = START -> "router"
       [] n \in {"research", "support"} -> "retriever"
       [] n = "retriever" -> "reranker"
       [] n = "reranker" -> "context_eval"
       [] n = "context_eval" -> "generator"
       [] n = "generator" -> "structured_output"
       [] n = "structured_output" -> "groundedness"
       [] n = "groundedness" -> "llm_judge"
       [] n = "llm_judge" -> "checkpoint"
       [] n = "checkpoint" -> "auto_approval_gate"
       [] n = "web_search" -> "human_approval"
       [] n = "knowledge_update" -> END]

NextNode(n, v) ==
  CASE n = "router" -> RouteDecision(v)
    [] n = "auto_approval_gate" -> PreApprovalDecision(v)
    [] n = "human_approval" -> ApprovalDecision(v)
    [] n = "final_response" -> PostFinalDecision(v)
    [] OTHER -> StaticEdge[n]

\* Mutant: the release is interrupted as well.
StopsBeforeRelease(n) == n \in {END, "human_approval", "final_response"}

\* compile_workflow: interrupt_before=["human_approval"].
StopsBefore(n) == n \in {END, "human_approval"}

-----------------------------------------------------------------------------
(***************************************************************************)
(* approval_service._derive_status.                                        *)
(* A checkpoint is [vals, last, next]: the values, the node that last      *)
(* completed and the one that comes next; NULL when the thread has none.   *)
(***************************************************************************)
Checkpoints ==
  [vals : AppStates, last : NodeNames \cup {START}, next : NodeNames \cup {END}]

ASSUME CheckpointAssumption == NULL \notin Checkpoints

DeriveStatus(c) ==
  IF c = NULL THEN "not_found"
  ELSE IF c.next = "human_approval" THEN "awaiting_approval"
  ELSE IF c.next # END THEN "running"
  ELSE IF c.vals.final # NULL THEN "completed"
  ELSE IF c.vals.status = "rejected" THEN "rejected"
  ELSE IF c.vals.errors THEN "failed"
  ELSE IF c.vals.steps = 0 THEN "running"
  ELSE "failed"
=============================================================================
