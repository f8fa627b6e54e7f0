------------------------ MODULE WorkflowThreadProofs ------------------------
(***************************************************************************)
(* Proofs about WorkflowThread for every set of submissions, requests and  *)
(* edits, every score and every choice of failing nodes.                   *)
(***************************************************************************)
EXTENDS WorkflowThread, TLAPS

-----------------------------------------------------------------------------
(***************************************************************************)
(* Scores and the gate.                                                    *)
(***************************************************************************)
\* Scores as bounded numbers.
LEMMA ScoreRange == \A n : n \in Score <=> n \in Int /\ 0 <= n /\ n <= 10000
<1>1. MaxScore \in Int
  BY DEF MaxScore
<1>2. \A n : n \in Score <=> n \in Int /\ 0 <= n /\ n <= MaxScore
  BY <1>1 DEF Score
<1>3. QED BY <1>2 DEF MaxScore

\* The overall score of three scores is a score (confidence.score_overall).
LEMMA ScoreOverallType ==
  ASSUME NEW x \in Score, NEW y \in Score, NEW z \in Score
  PROVE  ScoreOverall(x, y, z) \in Score
<1> DEFINE sum == 2 * x + 3 * y + 5 * z + 5
<1>1. /\ x \in Int /\ 0 <= x /\ x <= 10000
      /\ y \in Int /\ 0 <= y /\ y <= 10000
      /\ z \in Int /\ 0 <= z /\ z <= 10000
  BY ScoreRange
<1>2. sum \in Int /\ 0 <= sum /\ sum <= 100005
  BY <1>1
<1>3. ScoreOverall(x, y, z) = sum \div 10
  BY DEF ScoreOverall
<1> HIDE DEF sum
<1>4. sum \div 10 \in Int /\ 0 <= sum \div 10 /\ sum \div 10 <= 10000
  BY <1>2
<1>5. QED BY <1>3, <1>4, ScoreRange

\* A confidence that may be missing counts as a score.
LEMMA OrZeroType ==
  ASSUME NEW c \in {NULL} \cup Score
  PROVE  OrZero(c) \in Score
BY ScoreRange DEF OrZero

\* Scores are numbers.
LEMMA ScoresAreNumbers == Score \subseteq Int
BY ScoreRange

\* A state's overall confidence is a score, whichever signals are missing.
LEMMA OverallType ==
  ASSUME NEW v \in AppStates
  PROVE  Overall(v) \in Score
<1>1. /\ v.routerConf \in {NULL} \cup Score
      /\ v.retrievalConf \in {NULL} \cup Score
      /\ v.answerConf \in {NULL} \cup Score
  BY DEF AppStates
<1>2. QED BY <1>1, OrZeroType, ScoreOverallType DEF Overall

\* Router and retrieval confidence alone cannot reach the threshold.
LEMMA NoAnswerBelowThreshold ==
  ASSUME NEW x \in Score, NEW y \in Score
  PROVE  ScoreOverall(x, y, 0) < AutoApproveThreshold
<1> DEFINE sum == 2 * x + 3 * y + 5 * 0 + 5
<1>1. /\ x \in Int /\ 0 <= x /\ x <= 10000
      /\ y \in Int /\ 0 <= y /\ y <= 10000
  BY ScoreRange
<1>2. sum \in Int /\ 0 <= sum /\ sum <= 50005
  BY <1>1
<1>3. ScoreOverall(x, y, 0) = sum \div 10
  BY DEF ScoreOverall
<1> HIDE DEF sum
<1>4. sum \div 10 < 7000
  BY <1>2
<1>5. QED BY <1>3, <1>4 DEF AutoApproveThreshold

\* Without an answer confidence the overall score stays below the gate's
\* threshold: router and retrieval together weigh one half.
LEMMA GateNeedsAnswer ==
  ASSUME NEW v \in AppStates, GateOpen(Overall(v), v.judge)
  PROVE  v.answerConf # NULL
<1>1. SUFFICES ASSUME v.answerConf = NULL PROVE FALSE
  OBVIOUS
<1>2. OrZero(v.routerConf) \in Score /\ OrZero(v.retrievalConf) \in Score
  BY OrZeroType DEF AppStates
<1>3. OrZero(v.answerConf) = 0
  BY <1>1 DEF OrZero
<1>4. Overall(v) < AutoApproveThreshold
  BY <1>2, <1>3, NoAnswerBelowThreshold DEF Overall
<1>5. Overall(v) \in Score
  BY OverallType
<1>6. Overall(v) \in Int
  BY <1>5, ScoresAreNumbers
<1>7. QED BY <1>4, <1>6 DEF GateOpen, AutoApproveThreshold

-----------------------------------------------------------------------------
(***************************************************************************)
(* States and edges.                                                       *)
(***************************************************************************)
\* Counting a step changes nothing that the edges or the invariant look at.
LEMMA SteppedSame ==
  ASSUME NEW w \in AppStates
  PROVE  /\ Stepped(w) \in AppStates
         /\ Stepped(w).status = w.status
         /\ Stepped(w).record = w.record
         /\ Stepped(w).auto = w.auto
         /\ Stepped(w).final = w.final
         /\ Stepped(w).so = w.so
         /\ Stepped(w).query = w.query
         /\ Stepped(w).draft = w.draft
         /\ Stepped(w).answerConf = w.answerConf
         /\ Stepped(w).judge = w.judge
         /\ Overall(Stepped(w)) = Overall(w)
         /\ \A n : NextNode(n, Stepped(w)) = NextNode(n, w)
<1>1. Stepped(w) \in AppStates
  BY DEF AppStates, Stepped
<1>2. /\ Stepped(w).status = w.status
      /\ Stepped(w).record = w.record
      /\ Stepped(w).auto = w.auto
      /\ Stepped(w).final = w.final
      /\ Stepped(w).so = w.so
      /\ Stepped(w).query = w.query
      /\ Stepped(w).draft = w.draft
      /\ Stepped(w).answerConf = w.answerConf
      /\ Stepped(w).judge = w.judge
      /\ Stepped(w).routerConf = w.routerConf
      /\ Stepped(w).retrievalConf = w.retrievalConf
      /\ Stepped(w).errors = w.errors
      /\ Stepped(w).route = w.route
  BY DEF AppStates, Stepped
<1>3. Overall(Stepped(w)) = Overall(w)
  BY <1>2 DEF Overall
<1>4. \A n : NextNode(n, Stepped(w)) = NextNode(n, w)
  BY <1>2 DEF NextNode, RouteDecision, PreApprovalDecision, ApprovalDecision,
              PostFinalDecision
<1>5. QED BY <1>1, <1>2, <1>3, <1>4

\* Nor does it change where the texts come from.
LEMMA SteppedText ==
  ASSUME NEW D, NEW w \in AppStates, TextSound(w, D)
  PROVE  TextSound(Stepped(w), D)
BY SteppedSame DEF TextSound

\* Every node of the graph leads to a node or to the end.
LEMMA NextNodeType ==
  ASSUME NEW n \in NodeNames \cup {START}, NEW v \in AppStates
  PROVE  NextNode(n, v) \in NodeNames \cup {END}
BY DEF NodeNames, START, END, NextNode, RouteDecision, PreApprovalDecision,
       ApprovalDecision, PostFinalDecision, StaticEdge, Routes

\* What final_response releases, from a state with an output.
LEMMA AssembleType ==
  ASSUME NEW v \in AppStates, v.so # NULL
  PROVE  Assemble(v) \in FinalResponses
<1>1. v.so \in StructuredOutputs /\ v.record \in {NULL} \cup Records
  BY DEF AppStates
<1>2. Overall(v) \in Score
  BY OverallType
<1>3. v.auto \in BOOLEAN /\ v.grounded \in {NULL} \cup Answers
        /\ v.judge \in {NULL} \cup Verdicts
  BY DEF AppStates
<1>4. QED
  BY <1>1, <1>2, <1>3 DEF Assemble, FinalResponses, StructuredOutputs, Records

-----------------------------------------------------------------------------
(***************************************************************************)
(* Node bodies.  Framed(v, w): the nodes before the gate, web_search and   *)
(* human_approval leave the verdict and the released response alone,       *)
(* report an answer confidence only together with an answer, and draft for *)
(* the query alone.                                                        *)
(***************************************************************************)
TextKept(v, w) == \A D : TextSound(v, D) => TextSound(w, D)

Framed(v, w) ==
  /\ w \in AppStates
  /\ w.status = v.status
  /\ w.record = v.record
  /\ w.auto = v.auto
  /\ w.final = v.final
  /\ (v.answerConf # NULL => v.so # NULL) => (w.answerConf # NULL => w.so # NULL)
  /\ w.query = v.query
  /\ TextKept(v, w)

\* A state with the same query, draft and output has a text as sound.
LEMMA SameText ==
  ASSUME NEW v, NEW w, w.query = v.query, w.draft = v.draft, w.so = v.so
  PROVE  TextKept(v, w)
BY DEF TextKept, TextSound

LEMMA SameFramed ==
  ASSUME NEW v, NEW w \in AppStates, w.status = v.status, w.record = v.record,
         w.auto = v.auto, w.final = v.final, w.so = v.so, w.answerConf = v.answerConf,
         w.query = v.query, w.draft = v.draft
  PROVE  Framed(v, w)
BY SameText DEF Framed

\* Returning the state unchanged, or with an error recorded, is framed.
LEMMA FailureFramed ==
  ASSUME NEW v \in AppStates
  PROVE  Framed(v, v) /\ Framed(v, WithError(v))
         /\ \A n : \A w \in MayFail(n, v) : Framed(v, w)
<1>1. Framed(v, v)
  BY SameText DEF Framed
<1>2. Framed(v, WithError(v))
  <2>1. WithError(v) \in AppStates
    BY DEF WithError, AppStates
  <2>2. /\ WithError(v).status = v.status
        /\ WithError(v).record = v.record
        /\ WithError(v).auto = v.auto
        /\ WithError(v).final = v.final
        /\ WithError(v).answerConf = v.answerConf
        /\ WithError(v).so = v.so
        /\ WithError(v).query = v.query
        /\ WithError(v).draft = v.draft
    BY DEF WithError, AppStates
  <2>3. TextKept(v, WithError(v))
    BY <2>2, SameText
  <2>4. QED BY <2>1, <2>2, <2>3 DEF Framed
<1>3. \A n : \A w \in MayFail(n, v) : w = WithError(v)
  BY DEF MayFail
<1>4. QED BY <1>1, <1>2, <1>3

\* The router sets the route and its confidence only.
LEMMA RouterFramed ==
  ASSUME NEW v \in AppStates, NEW w \in RouterOutcomes(v)
  PROVE  Framed(v, w)
<1>1. CASE w \in MayFail("router", v)
  BY <1>1, FailureFramed
<1>2. ASSUME NEW d \in Classifications,
             w = [v EXCEPT !.route = d.route, !.routerConf = d.confidence]
      PROVE  Framed(v, w)
  <2>1. /\ w \in AppStates
        /\ w.status = v.status
        /\ w.record = v.record
        /\ w.auto = v.auto
        /\ w.final = v.final
        /\ w.so = v.so
        /\ w.answerConf = v.answerConf
        /\ w.query = v.query
        /\ w.draft = v.draft
    BY <1>2, ConstantsAssumption DEF AppStates, Classifications
  <2>2. QED BY <2>1, SameFramed
<1>3. QED BY <1>1, <1>2 DEF RouterOutcomes

\* The retriever sets the documents and their confidence only.
LEMMA RetrieverFramed ==
  ASSUME NEW v \in AppStates, NEW w \in RetrieverOutcomes(v)
  PROVE  Framed(v, w)
<1>1. CASE w \in MayFail("retriever", v)
  BY <1>1, FailureFramed
<1>2. ASSUME NEW c \in ConfScores, w = [v EXCEPT !.docs = TRUE, !.retrievalConf = c]
      PROVE  Framed(v, w)
  <2>1. /\ w \in AppStates
        /\ w.status = v.status
        /\ w.record = v.record
        /\ w.auto = v.auto
        /\ w.final = v.final
        /\ w.so = v.so
        /\ w.answerConf = v.answerConf
        /\ w.query = v.query
        /\ w.draft = v.draft
    BY <1>2, ConstantsAssumption DEF AppStates
  <2>2. QED BY <2>1, SameFramed
<1>3. CASE w = [v EXCEPT !.docs = FALSE, !.retrievalConf = 0]
  <2>1. 0 \in Score
    BY ScoreRange
  <2>2. /\ w \in AppStates
        /\ w.status = v.status
        /\ w.record = v.record
        /\ w.auto = v.auto
        /\ w.final = v.final
        /\ w.so = v.so
        /\ w.answerConf = v.answerConf
        /\ w.query = v.query
        /\ w.draft = v.draft
    BY <1>3, <2>1 DEF AppStates
  <2>3. QED BY <2>2, SameFramed
<1>4. QED BY <1>1, <1>2, <1>3, FailureFramed DEF RetrieverOutcomes

\* The reranker sets the ranked documents only.
LEMMA RerankerFramed ==
  ASSUME NEW v \in AppStates, NEW w \in RerankerOutcomes(v)
  PROVE  Framed(v, w)
<1>1. w = WithError(v) \/ w \in MayFail("reranker", v) \/ w = [v EXCEPT !.ranked = v.docs]
  BY DEF RerankerOutcomes
<1>2. CASE w = [v EXCEPT !.ranked = v.docs]
  BY <1>2, SameFramed DEF AppStates
<1>3. QED BY <1>1, <1>2, FailureFramed

\* The context evaluation and the web search only measure or inform.
LEMMA ObserversFramed ==
  ASSUME NEW v \in AppStates,
         NEW w \in ContextEvalOutcomes(v) \cup WebSearchOutcomes(v)
                     \cup BranchOutcomes(v) \cup HumanApprovalOutcomes(v)
  PROVE  Framed(v, w)
<1>1. w = v \/ w = WithError(v) \/ \E n : w \in MayFail(n, v)
  BY DEF ContextEvalOutcomes, WebSearchOutcomes, BranchOutcomes, HumanApprovalOutcomes
<1>2. QED BY <1>1, FailureFramed

\* The generator sets the draft only.
LEMMA GeneratorFramed ==
  ASSUME NEW v \in AppStates, NEW w \in GeneratorOutcomes(v)
  PROVE  Framed(v, w)
<1>1. w = WithError(v) \/ w \in MayFail("generator", v) \/ w = [v EXCEPT !.draft = v.query]
  BY DEF GeneratorOutcomes
<1>2. CASE w = [v EXCEPT !.draft = v.query]
  <2>1. /\ w \in AppStates /\ w.status = v.status /\ w.record = v.record /\ w.auto = v.auto
        /\ w.final = v.final /\ w.so = v.so /\ w.answerConf = v.answerConf
        /\ w.query = v.query /\ w.draft = v.query
    BY <1>2 DEF AppStates
  <2>2. TextKept(v, w)
    BY <2>1 DEF TextKept, TextSound
  <2>. QED BY <2>1, <2>2 DEF Framed
<1>3. QED BY <1>1, <1>2, FailureFramed

\* The structured output comes with its confidence.
LEMMA StructuredOutputFramed ==
  ASSUME NEW v \in AppStates, NEW w \in StructuredOutputOutcomes(v)
  PROVE  Framed(v, w)
<1>1. CASE v.draft = NULL
  BY <1>1, FailureFramed DEF StructuredOutputOutcomes
<1>2. CASE v.draft # NULL
  <2> DEFINE output == [answer |-> v.draft, cites |-> v.draft]
  <2>1. output \in StructuredOutputs
    BY <1>2 DEF AppStates, StructuredOutputs, Answers
  <2>2. output # NULL
    BY <2>1, NullAssumption
  <2>3. ASSUME NEW c \in AnswerScores(v), w = [v EXCEPT !.so = output, !.answerConf = c]
        PROVE  Framed(v, w)
    <3>1. c \in Score
      BY ConstantsAssumption, ScoreRange DEF AnswerScores
    <3>2. output.answer = v.draft
      OBVIOUS
    <3> HIDE DEF output
    <3>3. /\ w \in AppStates /\ w.status = v.status /\ w.record = v.record /\ w.auto = v.auto
          /\ w.final = v.final /\ w.so = output /\ w.query = v.query /\ w.draft = v.draft
      BY <2>1, <2>3, <3>1 DEF AppStates
    <3>4. TextKept(v, w)
      BY <1>2, <3>2, <3>3 DEF TextKept, TextSound, Vouched
    <3>5. QED BY <2>2, <3>3, <3>4 DEF Framed
  <2>4. QED BY <1>2, <2>3, FailureFramed DEF StructuredOutputOutcomes
<1>3. QED BY <1>1, <1>2

\* Groundedness and the judge record measurements of the answer at hand.
LEMMA EvaluatorsFramed ==
  ASSUME NEW v \in AppStates,
         NEW w \in GroundednessOutcomes(v) \cup LlmJudgeOutcomes(v)
  PROVE  Framed(v, w)
<1>1. CASE ~HasAnswer(v)
  BY <1>1, FailureFramed DEF GroundednessOutcomes, LlmJudgeOutcomes
<1>2. CASE HasAnswer(v)
  <2>1. v.so.answer \in Answers
    BY <1>2 DEF HasAnswer, AppStates, StructuredOutputs
  <2>2. CASE w = [v EXCEPT !.grounded = v.so.answer]
    BY <2>1, <2>2, SameFramed DEF AppStates
  <2>3. ASSUME NEW s \in JudgeScores,
               w = [v EXCEPT !.judge = [answer |-> v.so.answer, score |-> s]]
        PROVE  Framed(v, w)
    <3>1. [answer |-> v.so.answer, score |-> s] \in Verdicts
      BY <2>1, ConstantsAssumption DEF Verdicts
    <3>2. QED BY <2>3, <3>1, SameFramed DEF AppStates
  <2>4. QED
    BY <1>2, <2>2, <2>3, FailureFramed DEF GroundednessOutcomes, LlmJudgeOutcomes
<1>3. QED BY <1>1, <1>2

-----------------------------------------------------------------------------
(***************************************************************************)
(* Checkpoints: each node leads from a sound checkpoint to a sound one.    *)
(***************************************************************************)
\* The checkpoint a node leaves is a checkpoint, and its state has all that
\* the invariant looks at from the state the body returned.
LEMMA AfterType ==
  ASSUME NEW n \in NodeNames, NEW w \in AppStates
  PROVE  /\ After(n, w) \in Checkpoints
         /\ After(n, w).vals = Stepped(w)
         /\ After(n, w).last = n
         /\ After(n, w).next = NextNode(n, Stepped(w))
<1>1. Stepped(w) \in AppStates /\ NextNode(n, w) = NextNode(n, Stepped(w))
  BY SteppedSame
<1>2. NextNode(n, w) \in NodeNames \cup {END}
  BY NextNodeType
<1>3. QED BY <1>1, <1>2 DEF After, Checkpoints

\* Outside the release nodes nothing is released and no verdict is the gate's.
LEMMA EarlyState ==
  ASSUME NEW D, NEW c \in Checkpoints, Sound(c, D),
         c.next \notin {"final_response", "knowledge_update", END}
  PROVE  c.vals.final = NULL /\ ~ByGate(c.vals)
<1>1. c.next = NextNode(c.last, c.vals)
  BY DEF Sound
<1>2. c.last \notin {"final_response", "knowledge_update"}
  BY <1>1 DEF NextNode, PostFinalDecision, StaticEdge, START, END
<1>3. c.vals.final = NULL
  BY <1>2 DEF Sound, FinalSound
<1>4. c.last = "auto_approval_gate" => c.vals.status # "approved"
  BY <1>1 DEF NextNode, PreApprovalDecision
<1>5. ~ByGate(c.vals)
  BY <1>2, <1>4 DEF Sound, RecordSound
<1>6. QED BY <1>3, <1>5

\* final_response is entered with a verdict "approved" and nothing released.
LEMMA ReleaseState ==
  ASSUME NEW D, NEW c \in Checkpoints, Sound(c, D), c.next = "final_response"
  PROVE  c.vals.final = NULL /\ c.vals.status = "approved" /\ c.vals.record # NULL
<1>1. c.last \in NodeNames \cup {START} /\ c.next = NextNode(c.last, c.vals)
  BY DEF Checkpoints, Sound
<1>2. c.last \in {"auto_approval_gate", "human_approval"}
  BY <1>1 DEF NodeNames, START, END, NextNode, RouteDecision, PostFinalDecision,
              StaticEdge, Routes
<1>3. c.vals.status = "approved"
  BY <1>1, <1>2 DEF NextNode, PreApprovalDecision, ApprovalDecision, END
<1>4. QED BY <1>2, <1>3 DEF Sound, RecordSound, FinalSound

\* knowledge_update is entered from final_response after a human's verdict.
LEMMA LearnState ==
  ASSUME NEW D, NEW c \in Checkpoints, Sound(c, D), c.next = "knowledge_update"
  PROVE  /\ c.vals.auto = FALSE
         /\ ~ByGate(c.vals)
         /\ c.vals.final # NULL => /\ Decided(D, c.vals.final.reviewer, "approved")
                                   /\ Vouched(c.vals.final.answer, c.vals.query, D)
<1>1. c.last \in NodeNames \cup {START} /\ c.next = NextNode(c.last, c.vals)
  BY DEF Checkpoints, Sound
<1>2. c.last = "final_response"
  BY <1>1 DEF NodeNames, START, END, NextNode, RouteDecision, PreApprovalDecision,
              ApprovalDecision, StaticEdge, Routes
<1>3. c.vals.auto = FALSE
  <2>1. c.vals.auto \in BOOLEAN
    BY DEF Checkpoints, AppStates
  <2>2. QED BY <1>1, <1>2, <2>1 DEF NextNode, PostFinalDecision, END
<1>4. ~ByGate(c.vals)
  BY <1>3 DEF Sound, RecordSound
<1>5. c.vals.final # NULL => c.vals.final.reviewer # SYSTEM
  BY <1>3 DEF Sound, FinalSound
<1>6. QED BY <1>3, <1>4, <1>5 DEF Sound, FinalSound, Authorized, Passed

\* A node that leaves verdict and release alone keeps the checkpoint sound.
LEMMA QuietStep ==
  ASSUME NEW D, NEW c \in Checkpoints, Sound(c, D), NEW n \in NodeNames, c.next = n,
         n \notin {"auto_approval_gate", "final_response", "knowledge_update"},
         NEW w, Framed(c.vals, w)
  PROVE  After(n, w) \in Checkpoints /\ Sound(After(n, w), D)
<1>1. c.vals.final = NULL /\ ~ByGate(c.vals)
  BY EarlyState DEF NodeNames, END
<1>2. w \in AppStates
  BY DEF Framed
<1>3. /\ After(n, w) \in Checkpoints
      /\ After(n, w).vals = Stepped(w)
      /\ After(n, w).next = NextNode(n, Stepped(w))
      /\ After(n, w).last = n
  BY <1>2, AfterType
<1>4. /\ Stepped(w).status = c.vals.status
      /\ Stepped(w).record = c.vals.record
      /\ Stepped(w).final = NULL
      /\ Stepped(w).answerConf = w.answerConf
      /\ Stepped(w).so = w.so
  BY <1>1, <1>2, SteppedSame DEF Framed
<1>5. Stepped(w).answerConf # NULL => Stepped(w).so # NULL
  BY <1>4 DEF Framed, Sound
<1>6. RecordSound(After(n, w), D)
  BY <1>1, <1>3, <1>4 DEF Sound, RecordSound, ByGate
<1>7. FinalSound(After(n, w), D)
  BY <1>3, <1>4 DEF FinalSound
<1>8. TextSound(After(n, w).vals, D)
  BY <1>2, <1>3, SteppedText DEF Sound, Framed, TextKept
<1>9. QED BY <1>3, <1>5, <1>6, <1>7, <1>8 DEF Sound

\* The gate releases with its own record only when its condition holds.
LEMMA GateStep ==
  ASSUME NEW D, NEW c \in Checkpoints, Sound(c, D), c.next = "auto_approval_gate",
         NEW w \in AutoApprovalGateOutcomes(c.vals)
  PROVE  /\ After("auto_approval_gate", w) \in Checkpoints
         /\ Sound(After("auto_approval_gate", w), D)
<1> DEFINE v == c.vals
           approval == [reviewer |-> SYSTEM, action |-> "approved"]
           n == "auto_approval_gate"
<1>1. v \in AppStates
  BY DEF Checkpoints
<1>2. v.final = NULL /\ ~ByGate(v)
  BY EarlyState DEF END
<1>3. approval \in Records /\ approval # NULL
  BY NullAssumption DEF Records
<1>4. w \in AppStates
  <2>1. CASE GateOpen(Overall(v), v.judge)
    <3>1. w = [v EXCEPT !.status = "approved", !.auto = TRUE, !.record = approval]
      BY <2>1 DEF AutoApprovalGateOutcomes
    <3> HIDE DEF approval
    <3>2. QED BY <1>1, <1>3, <3>1 DEF AppStates
  <2>2. CASE ~GateOpen(Overall(v), v.judge)
    <3>1. w = [v EXCEPT !.auto = FALSE]
      BY <2>2 DEF AutoApprovalGateOutcomes
    <3>2. QED BY <1>1, <3>1 DEF AppStates
  <2>3. QED BY <2>1, <2>2
<1>5. /\ w.final = NULL
      /\ w.answerConf = v.answerConf
      /\ w.so = v.so
      /\ w.judge = v.judge
      /\ w.routerConf = v.routerConf
      /\ w.retrievalConf = v.retrievalConf
  BY <1>1, <1>2 DEF AutoApprovalGateOutcomes, AppStates
<1>6. Overall(w) = Overall(v)
  BY <1>5 DEF Overall
<1>7. \/ /\ GateOpen(Overall(v), v.judge)
         /\ w.status = "approved" /\ w.auto /\ w.record = approval
      \/ w.status = v.status /\ w.record = v.record
  BY <1>1 DEF AutoApprovalGateOutcomes, AppStates
<1>8. /\ After(n, w) \in Checkpoints
      /\ After(n, w).vals = Stepped(w)
      /\ After(n, w).next = NextNode(n, Stepped(w))
      /\ After(n, w).last = n
  BY <1>4, AfterType DEF NodeNames
<1>9. /\ Stepped(w).status = w.status
      /\ Stepped(w).record = w.record
      /\ Stepped(w).auto = w.auto
      /\ Stepped(w).final = NULL
      /\ Stepped(w).answerConf = v.answerConf
      /\ Stepped(w).so = v.so
      /\ Stepped(w).judge = v.judge
      /\ Overall(Stepped(w)) = Overall(v)
  BY <1>4, <1>5, <1>6, SteppedSame
<1>10. RecordSound(After(n, w), D)
  <2>1. CASE w.status = v.status /\ w.record = v.record
    BY <1>2, <1>8, <1>9, <2>1 DEF Sound, RecordSound, ByGate
  <2>2. CASE /\ GateOpen(Overall(v), v.judge)
             /\ w.status = "approved" /\ w.auto /\ w.record = approval
    <3>1. /\ Stepped(w).status = "approved"
          /\ Stepped(w).auto
          /\ Stepped(w).record = approval
          /\ GateOpen(Overall(Stepped(w)), Stepped(w).judge)
      BY <1>9, <2>2
    <3>2. ByGate(Stepped(w)) /\ approval.action = "approved"
      BY <1>3, <3>1 DEF ByGate
    <3> HIDE DEF approval
    <3>3. QED BY <1>3, <1>8, <3>1, <3>2 DEF RecordSound
  <2>3. QED BY <1>7, <2>1, <2>2
<1>11. FinalSound(After(n, w), D)
  BY <1>8, <1>9 DEF FinalSound
<1>12. TextSound(After(n, w).vals, D)
  <2>1. w.query = v.query /\ w.draft = v.draft
    BY <1>1 DEF AutoApprovalGateOutcomes, AppStates
  <2>2. TextSound(w, D)
    BY <1>5, <2>1, SameText DEF Sound, TextKept
  <2>. QED BY <1>4, <1>8, <2>2, SteppedText
<1>13. QED BY <1>8, <1>9, <1>10, <1>11, <1>12 DEF Sound

\* final_response releases under the verdict it finds.
LEMMA FinalStep ==
  ASSUME NEW D, NEW c \in Checkpoints, Sound(c, D), c.next = "final_response",
         NEW w \in FinalResponseOutcomes(c.vals)
  PROVE  /\ After("final_response", w) \in Checkpoints
         /\ Sound(After("final_response", w), D)
<1> DEFINE v == c.vals
           n == "final_response"
<1>1. v \in AppStates
  BY DEF Checkpoints
<1>2. v.final = NULL /\ v.status = "approved" /\ v.record # NULL
  BY ReleaseState
<1>3. ByGate(v) => v.so # NULL
  BY <1>1, GateNeedsAnswer DEF Sound, RecordSound
<1>4. /\ w \in AppStates
      /\ w.status = v.status
      /\ w.record = v.record
      /\ w.auto = v.auto
      /\ w.so = v.so
      /\ w.answerConf = v.answerConf
      /\ w.judge = v.judge
      /\ w.query = v.query
      /\ w.draft = v.draft
      /\ Overall(w) = Overall(v)
      /\ v.so = NULL => w.final = NULL
      /\ v.so # NULL => w.final = Assemble(v)
  <2>1. CASE v.so = NULL
    <3>1. w = WithError(v)
      BY <2>1 DEF FinalResponseOutcomes
    <3>2. w \in AppStates /\ w.routerConf = v.routerConf
            /\ w.retrievalConf = v.retrievalConf /\ w.answerConf = v.answerConf
      BY <1>1, <3>1 DEF WithError, AppStates
    <3>3. Overall(w) = Overall(v)
      BY <3>2 DEF Overall
    <3>4. QED BY <1>1, <1>2, <2>1, <3>1, <3>2, <3>3 DEF WithError, AppStates
  <2>2. CASE v.so # NULL
    <3>1. w = [v EXCEPT !.final = Assemble(v)]
      BY <2>2 DEF FinalResponseOutcomes
    <3>2. Assemble(v) \in FinalResponses
      BY <1>1, <2>2, AssembleType
    <3>3. w \in AppStates /\ w.routerConf = v.routerConf
            /\ w.retrievalConf = v.retrievalConf /\ w.answerConf = v.answerConf
      BY <1>1, <3>1, <3>2 DEF AppStates
    <3>4. Overall(w) = Overall(v)
      BY <3>3 DEF Overall
    <3>5. QED BY <1>1, <2>2, <3>1, <3>3, <3>4 DEF AppStates
  <2>3. QED BY <2>1, <2>2
<1>5. /\ After(n, w) \in Checkpoints
      /\ After(n, w).vals = Stepped(w)
      /\ After(n, w).next = NextNode(n, Stepped(w))
      /\ After(n, w).last = n
  BY <1>4, AfterType DEF NodeNames
<1>6. /\ Stepped(w).status = v.status
      /\ Stepped(w).record = v.record
      /\ Stepped(w).auto = v.auto
      /\ Stepped(w).final = w.final
      /\ Stepped(w).query = v.query
      /\ Stepped(w).so = v.so
      /\ Stepped(w).answerConf = v.answerConf
      /\ Stepped(w).judge = v.judge
      /\ Overall(Stepped(w)) = Overall(v)
  BY <1>4, SteppedSame
<1>7. w.final # NULL => w.final = Assemble(v)
  BY <1>4
<1>8. ByGate(v) => w.final # NULL
  <2>1. v.so # NULL => Assemble(v) # NULL
    BY <1>1, AssembleType, NullAssumption
  <2>2. QED BY <1>3, <1>4, <2>1
<1>9. RecordSound(After(n, w), D)
  BY <1>2, <1>5, <1>6, <1>8 DEF Sound, RecordSound, ByGate
<1>10. FinalSound(After(n, w), D)
  <2>1. /\ Assemble(v).reviewer = v.record.reviewer
        /\ Assemble(v).auto = v.auto
        /\ Assemble(v).overall = Overall(v)
        /\ Assemble(v).judge = v.judge
        /\ Assemble(v).answer = v.so.answer
    BY <1>2 DEF Assemble
  <2>2. w.final # NULL => Vouched(w.final.answer, v.query, D)
    <3>1. v.so # NULL => Vouched(v.so.answer, v.query, D)
      BY DEF Sound, TextSound
    <3>. QED BY <1>4, <1>7, <2>1, <3>1
  <2>3. w.final # NULL => Passed(w.final, D) /\ (w.final.reviewer = SYSTEM => v.auto)
    <3>1. CASE ByGate(v)
      BY <1>6, <1>7, <2>1, <3>1 DEF Sound, RecordSound, Passed, ByGate
    <3>2. CASE ~ByGate(v)
      BY <1>2, <1>6, <1>7, <2>1, <3>2 DEF Sound, RecordSound, Passed, ByGate
    <3>. QED BY <3>1, <3>2
  <2>. QED BY <1>5, <1>6, <2>2, <2>3 DEF FinalSound, Authorized
<1>11. TextSound(After(n, w).vals, D)
  <2>1. TextSound(w, D)
    BY <1>4, SameText DEF Sound, TextKept
  <2>. QED BY <1>4, <1>5, <2>1, SteppedText
<1>12. QED BY <1>5, <1>6, <1>9, <1>10, <1>11 DEF Sound

\* knowledge_update leaves everything but its own result and the errors.
LEMMA LearnStep ==
  ASSUME NEW D, NEW c \in Checkpoints, Sound(c, D), c.next = "knowledge_update",
         NEW w,
         \/ \E b \in BOOLEAN : w = [c.vals EXCEPT !.kbUpdated = b]
         \/ w \in MayFail("knowledge_update", [c.vals EXCEPT !.kbUpdated = FALSE])
  PROVE  /\ After("knowledge_update", w) \in Checkpoints
         /\ Sound(After("knowledge_update", w), D)
<1> DEFINE v == c.vals
           n == "knowledge_update"
<1>1. v \in AppStates
  BY DEF Checkpoints
<1>2. \A b \in BOOLEAN : Framed(v, [v EXCEPT !.kbUpdated = b])
                           /\ [v EXCEPT !.kbUpdated = b] \in AppStates
  <2>1. TAKE b \in BOOLEAN
  <2>. DEFINE u == [v EXCEPT !.kbUpdated = b]
  <2>2. /\ u \in AppStates /\ u.status = v.status /\ u.record = v.record /\ u.auto = v.auto
        /\ u.final = v.final /\ u.so = v.so /\ u.answerConf = v.answerConf
        /\ u.query = v.query /\ u.draft = v.draft
    BY <1>1 DEF AppStates
  <2>. HIDE DEF u
  <2>3. Framed(v, u)
    BY <2>2, SameFramed
  <2>. QED BY <2>2, <2>3 DEF u
<1>3. Framed(v, w)
  <2>1. CASE \E b \in BOOLEAN : w = [v EXCEPT !.kbUpdated = b]
    BY <1>2, <2>1
  <2>2. CASE w \in MayFail(n, [v EXCEPT !.kbUpdated = FALSE])
    <3> DEFINE u == [v EXCEPT !.kbUpdated = FALSE]
    <3>1. Framed(v, u) /\ u \in AppStates
      BY <1>2
    <3> HIDE DEF u
    <3>2. Framed(u, w)
      BY <2>2, <3>1, FailureFramed DEF u
    <3>3. QED BY <3>1, <3>2 DEF Framed, TextKept
  <2>3. QED BY <2>1, <2>2
<1>4. /\ v.auto = FALSE
      /\ ~ByGate(v)
  BY LearnState
<1>5. w \in AppStates
  BY <1>3 DEF Framed
<1>6. /\ After(n, w) \in Checkpoints
      /\ After(n, w).vals = Stepped(w)
      /\ After(n, w).next = NextNode(n, Stepped(w))
      /\ After(n, w).last = n
  BY <1>5, AfterType DEF NodeNames
<1>7. /\ Stepped(w).status = v.status
      /\ Stepped(w).record = v.record
      /\ Stepped(w).auto = v.auto
      /\ Stepped(w).final = v.final
      /\ Stepped(w).query = v.query
      /\ Stepped(w).answerConf = w.answerConf
      /\ Stepped(w).so = w.so
  BY <1>3, <1>5, SteppedSame DEF Framed
<1>8. Stepped(w).answerConf # NULL => Stepped(w).so # NULL
  BY <1>3, <1>7 DEF Framed, Sound
<1>9. RecordSound(After(n, w), D)
  BY <1>4, <1>6, <1>7 DEF Sound, RecordSound, ByGate
<1>10. FinalSound(After(n, w), D)
  BY <1>6, <1>7 DEF Sound, FinalSound, Authorized
<1>11. TextSound(After(n, w).vals, D)
  BY <1>3, <1>5, <1>6, SteppedText DEF Sound, Framed, TextKept
<1>12. QED BY <1>6, <1>8, <1>9, <1>10, <1>11 DEF Sound

\* What is ingested carries the name of a reviewer who wrote an approval, and a
\* text of its query or of an approval.
LEMMA IngestedReviewed ==
  ASSUME NEW D \in SUBSET Decisions, NEW c \in Checkpoints, Sound(c, D),
         c.next = "knowledge_update", Ingestable(c.vals)
  PROVE  /\ Ingested(c.vals) \in KnowledgeDocs
         /\ Reviewed(Ingested(c.vals), D)
<1> DEFINE v == c.vals
<1>1. v \in AppStates /\ v.final \in FinalResponses /\ v.final # NULL
  BY DEF Checkpoints, AppStates, Ingestable
<1>2. Decided(D, v.final.reviewer, "approved") /\ Vouched(v.final.answer, v.query, D)
  BY <1>1, LearnState
<1>3. v.final.reviewer \in Requests /\ v.final.reviewer # NULL
  BY <1>2, NullAssumption DEF Decided, Decisions
<1>4. /\ Ingested(v).reviewer = v.final.reviewer
      /\ Ingested(v).route \in Routes \cup {"shared"}
      /\ Ingested(v).query \in Submissions
      /\ Ingested(v).answer \in Answers
      /\ Ingested(v).answer = v.final.answer /\ Ingested(v).query = v.query
  BY <1>1, <1>3 DEF Ingested, AppStates, FinalResponses
<1>5. Ingested(v) \in KnowledgeDocs
  BY <1>3, <1>4 DEF Ingested, KnowledgeDocs
<1>6. QED BY <1>2, <1>4, <1>5 DEF Reviewed

\* More decisions never make a checkpoint unsound.
LEMMA SoundMonotone ==
  ASSUME NEW D, NEW E, D \subseteq E, NEW c, Sound(c, D)
  PROVE  Sound(c, E)
<1>1. \A answer, query : Vouched(answer, query, D) => Vouched(answer, query, E)
  BY DEF Vouched
<1>2. \A reviewer, action : Decided(D, reviewer, action) => Decided(E, reviewer, action)
  BY DEF Decided
<1>3. RecordSound(c, E)
  BY <1>2 DEF Sound, RecordSound
<1>4. FinalSound(c, E)
  BY <1>1, <1>2 DEF Sound, FinalSound, Authorized, Passed
<1>5. TextSound(c.vals, E)
  BY <1>1 DEF Sound, TextSound
<1>. QED BY <1>3, <1>4, <1>5 DEF Sound

\* A run begins with a sound checkpoint, whatever the thread held.
LEMMA InputSound ==
  ASSUME NEW s \in Submissions, NEW D
  PROVE  LET cp == [vals |-> Input(s), last |-> START, next |-> NextNode(START, Input(s))]
         IN cp \in Checkpoints /\ Sound(cp, D)
<1> DEFINE cp == [vals |-> Input(s), last |-> START, next |-> NextNode(START, Input(s))]
<1>1. InitialState(s) \in AppStates
  BY DEF InitialState, AppStates
<1> DEFINE earlier == ckpt # NULL /\ ckpt.vals.errors
<1>2. earlier \in BOOLEAN
  OBVIOUS
<1>3. Input(s) \in AppStates
  <2>1. Input(s) = [InitialState(s) EXCEPT !.errors = earlier]
    BY DEF Input
  <2> HIDE DEF earlier
  <2>2. QED BY <1>1, <1>2, <2>1 DEF AppStates
<1>4. /\ Input(s).status = "pending"
      /\ Input(s).record = NULL
      /\ Input(s).final = NULL
      /\ Input(s).answerConf = NULL
      /\ Input(s).draft = NULL
      /\ Input(s).so = NULL
  BY DEF Input, InitialState
<1>5. cp \in Checkpoints
  BY <1>3, NextNodeType DEF Checkpoints
<1>6. Sound(cp, D)
  BY <1>4 DEF Sound, RecordSound, FinalSound, TextSound, ByGate
<1>7. QED BY <1>5, <1>6

\* A written decision leaves a sound checkpoint: its reviewer's record, and
\* everything released before still authorized.
LEMMA UpdateSound ==
  ASSUME NEW q \in Requests, reviews[q] \in ReviewStates,
         ckpt \in Checkpoints, NEW D, Sound(ckpt, D),
         [reviewer |-> q, action |-> reviews[q].action, answer |-> DecidedAnswer(q)] \in D
  PROVE  LET cp == [ckpt EXCEPT !.vals = Update(q),
                                !.next = NextNode(ckpt.last, Update(q))]
         IN cp \in Checkpoints /\ Sound(cp, D)
<1> DEFINE v == ckpt.vals
           u == Update(q)
           cp == [ckpt EXCEPT !.vals = u, !.next = NextNode(ckpt.last, u)]
           record == [reviewer |-> q, action |-> reviews[q].action]
           edited == [answer |-> reviews[q].edit,
                      cites |-> IF reviews[q].seen = NULL THEN NULL
                                                          ELSE reviews[q].seen.cites]
<1>1. v \in AppStates /\ ckpt.last \in NodeNames \cup {START}
  BY DEF Checkpoints
<1>2. reviews[q].action \in {"approved", "rejected"}
  BY DEF ReviewStates
<1>3. record \in Records /\ record # NULL
  BY <1>2, NullAssumption DEF Records
<1>4. Edited(q) => edited \in StructuredOutputs
  BY DEF Edited, ReviewStates, StructuredOutputs, Answers
<1> DEFINE output == IF Edited(q) THEN edited ELSE v.so
<1>5. u = [v EXCEPT !.status = reviews[q].action, !.record = record, !.so = output]
  BY DEF Update
<1> HIDE DEF record, edited, u
<1>6. u \in AppStates
  <2>1. output \in {NULL} \cup StructuredOutputs
    BY <1>1, <1>4 DEF AppStates
  <2> HIDE DEF output
  <2>2. QED BY <1>1, <1>2, <1>3, <1>5, <2>1 DEF AppStates
<1>7. /\ u.status = reviews[q].action
      /\ u.record = record
      /\ u.final = v.final
      /\ u.auto = v.auto
      /\ u.answerConf = v.answerConf
      /\ u.query = v.query
      /\ u.draft = v.draft
      /\ u.so = IF Edited(q) THEN edited ELSE v.so
  BY <1>1, <1>5 DEF AppStates
<1>8. record.reviewer = q /\ record.action = reviews[q].action /\ q # SYSTEM
  BY ConstantsAssumption DEF record
<1>9. cp \in Checkpoints /\ cp.vals = u /\ cp.last = ckpt.last
        /\ cp.next = NextNode(cp.last, u)
  BY <1>1, <1>6, NextNodeType DEF Checkpoints
<1> HIDE DEF cp
<1>10. u.answerConf # NULL => u.so # NULL
  BY <1>4, <1>7, NullAssumption DEF Sound
<1>11. RecordSound(cp, D)
  <2>1. Decided(D, q, reviews[q].action)
    BY DEF Decided
  <2>. QED BY <1>2, <1>3, <1>7, <1>8, <1>9, <2>1 DEF RecordSound, ByGate
<1>12. FinalSound(cp, D)
  BY <1>7, <1>9 DEF Sound, FinalSound, Authorized
<1>13. TextSound(u, D)
  <2>1. v.draft # NULL => v.draft = v.query
    BY DEF Sound, TextSound
  <2>2. CASE Edited(q)
    <3>1. /\ edited.answer = reviews[q].edit /\ reviews[q].edit \in Edits
          /\ reviews[q].action = "approved" /\ DecidedAnswer(q) = reviews[q].edit
      BY <2>2 DEF Edited, ReviewStates, DecidedAnswer, edited
    <3>2. Vouched(edited.answer, v.query, D)
      BY <3>1 DEF Vouched
    <3>. QED BY <1>7, <2>1, <2>2, <3>2 DEF TextSound
  <2>3. CASE ~Edited(q)
    BY <1>7, <2>1, <2>3 DEF Sound, TextSound
  <2>. QED BY <2>2, <2>3
<1>14. QED BY <1>9, <1>10, <1>11, <1>12, <1>13 DEF Sound, cp, u

-----------------------------------------------------------------------------
(***************************************************************************)
(* Steps: every action preserves Inv.                                      *)
(***************************************************************************)
\* The run that takes a step continues from a sound checkpoint.
LEMMA ActiveRun ==
  ASSUME Inv, NEW r \in RunIds, NEW n \in NodeNames, At(r, n)
  PROVE  /\ runs[r].cp \in Checkpoints
         /\ Sound(runs[r].cp, decisions)
         /\ runs[r].cp.next = n
         /\ Vals(r) = runs[r].cp.vals
         /\ Vals(r) \in AppStates
<1>1. runs[r] \in RunStates /\ RunSound(r)
  BY DEF Inv, TypeOK
<1>2. runs[r].cp \in Checkpoints /\ Sound(runs[r].cp, decisions)
  BY <1>1 DEF At, RunSound, RunStates
<1>3. QED BY <1>2 DEF At, Vals, Checkpoints

\* Completing a node with a sound checkpoint and reviewed knowledge.
LEMMA CompleteInv ==
  ASSUME Inv, NEW r \in RunIds, NEW n \in NodeNames, NEW w, Complete(r, n, w),
         After(n, w) \in Checkpoints, Sound(After(n, w), decisions),
         audit' \subseteq AuditRows, kb' \subseteq KnowledgeDocs,
         \A doc \in kb' : Reviewed(doc, decisions)
  PROVE  Inv'
<1> DEFINE cp == After(n, w)
<1>1. cp # NULL
  BY CheckpointAssumption
<1>2. /\ ckpt' = cp
      /\ reviews' = reviews
      /\ decisions' = decisions
      /\ faults' = faults
      /\ crashes' = crashes
      /\ tracked' \in {NULL, tracked}
  BY DEF Complete, Unregister, budget
<1>3. \/ runs' = [runs EXCEPT ![r] = [pc |-> "ended", cp |-> NULL]]
      \/ runs' = [runs EXCEPT ![r].cp = cp]
  BY DEF Complete
<1> HIDE DEF cp
<1>4. runs' \in [RunIds -> RunStates]
  <2>1. runs \in [RunIds -> RunStates] /\ cp \in Checkpoints
    BY DEF Inv, TypeOK, cp
  <2>2. QED BY <1>3, <2>1 DEF RunStates
<1>5. TypeOK'
  BY <1>2, <1>4 DEF Inv, TypeOK, cp
<1>6. ASSUME NEW i \in RunIds
      PROVE  RunSound(i)'
  <2>1. RunSound(i) /\ runs \in [RunIds -> RunStates]
    BY DEF Inv, TypeOK
  <2>2. Sound(cp, decisions)
    BY DEF cp
  <2>3. QED BY <1>1, <1>2, <1>3, <2>1, <2>2 DEF RunSound, RunStates
<1>7. KnowledgeReviewed'
  BY <1>2 DEF KnowledgeReviewed
<1>8. QED BY <1>1, <1>2, <1>5, <1>6, <1>7 DEF Inv, cp

\* A node whose only effect is its state, with sound outcomes.
LEMMA PureInv ==
  ASSUME Inv, NEW r \in RunIds, NEW n \in NodeNames, NEW outcomes,
         Pure(r, n, outcomes),
         \A w \in outcomes : /\ After(n, w) \in Checkpoints
                             /\ Sound(After(n, w), decisions)
  PROVE  Inv'
<1>1. PICK w \in outcomes : Complete(r, n, w)
  BY DEF Pure
<1>2. audit' = audit /\ kb' = kb
  BY DEF Pure, external
<1>3. audit' \subseteq AuditRows /\ kb' \subseteq KnowledgeDocs
        /\ \A doc \in kb' : Reviewed(doc, decisions)
  BY <1>2 DEF Inv, TypeOK, KnowledgeReviewed
<1>4. QED BY <1>1, <1>3, CompleteInv

\* A node that leaves verdict and release alone.
LEMMA QuietInv ==
  ASSUME Inv, NEW r \in RunIds, NEW n \in NodeNames, NEW outcomes,
         n \notin {"auto_approval_gate", "final_response", "knowledge_update"},
         Pure(r, n, outcomes), \A w \in outcomes : Framed(Vals(r), w)
  PROVE  Inv'
<1>1. At(r, n)
  BY DEF Pure
<1>2. \A w \in outcomes : After(n, w) \in Checkpoints /\ Sound(After(n, w), decisions)
  BY <1>1, ActiveRun, QuietStep
<1>3. QED BY <1>2, PureInv

\* What the audit node writes is an audit row.
LEMMA AuditRowType ==
  ASSUME NEW v \in AppStates
  PROVE  AuditRow(v) \in AuditRows
<1>1. DetermineStage(v) \in {"generation", "reranking", "retrieval", "routing"}
  BY DEF DetermineStage
<1>2. QED BY <1>1 DEF AuditRow, AuditRows, AppStates

\* The audit node, whether the row is written or not.
LEMMA CheckpointNodeInv ==
  ASSUME Inv, NEW r \in RunIds, CheckpointNode(r)
  PROVE  Inv'
<1> DEFINE v == Vals(r)
<1>1. At(r, "checkpoint") /\ kb' = kb
  BY DEF CheckpointNode
<1>2. /\ runs[r].cp \in Checkpoints
      /\ Sound(runs[r].cp, decisions)
      /\ runs[r].cp.next = "checkpoint"
      /\ v = runs[r].cp.vals
      /\ v \in AppStates
  BY <1>1, ActiveRun DEF NodeNames
<1>3. audit' \subseteq AuditRows
  BY <1>2, AuditRowType DEF CheckpointNode, Inv, TypeOK
<1>4. kb' \subseteq KnowledgeDocs
        /\ \A doc \in kb' : Reviewed(doc, decisions)
  BY <1>1 DEF Inv, TypeOK, KnowledgeReviewed
<1>5. PICK w : Complete(r, "checkpoint", w) /\ (w = v \/ w \in MayFail("checkpoint", v))
  BY DEF CheckpointNode
<1>6. Framed(v, w)
  BY <1>2, <1>5, FailureFramed
<1>7. After("checkpoint", w) \in Checkpoints /\ Sound(After("checkpoint", w), decisions)
  BY <1>2, <1>6, QuietStep DEF NodeNames
<1>8. QED BY <1>3, <1>4, <1>5, <1>7, CompleteInv DEF NodeNames

\* knowledge_update ingests reviewed answers only.
LEMMA KnowledgeUpdateInv ==
  ASSUME Inv, NEW r \in RunIds, KnowledgeUpdate(r)
  PROVE  Inv'
<1> DEFINE v == Vals(r)
           n == "knowledge_update"
<1>1. At(r, n) /\ audit' = audit /\ n \in NodeNames
  BY DEF KnowledgeUpdate, NodeNames
<1>2. /\ runs[r].cp \in Checkpoints
      /\ Sound(runs[r].cp, decisions)
      /\ runs[r].cp.next = n
      /\ v = runs[r].cp.vals
      /\ v \in AppStates
  BY <1>1, ActiveRun
<1>3. \/ kb' = kb
      \/ Ingestable(v) /\ kb' = kb \cup {Ingested(v)}
  BY DEF KnowledgeUpdate
<1>4. decisions \in SUBSET Decisions /\ kb \subseteq KnowledgeDocs
        /\ \A doc \in kb : Reviewed(doc, decisions)
  BY DEF Inv, TypeOK, KnowledgeReviewed
<1>5. Ingestable(v) => /\ Ingested(v) \in KnowledgeDocs
                       /\ Reviewed(Ingested(v), decisions)
  BY <1>2, <1>4, IngestedReviewed
<1>6. kb' \subseteq KnowledgeDocs
        /\ \A doc \in kb' : Reviewed(doc, decisions)
  BY <1>3, <1>4, <1>5
<1>7. PICK w : /\ Complete(r, n, w)
               /\ \/ \E b \in BOOLEAN : w = [v EXCEPT !.kbUpdated = b]
                  \/ w \in MayFail(n, [v EXCEPT !.kbUpdated = FALSE])
  BY DEF KnowledgeUpdate
<1>8. After(n, w) \in Checkpoints /\ Sound(After(n, w), decisions)
  BY <1>2, <1>7, LearnStep
<1>9. audit' \subseteq AuditRows
  BY <1>1 DEF Inv, TypeOK
<1>10. QED BY <1>1, <1>6, <1>7, <1>8, <1>9, CompleteInv

\* Every node of a run preserves the invariant.
LEMMA RunNodeInv ==
  ASSUME Inv, NEW r \in RunIds, RunNode(r)
  PROVE  Inv'
<1> DEFINE v == Vals(r)
<1>1. \A n \in NodeNames : At(r, n) => /\ v \in AppStates
                                       /\ v = runs[r].cp.vals
                                       /\ runs[r].cp \in Checkpoints
                                       /\ Sound(runs[r].cp, decisions)
                                       /\ runs[r].cp.next = n
  BY ActiveRun
<1>2. CASE Router(r)
  <2>1. v \in AppStates /\ Pure(r, "router", RouterOutcomes(v))
    BY <1>1, <1>2 DEF Router, Pure, NodeNames
  <2>2. QED BY <2>1, RouterFramed, QuietInv DEF NodeNames
<1>3. CASE Research(r) \/ Support(r)
  <2>1. PICK n \in {"research", "support"} : Pure(r, n, BranchOutcomes(v))
    BY <1>3 DEF Research, Support
  <2>2. v \in AppStates
    BY <1>1, <2>1 DEF Pure, NodeNames
  <2>3. QED BY <2>1, <2>2, ObserversFramed, QuietInv DEF NodeNames
<1>4. CASE Retriever(r)
  <2>1. v \in AppStates /\ Pure(r, "retriever", RetrieverOutcomes(v))
    BY <1>1, <1>4 DEF Retriever, Pure, NodeNames
  <2>2. QED BY <2>1, RetrieverFramed, QuietInv DEF NodeNames
<1>5. CASE Reranker(r)
  <2>1. v \in AppStates /\ Pure(r, "reranker", RerankerOutcomes(v))
    BY <1>1, <1>5 DEF Reranker, Pure, NodeNames
  <2>2. QED BY <2>1, RerankerFramed, QuietInv DEF NodeNames
<1>6. CASE ContextEval(r)
  <2>1. v \in AppStates /\ Pure(r, "context_eval", ContextEvalOutcomes(v))
    BY <1>1, <1>6 DEF ContextEval, Pure, NodeNames
  <2>2. QED BY <2>1, ObserversFramed, QuietInv DEF NodeNames
<1>7. CASE Generator(r)
  <2>1. v \in AppStates /\ Pure(r, "generator", GeneratorOutcomes(v))
    BY <1>1, <1>7 DEF Generator, Pure, NodeNames
  <2>2. QED BY <2>1, GeneratorFramed, QuietInv DEF NodeNames
<1>8. CASE StructuredOutput(r)
  <2>1. v \in AppStates /\ Pure(r, "structured_output", StructuredOutputOutcomes(v))
    BY <1>1, <1>8 DEF StructuredOutput, Pure, NodeNames
  <2>2. QED BY <2>1, StructuredOutputFramed, QuietInv DEF NodeNames
<1>9. CASE Groundedness(r)
  <2>1. v \in AppStates /\ Pure(r, "groundedness", GroundednessOutcomes(v))
    BY <1>1, <1>9 DEF Groundedness, Pure, NodeNames
  <2>2. QED BY <2>1, EvaluatorsFramed, QuietInv DEF NodeNames
<1>10. CASE LlmJudge(r)
  <2>1. v \in AppStates /\ Pure(r, "llm_judge", LlmJudgeOutcomes(v))
    BY <1>1, <1>10 DEF LlmJudge, Pure, NodeNames
  <2>2. QED BY <2>1, EvaluatorsFramed, QuietInv DEF NodeNames
<1>11. CASE CheckpointNode(r)
  BY <1>11, CheckpointNodeInv
<1>12. CASE AutoApprovalGate(r)
  <2>1. Pure(r, "auto_approval_gate", AutoApprovalGateOutcomes(v))
    BY <1>12 DEF AutoApprovalGate
  <2>2. \A w \in AutoApprovalGateOutcomes(v) :
           /\ After("auto_approval_gate", w) \in Checkpoints
           /\ Sound(After("auto_approval_gate", w), decisions)
    BY <1>1, <2>1, GateStep DEF Pure, NodeNames
  <2>3. QED BY <2>1, <2>2, PureInv DEF NodeNames
<1>13. CASE WebSearch(r)
  <2>1. v \in AppStates /\ Pure(r, "web_search", WebSearchOutcomes(v))
    BY <1>1, <1>13 DEF WebSearch, Pure, NodeNames
  <2>2. QED BY <2>1, ObserversFramed, QuietInv DEF NodeNames
<1>14. CASE HumanApproval(r)
  <2>1. v \in AppStates /\ Pure(r, "human_approval", HumanApprovalOutcomes(v))
    BY <1>1, <1>14 DEF HumanApproval, Pure, NodeNames
  <2>2. QED BY <2>1, ObserversFramed, QuietInv DEF NodeNames
<1>15. CASE FinalResponse(r)
  <2>1. Pure(r, "final_response", FinalResponseOutcomes(v))
    BY <1>15 DEF FinalResponse
  <2>2. \A w \in FinalResponseOutcomes(v) :
           /\ After("final_response", w) \in Checkpoints
           /\ Sound(After("final_response", w), decisions)
    BY <1>1, <2>1, FinalStep DEF Pure, NodeNames
  <2>3. QED BY <2>1, <2>2, PureInv DEF NodeNames
<1>16. CASE KnowledgeUpdate(r)
  BY <1>16, KnowledgeUpdateInv
<1>17. QED
  BY <1>2, <1>3, <1>4, <1>5, <1>6, <1>7, <1>8, <1>9, <1>10, <1>11, <1>12, <1>13,
     <1>14, <1>15, <1>16 DEF RunNode

\* Submitting a query and beginning its run.
LEMMA SubmitInv ==
  ASSUME Inv, NEW s \in Submissions, SubmitWorkflow(s) \/ BeginRun(s)
  PROVE  Inv'
<1> USE DEF external, budget
<1>1. CASE SubmitWorkflow(s)
  <2>1. TypeOK'
    BY <1>1 DEF SubmitWorkflow, Inv, TypeOK, RunStates, RunIds
  <2>2. ASSUME NEW i \in RunIds PROVE RunSound(i)'
    <3>1. RunSound(i) /\ runs \in [RunIds -> RunStates]
      BY DEF Inv, TypeOK
    <3>2. runs'[i].cp = runs[i].cp /\ (runs'[i].pc = "active" => runs[i].pc = "active")
      BY <1>1, <3>1 DEF SubmitWorkflow, RunStates
    <3>3. decisions' = decisions
      BY <1>1 DEF SubmitWorkflow
    <3>4. QED BY <3>1, <3>2, <3>3 DEF RunSound
  <2>3. QED BY <1>1, <2>1, <2>2 DEF SubmitWorkflow, Inv, KnowledgeReviewed
<1>2. CASE BeginRun(s)
  <2> DEFINE cp == [vals |-> Input(s), last |-> START, next |-> NextNode(START, Input(s))]
  <2>1. cp \in Checkpoints /\ Sound(cp, decisions) /\ cp # NULL
    BY InputSound, CheckpointAssumption
  <2>2. /\ runs' = [runs EXCEPT ![s] = [pc |-> "active", cp |-> cp]]
        /\ ckpt' = cp
        /\ UNCHANGED <<reviews, tracked, external, decisions, budget>>
    BY <1>2 DEF BeginRun
  <2> HIDE DEF cp
  <2>3. TypeOK'
    BY <2>1, <2>2 DEF Inv, TypeOK, RunStates, RunIds
  <2>4. ASSUME NEW i \in RunIds PROVE RunSound(i)'
    <3>1. RunSound(i) /\ runs \in [RunIds -> RunStates]
      BY DEF Inv, TypeOK
    <3>2. QED BY <2>1, <2>2, <3>1 DEF RunSound
  <2>5. QED BY <2>1, <2>2, <2>3, <2>4 DEF Inv, KnowledgeReviewed
<1>3. QED BY <1>1, <1>2

\* The three steps of an approval request, or its refusal.
LEMMA ReviewInv ==
  ASSUME Inv, NEW q \in Requests,
         CheckAwaiting(q) \/ Refuse(q) \/ UpdateState(q) \/ ResumeRun(q)
  PROVE  Inv'
<1> USE DEF external, budget
<1>1. reviews \in [Requests -> ReviewStates] /\ ckpt \in {NULL} \cup Checkpoints
  BY DEF Inv, TypeOK
<1>2. CASE CheckAwaiting(q)
  <2>1. PICK action \in {"approved", "rejected"}, edit \in {NULL} \cup Edits :
          reviews' = [reviews EXCEPT ![q] = [pc |-> "checked", action |-> action,
                                             edit |-> edit, seen |-> ckpt.vals.so]]
    BY <1>2 DEF CheckAwaiting
  <2>2. ckpt # NULL /\ ckpt.vals.so \in {NULL} \cup StructuredOutputs
    BY <1>1, <1>2 DEF CheckAwaiting, Awaiting, Checkpoints, AppStates
  <2>3. reviews' \in [Requests -> ReviewStates]
    BY <1>1, <2>1, <2>2 DEF ReviewStates
  <2>4. UNCHANGED <<ckpt, runs, tracked, audit, kb, decisions, faults, crashes>>
    BY <1>2 DEF CheckAwaiting
  <2>5. QED BY <2>2, <2>3, <2>4 DEF Inv, TypeOK, RunSound, KnowledgeReviewed
<1>3. CASE Refuse(q)
  <2>1. UNCHANGED <<ckpt, runs, tracked, audit, kb, decisions, faults, crashes>>
          /\ reviews' = [reviews EXCEPT ![q].pc = "refused"]
    BY <1>3 DEF Refuse
  <2>2. reviews' \in [Requests -> ReviewStates]
    BY <1>1, <2>1 DEF ReviewStates
  <2>3. \A i \in Requests : reviews'[i].pc \in {"checked", "updated"} => ckpt # NULL
    BY <1>1, <2>1 DEF Inv, ReviewStates
  <2>4. QED BY <2>1, <2>2, <2>3 DEF Inv, TypeOK, RunSound, KnowledgeReviewed
<1>4. CASE UpdateState(q)
  <2> DEFINE cp == [ckpt EXCEPT !.vals = Update(q), !.next = NextNode(ckpt.last, Update(q))]
             d == [reviewer |-> q, action |-> reviews[q].action,
                   answer |-> DecidedAnswer(q)]
  <2>1. /\ reviews[q].pc = "checked"
        /\ ckpt' = cp
        /\ reviews' = [reviews EXCEPT ![q].pc = "updated"]
        /\ decisions' = decisions \cup {d}
        /\ UNCHANGED <<runs, tracked, audit, kb, faults, crashes>>
    BY <1>4 DEF UpdateState
  <2>2. ckpt \in Checkpoints /\ Sound(ckpt, decisions) /\ decisions \subseteq Decisions
    BY <1>1, <2>1 DEF Inv, TypeOK
  <2>3. d \in Decisions
    <3>1. DecidedAnswer(q) \in {NULL} \cup Answers
      BY <1>1 DEF DecidedAnswer, Edited, ReviewStates, StructuredOutputs, Answers
    <3>2. QED BY <1>1, <3>1 DEF ReviewStates, Decisions
  <2>4. d \in decisions'
    BY <2>1
  <2>5. Sound(ckpt, decisions')
    BY <2>1, <2>2, SoundMonotone
  <2>6. cp \in Checkpoints /\ Sound(cp, decisions') /\ cp # NULL
    BY <1>1, <2>2, <2>4, <2>5, UpdateSound, CheckpointAssumption
  <2> HIDE DEF cp, d
  <2>7. TypeOK'
    <3>1. reviews' \in [Requests -> ReviewStates]
      BY <1>1, <2>1 DEF ReviewStates
    <3>2. decisions' \subseteq Decisions
      BY <2>1, <2>2, <2>3
    <3>3. QED BY <2>1, <2>6, <3>1, <3>2 DEF Inv, TypeOK
  <2>8. ASSUME NEW i \in RunIds PROVE RunSound(i)'
    <3>1. RunSound(i) /\ runs' = runs /\ decisions \subseteq decisions'
      BY <2>1 DEF Inv
    <3>2. runs[i].cp # NULL => Sound(runs[i].cp, decisions')
      BY <3>1, SoundMonotone DEF RunSound
    <3>3. QED BY <3>1, <3>2 DEF RunSound
  <2>9. KnowledgeReviewed'
    <3>1. \A doc : Reviewed(doc, decisions) => Reviewed(doc, decisions')
      BY <2>1 DEF Reviewed, Decided, Vouched
    <3>. QED BY <2>1, <3>1 DEF Inv, KnowledgeReviewed
  <2>10. QED BY <2>1, <2>6, <2>7, <2>8, <2>9 DEF Inv
<1>5. CASE ResumeRun(q)
  <2>1. /\ reviews[q].pc = "updated"
        /\ reviews' = [reviews EXCEPT ![q].pc = "resumed"]
        /\ \/ runs' = [runs EXCEPT ![q] = [pc |-> "ended", cp |-> NULL]]
           \/ runs' = [runs EXCEPT ![q] = [pc |-> "active", cp |-> ckpt]]
        /\ UNCHANGED <<ckpt, tracked, audit, kb, decisions, faults, crashes>>
    BY <1>5 DEF ResumeRun
  <2>2. ckpt \in Checkpoints /\ Sound(ckpt, decisions) /\ ckpt # NULL
    BY <1>1, <2>1 DEF Inv, TypeOK
  <2>3. runs' \in [RunIds -> RunStates]
    BY <2>1, <2>2 DEF Inv, TypeOK, RunStates, RunIds
  <2>4. reviews' \in [Requests -> ReviewStates]
    BY <1>1, <2>1 DEF ReviewStates
  <2>5. ASSUME NEW i \in RunIds PROVE RunSound(i)'
    <3>1. RunSound(i) /\ runs \in [RunIds -> RunStates]
      BY DEF Inv, TypeOK
    <3>2. QED BY <2>1, <2>2, <3>1 DEF RunSound
  <2>6. QED BY <2>1, <2>2, <2>3, <2>4, <2>5 DEF Inv, TypeOK, KnowledgeReviewed
<1>6. QED BY <1>2, <1>3, <1>4, <1>5

\* A run that dies, with or without its effect outside the thread.
LEMMA RunDiesInv ==
  ASSUME Inv, NEW r \in RunIds, RunDies(r)
  PROVE  Inv'
<1> DEFINE v == Vals(r)
<1>1. /\ faults < MaxFaults
      /\ runs[r].pc = "active"
      /\ runs' = [runs EXCEPT ![r] = [pc |-> "dead", cp |-> NULL]]
      /\ tracked' \in {NULL, tracked}
      /\ faults' = faults + 1
      /\ UNCHANGED <<ckpt, reviews, decisions, crashes>>
  BY DEF RunDies, Unregister
<1>2. decisions \in SUBSET Decisions /\ audit \subseteq AuditRows /\ kb \subseteq KnowledgeDocs
        /\ \A doc \in kb : Reviewed(doc, decisions)
  BY DEF Inv, TypeOK, KnowledgeReviewed
<1>3. audit' \subseteq AuditRows
  <2>1. CASE audit' = audit
    BY <1>2, <2>1
  <2>2. CASE runs[r].cp.next = "checkpoint" /\ audit' = audit \cup {AuditRow(v)}
    <3>1. v \in AppStates
      BY <1>1, <2>2, ActiveRun DEF At, NodeNames
    <3>2. QED BY <1>2, <2>2, <3>1, AuditRowType
  <2>3. QED BY <2>1, <2>2 DEF RunDies, external
<1>4. kb' \subseteq KnowledgeDocs
        /\ \A doc \in kb' : Reviewed(doc, decisions)
  <2>1. CASE kb' = kb
    BY <1>2, <2>1
  <2>2. CASE /\ runs[r].cp.next = "knowledge_update" /\ Ingestable(v)
             /\ kb' = kb \cup {Ingested(v)}
    <3>1. /\ runs[r].cp \in Checkpoints /\ Sound(runs[r].cp, decisions)
          /\ v = runs[r].cp.vals
      BY <1>1, <2>2, ActiveRun DEF At, NodeNames
    <3>2. /\ Ingested(v) \in KnowledgeDocs
          /\ Reviewed(Ingested(v), decisions)
      BY <1>2, <2>2, <3>1, IngestedReviewed
    <3>3. QED BY <1>2, <2>2, <3>2
  <2>3. QED BY <2>1, <2>2 DEF RunDies, external
<1>5. runs' \in [RunIds -> RunStates]
  BY <1>1 DEF Inv, TypeOK, RunStates
<1>6. faults' \in 0 .. MaxFaults
  BY <1>1, BoundsAssumption DEF Inv, TypeOK
<1>7. TypeOK'
  BY <1>1, <1>2, <1>3, <1>4, <1>5, <1>6 DEF Inv, TypeOK
<1>8. ASSUME NEW i \in RunIds PROVE RunSound(i)'
  <2>1. RunSound(i) /\ runs \in [RunIds -> RunStates]
    BY DEF Inv, TypeOK
  <2>2. QED BY <1>1, <2>1 DEF RunSound
<1>9. QED BY <1>1, <1>4, <1>7, <1>8 DEF Inv, KnowledgeReviewed

\* A crash of the process: the thread, the tables and the decisions stay.
LEMMA ServerCrashInv ==
  ASSUME Inv, ServerCrash
  PROVE  Inv'
<1>1. /\ crashes < MaxCrashes
      /\ runs' = [r \in RunIds |->
                    IF runs[r].pc \in {"starting", "active"}
                    THEN [pc |-> "dead", cp |-> NULL] ELSE runs[r]]
      /\ reviews' = [q \in Requests |->
                       IF reviews[q].pc \in {"checked", "updated"}
                       THEN [reviews[q] EXCEPT !.pc = "lost"] ELSE reviews[q]]
      /\ tracked' = NULL
      /\ crashes' = crashes + 1
      /\ UNCHANGED <<ckpt, audit, kb, decisions, faults>>
  BY DEF ServerCrash, CrashLeaving, external
<1>2. runs' \in [RunIds -> RunStates]
  BY <1>1 DEF Inv, TypeOK, RunStates
<1>3. reviews' \in [Requests -> ReviewStates]
  BY <1>1 DEF Inv, TypeOK, ReviewStates
<1>4. crashes' \in 0 .. MaxCrashes
  BY <1>1, BoundsAssumption DEF Inv, TypeOK
<1>5. TypeOK'
  BY <1>1, <1>2, <1>3, <1>4 DEF Inv, TypeOK
<1>6. ASSUME NEW i \in RunIds PROVE RunSound(i)'
  BY <1>1 DEF Inv, RunSound
<1>7. \A q \in Requests : reviews'[q].pc \in {"checked", "updated"} => ckpt # NULL
  BY <1>1 DEF Inv
<1>8. QED BY <1>1, <1>5, <1>6, <1>7 DEF Inv, KnowledgeReviewed

-----------------------------------------------------------------------------
(***************************************************************************)
(* Theorems.                                                               *)
(***************************************************************************)
\* Inv holds of a server no client has called yet.
LEMMA InitInv == Init => Inv
<1> SUFFICES ASSUME Init PROVE Inv
  OBVIOUS
<1>1. TypeOK
  BY BoundsAssumption DEF Init, TypeOK, IdleRun, IdleReview, RunStates, ReviewStates
<1>2. QED
  BY <1>1 DEF Init, Inv, RunSound, KnowledgeReviewed, IdleRun, IdleReview

\* Inv is inductive: no step of any run, request, fault or crash breaks it.
LEMMA NextInv == Inv /\ [Next]_vars => Inv'
<1> SUFFICES ASSUME Inv, [Next]_vars PROVE Inv'
  OBVIOUS
<1>1. CASE \E s \in Submissions : SubmitWorkflow(s) \/ BeginRun(s)
  BY <1>1, SubmitInv
<1>2. CASE \E r \in RunIds : RunNode(r)
  BY <1>2, RunNodeInv
<1>3. CASE \E r \in RunIds : RunDies(r)
  BY <1>3, RunDiesInv
<1>4. CASE \E q \in Requests : \/ CheckAwaiting(q) \/ Refuse(q)
                               \/ UpdateState(q) \/ ResumeRun(q)
  BY <1>4, ReviewInv
<1>5. CASE ServerCrash
  BY <1>5, ServerCrashInv
<1>6. CASE UNCHANGED vars
  BY <1>6 DEF vars, Inv, TypeOK, RunSound, KnowledgeReviewed
<1>7. QED BY <1>1, <1>2, <1>3, <1>4, <1>5, <1>6 DEF Next

\* The inductive invariant: every checkpoint, the thread's and each run's, is
\* sound, with any number of submissions, reviewers, failures and crashes.
THEOREM Invariance == Spec => []Inv
<1>1. QED BY InitInv, NextInv, PTL DEF Spec

\* The variables stay within their types.
THEOREM TypeCorrect == Spec => []TypeOK
<1>1. Inv => TypeOK
  BY DEF Inv
<1>2. QED BY <1>1, Invariance, PTL

\* Human in the loop: nothing is released without the gate or a written approval
\* of the reviewer named on it, and its text is the one generated for the
\* session's query or an edit that some approval was about (workflow.py,
\* auto_approval.py, approval_service.py, final_response.py).
THEOREM ReleaseIsAuthorized == Spec => []ReleaseAuthorized
<1>1. Inv => ReleaseAuthorized
  BY DEF Inv, ReleaseAuthorized, Sound, FinalSound
<1>2. QED BY <1>1, Invariance, PTL

\* The knowledge base is fed on the reviewed path only, with texts generated for
\* their query or edits that an approval was about (knowledge_update.py).
THEOREM KnowledgeIsReviewed == Spec => []KnowledgeReviewed
<1>1. Inv => KnowledgeReviewed
  BY DEF Inv
<1>2. QED BY <1>1, Invariance, PTL

\* The automatic path never ends without a response (auto_approval.py counts a
\* missing confidence as zero).
THEOREM AutoApprovalReleases == Spec => []AutoApprovedHasOutput
<1>1. ASSUME Inv, ckpt # NULL, ByGate(ckpt.vals)
      PROVE  ckpt.vals.so # NULL /\ (ckpt.next = END => ckpt.vals.final # NULL)
  <2>1. ckpt \in Checkpoints /\ ckpt.vals \in AppStates /\ Sound(ckpt, decisions)
    BY <1>1 DEF Inv, TypeOK, Checkpoints
  <2>2. ckpt.vals.so # NULL
    BY <1>1, <2>1, GateNeedsAnswer DEF Sound, RecordSound
  <2>3. CASE ckpt.last = "auto_approval_gate"
    <3>1. ckpt.next = "final_response"
      BY <1>1, <2>1, <2>3 DEF Sound, RecordSound, NextNode, PreApprovalDecision
    <3>2. QED BY <2>2, <3>1 DEF END
  <2>4. CASE ckpt.last = "final_response"
    BY <1>1, <2>1, <2>2, <2>4 DEF Sound, RecordSound
  <2>5. QED BY <1>1, <2>1, <2>3, <2>4 DEF Sound, RecordSound
<1>2. Inv => AutoApprovedHasOutput
  BY <1>1 DEF AutoApprovedHasOutput, ByGate
<1>3. QED BY <1>2, Invariance, PTL
=============================================================================
