--------------------------- MODULE SessionProofs ----------------------------
(***************************************************************************)
(* Proofs about a session, on top of WorkflowThreadProofs: what a step of  *)
(* a run may change is said once (NodeStep), then each invariant of        *)
(* SessionProperties is shown to survive it and the few other actions.     *)
(***************************************************************************)
EXTENDS SessionProperties, WorkflowThreadProofs

-----------------------------------------------------------------------------
(***************************************************************************)
(* What each node body changes of the state, and outside of it.            *)
(***************************************************************************)
GateApproval == [reviewer |-> SYSTEM, action |-> "approved"]

NodeEffect(n, v, w) ==
  /\ w \in AppStates
  /\ w.query = v.query
  /\ v.errors => w.errors
  /\ n # "router" => w.route = v.route
  /\ n # "structured_output" => w.so = v.so
  /\ n = "structured_output" => w.so # NULL \/ w.errors
  /\ n # "auto_approval_gate" =>
       w.status = v.status /\ w.record = v.record /\ w.auto = v.auto
  /\ n = "auto_approval_gate" =>
       \/ w.status = v.status /\ w.record = v.record /\ w.auto = FALSE
       \/ w.status = "approved" /\ w.record = GateApproval /\ w.auto = TRUE
  /\ n # "final_response" => w.final = v.final
  /\ n = "final_response" /\ v.so = NULL => w.final = v.final
  /\ n = "final_response" /\ v.so # NULL => w.final = Assemble(v)
  /\ n # "knowledge_update" => w.kbUpdated = v.kbUpdated

ExternalEffect(n, v, w) ==
  /\ n # "checkpoint" => audit' = audit
  /\ n = "checkpoint" => \/ audit' = audit \cup {AuditRow(v)}
                         \/ audit' = audit /\ w.errors
  /\ n # "knowledge_update" => kb' = kb
  /\ n = "knowledge_update" => \/ Ingestable(v) /\ kb' = kb \cup {Ingested(v)}
                               \/ kb' = kb /\ ~w.kbUpdated

\* The fields of a failed body's state.
LEMMA ErrorEffect ==
  ASSUME NEW v \in AppStates, NEW w, w = WithError(v)
  PROVE  /\ w \in AppStates /\ w.errors = TRUE
         /\ w.query = v.query /\ w.route = v.route /\ w.so = v.so /\ w.draft = v.draft
         /\ w.status = v.status /\ w.record = v.record /\ w.auto = v.auto
         /\ w.final = v.final /\ w.kbUpdated = v.kbUpdated
BY DEF WithError, AppStates

\* A node that fails, or has nothing to do, and is not bound to leave more.
LEMMA IdleEffect ==
  ASSUME NEW v \in AppStates, NEW w, w = v \/ w = WithError(v), NEW n,
         n \notin {"auto_approval_gate", "final_response"},
         n = "structured_output" => w = WithError(v)
  PROVE  NodeEffect(n, v, w)
BY ErrorEffect DEF NodeEffect

LEMMA MayFailIsError == \A n, v : \A w \in MayFail(n, v) : w = WithError(v)
BY DEF MayFail

LEMMA RouterEffect ==
  ASSUME NEW v \in AppStates, NEW w \in RouterOutcomes(v)
  PROVE  NodeEffect("router", v, w)
<1>1. CASE w \in MayFail("router", v)
  BY <1>1, MayFailIsError, IdleEffect
<1>2. ASSUME NEW d \in Classifications,
             w = [v EXCEPT !.route = d.route, !.routerConf = d.confidence]
      PROVE  NodeEffect("router", v, w)
  <2>1. w \in AppStates
    BY RouterFramed DEF Framed
  <2> QED BY <1>2, <2>1 DEF NodeEffect, AppStates
<1> QED BY <1>1, <1>2 DEF RouterOutcomes

LEMMA RetrieverEffect ==
  ASSUME NEW v \in AppStates, NEW w \in RetrieverOutcomes(v)
  PROVE  NodeEffect("retriever", v, w)
<1>1. CASE w \in MayFail("retriever", v)
  BY <1>1, MayFailIsError, IdleEffect
<1>2. ASSUME NEW b, NEW c, w = [v EXCEPT !.docs = b, !.retrievalConf = c]
      PROVE  NodeEffect("retriever", v, w)
  <2>1. w \in AppStates
    BY RetrieverFramed DEF Framed
  <2> QED BY <1>2, <2>1 DEF NodeEffect, AppStates
<1>3. CASE w = WithError(v)
  BY <1>3, IdleEffect
<1>4. \/ w = WithError(v) \/ w \in MayFail("retriever", v)
      \/ \E c \in ConfScores : w = [v EXCEPT !.docs = TRUE, !.retrievalConf = c]
      \/ w = [v EXCEPT !.docs = FALSE, !.retrievalConf = 0]
  BY DEF RetrieverOutcomes
<1> QED BY <1>1, <1>2, <1>3, <1>4

LEMMA RerankerEffect ==
  ASSUME NEW v \in AppStates, NEW w \in RerankerOutcomes(v)
  PROVE  NodeEffect("reranker", v, w)
<1>1. \/ w = WithError(v)
      \/ w = [v EXCEPT !.ranked = v.docs]
  BY MayFailIsError DEF RerankerOutcomes
<1>2. CASE w = WithError(v)
  BY <1>2, IdleEffect
<1>3. CASE w = [v EXCEPT !.ranked = v.docs]
  BY <1>3 DEF NodeEffect, AppStates
<1> QED BY <1>1, <1>2, <1>3

LEMMA GeneratorEffect ==
  ASSUME NEW v \in AppStates, NEW w \in GeneratorOutcomes(v)
  PROVE  NodeEffect("generator", v, w)
<1>1. CASE w \in MayFail("generator", v)
  BY <1>1, MayFailIsError, IdleEffect
<1>2. CASE w = [v EXCEPT !.draft = v.query]
  BY <1>2 DEF NodeEffect, AppStates
<1>3. CASE w = WithError(v)
  BY <1>3, IdleEffect
<1> QED BY <1>1, <1>2, <1>3 DEF GeneratorOutcomes

LEMMA StructuredOutputEffect ==
  ASSUME NEW v \in AppStates, NEW w \in StructuredOutputOutcomes(v)
  PROVE  NodeEffect("structured_output", v, w)
<1>1. CASE w = WithError(v)
  BY <1>1, IdleEffect
<1>2. ASSUME v.draft # NULL, NEW c,
             w = [v EXCEPT !.so = [answer |-> v.draft, cites |-> v.draft], !.answerConf = c]
      PROVE  NodeEffect("structured_output", v, w)
  <2>1. w \in AppStates
    BY StructuredOutputFramed DEF Framed
  <2> DEFINE output == [answer |-> v.draft, cites |-> v.draft]
  <2>2. output \in StructuredOutputs
    BY <1>2 DEF AppStates, StructuredOutputs, Answers
  <2>3. output # NULL
    BY <2>2, NullAssumption
  <2>4. w = [v EXCEPT !.so = output, !.answerConf = c]
    BY <1>2
  <2> HIDE DEF output
  <2> QED BY <2>1, <2>3, <2>4 DEF NodeEffect, AppStates
<1>3. \/ w = WithError(v)
      \/ /\ v.draft # NULL
         /\ \E c : w = [v EXCEPT !.so = [answer |-> v.draft, cites |-> v.draft],
                                 !.answerConf = c]
  BY MayFailIsError DEF StructuredOutputOutcomes
<1> QED BY <1>1, <1>2, <1>3

LEMMA EvaluatorEffects ==
  ASSUME NEW v \in AppStates
  PROVE  /\ \A w \in GroundednessOutcomes(v) : NodeEffect("groundedness", v, w)
         /\ \A w \in LlmJudgeOutcomes(v) : NodeEffect("llm_judge", v, w)
<1>1. ASSUME NEW w \in GroundednessOutcomes(v)
      PROVE  NodeEffect("groundedness", v, w)
  <2>1. w \in AppStates
    BY EvaluatorsFramed DEF Framed
  <2>2. w = v \/ w = WithError(v) \/ w = [v EXCEPT !.grounded = v.so.answer]
    BY MayFailIsError DEF GroundednessOutcomes
  <2>3. CASE w = [v EXCEPT !.grounded = v.so.answer]
    BY <2>1, <2>3 DEF NodeEffect, AppStates
  <2> QED BY <2>2, <2>3, IdleEffect
<1>2. ASSUME NEW w \in LlmJudgeOutcomes(v)
      PROVE  NodeEffect("llm_judge", v, w)
  <2>1. w \in AppStates
    BY EvaluatorsFramed DEF Framed
  <2>2. w = v \/ w = WithError(v) \/ \E j : w = [v EXCEPT !.judge = j]
    BY MayFailIsError DEF LlmJudgeOutcomes
  <2>3. ASSUME NEW j, w = [v EXCEPT !.judge = j] PROVE NodeEffect("llm_judge", v, w)
    BY <2>1, <2>3 DEF NodeEffect, AppStates
  <2> QED BY <2>2, <2>3, IdleEffect
<1> QED BY <1>1, <1>2

LEMMA ObserverEffects ==
  ASSUME NEW v \in AppStates, NEW n,
         n \in {"research", "support", "context_eval", "web_search", "human_approval"},
         NEW w \in BranchOutcomes(v) \cup ContextEvalOutcomes(v) \cup WebSearchOutcomes(v)
                     \cup HumanApprovalOutcomes(v)
  PROVE  NodeEffect(n, v, w)
<1>1. w = v \/ w = WithError(v)
  BY MayFailIsError DEF BranchOutcomes, ContextEvalOutcomes, WebSearchOutcomes,
     HumanApprovalOutcomes
<1> QED BY <1>1, IdleEffect

LEMMA GateEffect ==
  ASSUME NEW v \in AppStates, NEW w \in AutoApprovalGateOutcomes(v)
  PROVE  NodeEffect("auto_approval_gate", v, w)
<1>1. GateApproval \in Records
  BY DEF GateApproval, Records
<1>2. \/ w = [v EXCEPT !.auto = FALSE]
      \/ w = [v EXCEPT !.status = "approved", !.auto = TRUE, !.record = GateApproval]
  BY DEF AutoApprovalGateOutcomes, GateApproval
<1>3. CASE w = [v EXCEPT !.auto = FALSE]
  BY <1>3 DEF NodeEffect, AppStates
<1>4. CASE w = [v EXCEPT !.status = "approved", !.auto = TRUE, !.record = GateApproval]
  BY <1>1, <1>4 DEF NodeEffect, AppStates
<1> QED BY <1>2, <1>3, <1>4

LEMMA FinalEffect ==
  ASSUME NEW v \in AppStates, NEW w \in FinalResponseOutcomes(v)
  PROVE  NodeEffect("final_response", v, w)
<1>1. CASE v.so = NULL
  BY <1>1, ErrorEffect DEF FinalResponseOutcomes, NodeEffect
<1>2. CASE v.so # NULL
  <2>1. Assemble(v) \in FinalResponses
    BY <1>2, AssembleType
  <2>2. w = [v EXCEPT !.final = Assemble(v)]
    BY <1>2 DEF FinalResponseOutcomes
  <2> QED BY <1>2, <2>1, <2>2 DEF NodeEffect, AppStates
<1> QED BY <1>1, <1>2

LEMMA NotLearned ==
  ASSUME NEW v \in AppStates, NEW u, u = [v EXCEPT !.kbUpdated = FALSE]
  PROVE  u \in AppStates /\ u.kbUpdated = FALSE
BY DEF AppStates

LEMMA LearnEffect ==
  ASSUME NEW v \in AppStates, NEW w,
         \/ \E b \in BOOLEAN : w = [v EXCEPT !.kbUpdated = b]
         \/ w \in MayFail("knowledge_update", [v EXCEPT !.kbUpdated = FALSE])
  PROVE  NodeEffect("knowledge_update", v, w)
<1>1. ASSUME NEW b \in BOOLEAN, NEW u, u = [v EXCEPT !.kbUpdated = b]
      PROVE  NodeEffect("knowledge_update", v, u)
  BY <1>1 DEF NodeEffect, AppStates
<1>2. CASE w \in MayFail("knowledge_update", [v EXCEPT !.kbUpdated = FALSE])
  <2> DEFINE u == [v EXCEPT !.kbUpdated = FALSE]
  <2>1. NodeEffect("knowledge_update", v, u)
    BY <1>1
  <2>2. w = WithError(u)
    BY <1>2, MayFailIsError
  <2> HIDE DEF u
  <2> QED BY ZenonT(30), <2>1, <2>2, ErrorEffect DEF NodeEffect
<1> QED BY <1>1, <1>2

-----------------------------------------------------------------------------
(***************************************************************************)
(* A step of a run.                                                        *)
(***************************************************************************)
\* The snapshot a node leaves.
LEMMA AfterFields ==
  ASSUME NEW n \in NodeNames, NEW w \in AppStates, NEW c, c = After(n, w)
  PROVE  /\ c \in Checkpoints /\ c # NULL
         /\ c.last = n /\ c.next = NextNode(n, w) /\ c.vals.steps > 0
         /\ c.vals.query = w.query /\ c.vals.route = w.route /\ c.vals.so = w.so
         /\ c.vals.errors = w.errors /\ c.vals.kbUpdated = w.kbUpdated
         /\ c.vals.status = w.status /\ c.vals.record = w.record
         /\ c.vals.auto = w.auto /\ c.vals.final = w.final
<1>1. /\ c \in Checkpoints /\ c.vals = Stepped(w)
      /\ c.last = n /\ c.next = NextNode(n, w)
  BY AfterType, SteppedSame
<1>2. Stepped(w).steps > 0
  BY DEF Stepped, AppStates
<1>3. /\ Stepped(w).query = w.query /\ Stepped(w).route = w.route
      /\ Stepped(w).so = w.so
      /\ Stepped(w).errors = w.errors /\ Stepped(w).kbUpdated = w.kbUpdated
      /\ Stepped(w).status = w.status /\ Stepped(w).record = w.record
      /\ Stepped(w).auto = w.auto /\ Stepped(w).final = w.final
  BY DEF Stepped, AppStates
<1> QED BY <1>1, <1>2, <1>3, CheckpointAssumption

Stepping(r, n, w) ==
  LET c == After(n, w)
  IN /\ At(r, n)
     /\ NodeEffect(n, Vals(r), w)
     /\ ExternalEffect(n, Vals(r), w)
     /\ ckpt' = c
     /\ runs' = [runs EXCEPT ![r] = IF StopsBefore(c.next)
                                    THEN [pc |-> "ended", cp |-> NULL]
                                    ELSE [pc |-> "active", cp |-> c]]
     /\ UNCHANGED <<reviews, decisions, faults, crashes>>

LEMMA CompleteStepping ==
  ASSUME Inv, NEW r \in RunIds, NEW n \in NodeNames, NEW w, At(r, n), Complete(r, n, w),
         NodeEffect(n, Vals(r), w), ExternalEffect(n, Vals(r), w)
  PROVE  \E u \in AppStates : Stepping(r, n, u)
<1> DEFINE c == After(n, w)
<1>1. runs[r] \in RunStates /\ runs[r].pc = "active"
  BY DEF Inv, TypeOK, At
<1>2. /\ ckpt' = c
      /\ UNCHANGED <<reviews, decisions, faults, crashes>>
      /\ \/ StopsBefore(c.next) /\ runs' = [runs EXCEPT ![r] = [pc |-> "ended", cp |-> NULL]]
         \/ ~StopsBefore(c.next) /\ runs' = [runs EXCEPT ![r].cp = c]
  BY DEF Complete, budget
<1> HIDE DEF c
<1>3. [runs[r] EXCEPT !.cp = c] = [pc |-> "active", cp |-> c]
  BY <1>1 DEF RunStates
<1>4. runs \in [RunIds -> RunStates]
  BY DEF Inv, TypeOK
<1>5. [runs EXCEPT ![r].cp = c] = [runs EXCEPT ![r] = [pc |-> "active", cp |-> c]]
  BY <1>3, <1>4
<1> QED BY <1>2, <1>5 DEF Stepping, NodeEffect, c

LEMMA PureStepping ==
  ASSUME Inv, NEW r \in RunIds, NEW n \in NodeNames \ {"checkpoint", "knowledge_update"},
         NEW outcomes, Pure(r, n, outcomes),
         \A w \in outcomes : NodeEffect(n, Vals(r), w)
  PROVE  \E w \in AppStates : Stepping(r, n, w)
<1>1. PICK w \in outcomes : Complete(r, n, w)
  BY DEF Pure
<1>2. At(r, n) /\ audit' = audit /\ kb' = kb
  BY DEF Pure, external
<1>3. ExternalEffect(n, Vals(r), w)
  BY <1>2 DEF ExternalEffect
<1> QED BY <1>1, <1>2, <1>3, CompleteStepping

LEMMA AuditStepping ==
  ASSUME Inv, NEW r \in RunIds, CheckpointNode(r)
  PROVE  \E w \in AppStates : Stepping(r, "checkpoint", w)
<1> DEFINE v == Vals(r)
<1>1. At(r, "checkpoint") /\ kb' = kb
  BY DEF CheckpointNode
<1>2. v \in AppStates
  BY <1>1, ActiveRun DEF NodeNames
<1>3. PICK w : /\ w = v \/ w = WithError(v)
               /\ Complete(r, "checkpoint", w)
               /\ \/ audit' = audit \cup {AuditRow(v)}
                  \/ audit' = audit /\ w = WithError(v)
  BY MayFailIsError DEF CheckpointNode
<1>4. NodeEffect("checkpoint", v, w)
  BY <1>2, <1>3, IdleEffect
<1>5. ExternalEffect("checkpoint", v, w)
  BY <1>1, <1>2, <1>3, ErrorEffect DEF ExternalEffect
<1> QED BY <1>1, <1>3, <1>4, <1>5, CompleteStepping DEF NodeNames

LEMMA LearnStepping ==
  ASSUME Inv, NEW r \in RunIds, KnowledgeUpdate(r)
  PROVE  \E w \in AppStates : Stepping(r, "knowledge_update", w)
<1> DEFINE v == Vals(r)
           n == "knowledge_update"
<1>1. At(r, n) /\ audit' = audit
  BY DEF KnowledgeUpdate
<1>2. v \in AppStates
  BY <1>1, ActiveRun DEF NodeNames
<1>3. PICK w : /\ Complete(r, n, w)
               /\ \/ w = [v EXCEPT !.kbUpdated = TRUE]
                  \/ w = [v EXCEPT !.kbUpdated = FALSE]
                  \/ w \in MayFail(n, [v EXCEPT !.kbUpdated = FALSE])
               /\ \/ Ingestable(v) /\ kb' = kb \cup {Ingested(v)}
                  \/ /\ kb' = kb
                     /\ \/ w = [v EXCEPT !.kbUpdated = FALSE]
                        \/ w \in MayFail(n, [v EXCEPT !.kbUpdated = FALSE])
  <2>1. CASE \E w \in MayFail(n, [v EXCEPT !.kbUpdated = FALSE]) :
               Complete(r, n, w) /\ Ingestable(v) /\ kb' \in {kb, kb \cup {Ingested(v)}}
    BY <2>1
  <2>2. CASE /\ Complete(r, n, [v EXCEPT !.kbUpdated = TRUE])
             /\ Ingestable(v) /\ kb' = kb \cup {Ingested(v)}
    BY <2>2
  <2>3. CASE Complete(r, n, [v EXCEPT !.kbUpdated = FALSE]) /\ kb' = kb
    BY <2>3
  <2> QED BY <2>1, <2>2, <2>3 DEF KnowledgeUpdate
<1>4. NodeEffect(n, v, w)
  BY <1>2, <1>3, LearnEffect
<1>5. CASE kb' = kb /\ (w = [v EXCEPT !.kbUpdated = FALSE]
                         \/ w \in MayFail(n, [v EXCEPT !.kbUpdated = FALSE]))
  <2> DEFINE u == [v EXCEPT !.kbUpdated = FALSE]
  <2>1. u \in AppStates /\ u.kbUpdated = FALSE
    BY <1>2, NotLearned
  <2>2. w = u \/ w = WithError(u)
    BY <1>5, MayFailIsError
  <2> HIDE DEF u
  <2>3. ~w.kbUpdated
    BY <2>1, <2>2, ErrorEffect
  <2>4. ExternalEffect(n, v, w)
    BY <1>1, <1>5, <2>3 DEF ExternalEffect
  <2> QED BY <1>1, <1>3, <1>4, <2>4, CompleteStepping DEF NodeNames
<1>6. CASE Ingestable(v) /\ kb' = kb \cup {Ingested(v)}
  <2>1. ExternalEffect(n, v, w)
    BY <1>1, <1>6 DEF ExternalEffect
  <2> QED BY <1>1, <1>3, <1>4, <2>1, CompleteStepping DEF NodeNames
<1> QED BY <1>3, <1>5, <1>6

\* Every step of a run completes one node with that node's effect.
LEMMA NodeStep ==
  ASSUME Inv, NEW r \in RunIds, RunNode(r)
  PROVE  \E n \in NodeNames, w \in AppStates : Stepping(r, n, w)
<1>1. \A n \in NodeNames : At(r, n) => Vals(r) \in AppStates
  BY ActiveRun
<1> USE DEF NodeNames
<1>2. CASE Router(r) \/ Retriever(r)
  BY <1>1, <1>2, RouterEffect, RetrieverEffect, PureStepping DEF Router, Retriever, Pure
<1>3. CASE Reranker(r) \/ Generator(r)
  BY <1>1, <1>3, RerankerEffect, GeneratorEffect, PureStepping DEF Reranker, Generator, Pure
<1>4. CASE StructuredOutput(r)
  BY <1>1, <1>4, StructuredOutputEffect, PureStepping DEF StructuredOutput, Pure
<1>5. CASE Groundedness(r) \/ LlmJudge(r)
  BY <1>1, <1>5, EvaluatorEffects, PureStepping DEF Groundedness, LlmJudge, Pure
<1>6. CASE Research(r) \/ Support(r) \/ ContextEval(r)
  BY <1>1, <1>6, ObserverEffects, PureStepping DEF Research, Support, ContextEval, Pure
<1>7. CASE WebSearch(r) \/ HumanApproval(r)
  BY <1>1, <1>7, ObserverEffects, PureStepping DEF WebSearch, HumanApproval, Pure
<1>8. CASE AutoApprovalGate(r)
  BY <1>1, <1>8, GateEffect, PureStepping DEF AutoApprovalGate, Pure
<1>9. CASE FinalResponse(r)
  BY <1>1, <1>9, FinalEffect, PureStepping DEF FinalResponse, Pure
<1>10. CASE CheckpointNode(r) \/ KnowledgeUpdate(r)
  BY <1>10, AuditStepping, LearnStepping
<1> QED
  BY <1>2, <1>3, <1>4, <1>5, <1>6, <1>7, <1>8, <1>9, <1>10 DEF RunNode

-----------------------------------------------------------------------------
(***************************************************************************)
(* Where the snapshots of a step come from.                                *)
(***************************************************************************)
Begun(s) == [vals |-> Input(s), last |-> START, next |-> NextNode(START, Input(s))]

\* A step of a run: its new checkpoint is the only new snapshot.
LEMMA SteppingSnapshots ==
  ASSUME Inv, NEW r \in RunIds, NEW n, NEW w, Stepping(r, n, w)
  PROVE  /\ audit \subseteq audit'
         /\ \A c \in Snapshots' : c \in Snapshots \/ c = After(n, w)
<1> DEFINE cp == After(n, w)
<1>1. audit \subseteq audit'
  BY DEF Stepping, ExternalEffect
<1>2. ckpt' = cp
  BY DEF Stepping
<1>3. \/ runs' = [runs EXCEPT ![r] = [pc |-> "ended", cp |-> NULL]]
      \/ runs' = [runs EXCEPT ![r] = [pc |-> "active", cp |-> cp]]
  BY DEF Stepping
<1> HIDE DEF cp
<1>4. \A i \in RunIds : runs'[i].cp \in {runs[i].cp, NULL, cp}
  BY <1>3 DEF Inv, TypeOK
<1>5. \A c \in Snapshots' : c \in Snapshots \/ c = cp
  BY <1>2, <1>4 DEF Snapshots
<1> QED BY <1>1, <1>5 DEF cp

\* Every snapshot is an earlier one, the input of a run that begins, what a
\* node leaves, or the thread with a reviewer's decision written to it.
LEMMA SnapshotStep ==
  ASSUME Inv, Next
  PROVE  /\ audit \subseteq audit'
         /\ \A c \in Snapshots' :
              \/ c \in Snapshots
              \/ \E s \in Submissions : c = Begun(s)
              \/ \E r \in RunIds, n \in NodeNames, w \in AppStates :
                   Stepping(r, n, w) /\ c = After(n, w)
              \/ \E q \in Requests : UpdateState(q) /\ c = ckpt'
<1> USE DEF external, budget
<1>0. runs \in [RunIds -> RunStates]
  BY DEF Inv, TypeOK
<1>1. ASSUME NEW s \in Submissions, SubmitWorkflow(s)
      PROVE  audit' = audit /\ Snapshots' \subseteq Snapshots
  <2>1. \A i \in RunIds : runs'[i].cp = runs[i].cp
    BY <1>0, <1>1 DEF SubmitWorkflow, RunStates
  <2> QED BY <1>1, <2>1 DEF SubmitWorkflow, Snapshots
<1>2. ASSUME NEW s \in Submissions, BeginRun(s)
      PROVE  audit' = audit /\ Snapshots' \subseteq Snapshots \cup {Begun(s)}
  <2>1. /\ runs' = [runs EXCEPT ![s] = [pc |-> "active", cp |-> Begun(s)]]
        /\ ckpt' = Begun(s) /\ audit' = audit
    BY <1>2 DEF BeginRun, Begun
  <2>2. \A i \in RunIds : runs'[i].cp \in {runs[i].cp, Begun(s)}
    BY <1>0, <2>1
  <2> QED BY <2>1, <2>2 DEF Snapshots
<1>3. ASSUME NEW r \in RunIds, RunNode(r)
      PROVE  \E n \in NodeNames, w \in AppStates :
               /\ Stepping(r, n, w) /\ audit \subseteq audit'
               /\ \A c \in Snapshots' : c \in Snapshots \/ c = After(n, w)
  BY <1>3, NodeStep, SteppingSnapshots
<1>4. ASSUME NEW r \in RunIds, RunDies(r)
      PROVE  audit \subseteq audit' /\ Snapshots' \subseteq Snapshots
  <2>1. /\ runs' = [runs EXCEPT ![r] = [pc |-> "dead", cp |-> NULL]]
        /\ ckpt' = ckpt /\ audit \subseteq audit'
    BY <1>4 DEF RunDies
  <2>2. \A i \in RunIds : runs'[i].cp \in {runs[i].cp, NULL}
    BY <1>0, <2>1
  <2> QED BY <2>1, <2>2 DEF Snapshots
<1>5. ASSUME NEW q \in Requests, CheckAwaiting(q) \/ Refuse(q)
      PROVE  audit' = audit /\ Snapshots' \subseteq Snapshots
  BY <1>5 DEF CheckAwaiting, Refuse, Snapshots
<1>6. ASSUME NEW q \in Requests, UpdateState(q)
      PROVE  audit' = audit /\ Snapshots' \subseteq Snapshots \cup {ckpt'}
  BY <1>6 DEF UpdateState, Snapshots
<1>7. ASSUME NEW q \in Requests, ResumeRun(q)
      PROVE  audit' = audit /\ Snapshots' \subseteq Snapshots
  <2>1. /\ \/ runs' = [runs EXCEPT ![q] = [pc |-> "ended", cp |-> NULL]]
           \/ runs' = [runs EXCEPT ![q] = [pc |-> "active", cp |-> ckpt]]
        /\ ckpt' = ckpt /\ audit' = audit
    BY <1>7 DEF ResumeRun
  <2>2. \A i \in RunIds : runs'[i].cp \in {runs[i].cp, NULL, ckpt}
    BY <1>0, <2>1
  <2> QED BY <2>1, <2>2 DEF Snapshots
<1>8. ASSUME ServerCrash
      PROVE  audit' = audit /\ Snapshots' \subseteq Snapshots
  <2>1. /\ runs' = [r \in RunIds |-> IF runs[r].pc \in {"starting", "active"}
                                     THEN [pc |-> "dead", cp |-> NULL] ELSE runs[r]]
        /\ ckpt' = ckpt /\ audit' = audit
    BY <1>8 DEF ServerCrash, CrashLeaving
  <2>2. \A i \in RunIds : runs'[i].cp \in {runs[i].cp, NULL}
    BY <1>0, <2>1
  <2> QED BY <2>1, <2>2 DEF Snapshots
<1>9. CASE \E s \in Submissions : SubmitWorkflow(s) \/ BeginRun(s)
  BY <1>1, <1>2, <1>9
<1>10. CASE \E r \in RunIds : RunNode(r) \/ RunDies(r)
  BY <1>3, <1>4, <1>10
<1>11. CASE \E q \in Requests : \/ CheckAwaiting(q) \/ Refuse(q)
                                \/ UpdateState(q) \/ ResumeRun(q)
  BY <1>5, <1>6, <1>7, <1>11
<1> QED BY <1>8, <1>9, <1>10, <1>11 DEF Next

\* Every snapshot is a sound checkpoint.
LEMMA SnapshotSound ==
  ASSUME Inv, NEW c \in Snapshots
  PROVE  c \in Checkpoints /\ Sound(c, decisions)
<1>1. CASE c = ckpt
  BY <1>1 DEF Inv, TypeOK, Snapshots
<1>2. CASE \E r \in RunIds : c = runs[r].cp
  <2>1. PICK r \in RunIds : c = runs[r].cp
    BY <1>2
  <2>2. runs[r] \in RunStates /\ RunSound(r) /\ c # NULL
    BY DEF Inv, TypeOK, Snapshots
  <2> QED BY <2>1, <2>2 DEF RunSound, RunStates
<1> QED BY <1>1, <1>2 DEF Snapshots

-----------------------------------------------------------------------------
(***************************************************************************)
(* PathInv, and the audit trail.                                           *)
(***************************************************************************)
\* The order of the graph, backwards from each edge.
LEMMA Predecessors ==
  ASSUME NEW c \in Checkpoints, c.next = NextNode(c.last, c.vals)
  PROVE  /\ c.next \in AfterOutput \ {"structured_output"} => c.last \in AfterOutput
         /\ c.next \in AfterAudit \ {"checkpoint"} => c.last \in AfterAudit
         /\ c.next = "human_approval" => c.last \in {"web_search", "human_approval"}
         /\ c.next \in OnReviewPath \ {"web_search", "final_response"}
              => c.last \in OnReviewPath
         /\ c.next = "final_response"
              => c.last \in {"auto_approval_gate", "human_approval"}
         /\ c.next = "web_search" => c.last = "auto_approval_gate"
         /\ c.next = "knowledge_update" => c.last = "final_response"
<1>1. c.last \in NodeNames \cup {START}
  BY DEF Checkpoints
<1> QED
  BY <1>1 DEF NodeNames, START, END, NextNode, RouteDecision, PreApprovalDecision,
     ApprovalDecision, PostFinalDecision, StaticEdge, Routes, AfterOutput, AfterAudit,
     OnReviewPath

\* The audit row tells whether there was an output.
LEMMA AuditRowFields ==
  ASSUME NEW v
  PROVE  AuditRow(v).query = v.query /\ AuditRow(v).output = (v.so # NULL)
BY DEF AuditRow

\* What a node leaves is past that node.
LEMMA SteppingPath ==
  ASSUME Inv, PathInv, NEW r \in RunIds, NEW n \in NodeNames, NEW w \in AppStates,
         Stepping(r, n, w), audit \subseteq audit'
  PROVE  PathSound(After(n, w))'
<1> DEFINE v == Vals(r)
           old == runs[r].cp
           c == After(n, w)
<1>1. /\ old \in Checkpoints /\ Sound(old, decisions) /\ old.next = n
      /\ v = old.vals /\ v \in AppStates /\ old \in Snapshots
  BY ActiveRun, CheckpointAssumption DEF Stepping, Snapshots
<1>2. /\ old.last \in AfterOutput => v.so # NULL \/ v.errors
      /\ old.last \in AfterAudit => Audited(v)
      /\ old.last \notin {START, "router"} => v.route # NULL
  BY <1>1 DEF PathInv, PathSound
<1>3. /\ n \in AfterOutput \ {"structured_output"} => old.last \in AfterOutput
      /\ n \in AfterAudit \ {"checkpoint"} => old.last \in AfterAudit
  BY <1>1, Predecessors DEF Sound
<1>3a. n # "router" => v.route # NULL
  <2>1. old.next = NextNode(old.last, v)
    BY <1>1 DEF Sound
  <2>2. n # "router" => old.last # START
    BY <1>1, <2>1 DEF NextNode, StaticEdge, START, END
  <2>3. n # "router" /\ old.last = "router" => v.route \in Routes
    BY <1>1, <2>1 DEF NextNode, RouteDecision, NodeNames, END
  <2> QED BY <1>2, <2>2, <2>3, NullAssumption
<1>4. /\ c.last = n /\ c.vals.steps > 0 /\ c.vals.query = w.query
      /\ c.vals.so = w.so /\ c.vals.errors = w.errors /\ c.vals.route = w.route
  BY AfterFields
<1>5. /\ w.query = v.query
      /\ n # "router" => w.route = v.route
      /\ v.errors => w.errors
      /\ n # "structured_output" => w.so = v.so
      /\ n = "structured_output" => w.so # NULL \/ w.errors
      /\ n = "checkpoint" => audit' = audit \cup {AuditRow(v)} \/ w.errors
  BY DEF Stepping, NodeEffect, ExternalEffect
<1> HIDE DEF v, old, c
<1>6. n \in AfterOutput => w.so # NULL \/ w.errors
  BY <1>2, <1>3, <1>5
<1>7. ASSUME n \in AfterAudit, ~w.errors
      PROVE  \E row \in audit' : row.query = w.query /\ row.output
  <2>1. CASE n = "checkpoint"
    <3>1. v.so # NULL
      BY <1>2, <1>3, <1>5, <1>7, <2>1 DEF AfterOutput, AfterAudit
    <3>2. AuditRow(v) \in audit'
      BY <1>5, <1>7, <2>1
    <3> QED BY <1>5, <3>1, <3>2, AuditRowFields
  <2>2. CASE n # "checkpoint"
    <3>1. \E row \in audit : row.query = v.query /\ row.output
      BY <1>2, <1>3, <1>5, <1>7, <2>2 DEF Audited
    <3> QED BY <1>5, <3>1
  <2> QED BY <2>1, <2>2
<1> QED BY <1>3a, <1>4, <1>5, <1>6, <1>7 DEF PathSound, Audited, c

\* A decision touches neither the query, nor the errors, nor the steps, and
\* never takes an output away.
LEMMA UpdateFields ==
  ASSUME Inv, NEW q \in Requests, UpdateState(q)
  PROVE  /\ ckpt \in Checkpoints /\ ckpt \in Snapshots /\ Sound(ckpt, decisions)
         /\ ckpt' \in Checkpoints /\ ckpt' # NULL
         /\ ckpt'.last = ckpt.last /\ ckpt'.next = NextNode(ckpt.last, ckpt'.vals)
         /\ ckpt'.vals.query = ckpt.vals.query /\ ckpt'.vals.route = ckpt.vals.route
         /\ ckpt'.vals.errors = ckpt.vals.errors /\ ckpt'.vals.steps = ckpt.vals.steps
         /\ ckpt'.vals.auto = ckpt.vals.auto /\ ckpt'.vals.final = ckpt.vals.final
         /\ ckpt'.vals.kbUpdated = ckpt.vals.kbUpdated
         /\ ckpt'.vals.status = reviews[q].action
         /\ ckpt'.vals.record = [reviewer |-> q, action |-> reviews[q].action]
         /\ ~Edited(q) => ckpt'.vals.so = ckpt.vals.so
         /\ Edited(q) => /\ ckpt'.vals.so \in StructuredOutputs
                         /\ ckpt'.vals.so.answer = reviews[q].edit
<1> DEFINE u == Update(q)
           edited == [answer |-> reviews[q].edit,
                      cites |-> IF reviews[q].seen = NULL THEN NULL
                                                          ELSE reviews[q].seen.cites]
           record == [reviewer |-> q, action |-> reviews[q].action]
           output == IF Edited(q) THEN edited ELSE ckpt.vals.so
<1>1. /\ reviews[q].pc = "checked"
      /\ ckpt' = [ckpt EXCEPT !.vals = u, !.next = NextNode(ckpt.last, u)]
  BY DEF UpdateState
<1>2. /\ ckpt \in Checkpoints /\ ckpt \in Snapshots /\ Sound(ckpt, decisions)
      /\ reviews[q] \in ReviewStates
  BY <1>1 DEF Inv, TypeOK, Snapshots
<1>3. ckpt'.vals = u /\ ckpt'.last = ckpt.last /\ ckpt'.next = NextNode(ckpt.last, u)
  BY <1>1, <1>2 DEF Checkpoints
<1>4. Inv'
  BY ReviewInv
<1>5. ckpt' \in Checkpoints /\ ckpt' # NULL
  BY <1>1, <1>2, <1>4, CheckpointAssumption DEF Inv, TypeOK, UpdateState
<1>6. u = [ckpt.vals EXCEPT !.status = reviews[q].action, !.record = record, !.so = output]
  BY DEF Update
<1>7. Edited(q) => edited \in StructuredOutputs /\ edited.answer = reviews[q].edit
  BY <1>2 DEF Edited, ReviewStates, StructuredOutputs, Answers
<1>8. ckpt.vals \in AppStates
  BY <1>2 DEF Checkpoints
<1> HIDE DEF u, record, output
<1>9. /\ u.query = ckpt.vals.query /\ u.route = ckpt.vals.route
      /\ u.errors = ckpt.vals.errors /\ u.steps = ckpt.vals.steps
      /\ u.auto = ckpt.vals.auto /\ u.final = ckpt.vals.final
      /\ u.kbUpdated = ckpt.vals.kbUpdated
      /\ u.status = reviews[q].action /\ u.record = record /\ u.so = output
  BY <1>6, <1>8 DEF AppStates
<1>10. /\ ~Edited(q) => output = ckpt.vals.so
       /\ Edited(q) => output = edited
  BY DEF output
<1> HIDE DEF edited
<1> QED BY <1>2, <1>3, <1>5, <1>7, <1>9, <1>10 DEF record

LEMMA UpdatePath ==
  ASSUME Inv, PathInv, NEW q \in Requests, UpdateState(q), NEW d, d = ckpt'
  PROVE  PathSound(d)'
<1> DEFINE c == ckpt
<1>1. /\ d.last = c.last /\ d.vals.query = c.vals.query
      /\ d.vals.errors = c.vals.errors /\ d.vals.steps = c.vals.steps
      /\ d.vals.route = c.vals.route
      /\ c.vals.so # NULL => d.vals.so # NULL
      /\ c \in Snapshots
  BY UpdateFields, NullAssumption
<1>2. PathSound(c)
  BY <1>1 DEF PathInv
<1>3. audit' = audit
  BY DEF UpdateState, external
<1> HIDE DEF c
<1> QED BY <1>1, <1>2, <1>3 DEF PathSound, Audited

LEMMA PathInit == Init => PathInv
BY DEF Init, PathInv, Snapshots, IdleRun

LEMMA PathNext == Inv /\ PathInv /\ [Next]_vars => PathInv'
<1> SUFFICES ASSUME Inv, PathInv, [Next]_vars PROVE PathInv'
  OBVIOUS
<1>1. CASE UNCHANGED vars
  BY <1>1 DEF vars, PathInv, PathSound, Snapshots, Audited
<1>2. CASE Next
  <2>1. audit \subseteq audit'
    BY <1>2, SnapshotStep
  <2>2. ASSUME NEW c \in Snapshots' PROVE PathSound(c)'
    <3>1. CASE c \in Snapshots
      BY <2>1, <3>1 DEF PathInv, PathSound, Audited
    <3>2. CASE \E s \in Submissions : c = Begun(s)
      BY <3>2 DEF Begun, PathSound, START, AfterOutput, AfterAudit
    <3>3. CASE \E r \in RunIds, n \in NodeNames, w \in AppStates :
                 Stepping(r, n, w) /\ c = After(n, w)
      BY <2>1, <3>3, SteppingPath
    <3>4. CASE \E q \in Requests : UpdateState(q) /\ c = ckpt'
      BY <3>4, UpdatePath
    <3> QED BY <1>2, <3>1, <3>2, <3>3, <3>4, SnapshotStep
  <2> QED BY <2>2 DEF PathInv
<1> QED BY <1>1, <1>2

\* Whatever happens, every checkpoint that is past a node has what the node
\* leaves: an output or an error, an audit row or an error.
THEOREM PathInvariance == Spec => [](Inv /\ PathInv)
<1>1. Init => Inv /\ PathInv
  BY InitInv, PathInit
<1>2. Inv /\ PathInv /\ [Next]_vars => (Inv /\ PathInv)'
  BY NextInv, PathNext
<1> QED BY <1>1, <1>2, PTL DEF Spec

\* No answer waits for a reviewer or is released without its audit row or an
\* error that says why (checkpoint_node), with any number of submissions,
\* reviewers, dying runs and crashes.
THEOREM AuditTrail == Spec => []AuditedOrReported
<1>1. ASSUME Inv, PathInv, ckpt # NULL,
             ckpt.next = "human_approval" \/ ckpt.vals.final # NULL
      PROVE  Audited(ckpt.vals)
  <2>1. ckpt \in Checkpoints /\ Sound(ckpt, decisions) /\ PathSound(ckpt)
    BY <1>1 DEF Inv, TypeOK, PathInv, Snapshots
  <2>2. ckpt.last \in AfterAudit
    BY <1>1, <2>1, Predecessors DEF Sound, FinalSound, AfterAudit
  <2> QED BY <2>1, <2>2 DEF PathSound
<1>2. Inv /\ PathInv => AuditedOrReported
  BY <1>1 DEF AuditedOrReported, Audited
<1> QED BY <1>2, PathInvariance, PTL

-----------------------------------------------------------------------------
(***************************************************************************)
(* The reported status, and what backs it.                                 *)
(***************************************************************************)
\* A step of a run, by the run that takes it and the others.
LEMMA SteppingRuns ==
  ASSUME Inv, NEW r \in RunIds, NEW n \in NodeNames, NEW w \in AppStates,
         Stepping(r, n, w), NEW c, c = After(n, w)
  PROVE  /\ ckpt' = c
         /\ \A i \in RunIds : i # r => runs'[i] = runs[i]
         /\ StopsBefore(c.next) => runs'[r].pc = "ended" /\ runs'[r].cp = NULL
         /\ ~StopsBefore(c.next) => runs'[r].pc = "active" /\ runs'[r].cp = c
<1> DEFINE run == IF StopsBefore(c.next) THEN [pc |-> "ended", cp |-> NULL]
                                         ELSE [pc |-> "active", cp |-> c]
<1>1. ckpt' = c /\ runs' = [runs EXCEPT ![r] = run]
  BY DEF Stepping
<1>2. /\ StopsBefore(c.next) => run.pc = "ended" /\ run.cp = NULL
      /\ ~StopsBefore(c.next) => run.pc = "active" /\ run.cp = c
  OBVIOUS
<1>3. runs \in [RunIds -> RunStates]
  BY DEF Inv, TypeOK
<1> HIDE DEF run
<1> QED BY <1>1, <1>2, <1>3

\* The status of a snapshot: running while a node is left to run that needs no
\* reviewer.
LEMMA StatusOf ==
  ASSUME NEW c \in Checkpoints, c.next = NextNode(c.last, c.vals), PathSound(c)
  PROVE  /\ DeriveStatus(c) = "running" <=> ~StopsBefore(c.next)
         /\ DeriveStatus(c) = "awaiting_approval" <=> c.next = "human_approval"
         /\ DeriveStatus(c) # "not_found"
         /\ c.next = END =>
              DeriveStatus(c) = IF c.vals.final # NULL THEN "completed"
                                ELSE IF c.vals.status = "rejected" THEN "rejected"
                                ELSE "failed"
<1>1. c # NULL
  BY CheckpointAssumption
<1>2. c.next = END => c.last # START
  BY DEF NextNode, StaticEdge, START, END
<1>3. c.vals.steps \in Nat
  BY DEF Checkpoints, AppStates
<1>4. c.next = END => c.vals.steps # 0
  BY <1>2, <1>3 DEF PathSound
<1> QED BY <1>1, <1>4 DEF DeriveStatus, StopsBefore, END

\* The thread's own status.
StatusSound ==
  /\ ckpt = NULL => Status = "not_found"
  /\ ckpt # NULL =>
       /\ ckpt \in Checkpoints /\ Sound(ckpt, decisions) /\ PathSound(ckpt)
       /\ Status = "running" <=> ~StopsBefore(ckpt.next)
       /\ Status = "awaiting_approval" <=> ckpt.next = "human_approval"
       /\ Status # "not_found"
       /\ ckpt.next = END =>
            Status = IF ckpt.vals.final # NULL THEN "completed"
                     ELSE IF ckpt.vals.status = "rejected" THEN "rejected"
                     ELSE "failed"

LEMMA ThreadStatus == Inv /\ PathInv => StatusSound
<1> SUFFICES ASSUME Inv, PathInv PROVE StatusSound
  OBVIOUS
<1>1. ckpt = NULL => Status = "not_found"
  BY DEF Status, DeriveStatus
<1>2. ASSUME ckpt # NULL PROVE StatusSound
  <2>1. ckpt \in Checkpoints /\ Sound(ckpt, decisions) /\ PathSound(ckpt)
    BY <1>2 DEF Inv, TypeOK, PathInv, Snapshots
  <2>2. ckpt.next = NextNode(ckpt.last, ckpt.vals)
    BY <2>1 DEF Sound
  <2> QED BY <1>2, <2>1, <2>2, StatusOf DEF StatusSound, Status
<1> QED BY <1>1, <1>2 DEF StatusSound

LEMMA NextStatus == (Inv /\ PathInv)' => StatusSound'
BY ThreadStatus, PTL

\* Who works on a session that is not at a stop, as long as nothing crashed.
Backed ==
  faults = 0 /\ crashes = 0 /\ ckpt # NULL /\ ~StopsBefore(ckpt.next)
    => \/ \E r \in RunIds : runs[r].pc = "active"
       \/ \E q \in Requests : reviews[q].pc = "updated"

LEMMA BackedNext == Inv /\ Backed /\ [Next]_vars => Backed'
<1> SUFFICES ASSUME Inv, Backed, [Next]_vars, faults' = 0, crashes' = 0,
                    ckpt' # NULL, ~StopsBefore(ckpt'.next)
             PROVE  \/ \E r \in RunIds : runs'[r].pc = "active"
                    \/ \E q \in Requests : reviews'[q].pc = "updated"
  BY DEF Backed
<1> USE DEF budget
<1>0. /\ runs \in [RunIds -> RunStates] /\ reviews \in [Requests -> ReviewStates]
      /\ faults \in Nat /\ crashes \in Nat
  BY BoundsAssumption DEF Inv, TypeOK
<1>1. CASE UNCHANGED vars
  BY <1>1 DEF vars, Backed
<1>2. ASSUME NEW s \in Submissions, SubmitWorkflow(s)
      PROVE  \/ \E r \in RunIds : runs'[r].pc = "active"
             \/ \E q \in Requests : reviews'[q].pc = "updated"
  BY <1>0, <1>2 DEF SubmitWorkflow, Backed, RunStates
<1>3. ASSUME NEW s \in Submissions, BeginRun(s)
      PROVE  \E r \in RunIds : runs'[r].pc = "active"
  <2>1. runs'[s].pc = "active"
    BY <1>0, <1>3 DEF BeginRun, RunIds
  <2> QED BY <2>1 DEF RunIds
<1>4. ASSUME NEW r \in RunIds, RunNode(r)
      PROVE  \E i \in RunIds : runs'[i].pc = "active"
  <2>1. PICK n \in NodeNames, w \in AppStates : Stepping(r, n, w)
    BY <1>4, NodeStep
  <2>2. runs'[r].pc = "active"
    BY <2>1, SteppingRuns
  <2> QED BY <2>2
<1>5. ASSUME NEW r \in RunIds, RunDies(r) PROVE FALSE
  BY <1>0, <1>5 DEF RunDies
<1>6. ASSUME ServerCrash PROVE FALSE
  BY <1>0, <1>6 DEF ServerCrash, CrashLeaving
<1>7. ASSUME NEW q \in Requests, CheckAwaiting(q) \/ Refuse(q)
      PROVE  \/ \E r \in RunIds : runs'[r].pc = "active"
             \/ \E p \in Requests : reviews'[p].pc = "updated"
  <2>1. /\ reviews[q].pc = "idle"
        /\ \A p \in Requests : p # q => reviews'[p] = reviews[p]
        /\ UNCHANGED <<ckpt, runs, faults, crashes>>
    BY <1>0, <1>7 DEF CheckAwaiting, Refuse
  <2> QED BY <2>1 DEF Backed
<1>8. ASSUME NEW q \in Requests, UpdateState(q)
      PROVE  \E p \in Requests : reviews'[p].pc = "updated"
  BY <1>0, <1>8 DEF UpdateState, ReviewStates
<1>9. ASSUME NEW q \in Requests, ResumeRun(q)
      PROVE  \E r \in RunIds : runs'[r].pc = "active"
  <2>1. ckpt'.next # END
    BY DEF StopsBefore
  <2>2. runs' = [runs EXCEPT ![q] = [pc |-> "active", cp |-> ckpt]]
    BY <1>9, <2>1 DEF ResumeRun
  <2>3. runs'[q].pc = "active"
    BY <1>0, <2>2 DEF RunIds
  <2> QED BY <2>3 DEF RunIds
<1> QED
  BY <1>1, <1>2, <1>3, <1>4, <1>5, <1>6, <1>7, <1>8, <1>9 DEF Next

\* Without crashes and dying runs a session that reports "running" is worked
\* on, however many submissions and reviewers race (POST /workflow's background
\* task, submit_decision's ainvoke): only a crash can strand it.
THEOREM RunningSessionsAreBacked ==
  Spec => [](faults = 0 /\ crashes = 0 => RunningIsBacked)
<1>1. Init => Backed
  BY DEF Init, Backed
<1>2. Inv /\ PathInv /\ Backed => (faults = 0 /\ crashes = 0 => RunningIsBacked)
  BY ThreadStatus DEF StatusSound, Backed, RunningIsBacked
<1> QED BY <1>1, <1>2, BackedNext, Invariance, PathInvariance, PTL DEF Spec

-----------------------------------------------------------------------------
(***************************************************************************)
(* ThreadInv: with one submission, its run and the reviewers' never meet.  *)
(***************************************************************************)
\* A run that somebody resumed belongs to a request.
LEMMA Resumed ==
  ASSUME ThreadInv, NEW q \in Requests, runs[q].pc # "idle"
  PROVE  reviews[q].pc = "resumed" /\ Reviewing
<1>1. reviews[q].pc = "resumed"
  BY DEF ThreadInv, ReviewRunsSound
<1> QED BY <1>1 DEF Reviewing

\* While the submission's run is active nobody reviews and it holds the
\* thread's checkpoint; nothing else is active.
LEMMA SubmissionAlone ==
  ASSUME OneSubmission, ThreadInv, NEW s \in Submissions,
         runs[s].pc \in {"starting", "active"}
  PROVE  /\ ~Reviewing
         /\ \A i \in RunIds : i # s => runs[i].cp = NULL
<1>1. ~Reviewing
  <2>1. CASE runs[s].pc = "starting"
    BY <2>1 DEF ThreadInv, SubmissionRunSound
  <2>2. CASE runs[s].pc = "active"
    BY <2>2 DEF ThreadInv, SubmissionRunSound
  <2> QED BY <2>1, <2>2
<1>2. ASSUME NEW i \in RunIds, i # s PROVE runs[i].cp = NULL
  <2>1. i \in Requests
    BY <1>2 DEF OneSubmission, RunIds
  <2>2. runs[i].pc = "idle"
    BY <1>1, <2>1, Resumed
  <2> QED BY <2>2 DEF ThreadInv
<1> QED BY <1>1, <1>2

\* A step of the submission's run.
LEMMA SubmissionStep ==
  ASSUME OneSubmission, Inv, ThreadInv, NEW s \in Submissions, NEW n \in NodeNames,
         NEW w \in AppStates, Stepping(s, n, w)
  PROVE  ThreadInv'
<1> DEFINE c == After(n, w)
           v == Vals(s)
<1>1. s \in RunIds /\ runs[s].pc = "active" /\ runs[s].cp \in Snapshots
  BY ActiveRun, CheckpointAssumption DEF Stepping, At, RunIds, Snapshots
<1>2. /\ runs[s].cp = ckpt /\ ~StopsBefore(ckpt.next) /\ ~Reviewing
      /\ \A i \in RunIds : i # s => runs[i].cp = NULL
  BY <1>1, SubmissionAlone DEF ThreadInv, SubmissionRunSound
<1>3. ckpt.next = n /\ v = ckpt.vals /\ v \in AppStates
  BY <1>1, <1>2, ActiveRun DEF Stepping
<1>4. /\ ckpt' = c
      /\ \A i \in RunIds : i # s => runs'[i] = runs[i]
      /\ StopsBefore(c.next) => runs'[s].pc = "ended" /\ runs'[s].cp = NULL
      /\ ~StopsBefore(c.next) => runs'[s].pc = "active" /\ runs'[s].cp = c
  BY <1>1, SteppingRuns
<1>5. /\ c \in Checkpoints /\ c # NULL /\ c.last = n /\ c.next = NextNode(n, w)
      /\ c.vals.auto = w.auto /\ c.vals.record = w.record
  BY AfterFields
<1>6. reviews' = reviews
  BY DEF Stepping
<1>7. NodeEffect(n, v, w)
  BY DEF Stepping
<1>8. c.next = NextNode(c.last, c.vals)
  BY AfterType, SteppedSame
<1> HIDE DEF c
<1>9. ~Reviewing'
  BY <1>2, <1>6 DEF Reviewing
<1>10. \A r \in RunIds : runs'[r].cp # NULL => runs'[r].pc = "active"
  BY <1>2, <1>4
<1>11. SubmissionRunSound'
  BY <1>1, <1>4, <1>9 DEF OneSubmission, SubmissionRunSound
<1>12. ReviewRunsSound'
  <2>1. ASSUME NEW q \in Requests
        PROVE  /\ reviews'[q].pc \in {"idle", "refused"}
               /\ runs'[q] = runs[q] /\ runs[q].cp = NULL
               /\ runs[q].pc = "idle"
    BY <1>2, <1>4, <1>9, Resumed, ConstantsAssumption DEF Reviewing, RunIds
  <2> QED BY <2>1 DEF ReviewRunsSound
<1>13. Awaiting' => /\ ckpt'.last = "web_search"
                    /\ \A r \in RunIds : runs'[r].cp # NULL => runs'[r].cp.next = "human_approval"
  <2>1. c.next = "human_approval" => n \in {"web_search", "human_approval"}
    BY <1>5, <1>8, Predecessors
  <2>2. n # "human_approval"
    BY <1>2, <1>3 DEF StopsBefore
  <2>3. c.next = "human_approval" => \A r \in RunIds : runs'[r].cp = NULL
    BY <1>2, <1>4 DEF StopsBefore
  <2> QED BY <1>4, <1>5, <2>1, <2>2, <2>3 DEF Awaiting
<1>14. c.vals.auto => ByGate(c.vals)
  <2>1. v.auto => ByGate(v)
    BY <1>1, <1>2, <1>3 DEF ThreadInv
  <2>2. CASE n = "auto_approval_gate"
    <3>1. w.auto => w.record = GateApproval
      BY <1>7, <2>2 DEF NodeEffect
    <3>2. GateApproval # NULL /\ GateApproval.reviewer = SYSTEM
      BY NullAssumption DEF GateApproval, Records
    <3> QED BY <1>5, <3>1, <3>2 DEF ByGate
  <2>3. CASE n # "auto_approval_gate"
    BY <1>5, <1>7, <2>1, <2>3 DEF NodeEffect, ByGate
  <2> QED BY <2>2, <2>3
<1>15. \A d \in Snapshots' : d.vals.auto => ByGate(d.vals)
  <2>1. \A d \in Snapshots' : d = c
    BY <1>2, <1>4, <1>5 DEF Snapshots
  <2> QED BY <1>14, <2>1
<1> QED BY <1>9, <1>10, <1>11, <1>12, <1>13, <1>15 DEF ThreadInv

\* A step of a run that a reviewer resumed stays on the way to the release.
LEMMA ReviewedStep ==
  ASSUME OneSubmission, Inv, ThreadInv, NEW q \in Requests, NEW n \in NodeNames,
         NEW w \in AppStates, Stepping(q, n, w)
  PROVE  /\ n \in {"human_approval", "final_response", "knowledge_update"}
         /\ w.record = Vals(q).record /\ w.status = Vals(q).status
         /\ w.record # NULL /\ ~ByGate(w) /\ ~w.auto /\ w.status # "pending"
         /\ NextNode(n, w) # "human_approval"
         /\ Reviewing
<1> DEFINE c == runs[q].cp
           v == Vals(q)
<1>1. /\ q \in RunIds /\ runs[q].pc = "active"
      /\ c \in Checkpoints /\ Sound(c, decisions) /\ c.next = n /\ v = c.vals
      /\ c # NULL /\ c \in Snapshots
  BY ActiveRun, CheckpointAssumption DEF Stepping, At, RunIds, Snapshots
<1>2. UnderReview(c) /\ v.record # NULL
  BY <1>1 DEF ThreadInv, ReviewRunsSound
<1>3. n \in {"human_approval", "final_response", "knowledge_update"}
  BY <1>1, <1>2 DEF Sound, UnderReview, OnReviewPath, NextNode, ApprovalDecision,
     PostFinalDecision, StaticEdge, NodeNames, START, END
<1>4. w.record = v.record /\ w.status = v.status /\ w.auto = v.auto
  BY <1>3 DEF Stepping, NodeEffect
<1>5. v.status # "pending" /\ ~ByGate(v)
  BY <1>1, <1>2 DEF Sound, RecordSound, UnderReview
<1>6. ~v.auto
  BY <1>1, <1>5 DEF ThreadInv
<1>7. v.status \in {"pending", "approved", "rejected"}
  BY <1>1 DEF Checkpoints, AppStates
<1>8. NextNode(n, w) # "human_approval"
  BY <1>3, <1>4, <1>5, <1>7
  DEF NextNode, ApprovalDecision, PostFinalDecision, StaticEdge, END, START
<1>9. Reviewing
  BY <1>1, Resumed
<1> QED BY <1>2, <1>3, <1>4, <1>5, <1>6, <1>8, <1>9 DEF ByGate

LEMMA ReviewerStep ==
  ASSUME OneSubmission, Inv, ThreadInv, NEW q \in Requests, NEW n \in NodeNames,
         NEW w \in AppStates, Stepping(q, n, w)
  PROVE  ThreadInv'
<1> DEFINE c == After(n, w)
<1>1. /\ q \in RunIds /\ runs[q].pc = "active"
  BY DEF Stepping, At, RunIds
<1>2. /\ n \in {"human_approval", "final_response", "knowledge_update"}
      /\ w.record # NULL /\ ~ByGate(w) /\ ~w.auto
      /\ NextNode(n, w) # "human_approval"
      /\ Reviewing
  BY ReviewedStep
<1>3. /\ ckpt' = c
      /\ \A i \in RunIds : i # q => runs'[i] = runs[i]
      /\ StopsBefore(c.next) => runs'[q].pc = "ended" /\ runs'[q].cp = NULL
      /\ ~StopsBefore(c.next) => runs'[q].pc = "active" /\ runs'[q].cp = c
  BY <1>1, SteppingRuns
<1>4. /\ c \in Checkpoints /\ c # NULL /\ c.last = n /\ c.next = NextNode(n, w)
      /\ c.vals.auto = w.auto /\ c.vals.record = w.record
  BY AfterFields
<1>5. reviews' = reviews
  BY DEF Stepping
<1> HIDE DEF c
<1>6. UnderReview(c) /\ c.vals.record # NULL /\ ~c.vals.auto
  BY <1>2, <1>4 DEF UnderReview, OnReviewPath, ByGate
<1>7. \A r \in RunIds : runs'[r].cp # NULL => runs'[r].pc = "active"
  BY <1>3 DEF ThreadInv
<1>8. SubmissionRunSound'
  <2>1. ASSUME NEW s \in Submissions
        PROVE  runs'[s] = runs[s] /\ runs[s].pc \notin {"idle", "starting", "active"}
    <3>1. s # q /\ s \in RunIds
      BY ConstantsAssumption DEF RunIds
    <3>2. ckpt # NULL
      BY <1>2 DEF ThreadInv
    <3> QED BY <1>2, <1>3, <3>1, <3>2 DEF ThreadInv, SubmissionRunSound
  <2> QED BY <2>1 DEF SubmissionRunSound
<1>9. ReviewRunsSound'
  <2>1. ASSUME NEW p \in Requests
        PROVE  /\ runs'[p].pc # "idle" => reviews'[p].pc = "resumed"
               /\ runs'[p].cp # NULL => /\ UnderReview(runs'[p].cp)
                                        /\ runs'[p].cp.vals.record # NULL
                                        /\ runs'[p].cp.next # END
    <3>1. CASE p = q
      BY <1>1, <1>3, <1>5, <1>6, <3>1, Resumed DEF StopsBefore
    <3>2. CASE p # q
      BY <1>3, <1>5, <3>2 DEF ThreadInv, ReviewRunsSound, RunIds
    <3> QED BY <3>1, <3>2
  <2> QED BY <1>3, <1>6, <2>1 DEF ReviewRunsSound, UnderReview, ByGate
<1>10. ~Awaiting'
  BY <1>2, <1>3, <1>4 DEF Awaiting
<1>11. \A d \in Snapshots' : d.vals.auto => ByGate(d.vals)
  <2>1. \A i \in RunIds : runs'[i].cp \in {runs[i].cp, NULL, c}
    BY <1>3
  <2>2. \A d \in Snapshots' : d \in Snapshots \/ d = c
    BY <1>3, <2>1 DEF Snapshots
  <2> QED BY <1>6, <2>2 DEF ThreadInv
<1> QED BY <1>3, <1>4, <1>6, <1>7, <1>8, <1>9, <1>10, <1>11 DEF ThreadInv

\* The client's calls: a submission and the beginning of its run.
LEMMA SubmitThread ==
  ASSUME OneSubmission, Inv, ThreadInv, NEW s \in Submissions,
         SubmitWorkflow(s) \/ BeginRun(s)
  PROVE  ThreadInv'
<1> USE DEF external, budget
<1>1. runs \in [RunIds -> RunStates] /\ s \in RunIds /\ s \notin Requests
  BY ConstantsAssumption DEF Inv, TypeOK, RunIds
<1>2. CASE SubmitWorkflow(s)
  <2>1. /\ runs[s].pc = "idle" /\ runs'[s].pc = "starting"
        /\ \A i \in RunIds : runs'[i].cp = runs[i].cp /\ (i # s => runs'[i] = runs[i])
        /\ UNCHANGED <<ckpt, reviews>>
    BY <1>1, <1>2 DEF SubmitWorkflow, RunStates
  <2>2. ckpt = NULL
    BY <2>1 DEF ThreadInv, SubmissionRunSound
  <2>3. runs[s].cp = NULL
    BY <1>1, <2>1 DEF ThreadInv
  <2>4. SubmissionRunSound'
    BY <1>1, <2>1, <2>2 DEF ThreadInv, SubmissionRunSound, OneSubmission
  <2>5. ReviewRunsSound'
    BY <1>1, <2>1 DEF ThreadInv, ReviewRunsSound, RunIds
  <2>6. \A r \in RunIds : runs'[r].cp # NULL => runs'[r].pc = "active"
    BY <2>1, <2>3 DEF ThreadInv
  <2>7. Snapshots' = Snapshots
    BY <2>1 DEF Snapshots
  <2> QED BY <2>1, <2>2, <2>4, <2>5, <2>6, <2>7 DEF ThreadInv, Awaiting, Reviewing
<1>3. CASE BeginRun(s)
  <2>1. /\ runs[s].pc = "starting" /\ ckpt' = Begun(s)
        /\ runs' = [runs EXCEPT ![s] = [pc |-> "active", cp |-> Begun(s)]]
        /\ UNCHANGED reviews
    BY <1>3 DEF BeginRun, Begun
  <2>2. runs'[s].pc = "active" /\ runs'[s].cp = Begun(s)
    BY <1>1, <2>1
  <2>3. \A i \in RunIds : i # s => runs'[i] = runs[i] /\ runs[i].cp = NULL
    BY <1>1, <2>1, SubmissionAlone
  <2>4. ~Reviewing /\ ~Reviewing'
    BY <2>1, SubmissionAlone DEF Reviewing
  <2>5. /\ Begun(s).next = "router" /\ ~StopsBefore(Begun(s).next)
        /\ ~Begun(s).vals.auto
    BY DEF Begun, NextNode, StaticEdge, Input, InitialState, StopsBefore, START, END
  <2>6. SubmissionRunSound'
    BY <2>1, <2>2, <2>4, <2>5 DEF SubmissionRunSound, OneSubmission
  <2>7. ReviewRunsSound'
    <3>1. ASSUME NEW q \in Requests
          PROVE  /\ runs'[q].cp = NULL /\ runs'[q].pc = "idle"
                 /\ reviews'[q].pc \in {"idle", "refused"}
      BY <1>1, <2>1, <2>3, <2>4, Resumed DEF RunIds, Reviewing
    <3> QED BY <3>1 DEF ReviewRunsSound
  <2>8. \A r \in RunIds : runs'[r].cp # NULL => runs'[r].pc = "active"
    BY <2>2, <2>3
  <2>9. \A c \in Snapshots' : c = Begun(s)
    BY <2>1, <2>2, <2>3 DEF Snapshots
  <2> QED BY <2>1, <2>4, <2>5, <2>6, <2>7, <2>8, <2>9 DEF ThreadInv, Awaiting
<1> QED BY <1>2, <1>3

\* Runs that end without a checkpoint: a dying run, or all of them in a crash.
LEMMA FailureThread ==
  ASSUME Inv, ThreadInv,
         (\E r \in RunIds : RunDies(r)) \/ ServerCrash
  PROVE  ThreadInv'
<1>1. runs \in [RunIds -> RunStates] /\ reviews \in [Requests -> ReviewStates]
  BY DEF Inv, TypeOK
<1>2. /\ ckpt' = ckpt
      /\ \A i \in RunIds :
           \/ runs'[i] = runs[i]
           \/ /\ runs[i].pc \in {"starting", "active"}
              /\ runs'[i].pc = "dead" /\ runs'[i].cp = NULL
      /\ \A q \in Requests :
           \/ reviews'[q].pc = reviews[q].pc
           \/ reviews[q].pc \in {"checked", "updated"} /\ reviews'[q].pc = "lost"
  <2>1. ASSUME NEW r \in RunIds, RunDies(r)
        PROVE  /\ ckpt' = ckpt /\ reviews' = reviews
               /\ \A i \in RunIds :
                    \/ runs'[i] = runs[i]
                    \/ /\ runs[i].pc \in {"starting", "active"}
                       /\ runs'[i].pc = "dead" /\ runs'[i].cp = NULL
    BY <1>1, <2>1 DEF RunDies
  <2>2. ASSUME ServerCrash
        PROVE  /\ ckpt' = ckpt
               /\ \A i \in RunIds :
                    \/ runs'[i] = runs[i]
                    \/ /\ runs[i].pc \in {"starting", "active"}
                       /\ runs'[i].pc = "dead" /\ runs'[i].cp = NULL
               /\ \A q \in Requests :
                    \/ reviews'[q].pc = reviews[q].pc
                    \/ reviews[q].pc \in {"checked", "updated"} /\ reviews'[q].pc = "lost"
    BY <1>1, <2>2 DEF ServerCrash, CrashLeaving, ReviewStates
  <2> QED BY <2>1, <2>2
<1>3. Reviewing' <=> Reviewing
  <2>1. \A q \in Requests : reviews'[q].pc \notin {"idle", "refused"}
                              <=> reviews[q].pc \notin {"idle", "refused"}
    BY <1>2
  <2> QED BY <2>1 DEF Reviewing
<1>4. SubmissionRunSound'
  BY <1>2, <1>3 DEF ThreadInv, SubmissionRunSound, RunIds
<1>5. ReviewRunsSound'
  <2>1. ASSUME NEW q \in Requests
        PROVE  /\ runs'[q].pc # "idle" => reviews'[q].pc = "resumed"
               /\ runs'[q].cp # NULL => runs'[q].cp = runs[q].cp
               /\ reviews'[q].pc \in {"updated", "resumed"}
                    => reviews[q].pc \in {"updated", "resumed"}
    BY <1>2, Resumed DEF RunIds
  <2> QED BY <1>2, <2>1 DEF ThreadInv, ReviewRunsSound
<1>6. \A r \in RunIds : runs'[r].cp # NULL => runs'[r] = runs[r]
  BY <1>2
<1>7. Snapshots' \subseteq Snapshots
  BY <1>2, <1>6 DEF Snapshots
<1> QED BY <1>2, <1>3, <1>4, <1>5, <1>6, <1>7 DEF ThreadInv, Awaiting

\* A request that finds the session awaiting approval, or is refused.
LEMMA CheckThread ==
  ASSUME Inv, ThreadInv, NEW q \in Requests, CheckAwaiting(q) \/ Refuse(q)
  PROVE  ThreadInv'
<1>1. /\ reviews \in [Requests -> ReviewStates]
      /\ reviews[q].pc = "idle" /\ UNCHANGED <<ckpt, runs>>
      /\ \A p \in Requests : p # q => reviews'[p] = reviews[p]
      /\ \/ Awaiting /\ reviews'[q].pc = "checked"
         \/ reviews'[q].pc = "refused"
  BY DEF Inv, TypeOK, CheckAwaiting, Refuse, ReviewStates
<1>2. runs[q].pc = "idle"
  BY <1>1, Resumed
<1>3. Awaiting => UnderReview(ckpt) /\ ckpt.next = "human_approval"
  BY DEF ThreadInv, Awaiting, Inv, Sound, RecordSound, UnderReview, OnReviewPath
<1>4. Reviewing' => Reviewing \/ Awaiting
  BY <1>1 DEF Reviewing
<1>5. SubmissionRunSound'
  BY <1>1, <1>3, <1>4 DEF ThreadInv, SubmissionRunSound, StopsBefore
<1>6. ReviewRunsSound'
  BY <1>1, <1>2 DEF ThreadInv, ReviewRunsSound
<1>7. Snapshots' = Snapshots /\ Awaiting' = Awaiting
  BY <1>1 DEF Snapshots, Awaiting
<1>8. Reviewing' => ckpt' # NULL /\ UnderReview(ckpt')
  BY <1>1, <1>3, <1>4 DEF ThreadInv, Awaiting
<1> QED BY <1>1, <1>5, <1>6, <1>7, <1>8 DEF ThreadInv

\* A decision is written to a thread that awaits approval or has been through
\* the approval; it does not move the run.
LEMMA DecideStays ==
  ASSUME Inv, ThreadInv, NEW q \in Requests, UpdateState(q)
  PROVE  /\ ckpt # NULL /\ UnderReview(ckpt) /\ Reviewing
         /\ ckpt'.vals.status \in {"approved", "rejected"}
         /\ ckpt'.vals.record # NULL /\ ~ByGate(ckpt'.vals)
         /\ ckpt'.last = ckpt.last
         /\ ckpt'.next = "human_approval" <=> ckpt.last = "web_search"
<1>1. Reviewing
  BY DEF UpdateState, Reviewing
<1>2. ckpt # NULL /\ UnderReview(ckpt)
  BY <1>1 DEF ThreadInv
<1> DEFINE record == [reviewer |-> q, action |-> reviews[q].action]
<1>3. /\ ckpt'.last = ckpt.last /\ ckpt'.next = NextNode(ckpt.last, ckpt'.vals)
      /\ ckpt'.vals.status = reviews[q].action /\ ckpt'.vals.record = record
  BY UpdateFields
<1>4. reviews[q].action \in {"approved", "rejected"}
  BY DEF Inv, TypeOK, ReviewStates
<1>5. record \in Records /\ record # NULL /\ record.reviewer # SYSTEM
  BY <1>4, NullAssumption, ConstantsAssumption DEF Records
<1> HIDE DEF record
<1>6. ckpt'.next = "human_approval" <=> ckpt.last = "web_search"
  BY <1>2, <1>3, <1>4 DEF UnderReview, OnReviewPath, NextNode, ApprovalDecision,
     PostFinalDecision, StaticEdge, END, START
<1> QED BY <1>1, <1>2, <1>3, <1>4, <1>5, <1>6 DEF ByGate

LEMMA UpdateThread ==
  ASSUME Inv, ThreadInv, NEW q \in Requests, UpdateState(q)
  PROVE  ThreadInv'
<1>1. /\ reviews \in [Requests -> ReviewStates]
      /\ runs' = runs /\ reviews' = [reviews EXCEPT ![q].pc = "updated"]
      /\ reviews[q].pc = "checked"
  BY DEF Inv, TypeOK, UpdateState
<1>2. /\ reviews'[q].pc = "updated"
      /\ \A p \in Requests : p # q => reviews'[p] = reviews[p]
  BY <1>1 DEF ReviewStates
<1>3. /\ ckpt # NULL /\ UnderReview(ckpt) /\ Reviewing
      /\ ckpt'.vals.record # NULL /\ ~ByGate(ckpt'.vals)
      /\ ckpt'.last = ckpt.last
      /\ ckpt'.next = "human_approval" <=> ckpt.last = "web_search"
  BY DecideStays
<1>4. /\ ckpt \in Snapshots /\ Sound(ckpt, decisions) /\ ckpt' # NULL
      /\ ckpt'.vals.auto = ckpt.vals.auto
  BY UpdateFields
<1>5. UnderReview(ckpt')
  BY <1>3 DEF UnderReview
<1>6. Reviewing'
  BY <1>2 DEF Reviewing
<1>7. \A s \in Submissions : runs'[s].pc \notin {"idle", "starting", "active"}
  BY <1>1, <1>3 DEF ThreadInv, SubmissionRunSound
<1>8. SubmissionRunSound'
  BY <1>7 DEF SubmissionRunSound
<1>9. ReviewRunsSound'
  BY <1>1, <1>2, <1>3 DEF ThreadInv, ReviewRunsSound
<1>10. Awaiting' => Awaiting
  BY <1>3, <1>4 DEF Awaiting, Sound, NextNode, StaticEdge, START, END
<1>11. ~ckpt'.vals.auto
  BY <1>3, <1>4 DEF ThreadInv, UnderReview
<1>12. \A c \in Snapshots' : c \in Snapshots \/ c = ckpt'
  BY <1>1 DEF Snapshots
<1>13. \A c \in Snapshots' : c.vals.auto => ByGate(c.vals)
  BY <1>11, <1>12 DEF ThreadInv
<1> QED
  BY <1>1, <1>3, <1>4, <1>5, <1>8, <1>9, <1>10, <1>13 DEF ThreadInv, Awaiting

LEMMA ResumeThread ==
  ASSUME Inv, ThreadInv, NEW q \in Requests, ResumeRun(q)
  PROVE  ThreadInv'
<1>1. /\ reviews \in [Requests -> ReviewStates] /\ runs \in [RunIds -> RunStates]
      /\ reviews[q].pc = "updated" /\ ckpt' = ckpt
      /\ reviews' = [reviews EXCEPT ![q].pc = "resumed"]
      /\ \/ runs' = [runs EXCEPT ![q] = [pc |-> "ended", cp |-> NULL]]
         \/ /\ runs' = [runs EXCEPT ![q] = [pc |-> "active", cp |-> ckpt]]
            /\ ckpt.next # END
  BY DEF Inv, TypeOK, ResumeRun
<1>2. /\ reviews'[q].pc = "resumed"
      /\ \A p \in Requests : p # q => reviews'[p] = reviews[p]
  BY <1>1 DEF ReviewStates
<1>3. /\ \A i \in RunIds : i # q => runs'[i] = runs[i]
      /\ \/ runs'[q].pc = "ended" /\ runs'[q].cp = NULL
         \/ runs'[q].pc = "active" /\ runs'[q].cp = ckpt /\ ckpt.next # END
  BY <1>1 DEF RunIds
<1>4. Reviewing /\ Reviewing'
  BY <1>1, <1>2 DEF Reviewing
<1>5. ckpt # NULL /\ UnderReview(ckpt) /\ ckpt.vals.record # NULL
  BY <1>1, <1>4 DEF ThreadInv, ReviewRunsSound
<1>6. SubmissionRunSound'
  BY <1>1, <1>3, <1>4, <1>5, ConstantsAssumption DEF ThreadInv, SubmissionRunSound, RunIds
<1>7. ReviewRunsSound'
  BY <1>1, <1>2, <1>3, <1>5 DEF ThreadInv, ReviewRunsSound, RunIds
<1>8. \A r \in RunIds : runs'[r].cp \in {runs[r].cp, NULL, ckpt}
  BY <1>3
<1>9. Snapshots' \subseteq Snapshots
  BY <1>1, <1>8 DEF Snapshots
<1>10. \A r \in RunIds : runs'[r].cp # NULL => runs'[r].pc = "active"
  BY <1>3 DEF ThreadInv
<1>11. Awaiting' => /\ Awaiting
                    /\ \A r \in RunIds : runs'[r].cp # NULL => runs'[r].cp.next = "human_approval"
  BY <1>1, <1>8 DEF ThreadInv, Awaiting
<1> QED BY <1>1, <1>5, <1>6, <1>7, <1>9, <1>10, <1>11 DEF ThreadInv

LEMMA ThreadInit == Init => ThreadInv
<1> SUFFICES ASSUME Init PROVE ThreadInv
  OBVIOUS
<1>1. /\ ckpt = NULL
      /\ \A r \in RunIds : runs[r].pc = "idle" /\ runs[r].cp = NULL
      /\ \A q \in Requests : reviews[q].pc = "idle"
  BY DEF Init, IdleRun, IdleReview
<1> QED
  BY <1>1 DEF ThreadInv, SubmissionRunSound, ReviewRunsSound, Reviewing, Awaiting,
     Snapshots, RunIds

LEMMA ThreadNext ==
  ASSUME OneSubmission
  PROVE  Inv /\ ThreadInv /\ [Next]_vars => ThreadInv'
<1> SUFFICES ASSUME Inv, ThreadInv, [Next]_vars PROVE ThreadInv'
  OBVIOUS
<1>1. CASE UNCHANGED vars
  BY <1>1 DEF vars, ThreadInv, SubmissionRunSound, ReviewRunsSound, Reviewing, Awaiting,
     Snapshots
<1>2. CASE \E s \in Submissions : SubmitWorkflow(s) \/ BeginRun(s)
  BY <1>2, SubmitThread
<1>3. CASE \E r \in RunIds : RunNode(r)
  BY <1>3, NodeStep, SubmissionStep, ReviewerStep DEF RunIds
<1>4. CASE (\E r \in RunIds : RunDies(r)) \/ ServerCrash
  BY <1>4, FailureThread
<1>5. CASE \E q \in Requests : \/ CheckAwaiting(q) \/ Refuse(q)
                               \/ UpdateState(q) \/ ResumeRun(q)
  BY <1>5, CheckThread, UpdateThread, ResumeThread
<1> QED BY <1>1, <1>2, <1>3, <1>4, <1>5 DEF Next

\* One submission keeps its thread to itself until it pauses or ends, and a
\* reviewer's run stays on the way to the release, with any number of
\* reviewers, dying runs and crashes.
THEOREM ThreadInvariance ==
  ASSUME OneSubmission
  PROVE  Spec => [](Inv /\ PathInv /\ ThreadInv)
BY ThreadInit, ThreadNext, Invariance, PathInvariance, PTL DEF Spec

\* The pause survives crashes and dying runs: a session that awaits approval
\* leaves it only through human_approval with a reviewer's written decision
\* (interrupt_before and the PostgreSQL checkpointer; one submission, because
\* a second one restarts the thread).
THEOREM PauseSurvives ==
  ASSUME OneSubmission
  PROVE  Spec => PauseIsDurable
<1> DEFINE Pause == Status = "awaiting_approval" /\ Status' # "awaiting_approval"
                      => /\ ckpt' # NULL
                         /\ ckpt'.last = "human_approval"
                         /\ \E d \in decisions : /\ d.reviewer = ckpt'.vals.record.reviewer
                                                 /\ d.action = ckpt'.vals.status
<1>1. ASSUME Inv, PathInv, ThreadInv, Inv', PathInv', [Next]_vars PROVE [Pause]_vars
  <2> SUFFICES ASSUME Next, Awaiting, ckpt' # NULL => ckpt'.next # "human_approval"
               PROVE  /\ ckpt' # NULL
                      /\ ckpt'.last = "human_approval"
                      /\ \E d \in decisions : /\ d.reviewer = ckpt'.vals.record.reviewer
                                              /\ d.action = ckpt'.vals.status
    BY <1>1, ThreadStatus DEF StatusSound, Awaiting, Status, DeriveStatus
  <2>1. ckpt # NULL /\ ckpt.next = "human_approval" /\ ckpt.last = "web_search"
    BY <1>1 DEF ThreadInv, Awaiting
  <2>2. ckpt' # ckpt
    BY <2>1
  <2>3. ASSUME NEW s \in Submissions, BeginRun(s) PROVE FALSE
    BY <1>1, <2>1, <2>3 DEF BeginRun, ThreadInv, SubmissionRunSound
  <2>4. ASSUME NEW q \in Requests, UpdateState(q) PROVE FALSE
    BY <1>1, <2>1, <2>4, DecideStays, UpdateFields
  <2>5. PICK r \in RunIds : RunNode(r)
    BY <2>2, <2>3, <2>4
    DEF Next, SubmitWorkflow, RunDies, CheckAwaiting, Refuse, ResumeRun, ServerCrash,
        CrashLeaving
  <2>6. PICK n \in NodeNames, w \in AppStates : Stepping(r, n, w)
    BY <1>1, <2>5, NodeStep
  <2>7. /\ runs[r].pc = "active" /\ runs[r].cp.next = n
        /\ runs[r].cp \in Checkpoints /\ Sound(runs[r].cp, decisions)
        /\ Vals(r) = runs[r].cp.vals /\ runs[r].cp # NULL
    BY <1>1, <2>6, ActiveRun, CheckpointAssumption DEF Stepping, At
  <2>8. r \in Requests
    BY <1>1, <2>1, <2>7 DEF ThreadInv, SubmissionRunSound, StopsBefore, RunIds
  <2>9. n = "human_approval"
    BY <1>1, <2>1, <2>7 DEF ThreadInv, Awaiting
  <2>10. /\ w.record = Vals(r).record /\ w.status = Vals(r).status
         /\ w.record # NULL /\ ~ByGate(w)
    BY <1>1, <2>6, <2>8, ReviewedStep
  <2>11. /\ ckpt' # NULL /\ ckpt'.last = n
         /\ ckpt'.vals.record = w.record /\ ckpt'.vals.status = w.status
    BY <2>6, AfterFields DEF Stepping
  <2>12. Decided(decisions, w.record.reviewer, w.status)
    BY <2>7, <2>10 DEF Sound, RecordSound, ByGate
  <2> QED BY <2>9, <2>11, <2>12 DEF Decided
<1> QED BY <1>1, ThreadInvariance, PTL DEF Spec, PauseIsDurable

-----------------------------------------------------------------------------
(***************************************************************************)
(* VerdictInv: with one reviewer the thread carries the decision, from the *)
(* draft that was shown to the release and the knowledge base.             *)
(***************************************************************************)
\* The run that takes a step holds the thread's latest checkpoint.
LEMMA LatestRun ==
  ASSUME Inv, ThreadInv, VerdictInv, NEW r \in RunIds, runs[r].pc = "active"
  PROVE  /\ runs[r].cp = ckpt /\ ckpt # NULL
         /\ ckpt \in Checkpoints /\ ckpt.vals \in AppStates /\ Sound(ckpt, decisions)
         /\ Vals(r) = ckpt.vals
<1>1. runs[r] \in RunStates /\ RunSound(r)
  BY DEF Inv, TypeOK
<1>2. runs[r].cp # NULL
  BY <1>1 DEF RunSound
<1>3. runs[r].cp = ckpt
  BY <1>2 DEF ThreadInv, SubmissionRunSound, VerdictInv, ReviewSound, RunIds
<1> QED BY <1>1, <1>2, <1>3 DEF RunSound, RunStates, Vals, Checkpoints

\* As long as nobody reviews there is no decision.
LEMMA NoDecision ==
  ASSUME Inv, VerdictInv, ~Reviewing
  PROVE  decisions = {}
<1>1. \A d \in decisions : d.reviewer \in Requests
  BY DEF Inv, TypeOK, Decisions
<1> QED BY <1>1 DEF VerdictInv, ReviewSound, Reviewing

\* A run's step carries the verdict, the release and the documents on.
LEMMA CarryStep ==
  ASSUME Inv, ThreadInv, VerdictInv, NEW r \in RunIds, NEW n \in NodeNames,
         NEW w \in AppStates, Stepping(r, n, w),
         decisions = {} \/ n \in {"human_approval", "final_response", "knowledge_update"}
  PROVE  /\ ckpt' # NULL
         /\ VerdictSound'
         /\ \A doc \in kb' : ckpt'.vals.final # NULL /\ doc = Ingested(ckpt'.vals)
         /\ ckpt'.vals.kbUpdated => kb' # {}
<1> DEFINE v == ckpt.vals
           u == ckpt'.vals
<1>1. /\ ckpt # NULL /\ ckpt \in Checkpoints /\ v \in AppStates
      /\ Sound(ckpt, decisions) /\ Vals(r) = v /\ ckpt.next = n
  BY LatestRun DEF Stepping, At
<1>2. NodeEffect(n, v, w) /\ ExternalEffect(n, v, w) /\ decisions' = decisions
  BY <1>1 DEF Stepping
<1>3. /\ ckpt' # NULL /\ u.query = w.query /\ u.route = w.route /\ u.so = w.so
      /\ u.kbUpdated = w.kbUpdated /\ u.record = w.record /\ u.final = w.final
  BY AfterFields DEF Stepping
<1>4. VerdictSound
  BY <1>1 DEF VerdictInv
<1>5. w.query = v.query
  BY <1>2 DEF NodeEffect
<1>6. n \in {"final_response", "knowledge_update"}
        => w.so = v.so /\ w.record = v.record /\ w.route = v.route
  BY <1>2 DEF NodeEffect
<1>7. v.final # NULL => n = "knowledge_update"
  BY <1>1, EarlyState, ReleaseState DEF NodeNames, END
<1>8. w.final # NULL => \/ n = "knowledge_update" /\ w.final = v.final
                        \/ n = "final_response" /\ v.so # NULL /\ w.final = Assemble(v)
  BY <1>2, <1>7 DEF NodeEffect
<1>9. n = "final_response" => v.record # NULL /\ v.record.action = "approved"
  BY <1>1, ReleaseState DEF Sound, RecordSound
<1>10. v.record # NULL =>
         /\ Assemble(v).answer = v.so.answer
         /\ Assemble(v).reviewer = v.record.reviewer
  BY DEF Assemble
<1> HIDE DEF v, u
<1>11. u.final # NULL =>
         /\ u.so # NULL /\ u.final.answer = u.so.answer
         /\ u.record # NULL /\ u.record.action = "approved"
         /\ u.final.reviewer = u.record.reviewer
  <2>1. CASE n = "knowledge_update" /\ w.final = v.final
    BY <1>3, <1>4, <1>6, <2>1 DEF VerdictSound, v
  <2>2. CASE n = "final_response" /\ v.so # NULL /\ w.final = Assemble(v)
    BY <1>3, <1>6, <1>9, <1>10, <2>2
  <2> QED BY <1>3, <1>8, <2>1, <2>2
<1>12. u.record # NULL /\ ~ByGate(u) =>
         [reviewer |-> u.record.reviewer, action |-> u.record.action,
          answer |-> AnswerOf(u)] \in decisions
  <2>1. n # "auto_approval_gate" => w.record = v.record
    BY <1>2 DEF NodeEffect
  <2>2. n = "auto_approval_gate" => w.record = v.record \/ w.record = GateApproval
    BY <1>2 DEF NodeEffect
  <2>3. u.record # NULL /\ ~ByGate(u) => u.record = v.record
    BY <1>3, <2>1, <2>2 DEF ByGate, GateApproval
  <2>4. u.record = v.record /\ u.record # NULL /\ ~ByGate(u) =>
          [reviewer |-> v.record.reviewer, action |-> v.record.action,
           answer |-> AnswerOf(v)] \in decisions
    BY <1>4 DEF VerdictSound, ByGate, v
  <2>5. decisions # {} => w.so = v.so
    BY <1>2 DEF NodeEffect
  <2> QED BY <1>3, <2>3, <2>4, <2>5 DEF AnswerOf
<1>13. u.record = NULL \/ ByGate(u) => decisions = {}
  <2>1. decisions # {} => w.record = v.record
    BY <1>2 DEF NodeEffect
  <2> QED BY <1>3, <1>4, <2>1 DEF VerdictSound, ByGate, v
<1>14. VerdictSound'
  <2>1. decisions' = decisions
    BY <1>2
  <2>2. ckpt'.last = n
    BY AfterFields DEF Stepping
  <2>3. n = "knowledge_update" => v.record # NULL /\ v.record.action = "approved"
    BY <1>1, <1>4, Predecessors DEF Sound, VerdictSound, v
  <2>4. n \in {"final_response", "knowledge_update"} =>
          u.record # NULL /\ u.record.action = "approved"
    BY <1>3, <1>6, <1>9, <2>3
  <2> QED BY <1>11, <1>12, <1>13, <2>1, <2>2, <2>4 DEF VerdictSound, u, ByGate, AnswerOf
<1>15. \A doc \in kb' : u.final # NULL /\ doc = Ingested(u)
  <2>1. \A doc \in kb : v.final # NULL /\ doc = Ingested(v)
    BY DEF VerdictInv, v
  <2>2. ASSUME v.final # NULL, n = "knowledge_update"
        PROVE  u.final # NULL /\ Ingested(u) = Ingested(v)
    <3>1. u.final = v.final /\ u.route = v.route /\ u.query = v.query
      BY <1>2, <1>3, <2>2 DEF NodeEffect
    <3> QED BY <2>2, <3>1 DEF Ingested
  <2>3. n # "knowledge_update" => kb' = kb
    BY <1>2 DEF ExternalEffect
  <2>4. n = "knowledge_update" => kb' = kb \/ (Ingestable(v) /\ kb' = kb \cup {Ingested(v)})
    BY <1>2 DEF ExternalEffect
  <2>5. Ingestable(v) => v.final # NULL
    BY DEF Ingestable
  <2> QED BY <1>7, <2>1, <2>2, <2>3, <2>4, <2>5 DEF v
<1>16. u.kbUpdated => kb' # {}
  <2>1. v.kbUpdated => kb # {}
    BY <1>1 DEF VerdictInv, v
  <2>2. CASE n = "knowledge_update"
    BY <1>2, <1>3, <2>2 DEF ExternalEffect
  <2>3. CASE n # "knowledge_update"
    BY <1>2, <1>3, <2>1, <2>3 DEF ExternalEffect, NodeEffect
  <2> QED BY <2>2, <2>3
<1> QED BY <1>3, <1>14, <1>15, <1>16 DEF u

\* A step of any run.
LEMMA RunVerdict ==
  ASSUME OneReviewer, Inv, ThreadInv, VerdictInv, NEW r \in RunIds, NEW n \in NodeNames,
         NEW w \in AppStates, Stepping(r, n, w)
  PROVE  VerdictInv'
<1> DEFINE c == After(n, w)
<1>1. runs[r].pc = "active" /\ reviews' = reviews /\ decisions' = decisions
  BY DEF Stepping, At
<1>2. /\ ckpt' = c
      /\ \A i \in RunIds : i # r => runs'[i] = runs[i]
      /\ runs'[r].cp \in {NULL, c}
  BY SteppingRuns
<1>3. CASE r \in Submissions
  <2>1. ~Reviewing /\ \A i \in RunIds : i # r => runs[i].cp = NULL
    BY <1>1, <1>3, SubmissionAlone DEF OneReviewer
  <2>2. decisions = {}
    BY <2>1, NoDecision
  <2>3. \A q \in Requests : q # r /\ reviews'[q].pc \in {"idle", "refused"}
    BY <1>1, <1>3, <2>1, ConstantsAssumption DEF Reviewing
  <2>4. \A q \in Requests : ReviewSound(q)'
    BY <1>1, <1>2, <2>1, <2>2, <2>3 DEF ReviewSound, RunIds
  <2> QED BY <2>2, <2>4, CarryStep DEF VerdictInv
<1>4. CASE r \in Requests
  <2>1. n \in {"human_approval", "final_response", "knowledge_update"}
    BY <1>4, ReviewedStep DEF OneReviewer
  <2>2. reviews[r].pc = "resumed"
    BY <1>1, <1>4, Resumed
  <2>3. \A q \in Requests : q = r
    BY <1>4 DEF OneReviewer
  <2>4. \A q \in Requests : ReviewSound(q)'
    BY <1>1, <1>2, <2>2, <2>3 DEF ReviewSound
  <2> QED BY <2>1, <2>4, CarryStep DEF VerdictInv
<1> QED BY <1>3, <1>4 DEF RunIds

LEMMA SubmitVerdict ==
  ASSUME OneReviewer, Inv, ThreadInv, VerdictInv, NEW s \in Submissions,
         SubmitWorkflow(s) \/ BeginRun(s)
  PROVE  VerdictInv'
<1>1. /\ ckpt = NULL /\ decisions = {} /\ kb = {}
      /\ UNCHANGED <<reviews, decisions, kb>>
  BY DEF SubmitWorkflow, BeginRun, external, ThreadInv, SubmissionRunSound, VerdictInv
<1>2. ~Reviewing
  BY <1>1 DEF ThreadInv
<1>3. \A q \in Requests : reviews'[q].pc \in {"idle", "refused"} /\ runs'[q].cp = NULL
  <2>1. ASSUME NEW q \in Requests PROVE runs'[q] = runs[q]
    BY ConstantsAssumption DEF SubmitWorkflow, BeginRun, Inv, TypeOK, RunIds
  <2>2. ASSUME NEW q \in Requests PROVE runs[q].cp = NULL
    BY <1>2, Resumed DEF ThreadInv, RunIds
  <2> QED BY <1>1, <1>2, <2>1, <2>2 DEF Reviewing
<1>4. \A q \in Requests : ReviewSound(q)'
  BY <1>1, <1>3 DEF ReviewSound
<1>5. CASE ckpt' = NULL
  BY <1>1, <1>4, <1>5 DEF VerdictInv
<1>6. CASE ckpt' # NULL
  <2>1. BeginRun(s)
    BY <1>1, <1>6 DEF SubmitWorkflow
  <2>2. /\ ckpt'.vals.record = NULL /\ ckpt'.vals.final = NULL
        /\ ckpt'.vals.kbUpdated = FALSE /\ ckpt'.last = START
    BY <2>1 DEF BeginRun, Input, InitialState
  <2>3. VerdictSound'
    BY <1>1, <2>2 DEF VerdictSound, START
  <2> QED BY <1>1, <1>4, <1>6, <2>2, <2>3 DEF VerdictInv
<1> QED BY <1>5, <1>6

LEMMA FailureVerdict ==
  ASSUME Inv, ThreadInv, VerdictInv, (\E r \in RunIds : RunDies(r)) \/ ServerCrash
  PROVE  VerdictInv'
<1>1. runs \in [RunIds -> RunStates] /\ reviews \in [Requests -> ReviewStates]
  BY DEF Inv, TypeOK
<1>2. /\ UNCHANGED <<ckpt, decisions>>
      /\ \A i \in RunIds : runs'[i].cp \in {runs[i].cp, NULL}
      /\ \A q \in Requests : reviews'[q] = reviews[q] \/ reviews'[q].pc = "lost"
      /\ \/ kb' = kb
         \/ /\ ckpt # NULL /\ Ingestable(ckpt.vals)
            /\ kb' = kb \cup {Ingested(ckpt.vals)}
  <2>1. ASSUME NEW r \in RunIds, RunDies(r)
        PROVE  /\ UNCHANGED <<ckpt, decisions, reviews>>
               /\ \A i \in RunIds : runs'[i].cp \in {runs[i].cp, NULL}
               /\ \/ kb' = kb
                  \/ /\ ckpt # NULL /\ Ingestable(ckpt.vals)
                     /\ kb' = kb \cup {Ingested(ckpt.vals)}
    <3>1. /\ runs[r].pc = "active" /\ UNCHANGED <<ckpt, decisions, reviews>>
          /\ runs' = [runs EXCEPT ![r] = [pc |-> "dead", cp |-> NULL]]
          /\ kb' = kb \/ (Ingestable(Vals(r)) /\ kb' = kb \cup {Ingested(Vals(r))})
      BY <2>1 DEF RunDies, external
    <3>2. \A i \in RunIds : runs'[i].cp \in {runs[i].cp, NULL}
      BY <1>1, <3>1
    <3>3. Vals(r) = ckpt.vals /\ ckpt # NULL
      BY <3>1, LatestRun
    <3> QED BY <3>1, <3>2, <3>3
  <2>2. ASSUME ServerCrash
        PROVE  /\ UNCHANGED <<ckpt, decisions, kb>>
               /\ \A i \in RunIds : runs'[i].cp \in {runs[i].cp, NULL}
               /\ \A q \in Requests : reviews'[q] = reviews[q] \/ reviews'[q].pc = "lost"
    BY <1>1, <2>2 DEF ServerCrash, CrashLeaving, external, ReviewStates
  <2> QED BY <2>1, <2>2
<1>3. \A q \in Requests : ReviewSound(q)'
  BY <1>2 DEF VerdictInv, ReviewSound, RunIds, Awaiting
<1>4. ckpt # NULL => VerdictSound'
  BY <1>2 DEF VerdictInv, VerdictSound
<1>5. \A doc \in kb' : ckpt'.vals.final # NULL /\ doc = Ingested(ckpt'.vals)
  BY <1>2 DEF VerdictInv, Ingestable
<1>6. kb \subseteq kb' /\ (kb' # {} => kb # {} \/ ckpt # NULL)
  BY <1>2
<1> QED BY <1>2, <1>3, <1>4, <1>5, <1>6 DEF VerdictInv

LEMMA CheckVerdict ==
  ASSUME OneReviewer, Inv, ThreadInv, VerdictInv, NEW q \in Requests,
         CheckAwaiting(q) \/ Refuse(q)
  PROVE  VerdictInv'
<1>1. /\ reviews \in [Requests -> ReviewStates] /\ reviews[q].pc = "idle"
      /\ UNCHANGED <<ckpt, runs, kb, decisions>>
      /\ \/ /\ Awaiting
            /\ reviews'[q].pc = "checked" /\ reviews'[q].seen = ckpt.vals.so
         \/ reviews'[q].pc = "refused"
  BY DEF Inv, TypeOK, CheckAwaiting, Refuse, ReviewStates, external
<1>2. decisions = {} /\ (runs[q].cp # NULL => runs[q].cp = ckpt)
  BY <1>1 DEF VerdictInv, ReviewSound
<1>3. ReviewSound(q)'
  BY <1>1, <1>2 DEF ReviewSound, Awaiting
<1>4. \A p \in Requests : ReviewSound(p)'
  BY <1>3 DEF OneReviewer
<1> QED BY <1>1, <1>4 DEF VerdictInv, VerdictSound

LEMMA UpdateVerdict ==
  ASSUME OneReviewer, Inv, ThreadInv, VerdictInv, NEW q \in Requests, UpdateState(q)
  PROVE  VerdictInv'
<1> DEFINE v == ckpt.vals
           u == ckpt'.vals
           d == [reviewer |-> q, action |-> reviews[q].action, answer |-> DecidedAnswer(q)]
           record == [reviewer |-> q, action |-> reviews[q].action]
<1>1. /\ reviews \in [Requests -> ReviewStates] /\ reviews[q].pc = "checked"
      /\ reviews' = [reviews EXCEPT ![q].pc = "updated"]
      /\ decisions' = decisions \cup {d} /\ UNCHANGED <<runs, kb>>
  BY DEF Inv, TypeOK, UpdateState, external
<1>2. Awaiting /\ reviews[q].seen = v.so /\ decisions = {} /\ ckpt.last = "web_search"
  BY <1>1 DEF VerdictInv, ReviewSound, ThreadInv
<1>3. /\ ckpt # NULL /\ ckpt' # NULL /\ ckpt'.next = "human_approval"
      /\ u.record # NULL /\ ~ByGate(u)
  BY <1>2, DecideStays, UpdateFields
<1>4. /\ ckpt \in Checkpoints /\ Sound(ckpt, decisions)
      /\ u.final = v.final /\ u.kbUpdated = v.kbUpdated
      /\ u.record = record /\ ckpt'.last = ckpt.last
      /\ ~Edited(q) => u.so = v.so
      /\ Edited(q) => u.so \in StructuredOutputs /\ u.so.answer = reviews[q].edit
  BY UpdateFields
<1>5. v.final = NULL
  BY <1>2, <1>4, EarlyState DEF Awaiting, END
<1>6. AnswerOf(u) = DecidedAnswer(q)
  BY <1>2, <1>4, NullAssumption DEF AnswerOf, DecidedAnswer
<1>7. record.reviewer = q /\ record.action = reviews[q].action
  OBVIOUS
<1>8. d \in decisions'
  BY <1>1
<1>9. [reviewer |-> u.record.reviewer, action |-> u.record.action,
       answer |-> AnswerOf(u)] = d
  BY <1>4, <1>6, <1>7
<1>10. kb' = {}
  BY <1>1, <1>5 DEF VerdictInv
<1>11. ~u.kbUpdated
  BY <1>1, <1>3, <1>4, <1>10 DEF VerdictInv
<1> HIDE DEF d, record
<1>12. VerdictSound'
  BY <1>2, <1>3, <1>4, <1>5, <1>8, <1>9 DEF VerdictSound, ByGate, AnswerOf
<1>13. ReviewSound(q)'
  <2>1. reviews'[q].pc = "updated"
    BY <1>1 DEF ReviewStates
  <2>2. runs[q].pc = "idle"
    BY <1>1, Resumed
  <2>3. runs'[q].cp = NULL
    BY <1>1, <2>2 DEF ThreadInv, RunIds
  <2> QED BY <1>3, <2>1, <2>3 DEF ReviewSound, Awaiting
<1>14. \A p \in Requests : ReviewSound(p)'
  BY <1>13 DEF OneReviewer
<1> QED BY <1>3, <1>10, <1>11, <1>12, <1>14 DEF VerdictInv

LEMMA ResumeVerdict ==
  ASSUME OneReviewer, Inv, ThreadInv, VerdictInv, NEW q \in Requests, ResumeRun(q)
  PROVE  VerdictInv'
<1>1. /\ reviews \in [Requests -> ReviewStates] /\ runs \in [RunIds -> RunStates]
      /\ UNCHANGED <<ckpt, kb, decisions>>
      /\ reviews' = [reviews EXCEPT ![q].pc = "resumed"]
      /\ \/ runs' = [runs EXCEPT ![q] = [pc |-> "ended", cp |-> NULL]]
         \/ runs' = [runs EXCEPT ![q] = [pc |-> "active", cp |-> ckpt]]
  BY DEF Inv, TypeOK, ResumeRun, external
<1>2. reviews'[q].pc = "resumed" /\ runs'[q].cp \in {NULL, ckpt}
  BY <1>1 DEF ReviewStates, RunIds
<1>3. \A p \in Requests : ReviewSound(p)'
  BY <1>1, <1>2 DEF OneReviewer, ReviewSound
<1> QED BY <1>1, <1>3 DEF VerdictInv, VerdictSound

LEMMA VerdictInit == Init => VerdictInv
BY DEF Init, VerdictInv, ReviewSound, IdleRun, IdleReview, RunIds

LEMMA VerdictNext ==
  ASSUME OneReviewer
  PROVE  Inv /\ ThreadInv /\ VerdictInv /\ [Next]_vars => VerdictInv'
<1> SUFFICES ASSUME Inv, ThreadInv, VerdictInv, [Next]_vars PROVE VerdictInv'
  OBVIOUS
<1>1. CASE UNCHANGED vars
  BY <1>1 DEF vars, VerdictInv, VerdictSound, ReviewSound, Awaiting
<1>2. CASE \E s \in Submissions : SubmitWorkflow(s) \/ BeginRun(s)
  BY <1>2, SubmitVerdict
<1>3. CASE \E r \in RunIds : RunNode(r)
  BY <1>3, NodeStep, RunVerdict
<1>4. CASE (\E r \in RunIds : RunDies(r)) \/ ServerCrash
  BY <1>4, FailureVerdict
<1>5. CASE \E q \in Requests : \/ CheckAwaiting(q) \/ Refuse(q)
                               \/ UpdateState(q) \/ ResumeRun(q)
  BY <1>5, CheckVerdict, UpdateVerdict, ResumeVerdict
<1> QED BY <1>1, <1>2, <1>3, <1>4, <1>5 DEF Next

\* With one reviewer the whole of SessionInv holds, whatever dies or crashes.
THEOREM SessionInvariance ==
  ASSUME OneReviewer
  PROVE  Spec => []SessionInv
<1>1. OneSubmission
  BY DEF OneReviewer
<1>2. SessionInv <=> Inv /\ PathInv /\ ThreadInv /\ VerdictInv
  BY DEF SessionInv
<1> QED BY <1>1, <1>2, VerdictInit, VerdictNext, ThreadInvariance, PTL DEF Spec

\* The text that is released under a reviewer's name is the one this reviewer
\* decided about: the edit sent, or the draft that was on screen
\* (submit_decision, human_approval, final_response over three checkpoints).
THEOREM ReleaseIsTheDecision ==
  ASSUME OneReviewer
  PROVE  Spec => []ReleasedAnswerIsDecided
<1>1. ASSUME SessionInv, ckpt # NULL, ckpt.vals.final # NULL,
             ckpt.vals.final.reviewer \in Requests
      PROVE  [reviewer |-> ckpt.vals.final.reviewer, action |-> "approved",
              answer |-> ckpt.vals.final.answer] \in decisions
  <2>1. VerdictSound
    BY <1>1 DEF SessionInv, VerdictInv
  <2>2. ~ByGate(ckpt.vals)
    BY <1>1, <2>1, ConstantsAssumption DEF VerdictSound, ByGate
  <2> QED BY <1>1, <2>1, <2>2 DEF VerdictSound, AnswerOf
<1>2. SessionInv => ReleasedAnswerIsDecided
  BY <1>1 DEF ReleasedAnswerIsDecided
<1> QED BY <1>2, SessionInvariance, PTL

\* What the knowledge base learns of a session is what the session released
\* and nothing else, also when the run dies between the ingestion and its
\* checkpoint (knowledge_update.py).
THEOREM KnowledgeIsTheRelease ==
  ASSUME OneReviewer
  PROVE  Spec => []KnowledgeMatchesRelease
<1>1. ASSUME SessionInv, NEW doc \in kb
      PROVE  /\ ckpt.vals.final # NULL
             /\ doc = [route |-> ckpt.vals.route, query |-> ckpt.vals.query,
                       answer |-> ckpt.vals.final.answer,
                       reviewer |-> ckpt.vals.final.reviewer]
  <2>1. ckpt # NULL /\ ckpt.vals.final # NULL /\ doc = Ingested(ckpt.vals)
    BY <1>1 DEF SessionInv, VerdictInv
  <2>2. ckpt \in Checkpoints /\ Sound(ckpt, decisions) /\ PathSound(ckpt)
    BY <1>1, <2>1 DEF SessionInv, Inv, TypeOK, PathInv, Snapshots
  <2>3. ckpt.vals.route # NULL
    BY <2>1, <2>2 DEF Sound, FinalSound, PathSound, START
  <2>4. /\ ckpt.vals.final.reviewer = ckpt.vals.record.reviewer
        /\ ckpt.vals.record # NULL /\ ckpt.vals.record \in {NULL} \cup Records
    BY <1>1, <2>1, <2>2 DEF SessionInv, VerdictInv, VerdictSound, Checkpoints, AppStates
  <2>5. ckpt.vals.final.reviewer # NULL
    BY <2>4, NullAssumption DEF Records
  <2> QED BY <2>1, <2>3, <2>5 DEF Ingested
<1>2. SessionInv => KnowledgeMatchesRelease
  BY <1>1 DEF KnowledgeMatchesRelease, SessionInv, VerdictInv
<1> QED BY <1>2, SessionInvariance, PTL

-----------------------------------------------------------------------------
(***************************************************************************)
(* The lifecycle: with one reviewer every step maps to a step of           *)
(* ApprovalLifecycle or to a stutter.                                      *)
(***************************************************************************)
\* A step of the submission's run starts from "running" and no decision.
LEMMA SubmissionLifecycle ==
  ASSUME OneReviewer, SessionInv, SessionInv', NEW s \in Submissions,
         NEW n \in NodeNames, NEW w \in AppStates, Stepping(s, n, w)
  PROVE  [Lifecycle!Next]_(Lifecycle!vars)
<1> DEFINE v == ckpt.vals
           u == ckpt'.vals
<1>1. runs[s].pc = "active" /\ s \in RunIds /\ Inv /\ PathInv /\ ThreadInv /\ VerdictInv
  BY DEF Stepping, At, RunIds, SessionInv
<1>2. /\ ckpt # NULL /\ ckpt \in Checkpoints /\ v \in AppStates
      /\ Sound(ckpt, decisions) /\ Vals(s) = v /\ ckpt.next = n
  BY <1>1, LatestRun DEF Stepping, At
<1>3. ~StopsBefore(n) /\ ~Reviewing
  BY <1>1, <1>2 DEF ThreadInv, SubmissionRunSound
<1>4. decisions = {}
  BY <1>1, <1>3, NoDecision
<1>5. Status = "running"
  BY <1>1, <1>2, <1>3, ThreadStatus DEF StatusSound
<1>6. /\ ckpt' # NULL /\ ckpt'.last = n /\ ckpt'.next = NextNode(n, w)
      /\ u.record = w.record /\ u.final = w.final /\ u.status = w.status
      /\ u.auto = w.auto
  BY AfterFields DEF Stepping
<1>7. /\ Status' = "running" <=> ~StopsBefore(ckpt'.next)
      /\ Status' = "awaiting_approval" <=> ckpt'.next = "human_approval"
      /\ ckpt'.next = END =>
           Status' = IF u.final # NULL THEN "completed"
                     ELSE IF u.status = "rejected" THEN "rejected" ELSE "failed"
  BY <1>6, NextStatus DEF SessionInv, StatusSound
<1>8. NodeEffect(n, v, w)
  BY <1>2 DEF Stepping
<1>9. v.record = NULL \/ ByGate(v)
  BY <1>1, <1>2, <1>4 DEF VerdictInv, VerdictSound
<1>10. Verdict = IF v.record = NULL THEN "none" ELSE "auto"
  BY <1>2, <1>9 DEF Verdict, ByGate
<1>11. n # "auto_approval_gate" => w.record = v.record /\ w.status = v.status
  BY <1>8 DEF NodeEffect
<1>12. n # "auto_approval_gate" => Verdict' = Verdict
  BY <1>2, <1>6, <1>11 DEF Verdict
<1>13. n \notin {"final_response", "knowledge_update", END}
         => v.final = NULL /\ v.record = NULL /\ v.status = "pending" /\ w.final = NULL
  BY <1>2, <1>8, <1>9, EarlyState DEF Sound, RecordSound, NodeEffect
<1> HIDE DEF v, u
<1>14. CASE n = "router"
  <2>1. Verdict = "none" /\ Verdict' = "none"
    BY <1>10, <1>12, <1>13, <1>14 DEF END
  <2>2. ckpt'.next \in {END, "research", "support"}
    BY <1>6, <1>14 DEF NextNode, RouteDecision, Routes
  <2>3. CASE ckpt'.next = END
    <3>1. Status' = "failed"
      BY <1>6, <1>7, <1>11, <1>13, <1>14, <2>3 DEF END
    <3> QED BY <1>5, <2>1, <3>1 DEF Lifecycle!Next, Lifecycle!Fail
  <2>4. CASE ckpt'.next # END
    BY <1>5, <1>7, <2>1, <2>2, <2>4 DEF Lifecycle!vars, StopsBefore
  <2> QED BY <2>3, <2>4
<1>15. CASE n = "auto_approval_gate"
  <2>1. Verdict = "none" /\ v.status = "pending" /\ v.record = NULL
    BY <1>10, <1>13, <1>15 DEF END
  <2>2. CASE w.record = GateApproval /\ w.status = "approved"
    <3>1. ckpt'.next = "final_response"
      BY <1>6, <1>15, <2>2 DEF NextNode, PreApprovalDecision
    <3>2. GateApproval # NULL /\ GateApproval.reviewer = SYSTEM
      BY NullAssumption DEF GateApproval, Records
    <3>3. Verdict' = "auto"
      BY <1>6, <2>2, <3>2 DEF Verdict, u
    <3>4. Status' = "running"
      BY <1>7, <3>1 DEF StopsBefore, END
    <3> QED BY <1>5, <2>1, <3>3, <3>4 DEF Lifecycle!Next, Lifecycle!AutoApprove
  <2>3. CASE w.record = v.record /\ w.status = v.status
    <3>1. ckpt'.next = "web_search"
      BY <1>6, <1>15, <2>1, <2>3 DEF NextNode, PreApprovalDecision
    <3>2. Verdict' = "none"
      BY <1>6, <2>1, <2>3 DEF Verdict, u
    <3>3. Status' = "running"
      BY <1>7, <3>1 DEF StopsBefore, END
    <3> QED BY <1>5, <2>1, <3>2, <3>3 DEF Lifecycle!vars
  <2> QED BY <1>8, <1>15, <2>2, <2>3 DEF NodeEffect
<1>16. CASE n = "web_search"
  <2>1. ckpt'.next = "human_approval"
    BY <1>6, <1>16 DEF NextNode, StaticEdge, START
  <2>2. Status' = "awaiting_approval" /\ Verdict = "none" /\ Verdict' = "none"
    BY <1>7, <1>10, <1>12, <1>13, <1>16, <2>1 DEF END
  <2> QED BY <1>5, <2>2 DEF Lifecycle!Next, Lifecycle!Pause
<1>17. CASE n = "final_response"
  <2>1. v.record # NULL /\ ByGate(v)
    BY <1>2, <1>9, <1>17, ReleaseState DEF v
  <2>2. v.auto /\ GateOpen(Overall(v), v.judge)
    BY <1>2, <2>1 DEF Sound, RecordSound, v
  <2>3. v.so # NULL
    BY <1>2, <2>2, GateNeedsAnswer DEF Sound, v
  <2>4. w.final = Assemble(v) /\ w.auto = v.auto
    BY <1>8, <1>17, <2>3 DEF NodeEffect
  <2>5. Assemble(v) # NULL
    BY <1>2, <2>3, AssembleType, NullAssumption
  <2>6. ckpt'.next = END
    BY <1>6, <1>17, <2>2, <2>4 DEF NextNode, PostFinalDecision
  <2>7. Status' = "completed" /\ Verdict = "auto" /\ Verdict' = "auto"
    BY <1>6, <1>7, <1>10, <1>12, <1>17, <2>1, <2>4, <2>5, <2>6
  <2> QED BY <1>5, <2>7 DEF Lifecycle!Next, Lifecycle!Release
<1>18. CASE n = "knowledge_update"
  <2>1. ~ByGate(v)
    BY <1>2, <1>18, LearnState DEF v
  <2>2. ckpt.last = "final_response"
    BY <1>2, <1>18, Predecessors DEF Sound
  <2>3. v.record # NULL
    BY <1>1, <1>2, <2>2 DEF VerdictInv, VerdictSound, v
  <2> QED BY <1>9, <2>1, <2>3
<1>19. CASE n \notin {"router", "auto_approval_gate", "web_search", "final_response",
                      "knowledge_update"}
  <2>1. ~StopsBefore(ckpt'.next)
    BY <1>3, <1>6, <1>19 DEF NextNode, StaticEdge, StopsBefore, NodeNames, START, END
  <2> QED BY <1>5, <1>7, <1>12, <1>19, <2>1 DEF Lifecycle!vars
<1> QED BY <1>14, <1>15, <1>16, <1>17, <1>18, <1>19

\* A step of the reviewer's run: the verdict stands, the session follows it.
LEMMA ReviewerLifecycle ==
  ASSUME OneReviewer, SessionInv, SessionInv', NEW q \in Requests,
         NEW n \in NodeNames, NEW w \in AppStates, Stepping(q, n, w)
  PROVE  [Lifecycle!Next]_(Lifecycle!vars)
<1> DEFINE v == ckpt.vals
           u == ckpt'.vals
<1>1. runs[q].pc = "active" /\ q \in RunIds /\ Inv /\ PathInv /\ ThreadInv /\ VerdictInv
  BY DEF Stepping, At, RunIds, SessionInv
<1>2. /\ ckpt # NULL /\ ckpt \in Checkpoints /\ v \in AppStates
      /\ Sound(ckpt, decisions) /\ Vals(q) = v /\ ckpt.next = n
  BY <1>1, LatestRun DEF Stepping, At
<1>3. /\ n \in {"human_approval", "final_response", "knowledge_update"}
      /\ w.record = v.record /\ w.status = v.status
      /\ w.record # NULL /\ ~ByGate(w) /\ ~w.auto /\ w.status # "pending"
  BY <1>1, <1>2, ReviewedStep DEF OneReviewer
<1>4. /\ ckpt' # NULL /\ ckpt'.last = n /\ ckpt'.next = NextNode(n, w)
      /\ u.record = w.record /\ u.final = w.final /\ u.status = w.status
  BY AfterFields DEF Stepping
<1>5. /\ Status' = "running" <=> ~StopsBefore(ckpt'.next)
      /\ ckpt'.next = END =>
           Status' = IF u.final # NULL THEN "completed"
                     ELSE IF u.status = "rejected" THEN "rejected" ELSE "failed"
  BY <1>4, NextStatus DEF SessionInv, StatusSound
<1>6. /\ Status = "running" <=> ~StopsBefore(n)
      /\ Status = "awaiting_approval" <=> n = "human_approval"
  BY <1>1, <1>2, ThreadStatus DEF StatusSound
<1>7. NodeEffect(n, v, w)
  BY <1>2 DEF Stepping
<1>8. v.record.action = v.status /\ v.status \in {"approved", "rejected"}
  BY <1>2, <1>3 DEF Sound, RecordSound, AppStates
<1>9. Verdict = v.status /\ Verdict' = v.status
  BY <1>2, <1>3, <1>4, <1>8 DEF Verdict, ByGate
<1>10. n # "final_response" => w.final = v.final
  BY <1>7 DEF NodeEffect
<1> HIDE DEF v, u
<1>11. CASE n = "human_approval"
  <2>1. Status = "awaiting_approval" /\ w.final = NULL
    BY <1>2, <1>6, <1>10, <1>11, EarlyState DEF v, END
  <2>2. CASE v.status = "approved"
    <3>1. ckpt'.next = "final_response"
      BY <1>3, <1>4, <1>11, <2>2 DEF NextNode, ApprovalDecision
    <3>2. Status' = "running"
      BY <1>5, <3>1 DEF StopsBefore, END
    <3> QED BY <1>9, <2>1, <2>2, <3>2 DEF Lifecycle!Next, Lifecycle!Resume
  <2>3. CASE v.status = "rejected"
    <3>1. ckpt'.next = END
      BY <1>3, <1>4, <1>11, <2>3 DEF NextNode, ApprovalDecision
    <3>2. Status' = "rejected"
      BY <1>3, <1>4, <1>5, <2>1, <2>3, <3>1
    <3> QED BY <1>9, <2>1, <2>3, <3>2 DEF Lifecycle!Next, Lifecycle!Resume
  <2> QED BY <1>8, <2>2, <2>3
<1>12. CASE n = "final_response"
  <2>1. ckpt'.next = "knowledge_update"
    BY <1>3, <1>4, <1>12 DEF NextNode, PostFinalDecision
  <2>2. Status = "running" /\ Status' = "running"
    BY <1>5, <1>6, <1>12, <2>1 DEF StopsBefore, END
  <2> QED BY <1>9, <2>2 DEF Lifecycle!vars
<1>13. CASE n = "knowledge_update"
  <2>1. ckpt.last = "final_response"
    BY <1>2, <1>13, Predecessors DEF Sound
  <2>2. v.status = "approved"
    BY <1>1, <1>2, <1>8, <2>1 DEF VerdictInv, VerdictSound, v
  <2>3. ckpt'.next = END /\ Status = "running"
    BY <1>4, <1>6, <1>13 DEF NextNode, StaticEdge, StopsBefore, START, END
  <2>4. Status' = "completed" \/ Status' = "failed"
    BY <1>3, <1>4, <1>5, <2>2, <2>3
  <2> QED
    BY <1>9, <2>2, <2>3, <2>4 DEF Lifecycle!Next, Lifecycle!Release, Lifecycle!Fail
<1> QED BY <1>3, <1>11, <1>12, <1>13

\* The run begins, and the reviewer decides.
LEMMA BeginLifecycle ==
  ASSUME SessionInv, SessionInv', NEW s \in Submissions, BeginRun(s)
  PROVE  [Lifecycle!Next]_(Lifecycle!vars)
<1>1. ckpt = NULL
  BY DEF BeginRun, SessionInv, ThreadInv, SubmissionRunSound
<1>2. ckpt' = Begun(s)
  BY DEF BeginRun, Begun
<1>3. Begun(s).next = "router" /\ Begun(s).vals.record = NULL
  BY DEF Begun, NextNode, StaticEdge, Input, InitialState, START
<1>4. ckpt' # NULL
  BY <1>2, InputSound, CheckpointAssumption DEF Begun
<1>5. Status = "not_found" /\ Verdict = "none"
  BY <1>1 DEF Status, DeriveStatus, Verdict
<1>6. Status' = "running" /\ Verdict' = "none"
  BY <1>2, <1>3, <1>4, NextStatus DEF SessionInv, StatusSound, StopsBefore, Verdict, END
<1> QED BY <1>5, <1>6 DEF Lifecycle!Next, Lifecycle!Start

LEMMA DecideLifecycle ==
  ASSUME SessionInv, SessionInv', NEW q \in Requests, UpdateState(q)
  PROVE  [Lifecycle!Next]_(Lifecycle!vars)
<1>1. Inv /\ PathInv /\ ThreadInv /\ VerdictInv /\ reviews[q].pc = "checked"
  BY DEF SessionInv, UpdateState
<1>2. Awaiting /\ decisions = {} /\ ckpt.last = "web_search"
  BY <1>1 DEF VerdictInv, ReviewSound, ThreadInv
<1> DEFINE record == [reviewer |-> q, action |-> reviews[q].action]
<1>3. /\ ckpt # NULL /\ ckpt' # NULL /\ ckpt'.next = "human_approval"
      /\ UnderReview(ckpt)
      /\ ckpt'.vals.record # NULL /\ ckpt'.vals.record = record
      /\ ckpt'.vals.status \in {"approved", "rejected"}
      /\ ckpt'.vals.status = reviews[q].action
  BY <1>1, <1>2, DecideStays, UpdateFields
<1>4. record.reviewer # SYSTEM /\ record.action = reviews[q].action
  BY ConstantsAssumption
<1> HIDE DEF record
<1>5. ckpt.vals.record = NULL
  BY <1>1, <1>2, <1>3 DEF VerdictInv, VerdictSound, UnderReview
<1>6. Verdict = "none"
  BY <1>5 DEF Verdict
<1>7. Verdict' = reviews[q].action
  BY <1>3, <1>4 DEF Verdict
<1>8. Status = "awaiting_approval"
  BY <1>1, <1>2, <1>3, ThreadStatus DEF StatusSound, Awaiting
<1>9. Status' = "awaiting_approval"
  BY <1>3, NextStatus DEF SessionInv, StatusSound
<1> QED BY <1>3, <1>6, <1>7, <1>8, <1>9 DEF Lifecycle!Next, Lifecycle!Decide

LEMMA LifecycleStep ==
  ASSUME OneReviewer
  PROVE  SessionInv /\ SessionInv' /\ [Next]_vars => [Lifecycle!Next]_(Lifecycle!vars)
<1> SUFFICES ASSUME SessionInv, SessionInv', [Next]_vars
             PROVE  [Lifecycle!Next]_(Lifecycle!vars)
  OBVIOUS
<1>1. CASE ckpt' = ckpt
  BY <1>1 DEF Lifecycle!vars, Status, Verdict
<1>2. ASSUME NEW r \in RunIds, RunNode(r)
      PROVE  [Lifecycle!Next]_(Lifecycle!vars)
  <2>1. PICK n \in NodeNames, w \in AppStates : Stepping(r, n, w)
    BY <1>2, NodeStep DEF SessionInv
  <2> QED BY <2>1, SubmissionLifecycle, ReviewerLifecycle DEF RunIds
<1>3. CASE ckpt' # ckpt
  <2>1. \/ \E s \in Submissions : BeginRun(s)
        \/ \E r \in RunIds : RunNode(r)
        \/ \E q \in Requests : UpdateState(q)
    BY <1>3 DEF Next, vars, SubmitWorkflow, RunDies, CheckAwaiting, Refuse, ResumeRun,
       ServerCrash, CrashLeaving
  <2> QED BY <1>2, <2>1, BeginLifecycle, DecideLifecycle
<1> QED BY <1>1, <1>3

\* With one reviewer the session implements the lifecycle its client sees,
\* liveness aside: one verdict, reached by the gate or by the reviewer, never
\* overturned, and a status that follows it, whatever dies or crashes.
THEOREM SessionFollowsLifecycle ==
  ASSUME OneReviewer
  PROVE  Spec => LifecycleSteps
<1>1. Init => Lifecycle!Init
  BY DEF Init, Lifecycle!Init, Status, DeriveStatus, Verdict
<1> QED BY <1>1, LifecycleStep, SessionInvariance, PTL DEF Spec, LifecycleSteps
=============================================================================
