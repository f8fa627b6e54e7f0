--------------------------- MODULE WorkflowThread ---------------------------
(***************************************************************************)
(* One session (LangGraph thread) and everything that acts on it: the      *)
(* background runs that POST /workflow starts, the reviewers' POST         *)
(* /approve requests with the run each of them resumes, the checkpointer,  *)
(* the audit table, the knowledge base, and crashes.                       *)
(*                                                                         *)
(* LangGraph is external.  From how the code uses it: a run keeps its own  *)
(* copy of the state; each node ends with a checkpoint that becomes the    *)
(* thread's latest; aget_state reads the latest; aupdate_state writes the  *)
(* given keys on top of the latest and follows the edges of the node that  *)
(* completed last; ainvoke(None) continues the latest; ainvoke(state)      *)
(* overwrites every key but those with a reducer and starts at START.      *)
(***************************************************************************)
EXTENDS AgentState

CONSTANTS MaxFaults,   \* bound on runs that die with an exception
          MaxCrashes   \* bound on crashes of the server process

ASSUME BoundsAssumption == MaxFaults \in Nat /\ MaxCrashes \in Nat

VARIABLES
  ckpt,       \* the thread's latest checkpoint, NULL when there is none
  runs,       \* the ainvoke calls, by submission or approval request
  reviews,    \* the approval requests
  tracked,    \* dependencies._running_tasks[session_id]
  audit,      \* workflow_checkpoints rows
  kb,         \* approved Q&A documents in the vector store
  decisions,  \* history: decisions written to the thread
  faults, crashes

vars == <<ckpt, runs, reviews, tracked, audit, kb, decisions, faults, crashes>>
external == <<audit, kb>>
budget == <<faults, crashes>>

RunIds == Submissions \cup Requests

RunStates ==
  [pc : {"idle", "starting", "active", "ended", "dead"}, cp : {NULL} \cup Checkpoints]

ReviewStates ==
  [pc : {"idle", "checked", "updated", "resumed", "refused", "lost"},
   action : {"approved", "rejected"}, edit : {NULL} \cup Edits,
   seen : {NULL} \cup StructuredOutputs]

Decisions ==
  [reviewer : Requests, action : {"approved", "rejected"}, answer : {NULL} \cup Answers]

TypeOK ==
  /\ ckpt \in {NULL} \cup Checkpoints
  /\ runs \in [RunIds -> RunStates]
  /\ reviews \in [Requests -> ReviewStates]
  /\ tracked \in {NULL} \cup Submissions
  /\ audit \subseteq AuditRows
  /\ kb \subseteq KnowledgeDocs
  /\ decisions \subseteq Decisions
  /\ faults \in 0 .. MaxFaults
  /\ crashes \in 0 .. MaxCrashes

IdleRun == [pc |-> "idle", cp |-> NULL]
IdleReview == [pc |-> "idle", action |-> "approved", edit |-> NULL, seen |-> NULL]

Init ==
  /\ ckpt = NULL
  /\ runs = [r \in RunIds |-> IdleRun]
  /\ reviews = [q \in Requests |-> IdleReview]
  /\ tracked = NULL
  /\ audit = {}
  /\ kb = {}
  /\ decisions = {}
  /\ faults = 0
  /\ crashes = 0

Status == DeriveStatus(ckpt)

-----------------------------------------------------------------------------
(***************************************************************************)
(* POST /workflow: the task is created and registered, and the call        *)
(* returns "running" before the run has written anything.                  *)
(***************************************************************************)
SubmitWorkflow(s) ==
  /\ runs[s].pc = "idle"
  /\ runs' = [runs EXCEPT ![s].pc = "starting"]
  /\ tracked' = s
  /\ UNCHANGED <<ckpt, reviews, external, decisions, budget>>

\* The input of ainvoke(state, config): errors has a reducer, so an earlier
\* run's errors stay.
Input(s) ==
  [InitialState(s) EXCEPT !.errors = ckpt # NULL /\ ckpt.vals.errors]

BeginRun(s) ==
  LET cp == [vals |-> Input(s), last |-> START, next |-> NextNode(START, Input(s))]
  IN /\ runs[s].pc = "starting"
     /\ runs' = [runs EXCEPT ![s] = [pc |-> "active", cp |-> cp]]
     /\ ckpt' = cp
     /\ UNCHANGED <<reviews, tracked, external, decisions, budget>>

(***************************************************************************)
(* A node of run r: the body returns w, the outgoing edge is followed and  *)
(* the checkpoint becomes the thread's latest.  The run returns at END and *)
(* before human_approval; a background task that ends is unregistered by   *)
(* its done callback, whichever task is registered by then.                *)
(***************************************************************************)
At(r, n) == runs[r].pc = "active" /\ runs[r].cp.next = n

Vals(r) == runs[r].cp.vals

Unregister(r) == tracked' = IF r \in Submissions THEN NULL ELSE tracked

After(n, w) == [vals |-> Stepped(w), last |-> n, next |-> NextNode(n, w)]

Complete(r, n, w) ==
  LET cp == After(n, w)
  IN /\ ckpt' = cp
     /\ IF StopsBefore(cp.next)
        THEN /\ runs' = [runs EXCEPT ![r] = [pc |-> "ended", cp |-> NULL]]
             /\ Unregister(r)
        ELSE /\ runs' = [runs EXCEPT ![r].cp = cp]
             /\ UNCHANGED tracked
     /\ UNCHANGED <<reviews, decisions, budget>>

Pure(r, n, outcomes) ==
  /\ At(r, n)
  /\ \E w \in outcomes : Complete(r, n, w)
  /\ UNCHANGED external

Router(r) == Pure(r, "router", RouterOutcomes(Vals(r)))
Research(r) == Pure(r, "research", BranchOutcomes(Vals(r)))
Support(r) == Pure(r, "support", BranchOutcomes(Vals(r)))
Retriever(r) == Pure(r, "retriever", RetrieverOutcomes(Vals(r)))
Reranker(r) == Pure(r, "reranker", RerankerOutcomes(Vals(r)))
ContextEval(r) == Pure(r, "context_eval", ContextEvalOutcomes(Vals(r)))
Generator(r) == Pure(r, "generator", GeneratorOutcomes(Vals(r)))
StructuredOutput(r) ==
  Pure(r, "structured_output", StructuredOutputOutcomes(Vals(r)))
Groundedness(r) == Pure(r, "groundedness", GroundednessOutcomes(Vals(r)))
LlmJudge(r) == Pure(r, "llm_judge", LlmJudgeOutcomes(Vals(r)))
AutoApprovalGate(r) ==
  Pure(r, "auto_approval_gate", AutoApprovalGateOutcomes(Vals(r)))
WebSearch(r) == Pure(r, "web_search", WebSearchOutcomes(Vals(r)))
HumanApproval(r) == Pure(r, "human_approval", HumanApprovalOutcomes(Vals(r)))
FinalResponse(r) == Pure(r, "final_response", FinalResponseOutcomes(Vals(r)))

\* The audit node inserts a row, or records why it could not.
CheckpointNode(r) ==
  /\ At(r, "checkpoint")
  /\ \/ /\ audit' = audit \cup {AuditRow(Vals(r))}
        /\ Complete(r, "checkpoint", Vals(r))
     \/ /\ UNCHANGED audit
        /\ \E w \in MayFail("checkpoint", Vals(r)) : Complete(r, "checkpoint", w)
  /\ UNCHANGED kb

\* Ingests the released answer, skips when there is nothing to ingest, or
\* records why the ingestion failed; the store may have taken the answer before
\* the call failed.
KnowledgeUpdate(r) ==
  LET v == Vals(r)
      kept == [v EXCEPT !.kbUpdated = FALSE]
  IN /\ At(r, "knowledge_update")
     /\ \/ /\ Ingestable(v)
           /\ kb' = kb \cup {Ingested(v)}
           /\ Complete(r, "knowledge_update", [v EXCEPT !.kbUpdated = TRUE])
        \/ /\ Ingestable(v)
           /\ kb' \in {kb, kb \cup {Ingested(v)}}
           /\ \E w \in MayFail("knowledge_update", kept) :
                Complete(r, "knowledge_update", w)
        \/ /\ ~Ingestable(v)
           /\ UNCHANGED kb
           /\ Complete(r, "knowledge_update", kept)
     /\ UNCHANGED audit

-----------------------------------------------------------------------------
(***************************************************************************)
(* POST /approve, submit_decision: three awaits on the thread with other   *)
(* requests and runs in between.                                           *)
(***************************************************************************)
Awaiting == ckpt # NULL /\ ckpt.next = "human_approval"

CheckAwaiting(q) ==
  /\ reviews[q].pc = "idle"
  /\ Awaiting
  /\ \E action \in {"approved", "rejected"}, edit \in {NULL} \cup Edits :
       reviews' = [reviews EXCEPT ![q] = [pc |-> "checked", action |-> action,
                                          edit |-> edit, seen |-> ckpt.vals.so]]
  /\ UNCHANGED <<ckpt, runs, tracked, external, decisions, budget>>

\* ApprovalError: no such session, or not awaiting approval.
Refuse(q) ==
  /\ reviews[q].pc = "idle"
  /\ ~Awaiting
  /\ reviews' = [reviews EXCEPT ![q].pc = "refused"]
  /\ UNCHANGED <<ckpt, runs, tracked, external, decisions, budget>>

Edited(q) == reviews[q].edit # NULL /\ reviews[q].action = "approved"

\* Mutant: an edit sent along with a rejection is applied too, and an
\* approval's is not.
UpdateForWrongAction(q) ==
  [ckpt.vals EXCEPT
    !.status = reviews[q].action,
    !.record = [reviewer |-> q, action |-> reviews[q].action],
    !.so = IF reviews[q].edit # NULL /\ reviews[q].action = "rejected"
           THEN [answer |-> reviews[q].edit, cites |-> NULL]
           ELSE @]

\* Mutant: a rejection keeps the record but not the status.
UpdateKeepingStatus(q) ==
  [ckpt.vals EXCEPT
    !.status = "approved",
    !.record = [reviewer |-> q, action |-> reviews[q].action]]

\* The edited answer goes into the structured output that was read at the
\* check; without one, into an empty dict.
Update(q) ==
  [ckpt.vals EXCEPT
    !.status = reviews[q].action,
    !.record = [reviewer |-> q, action |-> reviews[q].action],
    !.so = IF Edited(q)
           THEN [answer |-> reviews[q].edit,
                 cites |-> IF reviews[q].seen = NULL THEN NULL
                                                    ELSE reviews[q].seen.cites]
           ELSE @]

\* What the reviewer decided about: the text sent, or the draft on screen.
DecidedAnswer(q) ==
  IF Edited(q) THEN reviews[q].edit
  ELSE IF reviews[q].seen = NULL THEN NULL ELSE reviews[q].seen.answer

UpdateState(q) ==
  /\ reviews[q].pc = "checked"
  /\ ckpt' = [ckpt EXCEPT !.vals = Update(q), !.next = NextNode(ckpt.last, Update(q))]
  /\ reviews' = [reviews EXCEPT ![q].pc = "updated"]
  /\ decisions' = decisions \cup
       {[reviewer |-> q, action |-> reviews[q].action, answer |-> DecidedAnswer(q)]}
  /\ UNCHANGED <<runs, tracked, external, budget>>

\* ainvoke(None): continue from the latest checkpoint, past the interrupt.
ResumeRun(q) ==
  /\ reviews[q].pc = "updated"
  /\ reviews' = [reviews EXCEPT ![q].pc = "resumed"]
  /\ runs' = [runs EXCEPT ![q] = IF ckpt.next = END
                                 THEN [pc |-> "ended", cp |-> NULL]
                                 ELSE [pc |-> "active", cp |-> ckpt]]
  /\ UNCHANGED <<ckpt, tracked, external, decisions, budget>>

-----------------------------------------------------------------------------
(***************************************************************************)
(* Failures.  A run may die in a node with its effect outside the thread   *)
(* done or not, before its checkpoint is written: the background task      *)
(* swallows the exception, an approval request answers 500.                *)
(***************************************************************************)
RunDies(r) ==
  /\ faults < MaxFaults
  /\ runs[r].pc = "active"
  /\ \/ UNCHANGED external
     \/ /\ runs[r].cp.next = "checkpoint"
        /\ audit' = audit \cup {AuditRow(Vals(r))}
        /\ UNCHANGED kb
     \/ /\ runs[r].cp.next = "knowledge_update"
        /\ Ingestable(Vals(r))
        /\ kb' = kb \cup {Ingested(Vals(r))}
        /\ UNCHANGED audit
  /\ runs' = [runs EXCEPT ![r] = [pc |-> "dead", cp |-> NULL]]
  /\ Unregister(r)
  /\ faults' = faults + 1
  /\ UNCHANGED <<ckpt, reviews, decisions, crashes>>

\* The process restarts with the thread as c; lifespan resumes no run.
CrashLeaving(c) ==
  /\ crashes < MaxCrashes
  /\ runs' = [r \in RunIds |->
                IF runs[r].pc \in {"starting", "active"}
                THEN [pc |-> "dead", cp |-> NULL] ELSE runs[r]]
  /\ reviews' = [q \in Requests |->
                   IF reviews[q].pc \in {"checked", "updated"}
                   THEN [reviews[q] EXCEPT !.pc = "lost"] ELSE reviews[q]]
  /\ tracked' = NULL
  /\ ckpt' = c
  /\ crashes' = crashes + 1
  /\ UNCHANGED <<external, decisions, faults>>

\* Mutant: the thread lives in the process (MemorySaver) and dies with it.
ServerCrashForgetting == CrashLeaving(NULL)

ServerCrash == CrashLeaving(ckpt)

-----------------------------------------------------------------------------
RunNode(r) ==
  \/ Router(r) \/ Research(r) \/ Support(r) \/ Retriever(r) \/ Reranker(r)
  \/ ContextEval(r) \/ Generator(r) \/ StructuredOutput(r) \/ Groundedness(r)
  \/ LlmJudge(r) \/ CheckpointNode(r) \/ AutoApprovalGate(r) \/ WebSearch(r)
  \/ HumanApproval(r) \/ FinalResponse(r) \/ KnowledgeUpdate(r)

Next ==
  \/ \E s \in Submissions : SubmitWorkflow(s) \/ BeginRun(s)
  \/ \E r \in RunIds : RunNode(r) \/ RunDies(r)
  \/ \E q \in Requests : CheckAwaiting(q) \/ Refuse(q) \/ UpdateState(q) \/ ResumeRun(q)
  \/ ServerCrash

Spec == Init /\ [][Next]_vars

(***************************************************************************)
(* Fairness: what the server has started goes on, as asyncio schedules     *)
(* every ready task; assumed is that each node's calls return or fail, as  *)
(* not all of them have a timeout.  Nobody is obliged to submit a query or *)
(* to review one, and nothing has to fail.                                 *)
(***************************************************************************)
Fairness ==
  /\ \A s \in Submissions : WF_vars(BeginRun(s))
  /\ \A r \in RunIds : WF_vars(RunNode(r))
  /\ \A q \in Requests : WF_vars(UpdateState(q)) /\ WF_vars(ResumeRun(q))

FairSpec == Spec /\ Fairness

-----------------------------------------------------------------------------
(***************************************************************************)
(* Safety.  These hold whatever races, repeated submissions, failed nodes  *)
(* and crashes occur; WorkflowThreadProofs.tla proves them.                *)
(***************************************************************************)
Decided(D, reviewer, action) ==
  \E d \in D : d.reviewer = reviewer /\ d.action = action

\* Where a text comes from: it was generated for the query, or it is an edit that
\* an approval was about.
Vouched(answer, query, D) ==
  \/ answer = query
  \/ answer \in Edits /\ \E d \in D : d.action = "approved" /\ d.answer = answer

\* With the decisions D: the gate let the response pass, or the reviewer it
\* names has written an approval.
Passed(final, D) ==
  \/ final.reviewer = SYSTEM /\ final.auto /\ GateOpen(final.overall, final.judge)
  \/ Decided(D, final.reviewer, "approved")

Authorized(v, D) == Passed(v.final, D) /\ Vouched(v.final.answer, v.query, D)

\* Nothing is released without the gate or a written approval of the reviewer it
\* names, and never a text other than the one generated for the session's own
\* query or an edit that some approval was about: no edit sent with a rejection,
\* no text of another submission (auto_approval.py, submit_decision,
\* final_response.py together).  When several reviewers decide, the one it names
\* need not have approved this very text; with one, ReleasedAnswerIsDecided
\* (module Session) says so.
ReleaseAuthorized ==
  ckpt # NULL /\ ckpt.vals.final # NULL => Authorized(ckpt.vals, decisions)

Reviewed(doc, D) ==
  Decided(D, doc.reviewer, "approved") /\ Vouched(doc.answer, doc.query, D)

\* The knowledge base holds no auto-approved answer: each document names a
\* reviewer who wrote an approval, and its text was generated for its query or is
\* an edit that some approval was about (workflow.py:_post_final_decision,
\* knowledge_update.py).
KnowledgeReviewed == \A doc \in kb : Reviewed(doc, decisions)

\* A run the gate approved has a structured output, so final_response does not
\* fail on the automatic path: a missing answer_confidence counts as zero and
\* the other two signals cannot reach the threshold alone.
AutoApprovedHasOutput ==
  ckpt # NULL /\ ckpt.vals.record # NULL /\ ckpt.vals.record.reviewer = SYSTEM
    => /\ ckpt.vals.so # NULL
       /\ ckpt.next = END => ckpt.vals.final # NULL

(***************************************************************************)
(* The inductive strengthening: what holds of every checkpoint c, the      *)
(* thread's latest and the one each run continues from.                    *)
(***************************************************************************)
ByGate(v) == v.record # NULL /\ v.record.reviewer = SYSTEM

RecordSound(c, D) ==
  LET v == c.vals
  IN /\ v.status = "pending" <=> v.record = NULL
     /\ v.record # NULL => v.record.action = v.status
     /\ v.record # NULL /\ ~ByGate(v) => Decided(D, v.record.reviewer, v.record.action)
     /\ ByGate(v) => /\ v.auto /\ v.status = "approved"
                     /\ GateOpen(Overall(v), v.judge)
                     /\ c.last \in {"auto_approval_gate", "final_response"}
                     /\ c.last = "final_response" => v.final # NULL

FinalSound(c, D) ==
  c.vals.final # NULL
    => /\ c.last \in {"final_response", "knowledge_update"}
       /\ Authorized(c.vals, D)
       /\ c.vals.final.reviewer = SYSTEM => c.vals.auto

\* What a state has drafted is for its query; its output is that, or an edit.
TextSound(v, D) ==
  /\ v.draft # NULL => v.draft = v.query
  /\ v.so # NULL => Vouched(v.so.answer, v.query, D)

Sound(c, D) ==
  /\ c.next = NextNode(c.last, c.vals)
  /\ c.vals.answerConf # NULL => c.vals.so # NULL
  /\ TextSound(c.vals, D)
  /\ RecordSound(c, D)
  /\ FinalSound(c, D)

RunSound(r) ==
  /\ runs[r].pc = "active" => runs[r].cp # NULL
  /\ runs[r].cp # NULL => Sound(runs[r].cp, decisions)

Inv ==
  /\ TypeOK
  /\ ckpt # NULL => Sound(ckpt, decisions)
  /\ \A r \in RunIds : RunSound(r)
  /\ \A q \in Requests : reviews[q].pc \in {"checked", "updated"} => ckpt # NULL
  /\ KnowledgeReviewed
=============================================================================
