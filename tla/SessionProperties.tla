------------------------- MODULE SessionProperties --------------------------
(***************************************************************************)
(* What a session promises on top of WorkflowThread's safety: the          *)
(* properties that hold of one submission or of one reviewer, and those    *)
(* under fairness, with the invariants they rest on.  SessionProofs.tla    *)
(* proves the ones without fairness.                                       *)
(***************************************************************************)
EXTENDS WorkflowThread

OneSubmission == \A s, t \in Submissions : s = t
OneReviewer == OneSubmission /\ \A p, q \in Requests : p = q

-----------------------------------------------------------------------------
(***************************************************************************)
(* The thread implements the lifecycle that a client sees.                 *)
(***************************************************************************)
Verdict ==
  IF ckpt = NULL \/ ckpt.vals.record = NULL THEN "none"
  ELSE IF ckpt.vals.record.reviewer = SYSTEM THEN "auto"
  ELSE ckpt.vals.record.action

Lifecycle == INSTANCE ApprovalLifecycle WITH phase <- Status, verdict <- Verdict

\* With one reviewer the reported status only moves as ApprovalLifecycle
\* allows: one verdict, never overturned, an auto-approved session never
\* fails, and a started session settles (graph, gate and approval service).
ImplementsLifecycle == Lifecycle!Spec

\* Its part without fairness, which SessionProofs.tla proves.
LifecycleSteps == Lifecycle!Init /\ [][Lifecycle!Next]_(Lifecycle!vars)

-----------------------------------------------------------------------------
(***************************************************************************)
(* One reviewer.                                                           *)
(***************************************************************************)
\* The released text is the one its reviewer decided about: the edit sent, or
\* the draft shown (submit_decision writes it, final_response reads it back
\* after two more awaits and two nodes).
ReleasedAnswerIsDecided ==
  ckpt # NULL /\ ckpt.vals.final # NULL /\ ckpt.vals.final.reviewer \in Requests
    => [reviewer |-> ckpt.vals.final.reviewer, action |-> "approved",
        answer |-> ckpt.vals.final.answer] \in decisions

\* The knowledge base holds the released answer in the route's collection and
\* nothing else, even when the run dies between the ingestion and its
\* checkpoint; a session that claims the update has it there.
KnowledgeMatchesRelease ==
  /\ \A doc \in kb : LET v == ckpt.vals
                       IN /\ v.final # NULL
                          /\ doc = [route |-> v.route, query |-> v.query,
                                    answer |-> v.final.answer,
                                    reviewer |-> v.final.reviewer]
  /\ ckpt # NULL /\ ckpt.vals.kbUpdated => kb # {}

\* What waits for a reviewer or was released has a row in the audit table that
\* tells whether an answer had been generated, or an error says why it has not
\* (checkpoint_node's failure path).
AuditedOrReported ==
  ckpt # NULL /\ (ckpt.next = "human_approval" \/ ckpt.vals.final # NULL)
    => \/ ckpt.vals.errors
       \/ \E row \in audit : row.query = ckpt.vals.query /\ row.output

\* A decision that was written takes effect: a rejection ends the session as
\* rejected, an approval of an existing or edited answer releases it.
DecisionTakesEffect ==
  \A q \in Requests :
    /\ reviews[q].pc = "updated" /\ reviews[q].action = "rejected"
         ~> Status = "rejected"
    /\ reviews[q].pc = "updated" /\ reviews[q].action = "approved" /\ ckpt.vals.so # NULL
         ~> Status = "completed"

-----------------------------------------------------------------------------
(***************************************************************************)
(* Several reviewers, failures, repeated submissions.                      *)
(***************************************************************************)
\* A session reported as running is being worked on: by a run, or by a request
\* that has written its decision and is about to resume the run.
RunningIsBacked ==
  Status = "running"
    => \/ \E r \in RunIds : runs[r].pc = "active"
       \/ \E q \in Requests : reviews[q].pc = "updated"

\* A session leaves the pause only through human_approval with a reviewer's
\* recorded decision, whatever crashes or dying runs come in between
\* (interrupt_before with the PostgreSQL checkpointer, README.md:994).
PauseIsDurable ==
  [][Status = "awaiting_approval" /\ Status' # "awaiting_approval"
       => /\ ckpt' # NULL
          /\ ckpt'.last = "human_approval"
          /\ \E d \in decisions : /\ d.reviewer = ckpt'.vals.record.reviewer
                                  /\ d.action = ckpt'.vals.status]_vars

-----------------------------------------------------------------------------
(***************************************************************************)
(* Invariants.  A snapshot is a checkpoint that somebody will go on from.  *)
(***************************************************************************)
Snapshots == ({ckpt} \cup {runs[r].cp : r \in RunIds}) \ {NULL}

\* How far a run has come, by the node that completed last.
AfterAudit ==
  {"checkpoint", "auto_approval_gate", "web_search", "human_approval",
   "final_response", "knowledge_update"}
AfterOutput == {"structured_output", "groundedness", "llm_judge"} \cup AfterAudit
OnReviewPath == {"web_search", "human_approval", "final_response", "knowledge_update"}

Audited(v) ==
  v.errors \/ \E row \in audit : row.query = v.query /\ row.output

\* A snapshot that is past a node has what the node leaves, whoever the run's
\* state has passed through since.
PathSound(c) ==
  /\ c.last # START => c.vals.steps > 0
  /\ c.last \notin {START, "router"} => c.vals.route # NULL
  /\ c.last \in AfterOutput => c.vals.so # NULL \/ c.vals.errors
  /\ c.last \in AfterAudit => Audited(c.vals)

PathInv == \A c \in Snapshots : PathSound(c)

(***************************************************************************)
(* One submission: its run and the reviewers' runs never meet, and what    *)
(* awaits approval has been through web_search only.                       *)
(***************************************************************************)
Reviewing == \E q \in Requests : reviews[q].pc \notin {"idle", "refused"}
UnderReview(c) == c.last \in OnReviewPath /\ ~ByGate(c.vals)

SubmissionRunSound ==
  \A s \in Submissions :
    /\ runs[s].pc \in {"idle", "starting"} => ckpt = NULL
    /\ runs[s].pc = "active" =>
         /\ runs[s].cp = ckpt
         /\ ~StopsBefore(ckpt.next)
         /\ ~Reviewing

ReviewRunsSound ==
  \A q \in Requests :
    /\ runs[q].pc # "idle" => reviews[q].pc = "resumed"
    /\ runs[q].cp # NULL =>
         /\ UnderReview(runs[q].cp)
         /\ runs[q].cp.vals.record # NULL
         /\ runs[q].cp.next # END
    /\ reviews[q].pc \in {"updated", "resumed"} => ckpt.vals.record # NULL

ThreadInv ==
  /\ \A r \in RunIds : runs[r].cp # NULL => runs[r].pc = "active"
  /\ SubmissionRunSound
  /\ ReviewRunsSound
  /\ Reviewing => ckpt # NULL /\ UnderReview(ckpt)
  /\ Awaiting => /\ ckpt.last = "web_search"
                 /\ \A r \in RunIds : runs[r].cp # NULL => runs[r].cp.next = "human_approval"
  /\ \A c \in Snapshots : c.vals.auto => ByGate(c.vals)

(***************************************************************************)
(* One reviewer: the thread is as the reviewer saw it until the decision,  *)
(* and then carries the decision to the release and the knowledge base.    *)
(***************************************************************************)
ReviewSound(q) ==
  /\ reviews[q].pc \in {"idle", "refused", "checked"} => decisions = {}
  /\ reviews[q].pc = "checked" => Awaiting /\ reviews[q].seen = ckpt.vals.so
  /\ reviews[q].pc = "updated" => Awaiting
  /\ runs[q].cp # NULL => runs[q].cp = ckpt

AnswerOf(v) == IF v.so = NULL THEN NULL ELSE v.so.answer

\* The record of a reviewer's verdict is the decision, about the answer the
\* thread holds; what is released under it is that answer.
VerdictSound ==
  LET v == ckpt.vals
  IN /\ v.record # NULL /\ ~ByGate(v) =>
          [reviewer |-> v.record.reviewer, action |-> v.record.action,
           answer |-> AnswerOf(v)] \in decisions
     /\ v.final # NULL =>
          /\ v.so # NULL /\ v.final.answer = v.so.answer
          /\ v.record # NULL /\ v.record.action = "approved"
          /\ v.final.reviewer = v.record.reviewer
     /\ ckpt.last \in {"final_response", "knowledge_update"} =>
          v.record # NULL /\ v.record.action = "approved"
     /\ v.record = NULL \/ ByGate(v) => decisions = {}

VerdictInv ==
  /\ decisions # {} \/ kb # {} => ckpt # NULL
  /\ \A q \in Requests : ReviewSound(q)
  /\ ckpt # NULL => VerdictSound
  /\ \A doc \in kb : ckpt.vals.final # NULL /\ doc = Ingested(ckpt.vals)
  /\ ckpt # NULL /\ ckpt.vals.kbUpdated => kb # {}

SessionInv == Inv /\ PathInv /\ ThreadInv /\ VerdictInv
=============================================================================
