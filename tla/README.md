# Verification of the agentic workflow

TLA+ specifications of the FastAPI/LangGraph question-answering workflow with
human approval, the TLC instances that check them and the TLAPS proofs about
them. Paths are relative to the repository's root, `app/` is `backend/app/`.

Contents: [the system](#1-the-system), [the modules](#2-modules-and-how-they-correspond-to-the-code),
[the runs](#3-what-each-run-checks), [bounds](#4-bounds-and-why-they-are-enough),
[fairness](#5-fairness), [proofs](#6-what-is-proved),
[divergences](#7-where-the-code-and-its-documentation-disagree),
[what is left out](#8-what-is-not-modelled), [the plan](#9-plan).

## 1. The system

A client posts a query; a background task drives it through a LangGraph graph
(classification, retrieval, reranking, generation, grading). A confidence gate
with a judge's veto releases good answers by itself; every other answer pauses
the graph before `human_approval` until a reviewer approves, edits or rejects
it. Approved answers are released and, on the manual path only, fed back into
the knowledge base. The thread's state lives in a PostgreSQL checkpointer, so a
pause survives a restart.

| Component | State | Operations | Interacts with | Hard behaviour | Correct when |
|---|---|---|---|---|---|
| Graph and nodes (`app/graph/`) | `AppState`: answer, three confidences, judge, approval status and record, flags, errors | 16 node bodies, conditional edges, the interrupt | LLM, vector store, reranker, web search, audit table: any may fail inside a node | errors are recorded and the graph goes on with missing values; a later edge reads what an earlier node may not have written | nothing is released without the gate or a reviewer; rejection releases nothing; what settles was audited or says why not |
| Approval service (`app/services/approval_service.py`) | none of its own: the thread | `submit_decision` (check, `aupdate_state`, `ainvoke`), status derivation | the thread, concurrently with other requests and runs | three awaits with stale reads; a crash between them | the answer decided about is the one released; a decision takes effect; the pause is left only by a decision |
| Endpoints, background tasks (`app/api/`) | registry of running tasks | submit, status, result, draft, approve, ingest | starts runs, polls the thread | a dead task is only logged; a session id submitted twice | a running session is being worked on |
| Confidence (`app/services/confidence.py`) | none | pure scores | gate, nodes | missing values count as zero; thresholds | an answer nobody generated never opens the gate |
| Startup, shutdown (`app/main.py`) | connections | lifespan | checkpointer | crash, restart: no run is resumed | nothing decided or paused is lost |
| Audit checkpoints (`app/checkpoints/`) | rows per session | save (the reads serve tests only) | `checkpoint_node` | the row and the thread are written separately | every pause or release has a row or an error |
| Document ingestion (`app/rag/ingestion.py`) | the collection | split, batch upsert, delete a source | embedding client, vector store | batches without rollback, lost answers, two-request removal; window arithmetic | acknowledged means stored; retries converge; nothing written is dropped |
| Vector store, embedding clients (`app/rag/`) | cached handles | collection, embed | Chroma, Ollama | lazily created under concurrency | one collection per name |
| Retrieval (`app/rag/retriever.py`) | none | query, parse, score | vector store | distances above 1, hits without text | scores in range, nearest first |
| Reranker (`app/rag/reranker.py`) | class-level model and lock | lazy load, warm-up, rerank | executor threads | several callers before the model is loaded; a failed load | loaded by one at a time, one model for all; the best documents are kept |
| Agents (`app/agents/`) | none | triage, retries, citation override and backfill | LLM | failing calls, invented or missing citations | citations carry the documents' scores; retries end |
| Evaluation (`app/evaluation/`) | none | judge, groundedness, precision prompts and parsing | LLM | malformed answers | scores in range |
| Observability (`app/observability/`) | metrics | spans, counters, logs | all | - | does not influence the workflow |
| Configuration (`app/core/`) | settings | validation | all | - | - |
| Frontend (`frontend/src/`) | polled status, result, draft, decision | poll, load, approve | endpoints | late answers after a change of session, other reviewers | shows the session it is on, never an older status, never frozen |
| Evaluation harness (`scripts/run_eval.py`) | case results | submit, poll, approve, record | endpoints | timeouts, `not_found` after submit, other reviewers | each case ends with a status that held and frees its slot |
| Graph drawing (`app/graph/visualization.py`) | none | draws | - | - | - |

## 2. Modules and how they correspond to the code

| Module | Models | Notes |
|---|---|---|
| `AgentState` | `AppState`, every node body as the set of states it may return, the conditional edges, the gate, the audit row, the ingested document, `_derive_status` | constants and operators, no variables |
| `WorkflowThread` | one session: the thread's latest checkpoint, the runs, the approval requests, the task registry, audit table, knowledge base, failures, crashes | one action per node, one per await of `submit_decision` |
| `ApprovalLifecycle` | what a client with one reviewer is promised: status and verdict | the abstract specification `WorkflowThread` refines |
| `SessionProperties` | what one submission and one reviewer may rely on, with the invariants behind it | the refinement mapping to `ApprovalLifecycle` is here |
| `MCWorkflow` | values of the constants for TLC | |
| `WorkflowThreadProofs`, `SessionProofs` | proofs about `WorkflowThread` and about `SessionProperties` | |
| `Chunking`, `ChunkingProofs` | the loop of `_chunk_text`, one iteration per step | |
| `Ingestion`, `MCIngestion`, `IngestionProofs` | calls of `ingest` and `delete_source` on one collection | |
| `LazyModel` | what the callers of the cached model are promised | the abstract specification `RerankerModel` refines |
| `RerankerModel`, `RerankerProofs` | class-level cache, lock and warm-up of `RerankerService` | one action per stretch between two awaits |
| `Generation`, `GenerationProofs` | from query to cited answer: retrieval, ranking, agents, schema gate | what `AgentState` has as outcomes |
| `WorkflowPage`, `MCPage`, `WorkflowPageProofs` | the session page of the frontend against sessions | composed with `ApprovalLifecycle`, one instance per session |
| `EvalHarness`, `EvalHarnessProofs` | the cases of `run_eval.py` against sessions | composed with `ApprovalLifecycle`, one instance per case |

### AgentState and WorkflowThread

`AgentState` keeps the fields of `AppState` that edges, gate, status or
endpoints read; documents, tokens, telemetry and texts are abstracted. A query
is named by the submission it came with, an answer generated for it by the same
name, so that a text always tells which query it was written for, and an edit by
a member of `Edits`. Scores are basis points, 0 to 10000; `ScoreOverall`
rounds to four digits as the code does, a tie up (the code's binary floats may
round it either way, which no threshold tells apart for the scores used). A
node that calls a service has the outcomes of success and of failure with an
error recorded; `Faulty` names the nodes whose service may fail. An outcome set
stands for the whole body with its exception handlers, so a checkpoint shows
what the body returned. A blank query (`BlankQuery`) is refused by the
retriever's embedding, the reranker and the support agent; the router and the
research agent do not look. An ingestion that fails in `knowledge_update` may
have stored the answer all the same, its upsert applied and its answer lost.

`WorkflowThread` has LangGraph as its external part, modelled from how the code
uses it: each node ends in a checkpoint, `aget_state` reads the latest one,
`aupdate_state` writes keys on top of it and re-evaluates the edges of the node
that completed last, `ainvoke(None)` continues it, `ainvoke(state)` overwrites
every key without a reducer. A node and its checkpoint are one step, except
that a run may die after the node's effect on the audit table or the knowledge
base and before its checkpoint. Each run keeps its own copy of the state, so
two runs of one thread overwrite each other as they do in the code.

| Code | Action |
|---|---|
| `submit_workflow`, its `_run` | `SubmitWorkflow`, `BeginRun` |
| the node functions | `Router` ... `KnowledgeUpdate`, collected in `RunNode` |
| `submit_decision`: `aget_state` and the check, `aupdate_state`, `ainvoke` | `CheckAwaiting` or `Refuse`, `UpdateState`, `ResumeRun` |
| an exception out of `ainvoke` | `RunDies` |
| loss of the process, `lifespan` | `ServerCrash` |

Over-approximations: a decision on a thread whose latest checkpoint is its
input is written as on any other; LangGraph's pending writes, which let a
crashed superstep skip a finished task, are not modelled (the graph is
sequential, a superstep has one task).

`ApprovalLifecycle` is refined under the mapping `phase <- Status` and
`verdict <- Verdict` (the approval record: none, the gate, or the reviewer's
action).

### Chunking

A text is the kind of each of its characters - ink, blank, other white space -
since the loop only looks for blanks and strips white space. A chunk is the set
of positions it keeps, which is what makes "nothing is lost" expressible.
`Whole` is the early return, `Cut` one loop iteration: `WindowEnd` is the
`rfind`, `NextStart` the overlap with its progress guarantee. `windows` is a
history of the slices.

### Ingestion

A document is its source, the source its metadata names (a `"source"` key of the
request's metadata overrides the document's, `_make_chunk_metadata`) and the
contents of its chunks. An id is what is hashed: source, index, first 128
characters. The metadata may override the stored `chunk_index` too; nothing
reads it and it is left out, the id keeps the index. Each step is one request to
the store: `UpsertBatch` one batch with its embedding, `BatchFails` a failure of
embedding, collection or upsert, where an upsert may have been applied although
its answer was lost, `ReadSource` and `DeleteIds` the two requests of
`delete_source`. The store refuses a batch that holds an id twice, as Chroma
does; such a call fails. Agent-specific collections are disjoint and each is an
instance of the module. `delete_source` is a public operation that no endpoint
calls today.

### RerankerModel and LazyModel

Every workflow run makes its own `RerankerService`, the warm-up task another;
the model and the lock belong to the class. A caller is at one of the awaits of
`rerank` or `_get_model` (`PCs`); what happens between two awaits is one step,
as asyncio has it. `BeginLoad` starts the load in a thread while holding the
lock, `LoadSucceeds` and `LoadFails` are its two ends, `UseCached` is the path of
those who find the model there, `Release` and `Wake` the lock with its queue.
`LazyModel` is what a caller may rely on; the mapping is `model <- cached`,
`answer <- got`.

### Generation

One query passes retrieval (`Retrieve`: parsing, similarity and
`score_retrieval`), ranking (`Rerank`: scores, the stable descending sort, the
cut), for the support route the triage (`Assess`), the answer with or without
documents (`GenerateWithContext`, `GenerateDirect`: citation override and
backfill) and the schema gate (`StructuredOutput`, `NoDraft`). Every pass of a
language model is tried up to `MaxAttempts` times (`AttemptFails`, `GiveUp`).
A text is reduced to whether it is missing, shorter than a citation's minimum
of five characters, or longer; an answer to its `[n]` and `[id]` markers and to
whether it contains one of the "no information" phrases; citations are a set.
A blank query, which the services refuse with an error, is one of the failing
calls. Documents are numbered by their place in the hits.

The code rounds the two confidences to four places (`_clamp`) and nothing else:
similarities, rerank scores, the scores of citations and the comparison of a
document with 0.5 are raw floats. So scores are in raw units, `Grain` of which
make one unit of 1/10000 in which confidences are reported. `Clamp` is the set
of reported values nearest to a quotient of raw scores: one, or two at a tie,
where the float the tie falls on decides. The mean is computed exactly and the
maximum taken over the ranked documents, both then go through `Clamp`.

### WorkflowPage

The server is one `ApprovalLifecycle` per session, so another reviewer's
decision is part of it. On the page a run of the polling effect is a record of
`loops` with its own `cancelled`, so that answers of cancelled runs still
arrive; `timeoutRef` is the shared ref. `TimerFires`, `ReadStatus` and one of
`DropAnswer`, `KeepWaiting`, `ShowStatus`, `PollFails` make one `poll`.
`ShowStatus` includes the render it causes with its effects (`Render`): the
fetch of the result, the mounting of the panel with its draft. `Click`,
`Accept`, `RequestFails`, `RequestSucceeds` are a decision on its way,
`refetch` and `Restart` the new run of the effect. `Navigate` is the change of
the session under the mounted page, `Leave` its unmounting.

### EvalHarness

A case is at one of the requests of `_run_case`; `polls` tells the second
`_poll` from the first. `Poll` reads the status, `PollOn` sleeps, `Answered`
returns it, `GiveUp` is the deadline (and the end of the sixty seconds in which
`not_found` is waited for). `Approve` is the request taken by the server,
`ApproveReturns` its answer, which comes when the session has settled.
`RequestFails` is any exception: the case records it and leaves the semaphore.

## 3. What each run checks

| Run | Instance | Properties |
|---|---|---|
| `solo` | one submission, one request, any call failing, fairness | `ImplementsLifecycle`: refinement of `ApprovalLifecycle`, with its liveness; `ReleasedAnswerIsDecided`; `AuditedOrReported`; `DecisionTakesEffect` |
| `failures` | the same with a dying run and a server crash | `KnowledgeMatchesRelease`: what is in the knowledge base is the released answer, even when the run died between ingestion and checkpoint; `SessionInv`, the inductive invariant it rests on; `PauseIsDurable` |
| `race` | two requests, all interleavings | `ReleaseAuthorized`, `KnowledgeReviewed`, `RunningIsBacked` |
| `resubmit` | the session id submitted twice (the second with a blank query, which the retriever, the reranker and the support agent refuse) and one request | `Inv`, the inductive invariant; `AutoApprovedHasOutput` |
| `chunking` | every text of up to nine characters | `ShortWordsKept`, `ChunksFit`, `MovesForward` |
| `ingestion` | two calls and a removal, five requests | `AcknowledgedIsStored`, `RetriesConverge`, `RemovalIsExact`, `TypeOK` |
| `reranker` | three runs and the warm-up, loads may fail, fairness | `LoadsAreExclusive`; `SharesOneModel`: refinement of `LazyModel`; `CallsReturn`; `Inv` |
| `page` | two sessions, two overlapping runs of the effect, two decisions in flight | `OneLoop`, `NeverGoesBack`, `NeverFrozen`, `DecisionIsShown`, `PageInv` |
| `harness` | two cases, one slot, fairness | `ReportsAreTrue`, `NothingIsLeftUnsaid`, `AtMostConcurrency`, `EveryCaseEnds`, `Inv` |
| `generation` | up to three hits, two ranked, both routes, fairness | `ConfidenceWithinEvidence`, `BestAreKept`, `CitationsAreScored`, `ConfidentAnswersConsult`, `UncitedAnswersSaySo`, `GenerationEnds`, `Inv` |
| `claim_*` | see [section 7](#7-where-the-code-and-its-documentation-disagree) | each violated |

What they show, in short: whatever the interleaving of reviewers, runs, failures
and crashes, what is released was let pass by the gate or names a reviewer who
wrote an approval, what is learned names such a reviewer, and the text of either
is the one generated for the session's own query or an edit that some approval
was about - never an edit sent with a rejection, never the text of another
submission. With one reviewer the released text is the text decided about, and
every session that starts, and is reviewed, settles. With two reviewers that is
not so: both pass the check, the first approves with an edit and writes it, the
second approves the draft it saw, without an edit, and writes its record over
the first's; the edit is released, and ingested, under the name of the second,
who never saw it. `ReleaseAuthorized` and `KnowledgeReviewed` therefore say of
the named reviewer only that an approval was written, and
`ReleasedAnswerIsDecided` and `KnowledgeMatchesRelease`, which say all of it,
are checked with one. `RunningIsBacked` holds as long as no run dies, which the
`race` run assumes. The reranker's model is loaded by one caller at a time and
shared by all, and a failed load costs only the caller that made it. What a page
or the harness says of a session is true of that session although it was read
earlier, the disabled form of a decision is always followed by a poll that tells
its outcome, and what the pipeline hands to the reviewer cites the documents it
was written from with their scores.

Runs that stop on purpose (a settled session, a returned call, a page at rest)
switch the deadlock check off. That nothing stops early is checked by
`ImplementsLifecycle`, `DecisionTakesEffect`, `CallsReturn`, `EveryCaseEnds` and
`GenerationEnds`; for the page, that it never stands still in silence, by the
invariants `NeverFrozen` and `DecisionIsShown`.

Each property of a passing run has a mutant: a version of one mapped definition
with a plausible mistake (a lost guard, a swapped branch, an id without its
index) under which TLC finds the property violated. Mutants stand before the
definition they mutate, marked `Mutant:`.

## 4. Bounds and why they are enough

- `Submissions`, `Requests`: two actors are enough for a check and a write of
  one to enclose a write of the other; a third adds no new pair of steps. The
  proofs need no bound.
- `ConfScores = {2000, 10000}`, `JudgeScores = {5999, 6000}`: with weights 2:3:5
  the pairs lie on both sides of the gate's threshold (0.70) and of the judge's
  (0.60), and a missing score is always possible.
- `Edits`: one text and a blank one (a blank answer is not ingested). One text is
  enough for an edit of one reviewer to meet the other's decision without one.
- `Faulty`: all nodes in `solo` and `failures`; in `race` and `resubmit` those
  whose failure changes a branch: router, generator, judge, knowledge update.
- `MaxFaults`, `MaxCrashes`: at most one each; after a crash nothing resumes, so
  a second finds the same thread.
- `ChunkSize = 5`, `ChunkOverlap = 1`, `MaxLength = 9`: windows with several
  candidate blanks, with one inside the overlap and with none, and texts of up
  to three windows.
- `BatchSize = 2`: requests of no batch, of one, of one and a rest, an id twice
  within a batch and in two batches, changed beginnings and changed ends.
- `Runs` of the reranker: three, and the warm-up: one loads, one waits first,
  one waits behind it when the load fails.
- `WorkflowPage`: two sessions, since an answer is for the session shown or for
  another; two loops, a cancelled one and its successor; two decisions in flight,
  that of a form which is no longer shown and that of its successor (the proofs
  need no bound on either). The names of sessions, loops and requests are
  symmetric, which is sound as only safety is checked. `NOT_FOUND_PATIENCE = 2`, where
  the code has 6: one answer that is waited out and one that is not.
- `EvalHarness`: two cases for one slot, so that a failing case blocks the other
  if it keeps the slot. Time is not modelled: a deadline may pass at any poll.
- `Generation`: three hits of which two are ranked, so that a document is left
  out; ten raw units to a reported one (`Grain`), a similarity of 0.80006, which
  alone is reported as 0.8001, and one of 0, from a distance above 1; rerank
  scores of 0.49995, a tie whose rounding reaches the bound of 0.5 that the score
  misses, and of 0.50006, confidences of the model on both sides of 0.7; at most one citation and
  one marker in a reply (`MaxCites`, `MaxMarks`), which suffice for a citation
  of a given, a left-out and an invented document and for each kind of marker.

## 5. Fairness

`FairSpec` requires that what the server has started goes on: a created task
begins, an active run takes its next node, a request past its check writes and
resumes. asyncio schedules every ready task, and each node turns the failure of
a call into an outcome; assumed is that such a call returns or fails, which not
every one of them ensures by a timeout. Nobody has
to submit or review, and nothing has to fail. The safety properties do not use
fairness; `Chunking`, `Ingestion` and `WorkflowPage` have none.

`RerankerModel!FairSpec`: a caller that can go on does, and a load that was
started ends; nobody has to call. `EvalHarness!FairSpec`: every case goes on (a
request has a timeout), the server need not; entering is strongly fair, because
the semaphore serves its waiters in order, and so is giving up, because the
deadline comes however often a poll says "running". `Generation!FairSpec`: the
task of the query goes on, under the same assumption: that the calls of the
language model, the embedding and the reranker return or fail. The code does not
ensure it. The `timeout` given to `ChatOllama` is a keyword its type does not
know (`support_agent.py:187`, `research_agent.py:211`), and the threads the
retriever awaits have none (`retriever.py:103`).

## 6. What is proved

`WorkflowThreadProofs`, for every set of submissions, requests, edits and
scores, every choice of failing nodes and any number of crashes:
`Invariance` (`Spec => []Inv`) and from it `TypeCorrect`, `ReleaseIsAuthorized`,
`KnowledgeIsReviewed` and `AutoApprovalReleases`.

`ReleaseAuthorized` is not inductive: a run's private copy of the state becomes
the thread's checkpoint, so it must already be sound. `Sound(c, D)` says of
every checkpoint - the latest, and each run's - that its next node follows from
its values, that an answer confidence comes with an output, that the status
agrees with the record and the record with a decision in `D` or with the gate
while the values the gate saw are still there, that a draft is for the query and
an output is the draft or an edit some approval in `D` was about (`TextSound`),
and that a released response was authorised. The proof goes by the kinds of
steps: a node (each outcome set keeps `Sound`), a decision (grows `D`, and
`Sound` is monotonic in it), resuming (copies a sound checkpoint), failures
(keep the thread). The lemma behind the gate is arithmetic: without an answer
confidence the other two weigh one half and stay below 0.70.

`SessionProofs` goes on from there, in three layers that each assume only what
the code needs:

- Nothing assumed, any submissions, reviewers, dying runs and crashes:
  `AuditTrail` (`AuditedOrReported`) from `PathInv`, that every checkpoint past a
  node has what the node leaves; `RunningSessionsAreBacked`, `RunningIsBacked` as
  long as nothing has died or crashed.
- One submission (`OneSubmission`), any reviewers, dying runs and crashes:
  `PauseSurvives` (`PauseIsDurable`). A second submission of the id restarts the
  thread, so it does leave the pause without a decision. `ThreadInv` says that
  the submission's run and the runs that reviewers resume are never active
  together, and that a reviewer's run stays between `web_search` and the end.
- One submission and one reviewer (`OneReviewer`), dying runs and crashes:
  `ReleaseIsTheDecision`, `KnowledgeIsTheRelease` and `SessionFollowsLifecycle`,
  the refinement of `ApprovalLifecycle` but for its fairness (`LifecycleSteps`).
  A second reviewer may overwrite the first's edit, and its late write moves the
  status back, so both hypotheses are needed. `VerdictInv` carries the decision:
  while the reviewer is between check and resumption the thread is as it was
  when read; the record is the decision about the answer the thread holds; what
  is released, and what the knowledge base holds, is that answer.

Every proof there rests on two lemmas about all the nodes at once: `NodeStep`,
that a step of a run changes of the state what its node's body changes
(`NodeEffect`), and `SnapshotStep`, that after any step every checkpoint that
somebody holds is an old one, one a node made of an old one, or a decision
written upon one. The refinement has one lemma for each kind of step: one of the
submission's run, of the reviewer's run, a beginning, a decision.

`ChunkingProofs`, for every text, window and overlap (also an overlap larger
than the window): `ChunkingKeepsShortWords`, every character that is not white
space and lies before the next window is in a chunk unless it is inside a
stretch without blanks at least `ChunkSize - ChunkOverlap - 1` long;
`ChunkingMovesForward`, so the loop ends after at most as many windows as
characters; `ChunkingFits`: no chunk is empty or longer than the window and each
begins no later than the next; `ChunkingTypeCorrect`. The order of the chunks
needs `Ordered`: the last chunk has a character before all ink the loop has still
to write, which the next window cannot undercut because it starts later.

`IngestionProofs`, for any documents, batch size and number of calls:
`AcknowledgedStored`, `RetriesAreIdempotent`, `RemovalsAreExact`,
`IngestionTypeCorrect`. The invariant adds where each entry comes from
(`Provenance`: some call's chunk with that id), that what was written is held or
was removed, and that the ids a removal read are its source's but for what was
written since. `FlatTyped` proves that flattening a call's documents gives typed
chunks, so that no assumption says so.

`RerankerProofs`, for any set of runs and any number of failures:
`RerankerInvariance`, `LoadsExclusive` and the refinement `RefinesLazyModel`.
Mutual exclusion needs the invariant that whoever is between `Acquire` and
`Release` is the lock's holder; the refinement needs besides that a call without
an answer is not past the lock, and that a loader found the cache empty, which
stays so while it holds the lock.

`WorkflowPageProofs`, for any sessions, loops, requests and patience:
`PageInvariance`, `PageHasOneLoop`, `PageNeverFreezes`, `PageShowsDecision`,
`PageNeverGoesBack`. That a
shown status never goes back needs the order of three things: what is shown is
not ahead of the answer that has arrived, which is not ahead of the server
(`StatusSound`, `LoopsSound`); it rests on the lemma that a step of
`ApprovalLifecycle` never lessens `Progress`. That a decision is shown needs
`FormSound` (a form sends one decision at a time, of the session shown, which
awaits approval) and `OutcomeDue`: once the answer has come every live loop is
going to tell of a settled session, or a new run of the effect is due.

`EvalHarnessProofs`, for any cases and concurrency: `HarnessInvariance`,
`HarnessReportsAreTrue`, `HarnessLeavesNothingUnsaid`, `HarnessIsBounded`.
`CaseSound` says at which step what was read is final, by the stability of
settled sessions; `SlotsCounted`, that free slots and cases at work add up.

`GenerationProofs`, for any number of documents, scores and replies:
`GenerationInvariance` (types and all that follows), `GenerationSoundness`, and
from it `CitationsScored`, `ConfidentConsults` and `UncitedSaySo`;
`ConfidenceIsEvidence` and `BestDocumentsAreKept`. `Sound` carries what the
draft owes to the ranked documents (`DraftIsSound`) through the schema gate,
and, for the support route, that the triage cannot skip documents the confidence
will be taken from. `Evidence` adds the two facts about numbers. The retrieval
confidence is a mean with weights that fall with the rank, of scores that fall
with it too: by Chebyshev's inequality (`WeightsFavourTheFirst`) it is at least
the plain mean, and it is at most the best score (`ConfidenceOfFalling`), both
but for half a reported unit; `ParsedFall` says that the scores do fall.
`ClampIsNearest`, `RoundedMeanAbove` and `RoundedMeanBelow` are the facts about
the rounding, for any `Grain`: a score of any finite precision is one of some
`Grain`. The same half unit is in `CitationsScored` (a citation of 0.26894142
beside a confidence of 0.2689), and is why `ConfidentConsults` speaks of
confidences above 0.5. The sort places each document behind as many as precede
it: no two are placed alike (`PlacesInOrder`), so by counting every place is
filled (`PlacesAreFilled`) and the first ones hold the best
(`TopRankedAreBest`).

A loop over a sequence is a recursive function here, and neither its existence
nor what it computes is given to the provers. Both are proved from the least
number for which they would fail (`LeastNumber`): `LoopRuns` is the existence for
any loop that starts with a value and makes the next from the last, `SumRuns` and
`ParsedOneMore` apply it, and each fact about a loop is one step of it under a
minimal counterexample. So the recursive definitions of `Generation` and
`Ingestion` are proved about at every length.

Assumptions: `ConstantsAssumption`, `NullAssumption`, `CheckpointAssumption`,
`BoundsAssumption`, `ChunkingAssumption`, `IngestionAssumption`,
`RerankerAssumption`, `PageAssumption`, `HarnessAssumption`,
`GenerationAssumption`. They type the
constants and keep sentinels apart from data; TLC evaluates them in the runs.

Only model-checked: liveness, which needs fairness - `DecisionTakesEffect`,
`CallsReturn`, `EveryCaseEnds`, `GenerationEnds` and the fairness of
`ApprovalLifecycle` in `ImplementsLifecycle`. Every invariant and action property
of the passing runs is a theorem, under the hypotheses named above.

## 7. Where the code and its documentation disagree

Shown by a run that TLC must find violated:

- `claim_reingest`: `routes.py:493`, re-ingesting updates existing entries. The
  id contains the chunk's first 128 characters and nothing is deleted: a
  document whose chunk begins differently, or that became shorter, leaves its
  old chunks to be retrieved beside the new ones.
- `claim_result`: `WorkflowPage.tsx:54`, "Fetch the final result once the workflow
  completes". The page stays mounted when the session in its path changes (a
  jump in the browser's history), the poller is reset, but `result` is not, and
  the effect's guard skips the fetch: a completed session is shown with the
  answer of the one before it.

Met while modelling, and visible in the definitions, without a run:

- `routes.py:445` promises "completed" or "rejected" after an approval. When
  generation failed there is nothing to release: `final_response_node` records
  an error, the graph ends, the endpoint answers 200 and the session is "failed".
- `README.md:316` says the judge's recommendation feeds into the gate. The gate
  compares the score with 0.60 and never reads the recommendation, whose
  threshold is 0.70: 0.60 to 0.69 is "needs_review" and auto-approved.
- `approval_service.py:134` refuses a session that is not awaiting approval. Two
  reviewers pass the check, the first one's run resumes, and the second writes
  its decision into a session that is being released (`CheckAwaiting`,
  `UpdateState`).
- `routes.py:132`, "Graph is still executing nodes". A background run that raises
  is logged; the thread keeps its next node and the status stays "running" for
  ever (`RunDies`).
- Adjacent chunks share content (`test_retrieval.py:370`). When a window's last
  blank lies within the overlap of its start, the fallback starts the next
  window behind the end of this one. With the defaults 512/64,
  `"see " + "x" * 600 + " end"` loses some 440 characters; `ShortWordsKept` says
  exactly what may be lost.
- `main.py:48`: the warm-up runs in a task, so the `try` around its creation never
  sees a failed load and `reranker_prewarm_failed` is never logged.
- `research_agent.py:128`: scores are "authoritative values from docs"; a citation
  of a document that was not in the prompt keeps the score the model wrote, and
  is released.
- `_backfill_citations` on a document of fewer than five characters raises,
  because an excerpt needs five: a valid answer is lost (`Unquotable`).
- The direct support prompt says that citations will be empty; what the model
  cites nevertheless is kept. Such an answer's confidence comes from documents it
  did not use (`structured_output.py:72`). It is at most 0.5, and it is 0.5 when
  the best score is just below: 0.49996 is not relevant to the agent, which
  compares it as it is, and is reported as 0.5. `ConfidentAnswersConsult` says so,
  and the run has such scores.
- The effect of `WorkflowPage.tsx:56` first runs with the previous session's
  status, so a change from a completed session sends one `/result` request for
  the new one, which the next render cancels. `resultError` is never reset.
- Polling stops at "awaiting_approval", so the decision of another reviewer is
  never shown; the own one is then refused with 409 and the form says so. One
  failed poll stops polling for good. A draft that failed to load leaves the
  buttons enabled.
- `run_eval.py:358`: after a timeout or a failed request the slot is free while the
  server still works, so it may run more workflows than the concurrency. A
  completed case whose `/result` failed counts as completed and not
  auto-approved.
- `routes.py:172`: the result is "only available when status = completed"; the
  code tests that a response is set, which it is while `knowledge_update` runs.
  `routes.py:310`: the draft is "only available when status =
  awaiting_approval"; the code tests that an output is set.
- `schemas/requests.py:13`, "Resume an existing workflow session": a submitted
  id starts over, overwriting the thread.
- `workflow.py:24`, "Falls through to END if errors were recorded (router
  failed)": errors are appended across submissions, so an error of an earlier
  run ends a later one.
- `dependencies.py:27`: of two tasks of a session the first to end unregisters
  the second.
- `README.md:944`: `APPROVAL_TIMEOUT_SECONDS` is read by nothing.
- `state.py:205` and `state.py:357`: the answer confidence is the "mean" rerank
  score. `score_answer` takes the maximum, and its own docstring says why
  (`confidence.py:64`); `CitationsAreScored` compares citations with the maximum.
- `state.py:180`: the hallucination rate released with an edited answer was
  measured on the draft (`final_response.py:34`).
- `ingestion.py:51`: "chunks never cut a word in half". Their ends do not when
  the window has a blank; their starts, at a fixed distance, do.
- `ingestion.py:126`: the "number of chunks stored" counts a chunk that another
  batch of the same call overwrote.

## 8. What is not modelled

- The wording of prompts and the judge, groundedness and precision services in
  `evaluation/`: one call and its parsing each, any outcome of which `AgentState`
  accepts. The router agent likewise.
- `PostgresCheckpointStore` and the reads of the audit repository: only tests call
  them; the application opens its own pool and writes rows.
- The handles the vector store and embedding clients cache, beside their
  failures; the setup of the pool and of tracing in `lifespan`.
- The mapping of the state to responses, `current_node` and `error` beside the
  status among it: the page displays them and decides nothing by them.
- `HomePage` (a form that submits) and the components that only render; the
  harness's aggregation, printing and RAGAS scoring, which run after the cases.
- Observability, configuration, graph drawing, build and deployment files.

`PROJECT.json` lists every component with its status.

## 9. Plan

Done, in this order: `AgentState`, `WorkflowThread` and `ApprovalLifecycle`;
`Chunking`; `Ingestion`; `RerankerModel` over `LazyModel`; `WorkflowPage` and
`EvalHarness` over `ApprovalLifecycle`; `Generation`; the proofs of each.

The proofs cover every property that the passing runs check without fairness.
Left, most valuable first:

1. What several reviewers of one session may rely on beyond `ReleaseAuthorized`:
   a reviewer whose write is the last before the release, and the only one after
   its check, decides as if alone.
2. The handles cached by the clients of the vector store under concurrency, if
   they come to be shared between requests.
