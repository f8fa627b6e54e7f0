----------------------------- MODULE Generation -----------------------------
(***************************************************************************)
(* From a query to a cited answer: the documents the store returns         *)
(* (rag/retriever.py), their ranking (rag/reranker.py), the research and   *)
(* the support agent with their retries (agents/), and the schema gate     *)
(* (structured_output.py).  AgentState has these nodes as outcomes only;   *)
(* here is what they compute.                                              *)
(*                                                                         *)
(* Document k is the k-th the store returns; a list of citations is a set. *)
(* Confidences are reported in units of 1/10000, to which                  *)
(* services/confidence.py rounds.  The scores they are taken from are      *)
(* floats that nothing rounds: they are in raw units, Grain of which make  *)
(* one reported unit.  Of an answer's text, its citation markers and       *)
(* whether it says that it has no information are kept.  A blank query     *)
(* fails where the calls it makes may fail.                                *)
(***************************************************************************)
EXTENDS Integers, Sequences, FiniteSets

CONSTANTS TopK,          \* rag.retrieval_top_k
          TopN,          \* rag.reranker_top_n
          MaxAttempts,   \* calls of the language model before giving up
          Distances,     \* cosine distances the store may return
          ModelScores,   \* scores the cross-encoder may give
          LlmScores,     \* scores the language model may write or feel
          MaxCites,      \* bound on the citations the model lists
          MaxMarks,      \* bound on the markers in one answer
          Grain,         \* raw units in one unit of a reported confidence
          NULL

Reported == 10000
RelevantAt == 5000
One == Reported * Grain
ConfidenceThreshold == 7000 * Grain

ASSUME GenerationAssumption ==
  /\ TopK \in Nat \ {0} /\ TopN \in 1 .. TopK
  /\ MaxAttempts \in Nat \ {0} /\ Grain \in Nat \ {0}
  /\ Distances \subseteq 0 .. 2 * One
  /\ ModelScores \subseteq 0 .. One /\ LlmScores \subseteq 0 .. One
  /\ MaxCites \in Nat /\ MaxMarks \in Nat
  /\ NULL \notin BOOLEAN

VARIABLES
  pc,            \* the step of the pipeline
  route,         \* "research" or "support"
  retrieved,     \* retrieved_documents
  retrievalConf, \* retrieval_confidence
  raw,           \* the cross-encoder's score of each retrieved document
  ranked,        \* reranked_documents
  tries,         \* calls of the language model made for this pass
  used,          \* retrieval_used: the prompt held the documents
  draft,         \* draft_response
  output,        \* structured_output
  answerConf,    \* answer_confidence
  errors         \* an error was recorded

vars == <<pc, route, retrieved, retrievalConf, raw, ranked, tries, used, draft,
          output, answerConf, errors>>
documents == <<retrieved, retrievalConf, raw, ranked>>

DocIds == 1 .. TopK
Invented == 0
Citations == [id : DocIds \cup {Invented}, score : 0 .. One]
\* A marker is the position of a document in the prompt, or its id.
Marks == [kind : {"position"}, at : 1 .. TopN + 1] \cup [kind : {"id"}, at : DocIds]
Answers == [marks : SUBSET Marks, noInfo : BOOLEAN]
Drafts == [cites : SUBSET Citations, answer : Answers]

Docs == [id : DocIds, score : 0 .. One, short : BOOLEAN]
Steps == {"retrieve", "rerank", "assess", "generate", "structured_output", "done"}

Init ==
  /\ pc = "retrieve"
  /\ route \in {"research", "support"}
  /\ retrieved = <<>> /\ retrievalConf = NULL
  /\ raw = <<>> /\ ranked = <<>>
  /\ tries = 0 /\ used = FALSE
  /\ draft = NULL /\ output = NULL /\ answerConf = NULL
  /\ errors = FALSE

-----------------------------------------------------------------------------
(***************************************************************************)
(* Retrieval                                                               *)
(***************************************************************************)
\* Mutant: a distance above 1 gives a negative similarity.
DistanceToScoreUnclamped(d) == One - d

DistanceToScore(d) == IF d > One THEN 0 ELSE One - d

\* What the store returns: the nearest first, some without their text.
Hits ==
  UNION {{h \in [1 .. n -> [distance : Distances, text : {"missing", "short", "long"}]] :
            \A i, j \in 1 .. n : i < j => h[i].distance <= h[j].distance} :
         n \in 0 .. TopK}

\* The loop of _parse_chroma_results: entries without a text are left out.
ParseResults(hits) ==
  LET doc(i) == [id |-> i, score |-> DistanceToScore(hits[i].distance),
                 short |-> hits[i].text = "short"]
      parsed[i \in 0 .. Len(hits)] ==
        IF i = 0 THEN <<>>
        ELSE IF hits[i].text = "missing" THEN parsed[i - 1]
        ELSE Append(parsed[i - 1], doc(i))
  IN parsed[Len(hits)]

SumTo(f, n) == LET sum[i \in 0 .. n] == IF i = 0 THEN 0 ELSE sum[i - 1] + f[i] IN sum[n]
Factorial(n) == LET fac[i \in 0 .. n] == IF i = 0 THEN 1 ELSE i * fac[i - 1] IN fac[n]

\* The quotient of raw scores a / b to the nearest reported confidence.  A tie
\* goes either way, as the float on which it falls lies; inside 0 .. 1 the
\* clamping changes nothing.
Clamp(a, b) ==
  LET unit == b * Grain
      down == a \div unit
  IN {c \in {down, down + 1} :
        2 * a - unit <= 2 * unit * c /\ 2 * unit * c <= 2 * a + unit}

\* Mutant: the documents counted from the wrong end.
ScoreRetrievalReversed(docs) ==
  LET n == Len(docs)
      weights == [i \in 1 .. n |-> Factorial(n) \div (n + 1 - i)]
      weighted == [i \in 1 .. n |-> weights[i] * docs[i].score]
  IN IF n = 0 THEN {0} ELSE Clamp(SumTo(weighted, n), SumTo(weights, n))

\* The position-weighted mean: 1, 1/2, 1/3 ... in units of 1/n!.
ScoreRetrieval(docs) ==
  LET n == Len(docs)
      weights == [i \in 1 .. n |-> Factorial(n) \div i]
      weighted == [i \in 1 .. n |-> weights[i] * docs[i].score]
  IN IF n = 0 THEN {0} ELSE Clamp(SumTo(weighted, n), SumTo(weights, n))

Retrieve ==
  /\ pc = "retrieve"
  /\ \E hits \in Hits :
       /\ retrieved' = ParseResults(hits)
       /\ retrievalConf' \in ScoreRetrieval(ParseResults(hits))
  /\ pc' = "rerank"
  /\ UNCHANGED <<route, raw, ranked, tries, used, draft, output, answerConf, errors>>

RetrieveFails ==
  /\ pc = "retrieve"
  /\ errors' = TRUE /\ pc' = "rerank"
  /\ UNCHANGED <<documents, route, tries, used, draft, output, answerConf>>

-----------------------------------------------------------------------------
(***************************************************************************)
(* Reranking                                                               *)
(***************************************************************************)
\* sort(reverse=True): by descending score, equal ones in the order they had.
Before(scores, i, j) == scores[i] > scores[j] \/ (scores[i] = scores[j] /\ i < j)
Place(scores, i) == 1 + Cardinality({j \in DOMAIN scores : Before(scores, j, i)})
Sorted(scores) ==
  [k \in DOMAIN scores |-> CHOOSE i \in DOMAIN scores : Place(scores, i) = k]

Least(a, b) == IF a < b THEN a ELSE b
Ranked(k, scores) == [retrieved[k] EXCEPT !.score = scores[k]]

\* Mutant: cut to the first top_n and sort those.
TopRankedOfFirst(scores) ==
  LET n == Least(TopN, Len(retrieved))
      first == [k \in 1 .. n |-> scores[k]]
  IN [k \in 1 .. n |-> Ranked(Sorted(first)[k], scores)]

TopRanked(scores) ==
  [k \in 1 .. Least(TopN, Len(retrieved)) |-> Ranked(Sorted(scores)[k], scores)]

AfterRanking == IF route = "support" THEN "assess" ELSE "generate"

Rerank ==
  /\ pc = "rerank"
  /\ \E scores \in [DOMAIN retrieved -> ModelScores] :
       /\ raw' = scores
       /\ ranked' = TopRanked(scores)
  /\ pc' = AfterRanking
  /\ UNCHANGED <<route, retrieved, retrievalConf, tries, used, draft, output,
                 answerConf, errors>>

\* Without documents no model runs, but a blank query is refused before that.
RerankFails ==
  /\ pc = "rerank" /\ (retrieved # <<>> \/ errors)
  /\ errors' = TRUE /\ pc' = AfterRanking
  /\ UNCHANGED <<documents, route, tries, used, draft, output, answerConf>>

-----------------------------------------------------------------------------
(***************************************************************************)
(* The agents: up to MaxAttempts calls for each pass, an answer of the     *)
(* wrong type is not asked for again.                                      *)
(***************************************************************************)
Asking == pc \in {"assess", "generate"}

\* Mutant: every attempt starts counting anew.
AttemptFailsUncounted ==
  /\ Asking
  /\ tries' = (tries + 1) % MaxAttempts
  /\ UNCHANGED <<documents, pc, route, used, draft, output, answerConf, errors>>

AttemptFails ==
  /\ Asking /\ tries + 1 < MaxAttempts
  /\ tries' = tries + 1
  /\ UNCHANGED <<documents, pc, route, used, draft, output, answerConf, errors>>

\* The last attempt failed, or the answer was none: the node records an error.
GiveUp ==
  /\ Asking
  /\ errors' = TRUE
  /\ tries' = 0 /\ pc' = "structured_output"
  /\ UNCHANGED <<documents, route, used, draft, output, answerConf>>

Assessments == [direct : BOOLEAN, confidence : LlmScores, needsContext : BOOLEAN]

NeedsRetrieval(a) ==
  ~a.direct \/ a.confidence < ConfidenceThreshold \/ a.needsContext

HasRelevantDocs == \E k \in DOMAIN ranked : ranked[k].score >= RelevantAt * Grain

Given == {ranked[k].id : k \in DOMAIN ranked}

\* Mutant: the triage alone decides.
UseRetrievalAsAssessed(a) == NeedsRetrieval(a) /\ Given # {}

UseRetrieval(a) == (NeedsRetrieval(a) \/ HasRelevantDocs) /\ Given # {}

Assess ==
  /\ pc = "assess"
  /\ \E a \in Assessments : used' = UseRetrieval(a)
  /\ tries' = 0 /\ pc' = "generate"
  /\ UNCHANGED <<documents, route, draft, output, answerConf, errors>>

\* What the language model may return: it cites what it likes.
Replies ==
  [cites : {c \in SUBSET [id : DocIds \cup {Invented}, score : LlmScores] :
              Cardinality(c) <= MaxCites},
   answer : [marks : {m \in SUBSET Marks : Cardinality(m) <= MaxMarks},
             noInfo : BOOLEAN]]

ScoreOf(id) == ranked[CHOOSE k \in DOMAIN ranked : ranked[k].id = id].score

\* Mutant: a score the language model wrote is kept.
OverrideMissingScores(cites) ==
  {IF c.id \in Given /\ c.score = 0 THEN [c EXCEPT !.score = ScoreOf(c.id)] ELSE c :
     c \in cites}

OverrideCitationScores(cites) ==
  {IF c.id \in Given THEN [c EXCEPT !.score = ScoreOf(c.id)] ELSE c : c \in cites}

\* The documents of the prompt that the answer marks, by position or by id.
Marked(answer) ==
  {k \in DOMAIN ranked :
     \/ [kind |-> "position", at |-> k] \in answer.marks
     \/ [kind |-> "id", at |-> ranked[k].id] \in answer.marks}

\* Mutant: the answer's excuse is looked for before its markers.
CitedExcuseFirst(answer) ==
  IF answer.noInfo THEN {}
  ELSE IF Marked(answer) # {} THEN Marked(answer) ELSE DOMAIN ranked

Cited(answer) ==
  IF Marked(answer) # {} THEN Marked(answer)
  ELSE IF answer.noInfo THEN {} ELSE DOMAIN ranked

\* _backfill_citations runs when the model left the list empty.
BackfillCitations(cites, answer) ==
  IF cites # {} \/ Given = {} THEN cites
  ELSE {[id |-> ranked[k].id, score |-> ranked[k].score] : k \in Cited(answer)}

\* A backfilled excerpt of less than five characters fails the validation.
Unquotable(cites, answer) ==
  cites = {} /\ \E k \in Cited(answer) : ranked[k].short

GenerateWithContext ==
  /\ pc = "generate" /\ (route = "research" \/ used)
  /\ \E r \in Replies :
       IF Unquotable(r.cites, r.answer)
       THEN errors' = TRUE /\ UNCHANGED draft
       ELSE /\ draft' = [cites |-> BackfillCitations(OverrideCitationScores(r.cites), r.answer),
                         answer |-> r.answer]
            /\ UNCHANGED errors
  /\ used' = TRUE
  /\ tries' = 0 /\ pc' = "structured_output"
  /\ UNCHANGED <<documents, route, output, answerConf>>

GenerateDirect ==
  /\ pc = "generate" /\ route = "support" /\ ~used
  /\ \E r \in Replies : draft' = r
  /\ tries' = 0 /\ pc' = "structured_output"
  /\ UNCHANGED <<documents, route, used, output, answerConf, errors>>

-----------------------------------------------------------------------------
(***************************************************************************)
(* The schema gate                                                         *)
(***************************************************************************)
\* score_answer: the best of the ranked documents, consulted or not, rounded.
Best(k) == \A j \in DOMAIN ranked : ranked[j].score <= ranked[k].score
ScoreAnswer ==
  IF ranked = <<>> THEN {0}
  ELSE UNION {Clamp(ranked[k].score, 1) : k \in {j \in DOMAIN ranked : Best(j)}}

StructuredOutput ==
  /\ pc = "structured_output" /\ draft # NULL
  /\ output' = draft
  /\ answerConf' \in ScoreAnswer
  /\ pc' = "done"
  /\ UNCHANGED <<documents, route, tries, used, draft, errors>>

NoDraft ==
  /\ pc = "structured_output" /\ draft = NULL
  /\ errors' = TRUE /\ pc' = "done"
  /\ UNCHANGED <<documents, route, tries, used, draft, output, answerConf>>

Next ==
  \/ Retrieve \/ RetrieveFails
  \/ Rerank \/ RerankFails
  \/ AttemptFails \/ GiveUp
  \/ Assess \/ GenerateWithContext \/ GenerateDirect
  \/ StructuredOutput \/ NoDraft

Spec == Init /\ [][Next]_vars

\* The event loop keeps running the task.  Assumed is that each call it awaits
\* returns or fails: not every one of them has a timeout of its own.
FairSpec == Spec /\ WF_vars(Next)

-----------------------------------------------------------------------------
(***************************************************************************)
(* Properties                                                              *)
(***************************************************************************)
TypeOK ==
  /\ pc \in Steps /\ route \in {"research", "support"}
  /\ retrieved \in Seq(Docs) /\ retrievalConf \in 0 .. Reported \cup {NULL}
  /\ raw \in Seq(ModelScores) /\ ranked \in Seq(Docs)
  /\ tries \in 0 .. MaxAttempts - 1
  /\ used \in BOOLEAN /\ errors \in BOOLEAN
  /\ draft \in Drafts \cup {NULL} /\ output \in Drafts \cup {NULL}
  /\ answerConf \in 0 .. Reported \cup {NULL}

\* The retrieval confidence lies between the plain mean of the similarities and
\* the best one, but for half a unit of rounding: the store's order, kept by the
\* parsing, weighs the best most.
ConfidenceWithinEvidence ==
  retrieved # <<>> =>
    LET n == Len(retrieved)
        scores == [i \in 1 .. n |-> retrieved[i].score]
    IN /\ 2 * SumTo(scores, n) <= n * Grain * (2 * retrievalConf + 1)
       /\ (2 * retrievalConf - 1) * Grain <= 2 * scores[1]

\* No document that was retrieved and left out scores above one in the prompt.
BestAreKept ==
  \A k \in DOMAIN ranked : \A i \in DOMAIN raw :
    raw[i] > ranked[k].score => retrieved[i].id \in Given

\* A citation of a document that was in the prompt carries that document's
\* rerank score, whatever the language model wrote; and the answer's confidence,
\* which is rounded where the citation's score is not, is at most half a unit
\* below it.
CitationsAreScored ==
  output # NULL /\ used =>
    \A c \in output.cites : c.id \in Given =>
      /\ \E k \in DOMAIN ranked : ranked[k].id = c.id /\ ranked[k].score = c.score
      /\ 2 * c.score <= Grain * (2 * answerConf + 1)

\* An answer whose confidence is above the bound of relevance was written with
\* the evidence: the schema gate takes the confidence from the ranked documents
\* even if the support agent answered without them.  At the bound itself it need
\* not be: a best score just below it is not relevant, and is rounded up to it.
ConfidentAnswersConsult ==
  answerConf # NULL /\ answerConf > RelevantAt => used

\* An answer written with documents cites none of them only when it says that
\* they do not help and marks none.
UncitedAnswersSaySo ==
  output # NULL /\ used /\ Given # {} /\ output.cites = {} =>
    output.answer.noInfo /\ Marked(output.answer) = {}

\* What each step leaves to the next: the draft is scored and cited against
\* the ranked documents, which no longer change, and a support answer is drafted
\* without documents only when none of them is relevant.
DraftIsSound ==
  /\ used => \A c \in draft.cites : c.id \in Given =>
               \E k \in DOMAIN ranked : ranked[k].id = c.id /\ ranked[k].score = c.score
  /\ used /\ Given # {} /\ draft.cites = {} =>
       draft.answer.noInfo /\ Marked(draft.answer) = {}
  /\ HasRelevantDocs => used

Sound ==
  /\ pc \in {"retrieve", "rerank", "assess", "generate"} => draft = NULL
  /\ pc # "done" => output = NULL /\ answerConf = NULL
  /\ pc = "generate" /\ route = "support" /\ HasRelevantDocs => used
  /\ draft # NULL => DraftIsSound
  /\ output # NULL => output = draft /\ answerConf \in ScoreAnswer
  /\ answerConf # NULL => draft # NULL /\ answerConf \in ScoreAnswer
  /\ pc = "done" /\ output = NULL => errors

Inv == TypeOK /\ Sound

\* Retries end: every query comes to an output or an error.
GenerationEnds == <>(pc = "done")
=============================================================================
