-------------------------- MODULE GenerationProofs --------------------------
(***************************************************************************)
(* Proofs about Generation, for any number of documents, any scores and    *)
(* anything the language model may write.  Parsing, ranking and averaging  *)
(* are loops over sequences whose lengths no constant bounds: the          *)
(* functions that define them are shown to exist, and to keep what the     *)
(* loop keeps, by looking at the least number that would be a              *)
(* counterexample.                                                         *)
(***************************************************************************)
EXTENDS Generation, FiniteSetTheorems, WellFoundedInduction, TLAPS

\* _override_citation_scores gives every citation of a given document a score
\* that document has.
LEMMA OverriddenAreScored ==
  ASSUME NEW cites,
         NEW c \in OverrideCitationScores(cites), c.id \in Given,
         \A x \in cites : x = [id |-> x.id, score |-> x.score]
  PROVE  \E k \in DOMAIN ranked : ranked[k].id = c.id /\ ranked[k].score = c.score
<1>1. PICK x \in cites : c = IF x.id \in Given THEN [x EXCEPT !.score = ScoreOf(x.id)] ELSE x
  BY DEF OverrideCitationScores
<1>2. CASE x.id \in Given
  <2>1. c = [id |-> x.id, score |-> ScoreOf(x.id)]
    <3>1. c = [x EXCEPT !.score = ScoreOf(x.id)]
      BY <1>1, <1>2
    <3>2. x = [id |-> x.id, score |-> x.score]
      OBVIOUS
    <3>. QED BY <3>1, <3>2
  <2>2. PICK k \in DOMAIN ranked : ranked[k].id = x.id
    BY <1>2 DEF Given
  <2>. DEFINE j == CHOOSE i \in DOMAIN ranked : ranked[i].id = x.id
  <2>3. j \in DOMAIN ranked /\ ranked[j].id = x.id
    BY <2>2
  <2>4. ScoreOf(x.id) = ranked[j].score
    BY DEF ScoreOf
  <2>. HIDE DEF j
  <2>. QED BY <2>1, <2>3, <2>4
<1>3. CASE x.id \notin Given
  BY <1>1, <1>3
<1>. QED BY <1>2, <1>3

\* What _backfill_citations leaves is scored, and empty only as it should be.
LEMMA BackfilledIsSound ==
  ASSUME NEW r \in Replies
  PROVE  LET cites == BackfillCitations(OverrideCitationScores(r.cites), r.answer)
         IN /\ \A c \in cites : c.id \in Given =>
                 \E k \in DOMAIN ranked : ranked[k].id = c.id /\ ranked[k].score = c.score
            /\ Given # {} /\ cites = {} => r.answer.noInfo /\ Marked(r.answer) = {}
<1>. DEFINE over == OverrideCitationScores(r.cites)
            cites == BackfillCitations(over, r.answer)
            back == {[id |-> ranked[k].id, score |-> ranked[k].score] : k \in Cited(r.answer)}
<1>1. \A x \in r.cites : x = [id |-> x.id, score |-> x.score]
  BY DEF Replies
<1>2. \A c \in over : c.id \in Given =>
        \E k \in DOMAIN ranked : ranked[k].id = c.id /\ ranked[k].score = c.score
  BY <1>1, OverriddenAreScored
<1>3. Cited(r.answer) \subseteq DOMAIN ranked
  BY DEF Cited, Marked
<1>4. \A c \in back : \E k \in DOMAIN ranked : ranked[k].id = c.id /\ ranked[k].score = c.score
  BY <1>3
<1>5. cites = IF over # {} \/ Given = {} THEN over ELSE back
  BY DEF BackfillCitations
<1>6. \A c \in cites : c.id \in Given =>
        \E k \in DOMAIN ranked : ranked[k].id = c.id /\ ranked[k].score = c.score
  BY <1>2, <1>4, <1>5
<1>7. ASSUME Given # {}, cites = {}
      PROVE  r.answer.noInfo /\ Marked(r.answer) = {}
  <2>1. back = {}
    BY <1>5, <1>7
  <2>2. Cited(r.answer) = {}
    BY <2>1
  <2>3. DOMAIN ranked # {}
    BY <1>7 DEF Given
  <2>4. Marked(r.answer) = {}
    BY <2>2 DEF Cited
  <2>5. CASE r.answer.noInfo
    BY <2>4, <2>5
  <2>6. CASE ~r.answer.noInfo
    BY <2>2, <2>3, <2>4, <2>6 DEF Cited
  <2>. QED BY <2>5, <2>6
<1>. QED BY <1>6, <1>7

\* The documents are fixed once they are ranked.
LEMMA SameDocuments ==
  ASSUME UNCHANGED documents
  PROVE  /\ ranked' = ranked /\ Given' = Given
         /\ HasRelevantDocs' = HasRelevantDocs /\ ScoreAnswer' = ScoreAnswer
BY DEF documents, Given, HasRelevantDocs, ScoreAnswer, Best

\* The inductive invariant holds initially and every step keeps it.
LEMMA InitSound == Init => Sound
BY DEF Init, Sound

LEMMA DraftKept ==
  ASSUME UNCHANGED <<documents, draft, used>>, draft # NULL => DraftIsSound
  PROVE  (draft # NULL => DraftIsSound)'
<1>. USE SameDocuments
<1>1. ASSUME NEW a PROVE Marked(a)' = Marked(a)
  BY DEF Marked
<1>. QED BY <1>1 DEF DraftIsSound

LEMMA NextSound == Sound /\ [Next]_vars => Sound'
<1>. SUFFICES ASSUME Sound, [Next]_vars
              PROVE  Sound'
  OBVIOUS
<1>1. CASE Retrieve
  BY <1>1 DEF Retrieve, Sound
<1>2. CASE RetrieveFails
  BY <1>2 DEF RetrieveFails, Sound
<1>3. CASE Rerank
  <2>1. draft = NULL /\ draft' = NULL /\ output' = NULL /\ answerConf' = NULL
    BY <1>3 DEF Rerank, Sound
  <2>2. pc' = "assess" \/ (pc' = "generate" /\ route' # "support")
    BY <1>3 DEF Rerank, AfterRanking
  <2>. QED BY <2>1, <2>2 DEF Sound
<1>4. CASE RerankFails
  <2>1. draft = NULL /\ draft' = NULL /\ output' = NULL /\ answerConf' = NULL
    BY <1>4 DEF RerankFails, Sound
  <2>2. pc' = "assess" \/ (pc' = "generate" /\ route' # "support")
    BY <1>4 DEF RerankFails, AfterRanking
  <2>. QED BY <2>1, <2>2 DEF Sound
<1>5. CASE AttemptFails
  <2>1. draft = NULL /\ draft' = NULL /\ output' = NULL /\ answerConf' = NULL
    BY <1>5 DEF AttemptFails, Asking, Sound
  <2>2. HasRelevantDocs' = HasRelevantDocs
    BY <1>5, SameDocuments DEF AttemptFails
  <2>. QED BY <1>5, <2>1, <2>2 DEF AttemptFails, Asking, Sound
<1>6. CASE GiveUp
  <2>1. draft = NULL /\ draft' = NULL /\ output' = NULL /\ answerConf' = NULL
    BY <1>6 DEF GiveUp, Asking, Sound
  <2>. QED BY <1>6, <2>1 DEF GiveUp, Sound
<1>7. CASE Assess
  <2>1. draft = NULL /\ draft' = NULL /\ output' = NULL /\ answerConf' = NULL
    BY <1>7 DEF Assess, Sound
  <2>2. HasRelevantDocs' => used'
    <3>1. HasRelevantDocs => Given # {}
      BY DEF HasRelevantDocs, Given
    <3>. QED BY <1>7, <3>1, SameDocuments DEF Assess, UseRetrieval
  <2>. QED BY <1>7, <2>1, <2>2 DEF Assess, Sound
<1>8. CASE GenerateWithContext
  <2>1. output' = NULL /\ answerConf' = NULL /\ draft = NULL /\ pc' = "structured_output"
    BY <1>8 DEF GenerateWithContext, Sound
  <2>2. ranked' = ranked /\ Given' = Given /\ used'
    BY <1>8, SameDocuments DEF GenerateWithContext
  <2>3. PICK r \in Replies :
          \/ draft' = NULL
          \/ draft' = [cites |-> BackfillCitations(OverrideCitationScores(r.cites), r.answer),
                       answer |-> r.answer]
    BY <1>8, <2>1 DEF GenerateWithContext
  <2>4. CASE draft' = NULL
    BY <2>1, <2>4 DEF Sound
  <2>5. CASE draft' = [cites |-> BackfillCitations(OverrideCitationScores(r.cites), r.answer),
                       answer |-> r.answer]
    <3>1. draft'.answer = r.answer
          /\ draft'.cites = BackfillCitations(OverrideCitationScores(r.cites), r.answer)
      BY <2>5
    <3>2. Marked(r.answer)' = Marked(r.answer)
      BY <2>2 DEF Marked
    <3>3. DraftIsSound'
      BY <2>2, <3>1, <3>2, BackfilledIsSound DEF DraftIsSound
    <3>. QED BY <2>1, <3>3 DEF Sound
  <2>. QED BY <2>3, <2>4, <2>5
<1>9. CASE GenerateDirect
  <2>1. output' = NULL /\ answerConf' = NULL /\ pc' = "structured_output" /\ ~used'
    BY <1>9 DEF GenerateDirect, Sound
  <2>2. ~HasRelevantDocs'
    BY <1>9, SameDocuments DEF GenerateDirect, Sound
  <2>3. DraftIsSound'
    BY <2>1, <2>2 DEF DraftIsSound
  <2>. QED BY <2>1, <2>3 DEF Sound
<1>10. CASE StructuredOutput
  <2>1. UNCHANGED <<documents, draft, used>> /\ draft # NULL /\ pc' = "done"
    BY <1>10 DEF StructuredOutput
  <2>2. (draft # NULL => DraftIsSound)'
    BY <2>1, DraftKept DEF Sound
  <2>3. answerConf' \in ScoreAnswer'
    <3>1. answerConf' \in ScoreAnswer
      BY <1>10 DEF StructuredOutput
    <3>. QED BY <2>1, <3>1, SameDocuments
  <2>4. output' = draft' /\ draft' # NULL
    BY <1>10 DEF StructuredOutput
  <2>. QED BY <2>1, <2>2, <2>3, <2>4 DEF Sound
<1>11. CASE NoDraft
  <2>1. draft' = NULL /\ output' = NULL /\ answerConf' = NULL /\ pc' = "done" /\ errors'
    BY <1>11 DEF NoDraft, Sound
  <2>. QED BY <2>1 DEF Sound
<1>12. CASE UNCHANGED vars
  <2>1. UNCHANGED <<documents, draft, used, pc, route, output, answerConf, errors>>
    BY <1>12 DEF vars, documents
  <2>2. (draft # NULL => DraftIsSound)'
    BY <2>1, DraftKept DEF Sound
  <2>4. HasRelevantDocs' = HasRelevantDocs
    BY <2>1, SameDocuments
  <2>5. ScoreAnswer' = ScoreAnswer
    BY <2>1, SameDocuments
  <2>. QED BY <2>1, <2>2, <2>4, <2>5 DEF Sound
<1>. QED BY <1>1, <1>2, <1>3, <1>4, <1>5, <1>6, <1>7, <1>8, <1>9, <1>10, <1>11, <1>12 DEF Next

\* What each step of the pipeline leaves to the next, in every reachable state.
THEOREM GenerationSoundness == Spec => []Sound
<1>. QED BY InitSound, NextSound, PTL DEF Spec

\* An answer leaves the documents it was given uncited only when it says that
\* they do not help (research_agent.py:151-182).
THEOREM UncitedSaySo == Spec => []UncitedAnswersSaySo
<1>1. Sound => UncitedAnswersSaySo
  BY DEF Sound, DraftIsSound, UncitedAnswersSaySo
<1>. QED BY <1>1, GenerationSoundness, PTL

-----------------------------------------------------------------------------
(***************************************************************************)
(* Loops.  A function that is defined by recursion on 0 .. n exists and    *)
(* has what each step of the loop hands to the next.                       *)
(***************************************************************************)
\* Every set of numbers that is not empty has a least one.
LEMMA LeastNumber ==
  ASSUME NEW S \in SUBSET Nat, S # {}
  PROVE  \E n \in S : \A m \in S : n <= m
<1>. DEFINE R == OpToRel(<, Nat)
<1>1. IsWellFoundedOn(R, Nat)
  BY NatLessThanWellFounded
<1>2. ASSUME NEW x \in Nat, NEW y \in Nat, x < y PROVE <<x, y>> \in R
  BY <1>2, Zenon DEF OpToRel
<1>. HIDE DEF R
<1>3. PICK n \in S : \A m \in S : ~ (<<m, n>> \in R)
  BY <1>1, WFMin, Zenon
<1>4. ASSUME NEW m \in S PROVE n <= m
  <2>1. ~(m < n)
    BY <1>2, <1>3
  <2>. QED BY <2>1
<1>. QED BY <1>4

\* What holds of 0 and of each number after one it holds of holds up to n.
LEMMA UpTo ==
  ASSUME NEW n \in Nat, NEW S, 0 \in S, \A i \in 1 .. n : i - 1 \in S => i \in S
  PROVE  \A i \in 0 .. n : i \in S
<1>. SUFFICES ASSUME NEW j \in 0 .. n, j \notin S
              PROVE  FALSE
  OBVIOUS
<1>1. PICK i \in (0 .. n) \ S : \A m \in (0 .. n) \ S : i <= m
  <2>. DEFINE out == (0 .. n) \ S
  <2>1. out \in SUBSET Nat /\ out # {}
    OBVIOUS
  <2>. HIDE DEF out
  <2>2. \E i \in out : \A m \in out : i <= m
    BY <2>1, LeastNumber
  <2>. QED BY <2>2 DEF out
<1>2. i \in 1 .. n
  BY <1>1
<1>3. i - 1 \in 0 .. n /\ i - 1 < i
  BY <1>2
<1>4. i - 1 \in S
  BY <1>1, <1>3
<1>. QED BY <1>1, <1>2, <1>4

\* The values g of a loop over 1 .. n: it starts with first, and round i
\* replaces the value v by Step[i][v].
Rounds(V, first, n, Step, g) ==
  /\ g \in [0 .. n -> V]
  /\ g[0] = first
  /\ \A i \in 1 .. n : g[i] = Step[i][g[i - 1]]

\* Such a loop runs to any n.
LEMMA LoopRuns ==
  ASSUME NEW V, NEW first \in V, NEW n \in Nat, NEW Step \in [1 .. n -> [V -> V]]
  PROVE  \E g : Rounds(V, first, n, Step, g)
<1>. DEFINE Runs(m, g) == Rounds(V, first, m, Step, g)
            S == {m \in 0 .. n : \E g : Runs(m, g)}
<1>. USE DEF Rounds
<1>1. 0 \in S
  <2>. DEFINE g == [i \in 0 .. 0 |-> first]
  <2>1. g \in [0 .. 0 -> V] /\ g[0] = first /\ \A i \in 1 .. 0 : g[i] = Step[i][g[i - 1]]
    OBVIOUS
  <2>. HIDE DEF g
  <2>2. Runs(0, g) /\ 0 \in 0 .. n
    BY <2>1
  <2>. QED BY <2>2
<1>2. ASSUME NEW m \in 1 .. n, m - 1 \in S
      PROVE  m \in S
  <2>1. PICK g : Runs(m - 1, g)
    BY <1>2
  <2>. DEFINE h == [i \in 0 .. m |-> IF i = m THEN Step[m][g[m - 1]] ELSE g[i]]
  <2>2. g[m - 1] \in V
    BY <2>1
  <2>3. Step[m][g[m - 1]] \in V
    BY <2>2
  <2>4. h \in [0 .. m -> V]
    <3>1. \A i \in 0 .. m : i # m => i \in 0 .. m - 1
      OBVIOUS
    <3>. QED BY <2>1, <2>3, <3>1
  <2>5. h[0] = first
    BY <2>1
  <2>6. ASSUME NEW i \in 1 .. m
        PROVE  h[i] = Step[i][h[i - 1]]
    <3>1. i - 1 \in 0 .. m /\ i - 1 # m
      OBVIOUS
    <3>2. h[i - 1] = g[i - 1]
      BY <3>1
    <3>3. CASE i = m
      BY <3>2, <3>3
    <3>4. CASE i # m
      <4>1. i \in 1 .. m - 1
        BY <3>4
      <4>2. h[i] = g[i]
        BY <3>4
      <4>. QED BY <2>1, <3>2, <4>1, <4>2
    <3>. QED BY <3>3, <3>4
  <2>. HIDE DEF h
  <2>7. Runs(m, h)
    BY <2>4, <2>5, <2>6
  <2>. QED BY <2>7
<1>3. n \in S
  <2>. HIDE DEF S
  <2>1. n \in 0 .. n
    OBVIOUS
  <2>. QED BY <1>1, <1>2, <2>1, UpTo
<1>. QED BY <1>3

\* The loop of SumTo: each round adds its term.
LEMMA SumRuns ==
  ASSUME NEW n \in Nat, NEW f, \A i \in 1 .. n : f[i] \in Int
  PROVE  \E S \in [0 .. n -> Int] :
           /\ S[0] = 0 /\ \A i \in 1 .. n : S[i] = S[i - 1] + f[i]
           /\ SumTo(f, n) = S[n]
<1>. DEFINE Step == [i \in 1 .. n |-> [v \in Int |-> v + f[i]]]
            S == CHOOSE h : h = [i \in 0 .. n |-> IF i = 0 THEN 0 ELSE h[i - 1] + f[i]]
<1>1. \E h : h = [i \in 0 .. n |-> IF i = 0 THEN 0 ELSE h[i - 1] + f[i]]
  <2>1. /\ Step \in [1 .. n -> [Int -> Int]]
        /\ \A i \in 1 .. n : \A v \in Int : Step[i][v] = v + f[i]
    OBVIOUS
  <2>. HIDE DEF Step
  <2>2. PICK g : Rounds(Int, 0, n, Step, g)
    <3>1. 0 \in Int
      OBVIOUS
    <3>. QED BY <2>1, <3>1, LoopRuns, Zenon
  <2>3. \A i \in 1 .. n : g[i] = g[i - 1] + f[i]
    <3>1. \A i \in 1 .. n : g[i - 1] \in Int
      BY <2>2 DEF Rounds
    <3>. QED BY <2>1, <2>2, <3>1 DEF Rounds
  <2>4. \A i \in 0 .. n : i # 0 => i \in 1 .. n
    OBVIOUS
  <2>5. g = [i \in 0 .. n |-> IF i = 0 THEN 0 ELSE g[i - 1] + f[i]]
    BY <2>2, <2>3, <2>4 DEF Rounds
  <2>. QED BY <2>5
<1>2. S = [i \in 0 .. n |-> IF i = 0 THEN 0 ELSE S[i - 1] + f[i]]
  BY <1>1
<1>3. SumTo(f, n) = S[n]
  BY DEF SumTo
<1>. HIDE DEF S
<1>4. S[0] = 0 /\ \A i \in 1 .. n : S[i] = S[i - 1] + f[i]
  <2>1. 0 \in 0 .. n /\ \A i \in 1 .. n : i \in 0 .. n /\ i # 0
    OBVIOUS
  <2>. QED BY <1>2, <2>1
<1>5. \A i \in 0 .. n : S[i] \in Int
  <2>. DEFINE T == {i \in 0 .. n : S[i] \in Int}
  <2>1. 0 \in T /\ \A i \in 1 .. n : i - 1 \in T => i \in T
    BY <1>4
  <2>. HIDE DEF T
  <2>2. \A i \in 0 .. n : i \in T
    BY <2>1, UpTo
  <2>. QED BY <2>2 DEF T
<1>6. S \in [0 .. n -> Int]
  BY <1>2, <1>5
<1>. QED BY <1>3, <1>4, <1>6

\* n! is a positive number.
LEMMA FactorialIsPositive ==
  ASSUME NEW n \in Nat
  PROVE  Factorial(n) \in Nat \ {0}
<1>. DEFINE Step == [i \in 1 .. n |-> [v \in Nat \ {0} |-> i * v]]
            F == CHOOSE h : h = [i \in 0 .. n |-> IF i = 0 THEN 1 ELSE i * h[i - 1]]
<1>0. \A a, b \in Nat \ {0} : a * b \in Nat \ {0}
  OBVIOUS
<1>1. \E h : h = [i \in 0 .. n |-> IF i = 0 THEN 1 ELSE i * h[i - 1]]
  <2>1. /\ Step \in [1 .. n -> [Nat \ {0} -> Nat \ {0}]]
        /\ \A i \in 1 .. n : \A v \in Nat \ {0} : Step[i][v] = i * v
    BY <1>0
  <2>. HIDE DEF Step
  <2>2. PICK g : Rounds(Nat \ {0}, 1, n, Step, g)
    <3>1. 1 \in Nat \ {0}
      OBVIOUS
    <3>. QED BY <2>1, <3>1, LoopRuns, Zenon
  <2>3. \A i \in 1 .. n : g[i] = i * g[i - 1]
    <3>1. \A i \in 1 .. n : g[i - 1] \in Nat \ {0}
      BY <2>2 DEF Rounds
    <3>. QED BY <2>1, <2>2, <3>1 DEF Rounds
  <2>4. \A i \in 0 .. n : i # 0 => i \in 1 .. n
    OBVIOUS
  <2>5. g = [i \in 0 .. n |-> IF i = 0 THEN 1 ELSE i * g[i - 1]]
    BY <2>2, <2>3, <2>4 DEF Rounds
  <2>. QED BY <2>5
<1>2. F = [i \in 0 .. n |-> IF i = 0 THEN 1 ELSE i * F[i - 1]]
  BY <1>1
<1>3. Factorial(n) = F[n]
  BY DEF Factorial
<1>. HIDE DEF F
<1>4. \A i \in 0 .. n : F[i] \in Nat \ {0}
  <2>. DEFINE T == {i \in 0 .. n : F[i] \in Nat \ {0}}
  <2>1. 0 \in T
    BY <1>2
  <2>2. ASSUME NEW i \in 1 .. n, i - 1 \in T
        PROVE  i \in T
    <3>1. F[i] = i * F[i - 1] /\ F[i - 1] \in Nat \ {0} /\ i \in Nat \ {0} /\ i \in 0 .. n
      BY <1>2, <2>2
    <3>. QED BY <1>0, <3>1
  <2>. HIDE DEF T
  <2>3. \A i \in 0 .. n : i \in T
    BY <2>1, <2>2, UpTo
  <2>. QED BY <2>3 DEF T
<1>. QED BY <1>3, <1>4

-----------------------------------------------------------------------------
(***************************************************************************)
(* The position-weighted mean.                                             *)
(***************************************************************************)
\* Quotients of one number fall as the divisor grows.
LEMMA QuotientsFall ==
  ASSUME NEW a \in Nat, NEW b \in Nat \ {0}, NEW c \in Nat \ {0}, b <= c
  PROVE  a \div b \in Nat /\ a \div c \in Nat /\ a \div c <= a \div b
<1>. DEFINE q == a \div b
            r == a \div c
<1>1. q \in Nat /\ q * b <= a /\ a < (q + 1) * b
  OBVIOUS
<1>2. r \in Nat /\ r * c <= a
  OBVIOUS
<1>. HIDE DEF q, r
<1>3. r * b <= r * c
  BY <1>2
<1>4. ASSUME r >= q + 1 PROVE FALSE
  <2>1. (q + 1) * b <= r * b
    BY <1>1, <1>2, <1>4
  <2>. QED BY <1>1, <1>2, <1>3, <2>1
<1>5. r <= q
  BY <1>1, <1>2, <1>4
<1>. QED BY <1>1, <1>2, <1>5 DEF q, r

\* One round of the two inductions below.
LEMMA CrossRound ==
  ASSUME NEW a \in Int, NEW u \in Int, NEW t \in Int, NEW i \in Int,
         NEW w \in Int, NEW s \in Int, NEW v \in Int, NEW r \in Int,
         v <= w, r <= s, a + i * (v * r) >= u * r + v * t
  PROVE  (a + w * s) + (i + 1) * (v * r) >= (u + w) * r + v * (t + s)
<1>1. (w - v) * (s - r) >= 0
  OBVIOUS
<1>2. (w - v) * (s - r) = w * s - w * r - v * s + v * r
  OBVIOUS
<1>3. (i + 1) * (v * r) = i * (v * r) + v * r
  OBVIOUS
<1>4. (u + w) * r = u * r + w * r /\ v * (t + s) = v * t + v * s
  OBVIOUS
<1>5. w * s \in Int /\ w * r \in Int /\ v * s \in Int /\ v * r \in Int
      /\ i * (v * r) \in Int /\ u * r \in Int /\ v * t \in Int
  OBVIOUS
<1>. QED BY <1>1, <1>2, <1>3, <1>4, <1>5

LEMMA MeanRound ==
  ASSUME NEW a \in Int, NEW u \in Int, NEW t \in Int, NEW k \in Int,
         NEW w \in Int, NEW s \in Int,
         (k - 1) * a >= u * t, a + (k - 1) * (w * s) >= u * s + w * t
  PROVE  k * (a + w * s) >= (u + w) * (t + s)
<1>1. k * (a + w * s) = (k - 1) * a + a + (k - 1) * (w * s) + w * s
  <2>1. k * (a + w * s) = k * a + k * (w * s)
    OBVIOUS
  <2>2. (k - 1) * a = k * a - a /\ (k - 1) * (w * s) = k * (w * s) - w * s
    OBVIOUS
  <2>. QED BY <2>1, <2>2
<1>2. (u + w) * (t + s) = u * t + u * s + w * t + w * s
  OBVIOUS
<1>3. (k - 1) * a \in Int /\ (k - 1) * (w * s) \in Int /\ w * s \in Int
      /\ u * t \in Int /\ u * s \in Int /\ w * t \in Int
  OBVIOUS
<1>. QED BY <1>1, <1>2, <1>3

LEMMA SumRound ==
  ASSUME NEW a \in Nat, NEW u \in Nat,
         NEW w \in Nat, NEW s \in Nat, NEW r \in Nat, s <= r, a <= u * r
  PROVE  a + w * s <= (u + w) * r
<1>1. w * s \in Nat /\ w * s <= w * r /\ w * r \in Nat /\ u * r \in Nat
  OBVIOUS
<1>2. (u + w) * r = u * r + w * r
  OBVIOUS
<1>. QED BY <1>1, <1>2

\* Chebyshev's inequality: where weights and scores fall together, the weighted
\* mean is at least the plain one, and at most the first score.
FallTogether(n, w, s) ==
  /\ w \in [1 .. n -> Nat] /\ s \in [1 .. n -> Nat]
  /\ \A i, j \in 1 .. n : i <= j => w[j] <= w[i] /\ s[j] <= s[i]

Weighted(n, w, s) == [i \in 1 .. n |-> w[i] * s[i]]

LEMMA WeightsFavourTheFirst ==
  ASSUME NEW n \in Nat \ {0}, NEW w, NEW s, FallTogether(n, w, s),
         NEW m, m = Weighted(n, w, s)
  PROVE  /\ SumTo(w, n) \in Nat /\ w[1] <= SumTo(w, n)
         /\ SumTo(s, n) \in Nat /\ SumTo(m, n) \in Nat
         /\ n * SumTo(m, n) >= SumTo(w, n) * SumTo(s, n)
         /\ SumTo(m, n) <= SumTo(w, n) * s[1]
<1>0. /\ \A i \in 1 .. n : w[i] \in Nat /\ s[i] \in Nat /\ m[i] = w[i] * s[i]
      /\ \A i, j \in 1 .. n : i <= j => w[j] <= w[i] /\ s[j] <= s[i]
      /\ 1 \in 1 .. n /\ n \in 0 .. n
  BY DEF FallTogether, Weighted
<1>1. PICK W \in [0 .. n -> Int] :
        /\ W[0] = 0 /\ \A i \in 1 .. n : W[i] = W[i - 1] + w[i]
        /\ SumTo(w, n) = W[n]
  <2>1. \A i \in 1 .. n : w[i] \in Int
    BY <1>0
  <2>. QED BY <2>1, SumRuns
<1>2. PICK S \in [0 .. n -> Int] :
        /\ S[0] = 0 /\ \A i \in 1 .. n : S[i] = S[i - 1] + s[i]
        /\ SumTo(s, n) = S[n]
  <2>1. \A i \in 1 .. n : s[i] \in Int
    BY <1>0
  <2>. QED BY <2>1, SumRuns
<1>3. PICK M \in [0 .. n -> Int] :
        /\ M[0] = 0 /\ \A i \in 1 .. n : M[i] = M[i - 1] + m[i]
        /\ SumTo(m, n) = M[n]
  <2>1. \A i \in 1 .. n : m[i] \in Int
    <3>1. \A a, b \in Nat : a * b \in Int
      OBVIOUS
    <3>. QED BY <1>0, <3>1
  <2>. QED BY <2>1, SumRuns
<1>4. \A i \in 1 .. n : /\ i - 1 \in 0 .. n /\ i \in 0 .. n
                        /\ w[i] \in Nat /\ s[i] \in Nat
                        /\ W[i - 1] \in Int /\ S[i - 1] \in Int /\ M[i - 1] \in Int
                        /\ W[i] = W[i - 1] + w[i] /\ S[i] = S[i - 1] + s[i]
                        /\ M[i] = M[i - 1] + w[i] * s[i]
  <2>1. TAKE i \in 1 .. n
  <2>2. i - 1 \in 0 .. n /\ i \in 0 .. n
    OBVIOUS
  <2>3. W[i] = W[i - 1] + w[i] /\ S[i] = S[i - 1] + s[i] /\ M[i] = M[i - 1] + m[i]
    BY <1>1, <1>2, <1>3
  <2>4. w[i] \in Nat /\ s[i] \in Nat /\ m[i] = w[i] * s[i]
    BY <1>0
  <2>5. W[i - 1] \in Int /\ S[i - 1] \in Int /\ M[i - 1] \in Int
    BY <1>1, <1>2, <1>3, <2>2
  <2>. QED BY <2>2, <2>3, <2>4, <2>5
<1>5. \A i \in 0 .. n : W[i] \in Nat /\ S[i] \in Nat /\ M[i] \in Nat /\ M[i] <= W[i] * s[1]
  <2>. DEFINE T == {i \in 0 .. n : W[i] \in Nat /\ S[i] \in Nat /\ M[i] \in Nat /\ M[i] <= W[i] * s[1]}
  <2>1. s[1] \in Nat /\ 0 * s[1] = 0
    BY <1>0
  <2>2. 0 \in T
    <3>1. W[0] = 0 /\ S[0] = 0 /\ M[0] = 0 /\ 0 \in 0 .. n
      BY <1>1, <1>2, <1>3
    <3>2. W[0] * s[1] = 0
      BY <2>1, <3>1
    <3>. QED BY <3>1, <3>2
  <2>3. ASSUME NEW i \in 1 .. n, i - 1 \in T
        PROVE  i \in T
    <3>1. w[i] \in Nat /\ s[i] \in Nat /\ s[i] <= s[1]
      BY <1>0
    <3>2. /\ i \in 0 .. n /\ W[i] = W[i - 1] + w[i] /\ S[i] = S[i - 1] + s[i]
          /\ M[i] = M[i - 1] + w[i] * s[i]
      BY <1>4
    <3>3. W[i - 1] \in Nat /\ S[i - 1] \in Nat /\ M[i - 1] \in Nat
          /\ M[i - 1] <= W[i - 1] * s[1]
      BY <2>3
    <3>4. /\ W[i - 1] + w[i] \in Nat /\ S[i - 1] + s[i] \in Nat
          /\ M[i - 1] + w[i] * s[i] \in Nat
          /\ M[i - 1] + w[i] * s[i] <= (W[i - 1] + w[i]) * s[1]
      <4>1. s[1] \in Nat /\ W[i - 1] \in Nat /\ S[i - 1] \in Nat /\ M[i - 1] \in Nat
            /\ w[i] \in Nat /\ s[i] \in Nat
        BY <2>1, <3>1, <3>3, Zenon
      <4>2. s[i] <= s[1] /\ M[i - 1] <= W[i - 1] * s[1]
        BY <3>1, <3>3, Zenon
      <4>3. \A a, b \in Nat : a + b \in Nat /\ a * b \in Nat
        OBVIOUS
      <4>4. M[i - 1] + w[i] * s[i] <= (W[i - 1] + w[i]) * s[1]
        BY <4>1, <4>2, SumRound, Zenon
      <4>. QED BY <4>1, <4>3, <4>4, Zenon
    <3>5. W[i] \in Nat /\ S[i] \in Nat /\ M[i] \in Nat /\ M[i] <= W[i] * s[1]
      BY <3>2, <3>4, Zenon
    <3>. QED BY <3>2, <3>5, Zenon
  <2>. HIDE DEF T
  <2>4. \A i \in 0 .. n : i \in T
    BY <2>2, <2>3, UpTo
  <2>. QED BY <2>4 DEF T
<1>6. ASSUME NEW k \in 1 .. n
      PROVE  M[k - 1] + (k - 1) * (w[k] * s[k]) >= W[k - 1] * s[k] + w[k] * S[k - 1]
  <2>. DEFINE T == {i \in 0 .. k - 1 : M[i] + i * (w[k] * s[k]) >= W[i] * s[k] + w[k] * S[i]}
  <2>1. w[k] \in Nat /\ s[k] \in Nat
    BY <1>0
  <2>2. 0 \in T
    <3>1. W[0] = 0 /\ S[0] = 0 /\ M[0] = 0 /\ 0 \in 0 .. k - 1
      BY <1>1, <1>2, <1>3
    <3>2. \A a, b \in Nat : 0 + 0 * (a * b) >= 0 * b + a * 0
      <4>1. TAKE a, b \in Nat
      <4>2. a * b \in Nat
        OBVIOUS
      <4>3. 0 * (a * b) = 0 /\ 0 * b = 0 /\ a * 0 = 0
        BY <4>2
      <4>. QED BY <4>3
    <3>3. 0 + 0 * (w[k] * s[k]) >= 0 * s[k] + w[k] * 0
      BY <2>1, <3>2, Zenon
    <3>. QED BY <3>1, <3>3, Zenon
  <2>3. ASSUME NEW i \in 1 .. k - 1, i - 1 \in T
        PROVE  i \in T
    <3>1. i \in 1 .. n /\ i <= k
      OBVIOUS
    <3>2. w[k] <= w[i] /\ s[k] <= s[i] /\ w[i] \in Int /\ s[i] \in Int
      BY <1>0, <3>1
    <3>3. M[i - 1] + (i - 1) * (w[k] * s[k]) >= W[i - 1] * s[k] + w[k] * S[i - 1]
      BY <2>3
    <3>4. (M[i - 1] + w[i] * s[i]) + ((i - 1) + 1) * (w[k] * s[k])
            >= (W[i - 1] + w[i]) * s[k] + w[k] * (S[i - 1] + s[i])
      <4>1. /\ M[i - 1] \in Int /\ W[i - 1] \in Int /\ S[i - 1] \in Int
            /\ i - 1 \in Int /\ w[k] \in Int /\ s[k] \in Int
        <5>1. M[i - 1] \in Int /\ W[i - 1] \in Int /\ S[i - 1] \in Int
          BY <1>4, <3>1, Zenon
        <5>2. i - 1 \in Int /\ w[k] \in Int /\ s[k] \in Int
          BY <2>1
        <5>. QED BY <5>1, <5>2
      <4>. QED BY <3>2, <3>3, <4>1, CrossRound, Zenon
    <3>5. (i - 1) + 1 = i
      OBVIOUS
    <3>6. M[i] + i * (w[k] * s[k]) >= W[i] * s[k] + w[k] * S[i]
      <4>1. W[i] = W[i - 1] + w[i] /\ S[i] = S[i - 1] + s[i] /\ M[i] = M[i - 1] + w[i] * s[i]
        BY <1>4, <3>1
      <4>. QED BY <3>4, <3>5, <4>1, Zenon
    <3>. QED BY <3>6
  <2>. HIDE DEF T
  <2>4. k - 1 \in Nat /\ k - 1 \in 0 .. k - 1
    OBVIOUS
  <2>5. k - 1 \in T
    BY <2>2, <2>3, <2>4, UpTo
  <2>. QED BY <2>5 DEF T
<1>7. \A k \in 0 .. n : k * M[k] >= W[k] * S[k]
  <2>. DEFINE T == {k \in 0 .. n : k * M[k] >= W[k] * S[k]}
  <2>1. 0 \in T
    <3>1. W[0] = 0 /\ S[0] = 0 /\ M[0] = 0 /\ 0 \in 0 .. n
      BY <1>1, <1>2, <1>3
    <3>. QED BY <3>1
  <2>2. ASSUME NEW k \in 1 .. n, k - 1 \in T
        PROVE  k \in T
    <3>1. (k - 1) * M[k - 1] >= W[k - 1] * S[k - 1]
      BY <2>2
    <3>2. /\ M[k - 1] \in Int /\ W[k - 1] \in Int /\ S[k - 1] \in Int
          /\ w[k] \in Int /\ s[k] \in Int /\ k \in Int
      <4>1. M[k - 1] \in Int /\ W[k - 1] \in Int /\ S[k - 1] \in Int
        BY <1>4, Zenon
      <4>2. w[k] \in Int /\ s[k] \in Int /\ k \in Int
        BY <1>0
      <4>. QED BY <4>1, <4>2
    <3>3. k * (M[k - 1] + w[k] * s[k]) >= (W[k - 1] + w[k]) * (S[k - 1] + s[k])
      BY <1>6, <3>1, <3>2, MeanRound
    <3>4. k * M[k] >= W[k] * S[k]
      <4>1. W[k] = W[k - 1] + w[k] /\ S[k] = S[k - 1] + s[k] /\ M[k] = M[k - 1] + w[k] * s[k]
        BY <1>4
      <4>. QED BY <3>3, <4>1, Zenon
    <3>. QED BY <3>4
  <2>. HIDE DEF T
  <2>3. \A k \in 0 .. n : k \in T
    BY <2>1, <2>2, UpTo
  <2>. QED BY <2>3 DEF T
<1>8. n \in 0 .. n /\ 1 \in 1 .. n
  BY <1>0
<1>9. w[1] <= W[n]
  <2>. DEFINE T == {i \in 0 .. n : i = 0 \/ w[1] <= W[i]}
  <2>1. 0 \in T
    OBVIOUS
  <2>2. ASSUME NEW i \in 1 .. n, i - 1 \in T
        PROVE  i \in T
    <3>1. W[i] = W[i - 1] + w[i] /\ w[i] \in Nat /\ W[i - 1] \in Nat /\ w[1] \in Nat
      <4>1. i - 1 \in 0 .. n
        OBVIOUS
      <4>. QED BY <1>0, <1>4, <1>5, <4>1, Zenon
    <3>2. CASE i = 1
      <4>1. W[1] = w[1]
        BY <1>1, <3>1, <3>2
      <4>. QED BY <3>1, <3>2, <4>1
    <3>3. CASE i # 1
      <4>1. w[1] <= W[i - 1]
        BY <2>2, <3>3
      <4>2. \A a, b, c \in Nat : c <= a => c <= a + b
        OBVIOUS
      <4>3. w[1] <= W[i - 1] + w[i]
        BY <3>1, <4>1, <4>2, Zenon
      <4>4. w[1] <= W[i]
        BY <3>1, <4>3, Zenon
      <4>. QED BY <4>4
    <3>. QED BY <3>2, <3>3
  <2>. HIDE DEF T
  <2>3. n \in T
    BY <1>8, <2>1, <2>2, UpTo
  <2>. QED BY <2>3 DEF T
<1>. QED BY <1>1, <1>2, <1>3, <1>5, <1>7, <1>8, <1>9

\* The whole is a number of raw units, and of reported ones.
LEMMA Units ==
  /\ Grain \in Nat \ {0} /\ Reported \in Nat /\ RelevantAt \in Nat
  /\ One \in Nat /\ 0 \in 0 .. One /\ One = Grain * Reported
<1>1. Grain \in Nat \ {0}
  BY GenerationAssumption
<1>. QED BY <1>1 DEF One, Reported, RelevantAt

\* What the rounding leaves: the nearest unit, at most a half away.
Halfway(a, unit, c) == 2 * a - unit <= 2 * unit * c /\ 2 * unit * c <= 2 * a + unit

LEMMA ClampIsNearest ==
  ASSUME NEW a \in Nat, NEW b \in Nat \ {0}, NEW c \in Clamp(a, b)
  PROVE  c \in Nat /\ Halfway(a, b * Grain, c)
<1>1. Grain \in Nat \ {0}
  BY Units
<1>2. b * Grain \in Nat \ {0}
  BY <1>1
<1>3. \A u \in Nat \ {0} : a \div u \in Nat /\ a \div u + 1 \in Nat
  OBVIOUS
<1>4. a \div (b * Grain) \in Nat /\ a \div (b * Grain) + 1 \in Nat
  BY <1>2, <1>3, Zenon
<1>5. c \in {a \div (b * Grain), a \div (b * Grain) + 1} /\ Halfway(a, b * Grain, c)
  BY Zenon DEF Clamp, Halfway
<1>. QED BY <1>4, <1>5

\* What is at most the whole is reported as at most the whole.
LEMMA HalfwayInside ==
  ASSUME NEW a \in Nat, NEW u \in Nat \ {0}, NEW m \in Nat, NEW c \in Nat,
         a <= u * m, Halfway(a, u, c)
  PROVE  c <= m
<1>1. SUFFICES ASSUME m + 1 <= c
               PROVE  FALSE
  OBVIOUS
<1>2. u * (m + 1) <= u * c
  BY <1>1
<1>3. u * (m + 1) = u * m + u /\ u * m \in Nat /\ u * c \in Nat
  OBVIOUS
<1>4. 2 * u * c = 2 * (u * c)
  OBVIOUS
<1>5. 2 * (u * c) <= 2 * a + u
  BY <1>4 DEF Halfway
<1>. QED BY <1>2, <1>3, <1>5

\* The rounded mean of scores lies between the bounds of the mean, but for half
\* a unit.
LEMMA RoundedMeanAbove ==
  ASSUME NEW a \in Nat, NEW u \in Nat \ {0}, NEW t \in Nat, NEW n \in Nat \ {0},
         NEW g \in Nat \ {0}, NEW c \in Nat, n * a >= u * t, Halfway(a, u * g, c)
  PROVE  2 * t <= n * g * (2 * c + 1)
<1>. DEFINE x == n * g * (2 * c + 1)
<1>1. x \in Nat
  OBVIOUS
<1>2. u * x = n * (2 * (u * g) * c + u * g)
  OBVIOUS
<1>3. 2 * a <= 2 * (u * g) * c + u * g
  BY DEF Halfway
<1>4. n * (2 * a) <= n * (2 * (u * g) * c + u * g)
  <2>1. \A p, q \in Nat : p <= q => n * p <= n * q
    OBVIOUS
  <2>2. 2 * a \in Nat /\ 2 * (u * g) * c + u * g \in Nat
    OBVIOUS
  <2>. QED BY <1>3, <2>1, <2>2, Zenon
<1>5. u * (2 * t) = 2 * (u * t) /\ n * (2 * a) = 2 * (n * a) /\ u * t \in Nat /\ n * a \in Nat
  OBVIOUS
<1>. HIDE DEF x
<1>6. u * (2 * t) <= u * x
  BY <1>1, <1>2, <1>4, <1>5
<1>7. \A y \in Nat : u * y <= u * x => y <= x
  BY <1>1
<1>8. 2 * t <= x
  BY <1>6, <1>7
<1>. QED BY <1>8 DEF x

LEMMA RoundedMeanBelow ==
  ASSUME NEW a \in Nat, NEW u \in Nat \ {0}, NEW s \in Nat,
         NEW g \in Nat \ {0}, NEW c \in Nat, a <= u * s, Halfway(a, u * g, c)
  PROVE  (2 * c - 1) * g <= 2 * s
<1>. DEFINE x == (2 * c - 1) * g
<1>1. x \in Int
  OBVIOUS
<1>2. u * x = 2 * (u * g) * c - u * g
  OBVIOUS
<1>3. 2 * (u * g) * c <= 2 * a + u * g
  BY DEF Halfway
<1>4. 2 * (u * g) * c \in Nat /\ u * g \in Nat /\ u * s \in Nat /\ u * (2 * s) = 2 * (u * s)
  OBVIOUS
<1>. HIDE DEF x
<1>5. u * x <= u * (2 * s)
  BY <1>1, <1>2, <1>3, <1>4
<1>6. x <= 2 * s
  BY <1>1, <1>5
<1>. QED BY <1>6 DEF x

\* The confidence of documents in the order of their scores (confidence.py).
LEMMA ConfidenceOfFalling ==
  ASSUME NEW docs, NEW n \in Nat \ {0}, Len(docs) = n,
         NEW s \in [1 .. n -> Nat], \A i \in 1 .. n : docs[i].score = s[i],
         \A i, j \in 1 .. n : i <= j => s[j] <= s[i], s[1] <= One
  PROVE  \A c \in ScoreRetrieval(docs) :
           /\ c \in 0 .. Reported
           /\ 2 * SumTo(s, n) <= n * Grain * (2 * c + 1)
           /\ (2 * c - 1) * Grain <= 2 * s[1]
<1>. DEFINE f == Factorial(n)
            w == [i \in 1 .. n |-> f \div i]
            m == [i \in 1 .. n |-> w[i] * docs[i].score]
<1>1. f \in Nat \ {0}
  BY FactorialIsPositive
<1>2. \A i, j \in 1 .. n : i <= j => f \div i \in Nat /\ f \div j <= f \div i
  <2>1. SUFFICES ASSUME NEW i \in 1 .. n, NEW j \in 1 .. n, i <= j
                 PROVE  f \div i \in Nat /\ f \div j <= f \div i
    OBVIOUS
  <2>2. i \in Nat \ {0} /\ j \in Nat \ {0} /\ f \in Nat
    BY <1>1
  <2>. QED BY <2>1, <2>2, QuotientsFall
<1>3. ScoreRetrieval(docs) = Clamp(SumTo(m, n), SumTo(w, n))
  <2>1. Len(docs) # 0
    OBVIOUS
  <2>. QED BY <2>1 DEF ScoreRetrieval
<1>4. f \div 1 = f
  BY <1>1
<1>. HIDE DEF f
<1>5. \A i \in 1 .. n : f \div i \in Nat
  BY <1>2
<1>6. FallTogether(n, w, s)
  BY <1>2, <1>5 DEF FallTogether
<1>7. m = Weighted(n, w, s)
  BY DEF Weighted
<1>8. w[1] \in Nat \ {0}
  BY <1>1, <1>4
<1>. HIDE DEF w, m
<1>9. /\ SumTo(w, n) \in Nat /\ w[1] <= SumTo(w, n)
      /\ SumTo(s, n) \in Nat /\ SumTo(m, n) \in Nat
      /\ n * SumTo(m, n) >= SumTo(w, n) * SumTo(s, n)
      /\ SumTo(m, n) <= SumTo(w, n) * s[1]
  BY <1>6, <1>7, WeightsFavourTheFirst, Zenon
<1>10. SumTo(w, n) \in Nat \ {0} /\ s[1] \in Nat
  <2>1. \A a \in Nat \ {0} : \A b \in Nat : a <= b => b \in Nat \ {0}
    OBVIOUS
  <2>2. SumTo(w, n) \in Nat \ {0}
    BY <1>8, <1>9, <2>1, Zenon
  <2>3. s[1] \in Nat
    OBVIOUS
  <2>. QED BY <2>2, <2>3
<1>11. Grain \in Nat \ {0} /\ Reported \in Nat
  BY Units
<1>12. ASSUME NEW c \in Clamp(SumTo(m, n), SumTo(w, n))
       PROVE  /\ c \in 0 .. Reported
              /\ 2 * SumTo(s, n) <= n * Grain * (2 * c + 1)
              /\ (2 * c - 1) * Grain <= 2 * s[1]
  <2>1. c \in Nat /\ Halfway(SumTo(m, n), SumTo(w, n) * Grain, c)
    BY <1>9, <1>10, ClampIsNearest, Zenon
  <2>2. 2 * SumTo(s, n) <= n * Grain * (2 * c + 1)
    BY <1>9, <1>10, <1>11, <2>1, RoundedMeanAbove, Zenon
  <2>3. (2 * c - 1) * Grain <= 2 * s[1]
    BY <1>9, <1>10, <1>11, <2>1, RoundedMeanBelow, Zenon
  <2>4. SumTo(m, n) <= (SumTo(w, n) * Grain) * Reported /\ SumTo(w, n) * Grain \in Nat \ {0}
    <3>1. \A a \in Nat : \A u, g \in Nat \ {0} : \A r, t \in Nat :
            a <= u * t /\ t <= g * r => a <= (u * g) * r /\ u * g \in Nat \ {0}
      <4>1. TAKE a \in Nat, u, g \in Nat \ {0}, r, t \in Nat
      <4>2. t <= g * r => u * t <= u * (g * r)
        OBVIOUS
      <4>3. u * (g * r) = (u * g) * r /\ u * t \in Nat /\ (u * g) * r \in Nat
        OBVIOUS
      <4>. QED BY <4>2, <4>3
    <3>2. s[1] <= Grain * Reported
      BY Units
    <3>. QED BY <1>9, <1>10, <1>11, <3>1, <3>2, Zenon
  <2>5. c <= Reported
    BY <1>9, <1>11, <2>1, <2>4, HalfwayInside, Zenon
  <2>6. c \in 0 .. Reported
    BY <1>11, <2>1, <2>5
  <2>. QED BY <2>2, <2>3, <2>6
<1>. QED BY <1>3, <1>12, Zenon

-----------------------------------------------------------------------------
(***************************************************************************)
(* What the store's answer is parsed to.                                   *)
(***************************************************************************)
\* The documents parsed from the first k hits keep the hits' order.
ParsedFrom(hits, k, docs) ==
  /\ docs \in Seq(Docs)
  /\ \A i \in 1 .. Len(docs) :
       docs[i].id <= k /\ docs[i].score = DistanceToScore(hits[docs[i].id].distance)
  /\ \A i, j \in 1 .. Len(docs) : i < j => docs[i].id < docs[j].id

LEMMA DistancesAreNumbers ==
  \A d \in Distances : d \in Nat
<1>1. Distances \subseteq 0 .. 2 * One
  BY GenerationAssumption, Zenon
<1>2. \A d \in 0 .. 2 * One : d \in Nat
  BY Units
<1>. QED BY <1>1, <1>2, Zenon

LEMMA ScoresAreTyped ==
  \A d \in Distances : DistanceToScore(d) \in 0 .. One
<1>1. \A d \in Nat : DistanceToScore(d) \in 0 .. One
  BY Units DEF DistanceToScore
<1>. QED BY <1>1, DistancesAreNumbers, Zenon

\* The documents of a sequence have numbers and scores.
LEMMA DocsTyped ==
  ASSUME NEW docs \in Seq(Docs)
  PROVE  /\ Len(docs) \in Nat
         /\ \A i \in 1 .. Len(docs) :
              /\ docs[i] \in Docs /\ docs[i].id \in DocIds /\ docs[i].id \in Nat \ {0}
              /\ docs[i].score \in 0 .. One /\ docs[i].score \in Nat
<1>1. \A i \in 1 .. Len(docs) : docs[i] \in Docs
  OBVIOUS
<1>2. \A d \in Docs : d.id \in DocIds /\ d.score \in 0 .. One
  BY DEF Docs
<1>3. \A x \in DocIds : x \in Nat \ {0}
  BY GenerationAssumption DEF DocIds
<1>4. \A x \in 0 .. One : x \in Nat
  BY Units
<1>5. Len(docs) \in Nat
  OBVIOUS
<1>. QED BY <1>1, <1>2, <1>3, <1>4, <1>5, Zenon

LEMMA ParsedOneMore ==
  ASSUME NEW hits, NEW k \in DocIds, NEW docs, ParsedFrom(hits, k - 1, docs),
         NEW doc \in Docs, doc.id = k, doc.score = DistanceToScore(hits[k].distance)
  PROVE  ParsedFrom(hits, k, Append(docs, doc)) /\ ParsedFrom(hits, k, docs)
<1>1. /\ docs \in Seq(Docs) /\ Len(docs) \in Nat
      /\ \A i \in 1 .. Len(docs) : docs[i] \in Docs /\ docs[i].id \in Nat
  BY DocsTyped DEF ParsedFrom
<1>2. k \in Nat
  BY GenerationAssumption DEF DocIds
<1>3. ParsedFrom(hits, k, docs)
  <2>1. \A i \in 1 .. Len(docs) : docs[i].id <= k
    BY <1>1, <1>2 DEF ParsedFrom
  <2>. QED BY <2>1 DEF ParsedFrom
<1>. DEFINE more == Append(docs, doc)
<1>4. /\ more \in Seq(Docs) /\ Len(more) = Len(docs) + 1
      /\ \A i \in 1 .. Len(docs) : more[i] = docs[i]
      /\ more[Len(docs) + 1] = doc
  BY <1>1
<1>. HIDE DEF more
<1>5. \A i \in 1 .. Len(more) : i \in 1 .. Len(docs) \/ i = Len(docs) + 1
  BY <1>1, <1>4
<1>6. \A i \in 1 .. Len(more) :
        more[i].id <= k /\ more[i].score = DistanceToScore(hits[more[i].id].distance)
  <2>1. TAKE i \in 1 .. Len(more)
  <2>2. CASE i \in 1 .. Len(docs)
    BY <1>3, <1>4, <2>2 DEF ParsedFrom
  <2>3. CASE i = Len(docs) + 1
    BY <1>2, <1>4, <2>3
  <2>. QED BY <1>5, <2>2, <2>3
<1>7. \A i, j \in 1 .. Len(more) : i < j => more[i].id < more[j].id
  <2>1. SUFFICES ASSUME NEW i \in 1 .. Len(more), NEW j \in 1 .. Len(more), i < j
                 PROVE  more[i].id < more[j].id
    OBVIOUS
  <2>2. i \in 1 .. Len(docs)
    BY <1>1, <1>4, <2>1
  <2>3. CASE j \in 1 .. Len(docs)
    BY <1>4, <2>1, <2>2, <2>3 DEF ParsedFrom
  <2>4. CASE j = Len(docs) + 1
    <3>1. more[i].id <= k - 1 /\ more[i].id \in Nat
      BY <1>1, <1>4, <2>2 DEF ParsedFrom
    <3>. QED BY <1>2, <1>4, <2>4, <3>1
  <2>. QED BY <1>5, <2>3, <2>4
<1>. QED BY <1>3, <1>4, <1>6, <1>7 DEF ParsedFrom, more

\* The loop of _parse_chroma_results: it takes the hits one after the other.
LEMMA ParsedInOrder ==
  ASSUME NEW hits \in Hits
  PROVE  ParsedFrom(hits, Len(hits), ParseResults(hits))
<1>1. PICK n \in 0 .. TopK :
        hits \in [1 .. n -> [distance : Distances, text : {"missing", "short", "long"}]]
  BY DEF Hits
<1>2. n \in Nat /\ Len(hits) = n /\ \A k \in 1 .. n : k \in DocIds
  BY <1>1, GenerationAssumption DEF DocIds
<1>. DEFINE doc(i) == [id |-> i, score |-> DistanceToScore(hits[i].distance),
                       short |-> hits[i].text = "short"]
            Step == [i \in 1 .. n |-> [v \in Seq(Docs) |->
                       IF hits[i].text = "missing" THEN v ELSE Append(v, doc(i))]]
            P == CHOOSE h : h = [i \in 0 .. n |->
                   IF i = 0 THEN <<>>
                   ELSE IF hits[i].text = "missing" THEN h[i - 1]
                   ELSE Append(h[i - 1], doc(i))]
<1>3. \A i \in 1 .. n : /\ doc(i) \in Docs /\ doc(i).id = i
                        /\ doc(i).score = DistanceToScore(hits[i].distance)
  BY <1>1, <1>2, ScoresAreTyped DEF Docs
<1>. HIDE DEF doc
<1>4. \E h : h = [i \in 0 .. n |->
                   IF i = 0 THEN <<>>
                   ELSE IF hits[i].text = "missing" THEN h[i - 1]
                   ELSE Append(h[i - 1], doc(i))]
  <2>1. \A i \in 1 .. n : \A v \in Seq(Docs) : Append(v, doc(i)) \in Seq(Docs)
    BY <1>3
  <2>2. /\ Step \in [1 .. n -> [Seq(Docs) -> Seq(Docs)]]
        /\ \A i \in 1 .. n : \A v \in Seq(Docs) :
             Step[i][v] = IF hits[i].text = "missing" THEN v ELSE Append(v, doc(i))
    BY <2>1
  <2>. HIDE DEF Step
  <2>3. PICK g : Rounds(Seq(Docs), <<>>, n, Step, g)
    <3>1. <<>> \in Seq(Docs)
      OBVIOUS
    <3>. QED BY <1>2, <2>2, <3>1, LoopRuns, Zenon
  <2>4. \A i \in 1 .. n : g[i - 1] \in Seq(Docs)
    BY <2>3 DEF Rounds
  <2>5. \A i \in 0 .. n : i # 0 => i \in 1 .. n
    OBVIOUS
  <2>6. g = [i \in 0 .. n |->
                   IF i = 0 THEN <<>>
                   ELSE IF hits[i].text = "missing" THEN g[i - 1]
                   ELSE Append(g[i - 1], doc(i))]
    BY <2>2, <2>3, <2>4, <2>5 DEF Rounds
  <2>. QED BY <2>6
<1>5. P = [i \in 0 .. n |->
             IF i = 0 THEN <<>>
             ELSE IF hits[i].text = "missing" THEN P[i - 1]
             ELSE Append(P[i - 1], doc(i))]
  BY <1>4
<1>6. ParseResults(hits) = P[n]
  BY <1>2 DEF ParseResults, doc
<1>. HIDE DEF P
<1>7. /\ P[0] = <<>>
      /\ \A i \in 1 .. n :
           P[i] = IF hits[i].text = "missing" THEN P[i - 1] ELSE Append(P[i - 1], doc(i))
  <2>1. 0 \in 0 .. n /\ \A i \in 1 .. n : i \in 0 .. n /\ i # 0
    BY <1>2
  <2>. QED BY <1>5, <2>1
<1>8. ParsedFrom(hits, n, P[n])
  <2>. DEFINE T == {k \in 0 .. n : ParsedFrom(hits, k, P[k])}
  <2>1. 0 \in T
    <3>1. ParsedFrom(hits, 0, <<>>)
      BY DEF ParsedFrom
    <3>. QED BY <1>2, <1>7, <3>1
  <2>2. ASSUME NEW k \in 1 .. n, k - 1 \in T
        PROVE  k \in T
    <3>1. ParsedFrom(hits, k - 1, P[k - 1]) /\ k \in 0 .. n
      BY <2>2
    <3>. HIDE DEF T
    <3>2. ParsedFrom(hits, k, Append(P[k - 1], doc(k))) /\ ParsedFrom(hits, k, P[k - 1])
      BY <1>2, <1>3, <3>1, ParsedOneMore
    <3>. QED BY <1>7, <3>1, <3>2 DEF T
  <2>. HIDE DEF T
  <2>3. n \in 0 .. n
    BY <1>2
  <2>4. n \in T
    BY <1>2, <2>1, <2>2, <2>3, UpTo
  <2>. QED BY <2>4 DEF T
<1>. QED BY <1>2, <1>6, <1>8

\* The parsed documents fall in score, as the hits rise in distance.
LEMMA ParsedFall ==
  ASSUME NEW hits \in Hits
  PROVE  LET docs == ParseResults(hits)
         IN /\ docs \in Seq(Docs)
            /\ \A i, j \in 1 .. Len(docs) : i <= j => docs[j].score <= docs[i].score
            /\ \A i, j \in 1 .. Len(docs) : i < j => docs[i].id < docs[j].id
<1>. DEFINE docs == ParseResults(hits)
<1>1. ParsedFrom(hits, Len(hits), docs)
  BY ParsedInOrder
<1>. HIDE DEF docs
<1>2. PICK n \in 0 .. TopK :
        /\ hits \in [1 .. n -> [distance : Distances, text : {"missing", "short", "long"}]]
        /\ \A i, j \in 1 .. n : i < j => hits[i].distance <= hits[j].distance
  BY DEF Hits
<1>3. n \in Nat /\ Len(hits) = n
  BY <1>2, GenerationAssumption
<1>4. \A d, e \in Distances : d <= e => DistanceToScore(e) <= DistanceToScore(d)
  <2>1. \A d, e \in Nat : d <= e => DistanceToScore(e) <= DistanceToScore(d)
    BY Units DEF DistanceToScore
  <2>. QED BY <2>1, DistancesAreNumbers, Zenon
<1>5. ASSUME NEW i \in 1 .. Len(docs), NEW j \in 1 .. Len(docs), i <= j
      PROVE  docs[j].score <= docs[i].score
  <2>1. /\ docs[i].id \in 1 .. n /\ docs[j].id \in 1 .. n
        /\ docs[i].score = DistanceToScore(hits[docs[i].id].distance)
        /\ docs[j].score = DistanceToScore(hits[docs[j].id].distance)
    <3>1. docs[i].id \in Nat \ {0} /\ docs[j].id \in Nat \ {0}
      BY <1>1, DocsTyped DEF ParsedFrom
    <3>. QED BY <1>1, <1>3, <3>1 DEF ParsedFrom
  <2>2. CASE i = j
    <3>1. docs[i].score \in Int
      BY <1>1, DocsTyped DEF ParsedFrom
    <3>. QED BY <2>2, <3>1
  <2>3. CASE i < j
    <3>1. docs[i].id < docs[j].id
      BY <1>1, <2>3 DEF ParsedFrom
    <3>2. hits[docs[i].id].distance <= hits[docs[j].id].distance
      BY <1>2, <2>1, <3>1
    <3>3. hits[docs[i].id].distance \in Distances /\ hits[docs[j].id].distance \in Distances
      BY <1>2, <2>1
    <3>. QED BY <1>4, <2>1, <3>2, <3>3
  <2>4. Len(docs) \in Nat
    BY <1>1 DEF ParsedFrom
  <2>. QED BY <1>5, <2>2, <2>3, <2>4
<1>. QED BY <1>1, <1>5 DEF ParsedFrom, docs

-----------------------------------------------------------------------------
(***************************************************************************)
(* The ranking.  Counting what comes before gives every document a place   *)
(* of its own, so that the sort is a permutation.                          *)
(***************************************************************************)
LEMMA PlacesInOrder ==
  ASSUME NEW n \in Nat, NEW scores \in [1 .. n -> Int],
         NEW i \in 1 .. n, NEW j \in 1 .. n, Before(scores, i, j)
  PROVE  Place(scores, i) < Place(scores, j)
<1>. DEFINE above(x) == {y \in 1 .. n : Before(scores, y, x)}
<1>1. above(i) \subseteq above(j)
  <2>1. SUFFICES ASSUME NEW y \in 1 .. n, Before(scores, y, i)
                 PROVE  Before(scores, y, j)
    OBVIOUS
  <2>2. scores[y] \in Int /\ scores[i] \in Int /\ scores[j] \in Int
    OBVIOUS
  <2>. QED BY <2>1, <2>2 DEF Before
<1>2. i \in above(j) /\ i \notin above(i)
  BY DEF Before
<1>3. IsFiniteSet(1 .. n)
  BY FS_Interval
<1>4. IsFiniteSet(above(j))
  BY <1>3, FS_Subset
<1>5. /\ IsFiniteSet(above(i)) /\ Cardinality(above(i)) <= Cardinality(above(j))
      /\ Cardinality(above(i)) = Cardinality(above(j)) => above(i) = above(j)
  BY <1>1, <1>4, FS_Subset
<1>6. Cardinality(above(i)) \in Nat /\ Cardinality(above(j)) \in Nat
  BY <1>4, <1>5, FS_CardinalityType
<1>7. Place(scores, i) = 1 + Cardinality(above(i)) /\ Place(scores, j) = 1 + Cardinality(above(j))
  BY DEF Place
<1>. HIDE DEF above
<1>. QED BY <1>2, <1>5, <1>6, <1>7

LEMMA PlacesAreTyped ==
  ASSUME NEW n \in Nat, NEW scores \in [1 .. n -> Int], NEW i \in 1 .. n
  PROVE  Place(scores, i) \in 1 .. n
<1>. DEFINE above == {y \in 1 .. n : Before(scores, y, i)}
<1>1. above \subseteq (1 .. n) \ {i}
  BY DEF Before
<1>2. IsFiniteSet(1 .. n) /\ Cardinality(1 .. n) = n
  BY FS_Interval
<1>3. IsFiniteSet((1 .. n) \ {i}) /\ Cardinality((1 .. n) \ {i}) = n - 1
  BY <1>2, FS_RemoveElement
<1>4. Cardinality(above) <= n - 1 /\ IsFiniteSet(above)
  BY <1>1, <1>3, FS_Subset
<1>5. Cardinality(above) \in Nat
  BY <1>4, FS_CardinalityType
<1>6. Place(scores, i) = 1 + Cardinality(above)
  BY DEF Place
<1>. HIDE DEF above
<1>. QED BY <1>4, <1>5, <1>6

LEMMA PlacesAreFilled ==
  ASSUME NEW n \in Nat, NEW scores \in [1 .. n -> Int], NEW k \in 1 .. n
  PROVE  Sorted(scores)[k] \in 1 .. n /\ Place(scores, Sorted(scores)[k]) = k
<1>. DEFINE p == [i \in 1 .. n |-> Place(scores, i)]
<1>1. p \in [1 .. n -> 1 .. n]
  BY PlacesAreTyped
<1>2. ASSUME NEW i \in 1 .. n, NEW j \in 1 .. n, p[i] = p[j]
      PROVE  i = j
  <2>1. SUFFICES ASSUME i # j PROVE FALSE
    OBVIOUS
  <2>2. scores[i] \in Int /\ scores[j] \in Int
    OBVIOUS
  <2>3. Before(scores, i, j) \/ Before(scores, j, i)
    BY <2>1, <2>2 DEF Before
  <2>4. p[i] \in Int /\ p[j] \in Int
    BY <1>1
  <2>5. p[i] < p[j] \/ p[j] < p[i]
    BY <2>3, PlacesInOrder
  <2>. QED BY <1>2, <2>4, <2>5
<1>. HIDE DEF p
<1>3. p \in Injection(1 .. n, 1 .. n)
  BY <1>1, <1>2 DEF Injection, IsInjective
<1>4. IsFiniteSet(1 .. n)
  BY FS_Interval
<1>5. p \in Surjection(1 .. n, 1 .. n)
  BY <1>3, <1>4, FS_Injection
<1>6. \E i \in 1 .. n : Place(scores, i) = k
  BY <1>5 DEF Surjection, p
<1>7. DOMAIN scores = 1 .. n
  OBVIOUS
<1>. DEFINE first == CHOOSE i \in 1 .. n : Place(scores, i) = k
<1>8. Sorted(scores)[k] = first
  BY <1>7 DEF Sorted
<1>9. first \in 1 .. n /\ Place(scores, first) = k
  BY <1>6
<1>. QED BY <1>8, <1>9

\* What the reranker keeps are documents, and each one scored above one of them
\* is among them.
LEMMA TopRankedAreBest ==
  ASSUME retrieved \in Seq(Docs), NEW scores \in [DOMAIN retrieved -> ModelScores]
  PROVE  LET kept == TopRanked(scores)
         IN /\ kept \in Seq(Docs)
            /\ \A k \in DOMAIN kept : \A i \in DOMAIN scores :
                 scores[i] > kept[k].score =>
                   \E h \in DOMAIN kept : kept[h].id = retrieved[i].id
<1>. DEFINE n == Len(retrieved)
            m == Least(TopN, n)
            kept == TopRanked(scores)
<1>1. n \in Nat /\ DOMAIN retrieved = 1 .. n /\ \A i \in 1 .. n : retrieved[i] \in Docs
  OBVIOUS
<1>2. m \in Nat /\ m <= n
  BY <1>1, GenerationAssumption DEF Least
<1>3. scores \in [1 .. n -> ModelScores] /\ DOMAIN scores = 1 .. n
  BY <1>1
<1>4. \A x \in ModelScores : x \in 0 .. One /\ x \in Int
  <2>1. ModelScores \subseteq 0 .. One
    BY GenerationAssumption, Zenon
  <2>. QED BY <2>1, Units
<1>5. scores \in [1 .. n -> Int]
  BY <1>3, <1>4
<1>6. kept = [k \in 1 .. m |-> Ranked(Sorted(scores)[k], scores)]
  BY DEF TopRanked
<1>. HIDE DEF n, m, kept
<1>7. ASSUME NEW i \in 1 .. n
      PROVE  /\ Ranked(i, scores) \in Docs
             /\ Ranked(i, scores).id = retrieved[i].id
             /\ Ranked(i, scores).score = scores[i]
  <2>1. retrieved[i] \in Docs /\ scores[i] \in 0 .. One
    BY <1>1, <1>3, <1>4
  <2>. QED BY <2>1 DEF Ranked, Docs
<1>8. ASSUME NEW k \in 1 .. m
      PROVE  /\ k \in 1 .. n /\ Sorted(scores)[k] \in 1 .. n
             /\ Place(scores, Sorted(scores)[k]) = k
             /\ kept[k] = Ranked(Sorted(scores)[k], scores)
  <2>1. k \in 1 .. n
    BY <1>1, <1>2
  <2>. QED BY <1>1, <1>5, <1>6, <2>1, PlacesAreFilled
<1>9. \A k \in 1 .. m : kept[k] \in Docs
  BY <1>7, <1>8
<1>10. kept \in [1 .. m -> Docs] /\ DOMAIN kept = 1 .. m
  BY <1>6, <1>9
<1>11. kept \in Seq(Docs)
  BY <1>2, <1>10
<1>12. ASSUME NEW k \in 1 .. m, NEW i \in 1 .. n, scores[i] > kept[k].score
       PROVE  \E h \in 1 .. m : kept[h].id = retrieved[i].id
  <2>. DEFINE j == Sorted(scores)[k]
              h == Place(scores, i)
  <2>1. j \in 1 .. n /\ Place(scores, j) = k /\ kept[k] = Ranked(j, scores)
    BY <1>8
  <2>. HIDE DEF j
  <2>2. Before(scores, i, j)
    BY <1>7, <1>12, <2>1 DEF Before
  <2>3. h \in 1 .. n /\ h < k
    BY <1>1, <1>5, <2>1, <2>2, PlacesAreTyped, PlacesInOrder
  <2>4. h \in 1 .. m
    BY <1>1, <1>2, <2>3
  <2>5. Sorted(scores)[h] = i
    <3>. DEFINE g == Sorted(scores)[h]
    <3>1. g \in 1 .. n /\ Place(scores, g) = h
      BY <1>8, <2>4
    <3>. HIDE DEF g
    <3>2. g = i
      <4>1. SUFFICES ASSUME g # i PROVE FALSE
        OBVIOUS
      <4>2. scores[g] \in Int /\ scores[i] \in Int
        BY <1>5, <3>1
      <4>3. Before(scores, g, i) \/ Before(scores, i, g)
        BY <3>1, <4>1, <4>2 DEF Before
      <4>4. h < h
        BY <1>1, <1>5, <3>1, <4>3, PlacesInOrder
      <4>. QED BY <2>3, <4>4
    <3>. QED BY <3>2 DEF g
  <2>6. kept[h].id = retrieved[i].id
    BY <1>7, <1>8, <2>4, <2>5
  <2>. QED BY <2>4, <2>6
<1>. QED BY <1>3, <1>10, <1>11, <1>12 DEF kept

-----------------------------------------------------------------------------
(***************************************************************************)
(* Types, and the evidence: what is retrieved and ranked when.             *)
(***************************************************************************)
\* Nothing is retrieved or ranked before its step; after it, the confidence lies
\* within the similarities and the best documents are kept.
Evidence ==
  /\ pc = "retrieve" => retrieved = <<>>
  /\ pc \in {"retrieve", "rerank"} => raw = <<>> /\ ranked = <<>>
  /\ ConfidenceWithinEvidence
  /\ BestAreKept

\* The confidence of what is parsed is within it.
LEMMA RetrievedConfidence ==
  ASSUME NEW hits \in Hits
  PROVE  LET docs == ParseResults(hits)
             n == Len(docs)
             scores == [i \in 1 .. n |-> docs[i].score]
         IN /\ docs \in Seq(Docs)
            /\ \A c \in ScoreRetrieval(docs) :
                 /\ c \in 0 .. Reported
                 /\ docs # <<>> => /\ 2 * SumTo(scores, n) <= n * Grain * (2 * c + 1)
                                   /\ (2 * c - 1) * Grain <= 2 * scores[1]
<1>. DEFINE docs == ParseResults(hits)
            n == Len(docs)
            s == [i \in 1 .. n |-> docs[i].score]
<1>1. docs \in Seq(Docs) /\ \A i, j \in 1 .. n : i <= j => docs[j].score <= docs[i].score
  BY ParsedFall
<1>. HIDE DEF docs
<1>2. n \in Nat /\ \A i \in 1 .. n : docs[i].score \in 0 .. One /\ docs[i].score \in Nat
  BY <1>1, DocsTyped
<1>3. CASE n = 0
  <2>1. docs = <<>>
    BY <1>1, <1>3
  <2>2. ScoreRetrieval(docs) = {0} /\ 0 \in 0 .. Reported
    BY <1>3 DEF ScoreRetrieval, Reported
  <2>. QED BY <1>1, <2>1, <2>2 DEF docs
<1>4. CASE n # 0
  <2>1. n \in Nat \ {0} /\ Len(docs) = n
    BY <1>2, <1>4
  <2>2. /\ s \in [1 .. n -> Nat] /\ \A i \in 1 .. n : docs[i].score = s[i]
        /\ \A i, j \in 1 .. n : i <= j => s[j] <= s[i]
        /\ s[1] <= One
    BY <1>1, <1>2, <2>1
  <2>. HIDE DEF n, s
  <2>3. \A c \in ScoreRetrieval(docs) :
          /\ c \in 0 .. Reported
          /\ 2 * SumTo(s, n) <= n * Grain * (2 * c + 1)
          /\ (2 * c - 1) * Grain <= 2 * s[1]
    BY <2>1, <2>2, ConfidenceOfFalling, Zenon
  <2>. QED BY <1>1, <2>3 DEF docs, n, s
<1>. QED BY <1>2, <1>3, <1>4

\* What is cited are documents or inventions, with a score.
LEMMA OverriddenAreTyped ==
  ASSUME ranked \in Seq(Docs), NEW r \in Replies
  PROVE  OverrideCitationScores(r.cites) \subseteq Citations
<1>1. /\ DOMAIN ranked = 1 .. Len(ranked)
      /\ \A k \in DOMAIN ranked : ranked[k].id \in DocIds /\ ranked[k].score \in 0 .. One
  BY DocsTyped
<1>2. \A x \in LlmScores : x \in 0 .. One
  BY GenerationAssumption, Zenon
<1>3. r.cites \subseteq Citations
  <2>1. r.cites \subseteq [id : DocIds \cup {Invented}, score : LlmScores]
    BY DEF Replies
  <2>. QED BY <1>2, <2>1 DEF Citations
<1>4. SUFFICES ASSUME NEW c \in OverrideCitationScores(r.cites)
               PROVE  c \in Citations
  OBVIOUS
<1>5. PICK x \in r.cites : c = IF x.id \in Given THEN [x EXCEPT !.score = ScoreOf(x.id)] ELSE x
  BY DEF OverrideCitationScores
<1>6. CASE x.id \notin Given
  BY <1>3, <1>5, <1>6
<1>7. CASE x.id \in Given
  <2>. DEFINE k == CHOOSE i \in DOMAIN ranked : ranked[i].id = x.id
  <2>1. k \in DOMAIN ranked
    BY <1>7 DEF Given
  <2>2. ScoreOf(x.id) = ranked[k].score
    BY DEF ScoreOf
  <2>. HIDE DEF k
  <2>3. ScoreOf(x.id) \in 0 .. One
    BY <1>1, <2>1, <2>2
  <2>4. x \in Citations
    BY <1>3
  <2>. QED BY <1>5, <1>7, <2>3, <2>4 DEF Citations
<1>. QED BY <1>6, <1>7

LEMMA BackfilledAreTyped ==
  ASSUME ranked \in Seq(Docs), NEW r \in Replies
  PROVE  [cites |-> BackfillCitations(OverrideCitationScores(r.cites), r.answer),
          answer |-> r.answer] \in Drafts
<1>. DEFINE over == OverrideCitationScores(r.cites)
<1>1. over \subseteq Citations
  BY OverriddenAreTyped
<1>2. /\ DOMAIN ranked = 1 .. Len(ranked)
      /\ \A k \in DOMAIN ranked : ranked[k].id \in DocIds /\ ranked[k].score \in 0 .. One
  BY DocsTyped
<1>. HIDE DEF over
<1>3. Cited(r.answer) \subseteq DOMAIN ranked
  BY DEF Cited, Marked
<1>4. {[id |-> ranked[k].id, score |-> ranked[k].score] : k \in Cited(r.answer)} \subseteq Citations
  BY <1>2, <1>3 DEF Citations
<1>5. BackfillCitations(over, r.answer) \subseteq Citations
  BY <1>1, <1>4 DEF BackfillCitations
<1>6. r.answer \in Answers
  BY DEF Replies, Answers
<1>. QED BY <1>5, <1>6 DEF Drafts, over

LEMMA RepliesAreDrafts == Replies \subseteq Drafts
<1>1. \A x \in LlmScores : x \in 0 .. One
  BY GenerationAssumption, Zenon
<1>2. SUFFICES ASSUME NEW r \in Replies
               PROVE  r \in Drafts
  OBVIOUS
<1>3. r = [cites |-> r.cites, answer |-> r.answer]
  BY DEF Replies
<1>4. r.cites \subseteq Citations
  <2>1. r.cites \subseteq [id : DocIds \cup {Invented}, score : LlmScores]
    BY DEF Replies
  <2>. QED BY <1>1, <2>1 DEF Citations
<1>5. r.answer \in Answers
  BY DEF Replies, Answers
<1>. QED BY <1>3, <1>4, <1>5 DEF Drafts

\* The confidence of an answer is that of one of the best documents, rounded.
LEMMA AnswerScored ==
  ASSUME ranked \in Seq(Docs), NEW c \in ScoreAnswer, ranked # <<>>
  PROVE  \E k \in DOMAIN ranked : Best(k) /\ c \in Nat /\ Halfway(ranked[k].score, Grain, c)
<1>1. PICK k \in DOMAIN ranked : Best(k) /\ c \in Clamp(ranked[k].score, 1)
  BY DEF ScoreAnswer
<1>2. DOMAIN ranked = 1 .. Len(ranked)
  OBVIOUS
<1>3. ranked[k].score \in Nat /\ 1 \in Nat \ {0}
  BY <1>1, <1>2, DocsTyped
<1>4. c \in Nat /\ Halfway(ranked[k].score, 1 * Grain, c)
  BY <1>1, <1>3, ClampIsNearest, Zenon
<1>5. 1 * Grain = Grain
  BY Units
<1>. QED BY <1>1, <1>4, <1>5

LEMMA AnswersAreTyped ==
  ASSUME ranked \in Seq(Docs)
  PROVE  ScoreAnswer \subseteq 0 .. Reported
<1>1. SUFFICES ASSUME NEW c \in ScoreAnswer
               PROVE  c \in 0 .. Reported
  OBVIOUS
<1>2. CASE ranked = <<>>
  BY <1>2 DEF ScoreAnswer, Reported
<1>3. CASE ranked # <<>>
  <2>1. PICK k \in DOMAIN ranked : c \in Nat /\ Halfway(ranked[k].score, Grain, c)
    BY <1>3, AnswerScored
  <2>2. DOMAIN ranked = 1 .. Len(ranked)
    OBVIOUS
  <2>3. ranked[k].score \in 0 .. One /\ ranked[k].score \in Nat
    BY <2>1, <2>2, DocsTyped
  <2>4. ranked[k].score <= Grain * Reported
    BY <2>3, Units
  <2>5. Grain \in Nat \ {0} /\ Reported \in Nat
    BY Units
  <2>6. c <= Reported
    BY <2>1, <2>3, <2>4, <2>5, HalfwayInside, Zenon
  <2>. QED BY <2>1, <2>5, <2>6
<1>. QED BY <1>2, <1>3

\* The initial state.
LEMMA InitTyped == Init => TypeOK /\ Evidence
<1>. SUFFICES ASSUME Init PROVE TypeOK /\ Evidence
  OBVIOUS
<1>1. /\ pc = "retrieve" /\ route \in {"research", "support"}
      /\ retrieved = <<>> /\ raw = <<>> /\ ranked = <<>> /\ retrievalConf = NULL
      /\ tries = 0 /\ used = FALSE /\ draft = NULL /\ output = NULL
      /\ answerConf = NULL /\ errors = FALSE
  BY DEF Init
<1>2. <<>> \in Seq(Docs) /\ <<>> \in Seq(ModelScores) /\ 0 \in 0 .. MaxAttempts - 1
  BY GenerationAssumption
<1>3. TypeOK
  BY <1>1, <1>2 DEF TypeOK, Steps
<1>4. ConfidenceWithinEvidence /\ BestAreKept
  BY <1>1 DEF ConfidenceWithinEvidence, BestAreKept
<1>. QED BY <1>1, <1>3, <1>4 DEF Evidence

\* Each step keeps the types and the evidence.
LEMMA NextTyped == TypeOK /\ Sound /\ Evidence /\ [Next]_vars => (TypeOK /\ Evidence)'
<1>. SUFFICES ASSUME TypeOK, Sound, Evidence, [Next]_vars
              PROVE  TypeOK' /\ Evidence'
  OBVIOUS
<1>1. CASE Retrieve
  <2>1. PICK hits \in Hits : /\ retrieved' = ParseResults(hits)
                             /\ retrievalConf' \in ScoreRetrieval(ParseResults(hits))
    BY <1>1 DEF Retrieve
  <2>2. /\ pc' = "rerank" /\ raw' = <<>> /\ ranked' = <<>>
        /\ UNCHANGED <<route, raw, ranked, tries, used, draft, output, answerConf, errors>>
    BY <1>1 DEF Retrieve, Evidence
  <2>. DEFINE docs == ParseResults(hits)
  <2>3. /\ docs \in Seq(Docs)
        /\ \A c \in ScoreRetrieval(docs) :
             /\ c \in 0 .. Reported
             /\ docs # <<>> =>
                  /\ 2 * SumTo([i \in 1 .. Len(docs) |-> docs[i].score], Len(docs))
                       <= Len(docs) * Grain * (2 * c + 1)
                  /\ (2 * c - 1) * Grain <= 2 * [i \in 1 .. Len(docs) |-> docs[i].score][1]
    BY RetrievedConfidence
  <2>. HIDE DEF docs
  <2>4. retrieved' = docs /\ retrievalConf' \in ScoreRetrieval(docs)
    BY <2>1 DEF docs
  <2>5. TypeOK'
    BY <2>2, <2>3, <2>4 DEF TypeOK, Steps
  <2>6. ConfidenceWithinEvidence'
    BY <2>3, <2>4 DEF ConfidenceWithinEvidence
  <2>7. BestAreKept'
    BY <2>2 DEF BestAreKept
  <2>. QED BY <2>2, <2>5, <2>6, <2>7 DEF Evidence
<1>2. CASE RetrieveFails
  <2>1. UNCHANGED <<retrieved, retrievalConf, raw, ranked>> /\ pc = "retrieve" /\ pc' = "rerank"
    BY <1>2 DEF RetrieveFails, documents
  <2>2. TypeOK'
    BY <1>2, <2>1 DEF RetrieveFails, TypeOK, Steps
  <2>. QED BY <2>1, <2>2 DEF Evidence, ConfidenceWithinEvidence, BestAreKept, Given
<1>3. CASE Rerank
  <2>1. PICK scores \in [DOMAIN retrieved -> ModelScores] :
          raw' = scores /\ ranked' = TopRanked(scores)
    BY <1>3 DEF Rerank
  <2>2. /\ pc' \in {"assess", "generate"}
        /\ UNCHANGED <<route, retrieved, retrievalConf, tries, used, draft, output,
                       answerConf, errors>>
    BY <1>3 DEF Rerank, AfterRanking
  <2>3. retrieved \in Seq(Docs) /\ Len(retrieved) \in Nat /\ DOMAIN retrieved = 1 .. Len(retrieved)
    BY DEF TypeOK
  <2>4. /\ ranked' \in Seq(Docs)
        /\ \A k \in DOMAIN ranked' : \A i \in DOMAIN raw' :
             raw'[i] > ranked'[k].score =>
               \E h \in DOMAIN ranked' : ranked'[h].id = retrieved[i].id
    BY <2>1, <2>3, TopRankedAreBest
  <2>5. raw' \in Seq(ModelScores)
    BY <2>1, <2>3
  <2>6. TypeOK'
    BY <2>2, <2>4, <2>5 DEF TypeOK, Steps
  <2>7. BestAreKept'
    BY <2>2, <2>4 DEF BestAreKept, Given
  <2>8. ConfidenceWithinEvidence'
    BY <2>2 DEF Evidence, ConfidenceWithinEvidence
  <2>. QED BY <2>2, <2>6, <2>7, <2>8 DEF Evidence
<1>4. ASSUME UNCHANGED documents, pc' \notin {"retrieve", "rerank"} \/ pc' = pc
      PROVE  Evidence'
  BY <1>4 DEF documents, Evidence, ConfidenceWithinEvidence, BestAreKept, Given
<1>5. CASE RerankFails
  <2>1. UNCHANGED documents /\ pc' \in {"assess", "generate"}
    BY <1>5 DEF RerankFails, AfterRanking
  <2>2. TypeOK'
    BY <1>5, <2>1 DEF RerankFails, TypeOK, Steps, documents
  <2>. QED BY <1>4, <2>1, <2>2
<1>6. CASE AttemptFails
  <2>1. TypeOK'
    BY <1>6, GenerationAssumption DEF AttemptFails, TypeOK, documents
  <2>. QED BY <1>4, <1>6, <2>1 DEF AttemptFails
<1>7. CASE GiveUp
  <2>1. TypeOK'
    BY <1>7, GenerationAssumption DEF GiveUp, TypeOK, Steps, documents
  <2>. QED BY <1>4, <1>7, <2>1 DEF GiveUp
<1>8. CASE Assess
  <2>1. used' \in BOOLEAN
    BY <1>8 DEF Assess, UseRetrieval, NeedsRetrieval
  <2>2. TypeOK'
    BY <1>8, <2>1, GenerationAssumption DEF Assess, TypeOK, Steps, documents
  <2>. QED BY <1>4, <1>8, <2>2 DEF Assess
<1>9. CASE GenerateWithContext
  <2>1. draft' \in Drafts \cup {NULL} /\ errors' \in BOOLEAN
    <3>1. PICK r \in Replies :
            IF Unquotable(r.cites, r.answer)
            THEN errors' = TRUE /\ UNCHANGED draft
            ELSE /\ draft' = [cites |-> BackfillCitations(OverrideCitationScores(r.cites), r.answer),
                              answer |-> r.answer]
                 /\ UNCHANGED errors
      BY <1>9 DEF GenerateWithContext
    <3>2. ranked \in Seq(Docs) /\ draft \in Drafts \cup {NULL} /\ errors \in BOOLEAN
      BY DEF TypeOK
    <3>. QED BY <3>1, <3>2, BackfilledAreTyped
  <2>2. TypeOK'
    BY <1>9, <2>1, GenerationAssumption DEF GenerateWithContext, TypeOK, Steps, documents
  <2>. QED BY <1>4, <1>9, <2>2 DEF GenerateWithContext
<1>10. CASE GenerateDirect
  <2>1. draft' \in Drafts
    BY <1>10, RepliesAreDrafts DEF GenerateDirect
  <2>2. TypeOK'
    BY <1>10, <2>1, GenerationAssumption DEF GenerateDirect, TypeOK, Steps, documents
  <2>. QED BY <1>4, <1>10, <2>2 DEF GenerateDirect
<1>11. CASE StructuredOutput
  <2>1. answerConf' \in 0 .. Reported
    <3>1. ranked \in Seq(Docs)
      BY DEF TypeOK
    <3>. QED BY <1>11, <3>1, AnswersAreTyped DEF StructuredOutput
  <2>2. TypeOK'
    BY <1>11, <2>1 DEF StructuredOutput, TypeOK, Steps, documents
  <2>. QED BY <1>4, <1>11, <2>2 DEF StructuredOutput
<1>12. CASE NoDraft
  <2>1. TypeOK'
    BY <1>12 DEF NoDraft, TypeOK, Steps, documents
  <2>. QED BY <1>4, <1>12, <2>1 DEF NoDraft
<1>13. CASE UNCHANGED vars
  <2>1. UNCHANGED documents /\ pc' = pc
    BY <1>13 DEF vars, documents
  <2>2. TypeOK'
    BY <1>13 DEF vars, TypeOK
  <2>. QED BY <1>4, <2>1, <2>2
<1>. QED BY <1>1, <1>2, <1>3, <1>5, <1>6, <1>7, <1>8, <1>9, <1>10, <1>11, <1>12, <1>13 DEF Next

\* The whole invariant the run checks: the types, and what each step of the
\* pipeline leaves to the next.
THEOREM GenerationInvariance == Spec => [](Inv /\ Evidence)
<1>1. Init => TypeOK /\ Sound /\ Evidence
  BY InitSound, InitTyped
<1>2. TypeOK /\ Sound /\ Evidence /\ [Next]_vars => (TypeOK /\ Sound /\ Evidence)'
  BY NextSound, NextTyped
<1>3. TypeOK /\ Sound /\ Evidence => Inv /\ Evidence
  BY DEF Inv
<1>. QED BY <1>1, <1>2, <1>3, PTL DEF Spec

\* Whatever the store returns and however many hits it has, the retrieval
\* confidence is at least the plain mean of the similarities, and at most the
\* best of them (confidence.py:score_retrieval).
THEOREM ConfidenceIsEvidence == Spec => []ConfidenceWithinEvidence
<1>1. Evidence => ConfidenceWithinEvidence
  BY DEF Evidence
<1>. QED BY <1>1, GenerationInvariance, PTL

\* Whatever the cross-encoder scores and however many documents are kept, none
\* that is left out scores above one that is kept (reranker.py:rerank).
THEOREM BestDocumentsAreKept == Spec => []BestAreKept
<1>1. Evidence => BestAreKept
  BY DEF Evidence
<1>. QED BY <1>1, GenerationInvariance, PTL

\* Citations carry the reranker's scores (research_agent.py:124-193), and the
\* answer's confidence, rounded (structured_output.py:72, confidence.py:104), is
\* at most half a unit below them.
THEOREM CitationsScored == Spec => []CitationsAreScored
<1>1. TypeOK /\ Sound => CitationsAreScored
  <2>. SUFFICES ASSUME TypeOK, Sound, output # NULL, used, NEW c \in output.cites, c.id \in Given
                PROVE  /\ \E k \in DOMAIN ranked :
                            ranked[k].id = c.id /\ ranked[k].score = c.score
                       /\ 2 * c.score <= Grain * (2 * answerConf + 1)
    BY DEF CitationsAreScored
  <2>1. output = draft /\ draft # NULL /\ answerConf \in ScoreAnswer
    BY DEF Sound
  <2>2. PICK k \in DOMAIN ranked : ranked[k].id = c.id /\ ranked[k].score = c.score
    BY <2>1 DEF Sound, DraftIsSound
  <2>3. ranked \in Seq(Docs) /\ ranked # <<>>
    BY <2>2 DEF TypeOK
  <2>4. PICK b \in DOMAIN ranked :
          Best(b) /\ answerConf \in Nat /\ Halfway(ranked[b].score, Grain, answerConf)
    BY <2>1, <2>3, AnswerScored
  <2>5. DOMAIN ranked = 1 .. Len(ranked)
    BY <2>3
  <2>6. ranked[k].score \in Nat /\ ranked[b].score \in Nat /\ ranked[k].score <= ranked[b].score
    BY <2>2, <2>3, <2>4, <2>5, DocsTyped DEF Best
  <2>7. \A a, g, x \in Nat : Halfway(a, g, x) => 2 * a <= g * (2 * x + 1)
    <3>1. TAKE a, g, x \in Nat
    <3>2. g * (2 * x + 1) = 2 * g * x + g /\ 2 * g * x \in Nat
      OBVIOUS
    <3>. QED BY <3>2 DEF Halfway
  <2>8. 2 * ranked[b].score <= Grain * (2 * answerConf + 1)
    <3>1. Grain \in Nat
      BY Units
    <3>. QED BY <2>4, <2>6, <2>7, <3>1, Zenon
  <2>9. \A a, b2, x \in Nat : a <= b2 /\ 2 * b2 <= x => 2 * a <= x
    OBVIOUS
  <2>10. Grain * (2 * answerConf + 1) \in Nat
    <3>1. \A g, x \in Nat : g * (2 * x + 1) \in Nat
      OBVIOUS
    <3>2. Grain \in Nat
      BY Units
    <3>. QED BY <2>4, <3>1, <3>2, Zenon
  <2>. QED BY <2>2, <2>6, <2>8, <2>9, <2>10
<1>2. Inv => TypeOK /\ Sound
  BY DEF Inv
<1>. QED BY <1>1, <1>2, GenerationInvariance, PTL

\* A support answer without documents never has a confidence above that of a
\* relevant document (support_agent.py:234-237 against structured_output.py:72):
\* rounding takes a score that is not relevant to 0.5 at most.
THEOREM ConfidentConsults == Spec => []ConfidentAnswersConsult
<1>1. TypeOK /\ Sound => ConfidentAnswersConsult
  <2>. SUFFICES ASSUME TypeOK, Sound, answerConf # NULL, answerConf > RelevantAt
                PROVE  used
    BY DEF ConfidentAnswersConsult
  <2>1. DraftIsSound /\ answerConf \in ScoreAnswer
    BY DEF Sound
  <2>2. ranked \in Seq(Docs) /\ ranked # <<>>
    <3>1. ranked = <<>> => answerConf = 0
      BY <2>1 DEF ScoreAnswer
    <3>. QED BY <3>1 DEF TypeOK, RelevantAt
  <2>3. PICK b \in DOMAIN ranked :
          answerConf \in Nat /\ Halfway(ranked[b].score, Grain, answerConf)
    BY <2>1, <2>2, AnswerScored
  <2>4. DOMAIN ranked = 1 .. Len(ranked)
    BY <2>2
  <2>5. ranked[b].score \in Nat
    BY <2>2, <2>3, <2>4, DocsTyped
  <2>6. \A a, g, x, m \in Nat : Halfway(a, g, x) /\ x > m => a >= m * g
    <3>1. TAKE a, g, x, m \in Nat
    <3>2. HAVE Halfway(a, g, x) /\ x > m
    <3>3. g * (m + 1) <= g * x
      BY <3>2
    <3>4. g * (m + 1) = m * g + g /\ m * g \in Nat /\ g * x \in Nat /\ 2 * g * x = 2 * (g * x)
      OBVIOUS
    <3>5. 2 * (g * x) <= 2 * a + g
      BY <3>2, <3>4 DEF Halfway
    <3>. QED BY <3>3, <3>4, <3>5
  <2>7. ranked[b].score >= RelevantAt * Grain
    BY <2>3, <2>5, <2>6, Units
  <2>8. HasRelevantDocs
    BY <2>7 DEF HasRelevantDocs
  <2>. QED BY <2>1, <2>8 DEF DraftIsSound
<1>2. Inv => TypeOK /\ Sound
  BY DEF Inv
<1>. QED BY <1>1, <1>2, GenerationInvariance, PTL
=============================================================================
