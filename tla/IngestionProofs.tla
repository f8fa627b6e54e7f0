-------------------------- MODULE IngestionProofs --------------------------
(***************************************************************************)
(* Proofs about Ingestion for any documents, any batch size and any number *)
(* of calls.                                                               *)
(***************************************************************************)
EXTENDS Ingestion, WellFoundedInduction, TLAPS

\* A call that returns has written everything, one that has not begun nothing.
Progress ==
  \A c \in Calls :
    /\ calls[c].written <= Len(calls[c].flat)
    /\ calls[c].pc = "idle" => calls[c].flat = <<>>
    /\ calls[c].pc = "stored" => calls[c].written = Len(calls[c].flat)

\* What is in the collection is a chunk of a call, under the chunk's id.
Provenance ==
  \A i \in DOMAIN store : \E c \in Calls : \E k \in DOMAIN calls[c].flat :
    i = ChunkId(calls[c].flat[k]) /\ store[i] = Entry(calls[c].flat[k])

\* What a call wrote is there or was deleted.
WrittenHeld ==
  \A c \in Calls : \A k \in 1 .. calls[c].written :
    ChunkId(calls[c].flat[k]) \in DOMAIN store \cup removed

\* Only removals delete.
RemovedByRemoval == (\A r \in Removals : removals[r].pc = "idle") => removed = {}

\* The ids a removal read are those of its source, but for later writes.
ReadExact ==
  \A r \in Removals : removals[r].pc = "deleting" =>
    \A i \in DOMAIN store \ removals[r].since :
      i \in removals[r].ids <=> store[i].metadataSource = removals[r].source

Inv ==
  TypeOK /\ Progress /\ Provenance /\ WrittenHeld /\ RemovedByRemoval /\ ReadExact

\* Ids and entries of chunks are typed.
LEMMA ChunkTypes ==
  ASSUME NEW chunk \in Chunks
  PROVE  ChunkId(chunk) \in Ids /\ Entry(chunk) \in Entries
BY DEF ChunkId, Entry, Chunks, Ids, Entries

\* The next batch of a call is a part of its chunks.
LEMMA BatchFacts ==
  ASSUME Inv, NEW c \in Calls
  PROVE  /\ BatchEnd(c) \in Nat
         /\ calls[c].written <= BatchEnd(c)
         /\ BatchEnd(c) <= Len(calls[c].flat)
         /\ Batch(c) \subseteq DOMAIN calls[c].flat
         /\ BatchIds(c) \subseteq Ids
         /\ \A k \in Batch(c) : calls[c].flat[k] \in Chunks
<1>1. calls[c].flat \in Seq(Chunks) /\ calls[c].written \in Nat
  BY DEF Inv, TypeOK
<1>2. calls[c].written <= Len(calls[c].flat)
  BY DEF Inv, Progress
<1>3. /\ BatchEnd(c) \in Nat
      /\ calls[c].written <= BatchEnd(c)
      /\ BatchEnd(c) <= Len(calls[c].flat)
  BY <1>1, <1>2, IngestionAssumption DEF BatchEnd
<1>4. Batch(c) \subseteq DOMAIN calls[c].flat
  BY <1>1, <1>3 DEF Batch
<1>5. \A k \in Batch(c) : calls[c].flat[k] \in Chunks
  BY <1>1, <1>4
<1>6. BatchIds(c) \subseteq Ids
  BY <1>5, ChunkTypes DEF BatchIds
<1>7. QED BY <1>3, <1>4, <1>5, <1>6

\* The upsert adds the batch's ids, each with the entry of a chunk of that id,
\* and leaves the other entries.
LEMMA UpsertedFacts ==
  ASSUME Inv, NEW c \in Calls
  PROVE  /\ DOMAIN Upserted(c) = DOMAIN store \cup BatchIds(c)
         /\ \A i \in BatchIds(c) : \E k \in Batch(c) :
              i = ChunkId(calls[c].flat[k]) /\ Upserted(c)[i] = Entry(calls[c].flat[k])
         /\ \A i \in DOMAIN store \ BatchIds(c) : Upserted(c)[i] = store[i]
<1>1. DOMAIN Upserted(c) = DOMAIN store \cup BatchIds(c)
  BY DEF Upserted
<1>2. ASSUME NEW i \in BatchIds(c)
      PROVE  \E k \in Batch(c) :
               i = ChunkId(calls[c].flat[k]) /\ Upserted(c)[i] = Entry(calls[c].flat[k])
  <2> DEFINE chosen == CHOOSE k \in Batch(c) : ChunkId(calls[c].flat[k]) = i
  <2>1. \E k \in Batch(c) : ChunkId(calls[c].flat[k]) = i
    BY <1>2 DEF BatchIds
  <2>2. chosen \in Batch(c) /\ ChunkId(calls[c].flat[chosen]) = i
    BY <2>1
  <2>3. Upserted(c)[i] = Entry(calls[c].flat[chosen])
    BY <1>2 DEF Upserted
  <2> HIDE DEF chosen
  <2>4. QED BY <2>2, <2>3
<1>3. \A i \in DOMAIN store \ BatchIds(c) : Upserted(c)[i] = store[i]
  BY DEF Upserted
<1>4. QED BY <1>1, <1>2, <1>3

-----------------------------------------------------------------------------
(***************************************************************************)
(* The chunks of a call.  FlattenSeq is a loop over the documents: a       *)
(* function that is defined by recursion on 0 .. n exists and has what     *)
(* each round hands to the next.                                           *)
(***************************************************************************)
\* Every set of numbers that is not empty has a least one.
LEMMA LeastNumber ==
  ASSUME NEW S \in SUBSET Nat, S # {}
  PROVE  \E n \in S : \A m \in S : n <= m
<1>. DEFINE R == OpToRel(<, Nat)
<1>1. IsWellFoundedOn(R, Nat)
  BY NatLessThanWellFounded
<1>2. ASSUME NEW x \in Nat, NEW y \in Nat, x < y PROVE <<x, y>> \in R
  BY <1>2, Zenon DEF OpToRel
<1>. HIDE DEF R
<1>3. PICK n \in S : \A m \in S : ~ (<<m, n>> \in R)
  BY <1>1, WFMin, Zenon
<1>4. ASSUME NEW m \in S PROVE n <= m
  <2>1. ~(m < n)
    BY <1>2, <1>3
  <2>. QED BY <2>1
<1>. QED BY <1>4

\* What holds of 0 and of each number after one it holds of holds up to n.
LEMMA UpTo ==
  ASSUME NEW n \in Nat, NEW S, 0 \in S, \A i \in 1 .. n : i - 1 \in S => i \in S
  PROVE  \A i \in 0 .. n : i \in S
<1>. SUFFICES ASSUME NEW j \in 0 .. n, j \notin S
              PROVE  FALSE
  OBVIOUS
<1>1. PICK i \in (0 .. n) \ S : \A m \in (0 .. n) \ S : i <= m
  <2>. DEFINE out == (0 .. n) \ S
  <2>1. out \in SUBSET Nat /\ out # {}
    OBVIOUS
  <2>. HIDE DEF out
  <2>2. \E i \in out : \A m \in out : i <= m
    BY <2>1, LeastNumber
  <2>. QED BY <2>2 DEF out
<1>2. i \in 1 .. n
  BY <1>1
<1>3. i - 1 \in 0 .. n /\ i - 1 < i
  BY <1>2
<1>4. i - 1 \in S
  BY <1>1, <1>3
<1>. QED BY <1>1, <1>2, <1>4

\* The values g of a loop over 1 .. n: it starts with first, and round i
\* replaces the value v by Step[i][v].
Rounds(V, first, n, Step, g) ==
  /\ g \in [0 .. n -> V]
  /\ g[0] = first
  /\ \A i \in 1 .. n : g[i] = Step[i][g[i - 1]]

\* Such a loop runs to any n.
LEMMA LoopRuns ==
  ASSUME NEW V, NEW first \in V, NEW n \in Nat, NEW Step \in [1 .. n -> [V -> V]]
  PROVE  \E g : Rounds(V, first, n, Step, g)
<1>. DEFINE Runs(m, g) == Rounds(V, first, m, Step, g)
            S == {m \in 0 .. n : \E g : Runs(m, g)}
<1>. USE DEF Rounds
<1>1. 0 \in S
  <2>. DEFINE g == [i \in 0 .. 0 |-> first]
  <2>1. g \in [0 .. 0 -> V] /\ g[0] = first /\ \A i \in 1 .. 0 : g[i] = Step[i][g[i - 1]]
    OBVIOUS
  <2>. HIDE DEF g
  <2>2. Runs(0, g) /\ 0 \in 0 .. n
    BY <2>1
  <2>. QED BY <2>2
<1>2. ASSUME NEW m \in 1 .. n, m - 1 \in S
      PROVE  m \in S
  <2>1. PICK g : Runs(m - 1, g)
    BY <1>2
  <2>. DEFINE h == [i \in 0 .. m |-> IF i = m THEN Step[m][g[m - 1]] ELSE g[i]]
  <2>2. g[m - 1] \in V
    BY <2>1
  <2>3. Step[m][g[m - 1]] \in V
    BY <2>2
  <2>4. h \in [0 .. m -> V]
    <3>1. \A i \in 0 .. m : i # m => i \in 0 .. m - 1
      OBVIOUS
    <3>. QED BY <2>1, <2>3, <3>1
  <2>5. h[0] = first
    BY <2>1
  <2>6. ASSUME NEW i \in 1 .. m
        PROVE  h[i] = Step[i][h[i - 1]]
    <3>1. i - 1 \in 0 .. m /\ i - 1 # m
      OBVIOUS
    <3>2. h[i - 1] = g[i - 1]
      BY <3>1
    <3>3. CASE i = m
      BY <3>2, <3>3
    <3>4. CASE i # m
      <4>1. i \in 1 .. m - 1
        BY <3>4
      <4>2. h[i] = g[i]
        BY <3>4
      <4>. QED BY <2>1, <3>2, <4>1, <4>2
    <3>. QED BY <3>3, <3>4
  <2>. HIDE DEF h
  <2>7. Runs(m, h)
    BY <2>4, <2>5, <2>6
  <2>. QED BY <2>7
<1>3. n \in S
  <2>. HIDE DEF S
  <2>1. n \in 0 .. n
    OBVIOUS
  <2>. QED BY <1>1, <1>2, <2>1, UpTo
<1>. QED BY <1>3

\* The chunks of typed documents are typed.
LEMMA FlatTyped ==
  ASSUME NEW documents \in Seq(Documents), documents # <<>>
  PROVE  Flat(documents) \in Seq(Chunks)
<1>. DEFINE n == Len(documents)
            seqs == [d \in DOMAIN documents |->
                      [k \in DOMAIN documents[d].chunks |->
                        [source |-> documents[d].source,
                         metadataSource |-> documents[d].metadataSource,
                         index |-> k - 1,
                         content |-> documents[d].chunks[k]]]]
<1>1. n \in Nat \ {0} /\ DOMAIN documents = 1 .. n
  OBVIOUS
<1>2. ASSUME NEW d \in 1 .. n
      PROVE  seqs[d] \in Seq(Chunks)
  <2>1. documents[d] \in Documents
    BY <1>1
  <2>2. documents[d].chunks \in Seq(Contents)
    BY <2>1 DEF Documents
  <2>. DEFINE m == Len(documents[d].chunks)
  <2>3. m \in Nat /\ DOMAIN documents[d].chunks = 1 .. m
        /\ \A k \in 1 .. m : documents[d].chunks[k] \in Contents
    BY <2>2
  <2>. HIDE DEF m
  <2>4. \A k \in 1 .. m : [source |-> documents[d].source,
                           metadataSource |-> documents[d].metadataSource,
                           index |-> k - 1,
                           content |-> documents[d].chunks[k]] \in Chunks
    BY <2>1, <2>3 DEF Documents, Chunks
  <2>5. seqs[d] \in [1 .. m -> Chunks]
    BY <1>1, <2>3, <2>4
  <2>. QED BY <2>3, <2>5
<1>3. Flat(documents) = FlattenSeq(seqs)
  BY DEF Flat
<1>4. DOMAIN seqs = 1 .. n /\ Len(seqs) = n
  BY <1>1
<1>. HIDE DEF n, seqs
<1>. DEFINE Step == [i \in 1 .. n - 1 |-> [v \in Seq(Chunks) |-> v \o seqs[i + 1]]]
            F == CHOOSE h : h = [i \in 1 .. n |-> IF i = 1 THEN seqs[i] ELSE h[i - 1] \o seqs[i]]
<1>5. \E h : h = [i \in 1 .. n |-> IF i = 1 THEN seqs[i] ELSE h[i - 1] \o seqs[i]]
  <2>1. n - 1 \in Nat /\ seqs[1] \in Seq(Chunks)
        /\ \A i \in 1 .. n - 1 : seqs[i + 1] \in Seq(Chunks)
    BY <1>1, <1>2
  <2>2. /\ Step \in [1 .. n - 1 -> [Seq(Chunks) -> Seq(Chunks)]]
        /\ \A i \in 1 .. n - 1 : \A v \in Seq(Chunks) : Step[i][v] = v \o seqs[i + 1]
    <3>1. \A u, v \in Seq(Chunks) : u \o v \in Seq(Chunks)
      OBVIOUS
    <3>. QED BY <2>1, <3>1
  <2>. HIDE DEF Step
  <2>3. PICK g : Rounds(Seq(Chunks), seqs[1], n - 1, Step, g)
    BY <2>1, <2>2, LoopRuns, Zenon
  <2>4. \A i \in 1 .. n - 1 : g[i - 1] \in Seq(Chunks)
    BY <2>1, <2>3 DEF Rounds
  <2>5. g[0] = seqs[1] /\ \A i \in 1 .. n - 1 : g[i] = g[i - 1] \o seqs[i + 1]
    BY <2>2, <2>3, <2>4 DEF Rounds
  <2>. DEFINE h == [i \in 1 .. n |-> g[i - 1]]
  <2>6. h = [i \in 1 .. n |-> IF i = 1 THEN seqs[i] ELSE h[i - 1] \o seqs[i]]
    <3>1. ASSUME NEW i \in 1 .. n
          PROVE  g[i - 1] = IF i = 1 THEN seqs[i] ELSE h[i - 1] \o seqs[i]
      <4>1. CASE i = 1
        BY <1>1, <2>5, <4>1
      <4>2. CASE i # 1
        <5>. DEFINE j == i - 1
        <5>1. j \in 1 .. n - 1 /\ j \in 1 .. n /\ j + 1 = i
          BY <1>1, <4>2
        <5>. HIDE DEF j
        <5>2. g[j] = g[j - 1] \o seqs[i] /\ h[j] = g[j - 1]
          BY <2>5, <5>1
        <5>. QED BY <4>2, <5>2 DEF j
      <4>. QED BY <4>1, <4>2
    <3>. QED BY <3>1
  <2>. QED BY <2>6
<1>6. F = [i \in 1 .. n |-> IF i = 1 THEN seqs[i] ELSE F[i - 1] \o seqs[i]]
  BY <1>5
<1>7. FlattenSeq(seqs) = F[n]
  BY <1>1, <1>4 DEF FlattenSeq
<1>. HIDE DEF F
<1>8. F[n] \in Seq(Chunks)
  <2>. DEFINE T == {i \in 0 .. n : i = 0 \/ F[i] \in Seq(Chunks)}
  <2>1. 0 \in T
    BY <1>1
  <2>2. ASSUME NEW i \in 1 .. n, i - 1 \in T
        PROVE  i \in T
    <3>1. F[i] = IF i = 1 THEN seqs[i] ELSE F[i - 1] \o seqs[i]
      BY <1>6
    <3>2. seqs[i] \in Seq(Chunks)
      BY <1>2
    <3>3. i # 1 => F[i - 1] \in Seq(Chunks)
      BY <2>2
    <3>4. F[i] \in Seq(Chunks)
      BY <3>1, <3>2, <3>3
    <3>. QED BY <3>4
  <2>. HIDE DEF T
  <2>3. n \in T
    BY <1>1, <2>1, <2>2, UpTo
  <2>. QED BY <1>1, <2>3 DEF T
<1>. QED BY <1>3, <1>7, <1>8

-----------------------------------------------------------------------------
\* No call has begun in the initial state.
LEMMA InitInv == Init => Inv
<1> SUFFICES ASSUME Init PROVE Inv
  OBVIOUS
<1>1. DOMAIN store = {}
  BY DEF Init
<1>2. TypeOK
  BY <1>1 DEF Init, TypeOK
<1>3. QED BY <1>1, <1>2 DEF Init, Inv, Progress, Provenance, WrittenHeld,
                           RemovedByRemoval, ReadExact

\* Writing a batch, whatever becomes of the call, if it counts no more than
\* the batch as written.
LEMMA UpsertInv ==
  ASSUME Inv, NEW c \in Calls, Upsert(c), calls[c].pc = "storing",
         NEW pc \in {"storing", "stored", "failed"},
         NEW written \in {calls[c].written, BatchEnd(c)},
         calls' = [calls EXCEPT ![c] = [@ EXCEPT !.pc = pc, !.written = written]],
         pc = "stored" => written = Len(calls[c].flat)
  PROVE  Inv'
<1> DEFINE ids == BatchIds(c)
<1>1. /\ DOMAIN store' = DOMAIN store \cup ids
      /\ \A i \in ids : \E k \in Batch(c) :
           i = ChunkId(calls[c].flat[k]) /\ store'[i] = Entry(calls[c].flat[k])
      /\ \A i \in DOMAIN store \ ids : store'[i] = store[i]
  BY UpsertedFacts DEF Upsert
<1>2. removed' = removed \ ids
  BY DEF Upsert
<1>3. \A r \in Removals :
        /\ removals'[r].pc = removals[r].pc
        /\ removals'[r].source = removals[r].source
        /\ removals'[r].ids = removals[r].ids
        /\ removals'[r].since = removals[r].since \cup ids
  BY DEF Upsert, Inv, TypeOK
<1>4. /\ ids \subseteq Ids
      /\ \A k \in Batch(c) : calls[c].flat[k] \in Chunks
      /\ Batch(c) \subseteq DOMAIN calls[c].flat
      /\ BatchEnd(c) \in Nat
      /\ BatchEnd(c) <= Len(calls[c].flat)
      /\ calls[c].written \in Nat
      /\ calls[c].written <= BatchEnd(c)
  BY BatchFacts DEF Inv, TypeOK
<1>5. /\ \A d \in Calls : calls'[d].flat = calls[d].flat
      /\ \A d \in Calls \ {c} : calls'[d] = calls[d]
      /\ calls'[c].pc = pc /\ calls'[c].written = written
  BY DEF Inv, TypeOK
<1>6. TypeOK'
  <2>1. DOMAIN store' \subseteq Ids
    BY <1>1, <1>4 DEF Inv, TypeOK
  <2>2. ASSUME NEW i \in DOMAIN store' PROVE store'[i] \in Entries
    <3>1. CASE i \in ids
      BY <1>1, <1>4, <3>1, ChunkTypes
    <3>2. CASE i \notin ids
      BY <1>1, <3>2 DEF Inv, TypeOK
    <3>3. QED BY <3>1, <3>2
  <2>3. calls' \in [Calls -> [pc : {"idle", "storing", "stored", "failed"},
                              flat : Seq(Chunks), written : Nat]]
    BY ZenonT(40), <1>4 DEF Inv, TypeOK
  <2>4. removals' \in [Removals -> [pc : {"idle", "deleting", "done", "failed"},
                                    source : Sources \cup {NULL},
                                    ids : SUBSET Ids, since : SUBSET Ids]]
    BY ZenonT(40), <1>4 DEF Upsert, Inv, TypeOK
  <2>5. removed' \subseteq Ids
    BY <1>2 DEF Inv, TypeOK
  <2>6. QED BY <2>1, <2>2, <2>3, <2>4, <2>5 DEF TypeOK
<1>7. Progress'
  BY <1>4, <1>5 DEF Inv, Progress
<1>8. Provenance'
  <2> SUFFICES ASSUME NEW i \in DOMAIN store'
               PROVE  \E d \in Calls : \E k \in DOMAIN calls'[d].flat :
                        /\ i = ChunkId(calls'[d].flat[k])
                        /\ store'[i] = Entry(calls'[d].flat[k])
    BY DEF Provenance, ChunkId, Entry
  <2>1. CASE i \in ids
    BY <1>1, <1>4, <1>5, <2>1
  <2>2. CASE i \notin ids
    <3>1. i \in DOMAIN store /\ store'[i] = store[i]
      BY <1>1, <2>2
    <3>2. PICK d \in Calls : \E k \in DOMAIN calls[d].flat :
            i = ChunkId(calls[d].flat[k]) /\ store[i] = Entry(calls[d].flat[k])
      BY <3>1 DEF Inv, Provenance
    <3>3. QED BY <1>5, <3>1, <3>2
  <2>3. QED BY <2>1, <2>2
<1>9. WrittenHeld'
  <2> SUFFICES ASSUME NEW d \in Calls, NEW k \in 1 .. calls'[d].written
               PROVE  ChunkId(calls[d].flat[k]) \in DOMAIN store' \cup removed'
    BY <1>5 DEF WrittenHeld, ChunkId
  <2>1. CASE k \in 1 .. calls[d].written
    BY <1>1, <1>2, <2>1 DEF Inv, WrittenHeld
  <2>2. CASE k \notin 1 .. calls[d].written
    <3>1. d = c /\ k \in Batch(c)
      BY <1>4, <1>5, <2>2 DEF Batch
    <3>2. QED BY <1>1, <3>1 DEF BatchIds
  <2>3. QED BY <2>1, <2>2
<1>10. RemovedByRemoval'
  BY <1>2, <1>3 DEF Inv, RemovedByRemoval
<1>11. ReadExact'
  <2> SUFFICES ASSUME NEW r \in Removals, removals[r].pc = "deleting",
                      NEW i \in DOMAIN store' \ (removals[r].since \cup ids)
               PROVE  i \in removals[r].ids <=> store'[i].metadataSource = removals[r].source
    BY <1>3 DEF ReadExact
  <2>1. i \in DOMAIN store \ removals[r].since /\ store'[i] = store[i]
    BY <1>1
  <2>2. QED BY <2>1 DEF Inv, ReadExact
<1>12. QED BY <1>6, <1>7, <1>8, <1>9, <1>10, <1>11 DEF Inv

\* Deleting the ids a removal read, whatever becomes of the removal.
LEMMA DeleteInv ==
  ASSUME Inv, NEW r \in Removals, Delete(r), removals[r].pc = "deleting",
         NEW pc \in {"done", "failed"},
         removals' = [removals EXCEPT ![r].pc = pc], UNCHANGED calls
  PROVE  Inv'
<1>1. /\ DOMAIN store' = DOMAIN store \ removals[r].ids
      /\ \A i \in DOMAIN store' : store'[i] = store[i]
      /\ removed' = removed \cup removals[r].ids
  BY DEF Delete
<1>2. TypeOK'
  <2>1. removals' \in [Removals -> [pc : {"idle", "deleting", "done", "failed"},
                                    source : Sources \cup {NULL},
                                    ids : SUBSET Ids, since : SUBSET Ids]]
    BY DEF Inv, TypeOK
  <2>2. QED BY <1>1, <2>1 DEF Inv, TypeOK
<1>3. Progress'
  BY DEF Inv, Progress
<1>4. Provenance'
  BY <1>1 DEF Inv, Provenance, ChunkId, Entry
<1>5. WrittenHeld'
  BY <1>1 DEF Inv, WrittenHeld, ChunkId
<1>6. RemovedByRemoval'
  BY DEF Inv, TypeOK, RemovedByRemoval
<1>7. ReadExact'
  BY <1>1 DEF Inv, TypeOK, ReadExact
<1>8. QED BY <1>2, <1>3, <1>4, <1>5, <1>6, <1>7 DEF Inv

\* Every step keeps the invariant.
LEMMA NextInv == Inv /\ [Next]_vars => Inv'
<1> SUFFICES ASSUME Inv, [Next]_vars PROVE Inv'
  OBVIOUS
<1>1. ASSUME NEW c \in Calls, BeginIngest(c) PROVE Inv'
  <2>1. PICK documents \in Requests :
          calls' = [calls EXCEPT
            ![c].flat = Flat(documents),
            ![c].pc = IF Flat(documents) = <<>> THEN "stored" ELSE "storing"]
    BY <1>1 DEF BeginIngest
  <2> DEFINE flat == Flat(documents)
  <2>0. documents \in Seq(Documents) /\ documents # <<>>
    BY IngestionAssumption
  <2>2. flat \in Seq(Chunks)
    BY <2>0, FlatTyped
  <2> HIDE DEF flat
  <2>3. calls[c].pc = "idle" /\ UNCHANGED <<store, removals, removed>>
    BY <1>1 DEF BeginIngest
  <2>4. calls[c].flat = <<>> /\ calls[c].written = 0
    BY <2>3 DEF Inv, TypeOK, Progress
  <2>5. /\ \A d \in Calls \ {c} : calls'[d] = calls[d]
        /\ calls'[c].flat = flat /\ calls'[c].written = 0
        /\ calls'[c].pc = IF flat = <<>> THEN "stored" ELSE "storing"
    BY <2>1, <2>4 DEF Inv, TypeOK, flat
  <2>6. TypeOK'
    <3> DEFINE pc == IF flat = <<>> THEN "stored" ELSE "storing"
    <3>0. /\ calls' = [calls EXCEPT ![c] = [@ EXCEPT !.flat = flat, !.pc = pc]]
          /\ pc \in {"storing", "stored"}
      BY <2>1 DEF flat
    <3> HIDE DEF pc
    <3>1. calls' \in [Calls -> [pc : {"idle", "storing", "stored", "failed"},
                                flat : Seq(Chunks), written : Nat]]
      BY ZenonT(40), <2>2, <3>0 DEF Inv, TypeOK
    <3>2. QED BY <2>3, <3>1 DEF Inv, TypeOK
  <2>7. Progress'
    BY <2>2, <2>5 DEF Inv, Progress
  <2>8. Provenance'
    <3> SUFFICES ASSUME NEW i \in DOMAIN store
                 PROVE  \E d \in Calls : \E k \in DOMAIN calls'[d].flat :
                          /\ i = ChunkId(calls'[d].flat[k])
                          /\ store[i] = Entry(calls'[d].flat[k])
      BY <2>3 DEF Provenance, ChunkId, Entry
    <3>1. PICK d \in Calls : \E k \in DOMAIN calls[d].flat :
            i = ChunkId(calls[d].flat[k]) /\ store[i] = Entry(calls[d].flat[k])
      BY DEF Inv, Provenance
    <3>2. d # c
      BY <2>4, <3>1
    <3>3. QED BY <2>5, <3>1, <3>2
  <2>9. WrittenHeld'
    BY <2>3, <2>5 DEF Inv, WrittenHeld, ChunkId
  <2>10. RemovedByRemoval' /\ ReadExact'
    BY <2>3 DEF Inv, RemovedByRemoval, ReadExact
  <2>11. QED BY <2>6, <2>7, <2>8, <2>9, <2>10 DEF Inv
<1>2. ASSUME NEW c \in Calls, UpsertBatch(c) PROVE Inv'
  <2> DEFINE end == BatchEnd(c)
             next == IF end = Len(calls[c].flat) THEN "stored" ELSE "storing"
  <2>0. /\ next \in {"storing", "stored", "failed"}
        /\ end \in {calls[c].written, BatchEnd(c)}
        /\ next = "stored" => end = Len(calls[c].flat)
    OBVIOUS
  <2>1. calls[c].pc = "storing" /\ Upsert(c)
    BY <1>2 DEF UpsertBatch
  <2>2. calls' = [calls EXCEPT ![c] = [@ EXCEPT !.pc = next, !.written = end]]
    BY <1>2 DEF UpsertBatch, Inv, TypeOK
  <2> HIDE DEF end, next
  <2>3. QED BY <2>0, <2>1, <2>2, UpsertInv
<1>3. ASSUME NEW c \in Calls, BatchFails(c) PROVE Inv'
  <2>1. calls[c].pc = "storing"
    BY <1>3 DEF BatchFails
  <2>2. calls' = [calls EXCEPT
          ![c] = [@ EXCEPT !.pc = "failed", !.written = calls[c].written]]
    BY <1>3 DEF BatchFails, Inv, TypeOK
  <2>3. CASE Upsert(c)
    BY <2>1, <2>2, <2>3, UpsertInv
  <2>4. CASE UNCHANGED <<store, removals, removed>>
    <3>1. /\ \A d \in Calls \ {c} : calls'[d] = calls[d]
          /\ calls'[c].flat = calls[c].flat /\ calls'[c].written = calls[c].written
          /\ calls'[c].pc = "failed"
      BY <2>2 DEF Inv, TypeOK
    <3>2. TypeOK'
      BY ZenonT(40), <2>2, <2>4 DEF Inv, TypeOK
    <3>3. Progress'
      BY <3>1 DEF Inv, Progress
    <3>4. \A d \in Calls : calls'[d].flat = calls[d].flat /\ calls'[d].written = calls[d].written
      BY <3>1
    <3>5. Provenance'
      BY <2>4, <3>4 DEF Inv, Provenance, ChunkId, Entry
    <3>6. WrittenHeld'
      BY <2>4, <3>4 DEF Inv, WrittenHeld, ChunkId
    <3>7. RemovedByRemoval' /\ ReadExact'
      BY <2>4 DEF Inv, RemovedByRemoval, ReadExact
    <3>8. QED BY <3>2, <3>3, <3>5, <3>6, <3>7 DEF Inv
  <2>5. QED BY <1>3, <2>3, <2>4 DEF BatchFails
<1>4. ASSUME NEW r \in Removals, ReadSource(r) PROVE Inv'
  <2>1. PICK source \in Sources :
          removals' = [removals EXCEPT
            ![r] = [pc |-> IF SourceIds(source) = {} THEN "done" ELSE "deleting",
                    source |-> source, ids |-> SourceIds(source), since |-> {}]]
    BY <1>4 DEF ReadSource
  <2>2. UNCHANGED <<store, calls, removed>>
    BY <1>4 DEF ReadSource
  <2>3. SourceIds(source) \subseteq Ids
    BY DEF SourceIds, Inv, TypeOK
  <2>4. /\ \A q \in Removals \ {r} : removals'[q] = removals[q]
        /\ removals'[r].pc \in {"done", "deleting"}
        /\ removals'[r].source = source
        /\ removals'[r].ids = SourceIds(source)
        /\ removals'[r].since = {}
    BY <2>1 DEF Inv, TypeOK
  <2>5. TypeOK'
    <3>1. removals' \in [Removals -> [pc : {"idle", "deleting", "done", "failed"},
                                      source : Sources \cup {NULL},
                                      ids : SUBSET Ids, since : SUBSET Ids]]
      BY <2>1, <2>3 DEF Inv, TypeOK
    <3>2. QED BY <2>2, <3>1 DEF Inv, TypeOK
  <2>6. Progress' /\ Provenance' /\ WrittenHeld'
    BY <2>2 DEF Inv, Progress, Provenance, WrittenHeld, ChunkId, Entry
  <2>7. RemovedByRemoval'
    BY <2>4 DEF RemovedByRemoval
  <2>8. ReadExact'
    BY <2>2, <2>4 DEF Inv, ReadExact, SourceIds
  <2>9. QED BY <2>5, <2>6, <2>7, <2>8 DEF Inv
<1>5. ASSUME NEW r \in Removals, DeleteIds(r) PROVE Inv'
  BY <1>5, DeleteInv DEF DeleteIds
<1>6. ASSUME NEW r \in Removals, RemovalFails(r) PROVE Inv'
  <2>1. removals' = [removals EXCEPT ![r].pc = "failed"] /\ UNCHANGED calls
    BY <1>6 DEF RemovalFails
  <2>2. CASE removals[r].pc = "deleting" /\ Delete(r)
    BY <2>1, <2>2, DeleteInv
  <2>3. CASE UNCHANGED <<store, removed>>
    <3>1. /\ \A q \in Removals \ {r} : removals'[q] = removals[q]
          /\ removals'[r].pc = "failed"
      BY <2>1 DEF Inv, TypeOK
    <3>2. TypeOK'
      BY ZenonT(40), <2>1, <2>3 DEF Inv, TypeOK
    <3>3. Progress' /\ Provenance' /\ WrittenHeld'
      BY <2>1, <2>3 DEF Inv, Progress, Provenance, WrittenHeld, ChunkId, Entry
    <3>4. RemovedByRemoval'
      BY <3>1 DEF RemovedByRemoval
    <3>5. ReadExact'
      BY <2>3, <3>1 DEF Inv, ReadExact
    <3>6. QED BY <3>2, <3>3, <3>4, <3>5 DEF Inv
  <2>4. QED BY <1>6, <2>2, <2>3 DEF RemovalFails
<1>7. CASE UNCHANGED vars
  BY ZenonT(40), <1>7 DEF vars, Inv, TypeOK, Progress, Provenance, WrittenHeld,
              RemovedByRemoval, ReadExact, ChunkId, Entry
<1>8. QED BY <1>1, <1>2, <1>3, <1>4, <1>5, <1>6, <1>7 DEF Next

\* The variables stay within their types.
THEOREM IngestionTypeCorrect == Spec => []TypeOK
<1>1. Inv => TypeOK
  BY DEF Inv
<1>2. QED BY <1>1, InitInv, NextInv, PTL DEF Spec

\* A call of ingest that returned has all of its chunks in the collection or
\* deleted since (ingestion.py:ingest).
THEOREM AcknowledgedStored == Spec => []AcknowledgedIsStored
<1>1. Inv => AcknowledgedIsStored
  <2> SUFFICES ASSUME Inv, NEW c \in Calls, calls[c].pc = "stored",
                      NEW k \in DOMAIN calls[c].flat,
                      ChunkId(calls[c].flat[k]) \notin removed
               PROVE  Holds(calls[c].flat[k])
    BY DEF AcknowledgedIsStored
  <2> DEFINE chunk == calls[c].flat[k]
             id == ChunkId(chunk)
  <2>1. k \in 1 .. calls[c].written
    BY DEF Inv, TypeOK, Progress
  <2>2. id \in DOMAIN store
    BY <2>1 DEF Inv, WrittenHeld
  <2>3. PICK d \in Calls : \E j \in DOMAIN calls[d].flat :
          id = ChunkId(calls[d].flat[j]) /\ store[id] = Entry(calls[d].flat[j])
    BY <2>2 DEF Inv, Provenance
  <2>4. /\ id.source = chunk.source
        /\ id.index = chunk.index
        /\ FirstChars[store[id].content] = FirstChars[chunk.content]
    BY <2>3 DEF ChunkId, Entry
  <2>5. QED BY <2>2, <2>4 DEF Holds
<1>2. QED BY <1>1, InitInv, NextInv, PTL DEF Spec

\* Retries of a request, after failures or at once, end with what one call
\* stores (deterministic ids, _make_chunk_id).
THEOREM RetriesAreIdempotent == Spec => []RetriesConverge
<1>1. Inv => RetriesConverge
  <2> SUFFICES ASSUME Inv, NEW c \in Calls,
                      calls[c].pc = "stored",
                      \A d \in Calls : calls[d].pc = "idle" \/ calls[d].flat = calls[c].flat,
                      \A r \in Removals : removals[r].pc = "idle",
                      \A j, k \in DOMAIN calls[c].flat :
                        ChunkId(calls[c].flat[j]) = ChunkId(calls[c].flat[k]) => j = k
               PROVE  /\ DOMAIN store = {ChunkId(calls[c].flat[k]) : k \in DOMAIN calls[c].flat}
                      /\ \A k \in DOMAIN calls[c].flat :
                           store[ChunkId(calls[c].flat[k])] = Entry(calls[c].flat[k])
    BY DEF RetriesConverge
  <2>1. removed = {}
    BY DEF Inv, RemovedByRemoval
  <2>2. \A k \in DOMAIN calls[c].flat : ChunkId(calls[c].flat[k]) \in DOMAIN store
    BY <2>1 DEF Inv, TypeOK, Progress, WrittenHeld
  <2>3. \A i \in DOMAIN store : \E k \in DOMAIN calls[c].flat :
          i = ChunkId(calls[c].flat[k]) /\ store[i] = Entry(calls[c].flat[k])
    <3> SUFFICES ASSUME NEW i \in DOMAIN store
                 PROVE  \E k \in DOMAIN calls[c].flat :
                          i = ChunkId(calls[c].flat[k]) /\ store[i] = Entry(calls[c].flat[k])
      OBVIOUS
    <3>1. PICK d \in Calls : \E k \in DOMAIN calls[d].flat :
            i = ChunkId(calls[d].flat[k]) /\ store[i] = Entry(calls[d].flat[k])
      BY DEF Inv, Provenance
    <3>2. calls[d].flat = calls[c].flat
      <4>1. calls[d].pc = "idle" => calls[d].flat = <<>>
        BY DEF Inv, Progress
      <4>2. calls[d].flat # <<>>
        BY <3>1
      <4>3. QED BY <4>1, <4>2
    <3>3. QED BY <3>1, <3>2
  <2>4. DOMAIN store = {ChunkId(calls[c].flat[k]) : k \in DOMAIN calls[c].flat}
    <3> DEFINE ids == {ChunkId(calls[c].flat[k]) : k \in DOMAIN calls[c].flat}
    <3>1. ASSUME NEW i \in DOMAIN store PROVE i \in ids
      BY <2>3
    <3>2. ASSUME NEW i \in ids PROVE i \in DOMAIN store
      BY <2>2
    <3>3. QED BY <3>1, <3>2
  <2>5. ASSUME NEW k \in DOMAIN calls[c].flat
        PROVE  store[ChunkId(calls[c].flat[k])] = Entry(calls[c].flat[k])
    <3>1. PICK j \in DOMAIN calls[c].flat :
            /\ ChunkId(calls[c].flat[k]) = ChunkId(calls[c].flat[j])
            /\ store[ChunkId(calls[c].flat[k])] = Entry(calls[c].flat[j])
      BY <2>2, <2>3
    <3>2. j = k
      BY <3>1
    <3>3. QED BY <3>1, <3>2
  <2>6. QED BY <2>4, <2>5
<1>2. QED BY <1>1, InitInv, NextInv, PTL DEF Spec

\* A removal deletes what its source had when it read, nothing else, whatever
\* is written or removed at the same time (ingestion.py:delete_source).
THEOREM RemovalsAreExact == Spec => RemovalIsExact
<1>1. Inv /\ [Next]_vars =>
        [\A r \in Removals :
           removals[r].pc = "deleting" /\ removals'[r].pc = "done" =>
             \A i \in DOMAIN store \ removals[r].since :
               i \in DOMAIN store' <=> store[i].metadataSource # removals[r].source]_vars
  <2> SUFFICES ASSUME Inv, Next, NEW r \in Removals,
                      removals[r].pc = "deleting", removals'[r].pc = "done",
                      NEW i \in DOMAIN store \ removals[r].since
               PROVE  i \in DOMAIN store' <=> store[i].metadataSource # removals[r].source
    OBVIOUS
  <2>1. ~ \E c \in Calls : BeginIngest(c) \/ UpsertBatch(c) \/ BatchFails(c)
    <3>1. removals'[r].pc # removals[r].pc
      OBVIOUS
    <3>2. ASSUME NEW c \in Calls, Upsert(c) PROVE removals'[r].pc = removals[r].pc
      BY <3>2 DEF Upsert, Inv, TypeOK
    <3>3. \A c \in Calls : ~Upsert(c)
      BY <3>1, <3>2
    <3>4. QED BY <3>1, <3>3 DEF BeginIngest, UpsertBatch, BatchFails
  <2>2. PICK q \in Removals : ReadSource(q) \/ DeleteIds(q) \/ RemovalFails(q)
    BY <2>1 DEF Next
  <2>3. q = r /\ DeleteIds(r)
    BY <2>2 DEF ReadSource, DeleteIds, RemovalFails, Inv, TypeOK
  <2>4. DOMAIN store' = DOMAIN store \ removals[r].ids
    BY <2>3 DEF DeleteIds, Delete
  <2>5. QED BY <2>4 DEF Inv, ReadExact
<1>2. QED BY <1>1, InitInv, NextInv, PTL DEF Spec, RemovalIsExact
=============================================================================
