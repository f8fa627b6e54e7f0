----------------------------- MODULE Ingestion -----------------------------
(***************************************************************************)
(* rag/ingestion.py: calls of IngestionPipeline.ingest and delete_source   *)
(* that share one collection of the vector store.  POST /ingest and        *)
(* knowledge_update_node build a pipeline for each call; the collection is *)
(* all they share.  _chunk_text is the subject of module Chunking: here a  *)
(* document is the sequence of its chunks' contents.                       *)
(***************************************************************************)
EXTENDS Integers, Sequences, SequencesExt

CONSTANTS Sources,    \* what documents are ingested as
          Contents,   \* the text of a chunk
          FirstChars, \* content[:128] of each text
          Requests,   \* the documents of a call
          BatchSize,  \* _EMBED_BATCH_SIZE
          Calls,      \* calls of ingest: bounds their number
          Removals,   \* calls of delete_source: bounds their number
          NULL        \* no source yet

\* A document's metadata may have a "source" of its own.
Documents == [source : Sources, metadataSource : Sources, chunks : Seq(Contents)]

Chunks == [source : Sources, metadataSource : Sources, index : Nat, content : Contents]

\* The chunks of all documents of a call, in order.
Flat(documents) ==
  FlattenSeq([d \in DOMAIN documents |->
    [k \in DOMAIN documents[d].chunks |->
      [source |-> documents[d].source,
       metadataSource |-> documents[d].metadataSource,
       index |-> k - 1,
       content |-> documents[d].chunks[k]]]])

ASSUME IngestionAssumption ==
  /\ BatchSize \in Nat \ {0}
  /\ Requests \subseteq Seq(Documents) \ {<<>>}

Ids == [source : Sources, index : Nat, firstChars : {FirstChars[c] : c \in Contents}]

\* What is stored under an id.  Its metadata also has a chunk_index, which the
\* document's may override as it may the source and which nothing reads.
Entries == [metadataSource : Sources, content : Contents]

VARIABLES
  store,    \* the collection: the entry of each id it holds
  calls,    \* each call of ingest, the chunks it splits into and those it wrote
  removals, \* each call of delete_source, the ids it read and, a history, the
            \* ids written since it did
  removed   \* history: ids deleted and not written since

vars == <<store, calls, removals, removed>>

TypeOK ==
  /\ DOMAIN store \subseteq Ids
  /\ \A i \in DOMAIN store : store[i] \in Entries
  /\ calls \in [Calls -> [pc : {"idle", "storing", "stored", "failed"},
                          flat : Seq(Chunks), written : Nat]]
  /\ removals \in [Removals -> [pc : {"idle", "deleting", "done", "failed"},
                                source : Sources \cup {NULL},
                                ids : SUBSET Ids, since : SUBSET Ids]]
  /\ removed \subseteq Ids

Init ==
  /\ store = <<>>
  /\ calls = [c \in Calls |-> [pc |-> "idle", flat |-> <<>>, written |-> 0]]
  /\ removals = [r \in Removals |->
                   [pc |-> "idle", source |-> NULL, ids |-> {}, since |-> {}]]
  /\ removed = {}

-----------------------------------------------------------------------------
\* Mutant: the id is that of the whole text.
ChunkIdOfWholeText(chunk) ==
  [source |-> chunk.source, index |-> chunk.index, firstChars |-> chunk.content]

\* Mutant: the id leaves out the chunk's index.
ChunkIdWithoutIndex(chunk) ==
  [source |-> chunk.source, index |-> 0, firstChars |-> FirstChars[chunk.content]]

\* _make_chunk_id; what is hashed stands for its hash.
ChunkId(chunk) ==
  [source |-> chunk.source, index |-> chunk.index,
   firstChars |-> FirstChars[chunk.content]]

Entry(chunk) ==
  [metadataSource |-> chunk.metadataSource, content |-> chunk.content]

\* Where the batch that is next ends in the chunks of a call.
BatchEnd(c) ==
  IF calls[c].written + BatchSize < Len(calls[c].flat)
  THEN calls[c].written + BatchSize ELSE Len(calls[c].flat)

Batch(c) == calls[c].written + 1 .. BatchEnd(c)

BatchIds(c) == {ChunkId(calls[c].flat[k]) : k \in Batch(c)}

\* The store refuses to upsert an id twice at once.
DistinctIds(c) ==
  \A j, k \in Batch(c) :
    ChunkId(calls[c].flat[j]) = ChunkId(calls[c].flat[k]) => j = k

BeginIngest(c) ==
  /\ calls[c].pc = "idle"
  /\ \E documents \in Requests :
       calls' = [calls EXCEPT
         ![c].flat = Flat(documents),
         ![c].pc = IF Flat(documents) = <<>> THEN "stored" ELSE "storing"]
  /\ UNCHANGED <<store, removals, removed>>

\* Mutant: the texts of every batch are taken from the beginning.
UpsertedFromStart(c) ==
  [i \in DOMAIN store \cup BatchIds(c) |->
     IF i \in BatchIds(c)
     THEN LET k == CHOOSE k \in Batch(c) : ChunkId(calls[c].flat[k]) = i
          IN Entry(calls[c].flat[k - calls[c].written])
     ELSE store[i]]

\* The collection after the upsert of the batch.
Upserted(c) ==
  [i \in DOMAIN store \cup BatchIds(c) |->
     IF i \in BatchIds(c)
     THEN Entry(calls[c].flat[CHOOSE k \in Batch(c) : ChunkId(calls[c].flat[k]) = i])
     ELSE store[i]]

Upsert(c) ==
  /\ store' = Upserted(c)
  /\ removed' = removed \ BatchIds(c)
  /\ removals' = [r \in Removals |->
       [removals[r] EXCEPT !.since = @ \cup BatchIds(c)]]

UpsertBatch(c) ==
  /\ calls[c].pc = "storing" /\ DistinctIds(c)
  /\ Upsert(c)
  /\ calls' = [calls EXCEPT
       ![c].written = BatchEnd(c),
       ![c].pc = IF BatchEnd(c) = Len(calls[c].flat) THEN "stored" ELSE "storing"]

\* The embedding, the collection or the upsert fails, or only the answer to
\* the upsert is lost; no further batch is tried.
BatchFails(c) ==
  /\ calls[c].pc = "storing"
  /\ calls' = [calls EXCEPT ![c].pc = "failed"]
  /\ \/ UNCHANGED <<store, removals, removed>>
     \/ DistinctIds(c) /\ Upsert(c)

\* Mutant: the source of the document, not of its metadata.
SourceIdsByDocument(source) == {i \in DOMAIN store : i.source = source}

\* delete_source reads the ids of a source ...
SourceIds(source) == {i \in DOMAIN store : store[i].metadataSource = source}

ReadSource(r) ==
  /\ removals[r].pc = "idle"
  /\ \E source \in Sources :
       removals' = [removals EXCEPT
         ![r] = [pc |-> IF SourceIds(source) = {} THEN "done" ELSE "deleting",
                 source |-> source, ids |-> SourceIds(source), since |-> {}]]
  /\ UNCHANGED <<store, calls, removed>>

Delete(r) ==
  /\ store' = [i \in DOMAIN store \ removals[r].ids |-> store[i]]
  /\ removed' = removed \cup removals[r].ids

\* ... and deletes them after another await.
DeleteIds(r) ==
  /\ removals[r].pc = "deleting"
  /\ Delete(r)
  /\ removals' = [removals EXCEPT ![r].pc = "done"]
  /\ UNCHANGED calls

RemovalFails(r) ==
  /\ removals[r].pc \in {"idle", "deleting"}
  /\ removals' = [removals EXCEPT ![r].pc = "failed"]
  /\ UNCHANGED calls
  /\ \/ UNCHANGED <<store, removed>>
     \/ removals[r].pc = "deleting" /\ Delete(r)

Next ==
  \/ \E c \in Calls : BeginIngest(c) \/ UpsertBatch(c) \/ BatchFails(c)
  \/ \E r \in Removals : ReadSource(r) \/ DeleteIds(r) \/ RemovalFails(r)

Spec == Init /\ [][Next]_vars

-----------------------------------------------------------------------------
\* The collection has an entry for the chunk's place in its source, with its
\* first characters.  What follows them may be a later call's.
Holds(chunk) ==
  \E i \in DOMAIN store :
    /\ i.source = chunk.source
    /\ i.index = chunk.index
    /\ FirstChars[store[i].content] = FirstChars[chunk.content]

\* A call that returns has all of its chunks in the collection, whatever other
\* calls failed, overlapped or wrote, except those deleted since.
AcknowledgedIsStored ==
  \A c \in Calls : calls[c].pc = "stored" =>
    \A k \in DOMAIN calls[c].flat :
      Holds(calls[c].flat[k]) \/ ChunkId(calls[c].flat[k]) \in removed

\* Calls that retry a request, after failures or at the same time, converge on
\* what one call of it stores.
RetriesConverge ==
  \A c \in Calls :
    LET flat == calls[c].flat IN
    /\ calls[c].pc = "stored"
    /\ \A d \in Calls : calls[d].pc = "idle" \/ calls[d].flat = flat
    /\ \A r \in Removals : removals[r].pc = "idle"
    /\ \A j, k \in DOMAIN flat : ChunkId(flat[j]) = ChunkId(flat[k]) => j = k
    =>
    /\ DOMAIN store = {ChunkId(flat[k]) : k \in DOMAIN flat}
    /\ \A k \in DOMAIN flat : store[ChunkId(flat[k])] = Entry(flat[k])

\* A removal takes nothing but its source's chunks and leaves none of them,
\* except those written between its two requests.
RemovalIsExact ==
  [][\A r \in Removals :
       removals[r].pc = "deleting" /\ removals'[r].pc = "done" =>
         \A i \in DOMAIN store \ removals[r].since :
           i \in DOMAIN store' <=> store[i].metadataSource # removals[r].source]_vars
=============================================================================
