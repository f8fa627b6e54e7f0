---------------------------- MODULE MCIngestion ----------------------------
(* Instances of Ingestion for TLC, and what the API says of it. *)
EXTENDS Ingestion

CONSTANTS handbook, notes, intro1, intro2, body, c1, c2, r1

\* The first characters of the two introductions are the same.
MCFirstChars == [c \in {intro1, intro2, body} |-> IF c = body THEN body ELSE intro1]

Document(source, metadataSource, chunks) ==
  [source |-> source, metadataSource |-> metadataSource, chunks |-> chunks]

\* One batch and a rest; a changed beginning, end and length; white space only;
\* two documents of one source, in one batch and in two.
MCRequests ==
  {<<Document(handbook, handbook, <<intro1, body, body>>)>>,
   <<Document(handbook, notes, <<intro2, intro1>>)>>,
   <<Document(notes, notes, <<>>)>>,
   <<Document(notes, notes, <<intro1>>), Document(notes, handbook, <<intro2>>)>>,
   <<Document(handbook, handbook, <<intro1, body>>),
     Document(handbook, handbook, <<intro2>>)>>}

\* routes.py:493 "Re-ingesting the same source is safe -- chunk IDs are
\* deterministic so existing entries are updated rather than duplicated": no
\* source has two entries for one chunk index.
EntriesAreUpdated ==
  \A i, j \in DOMAIN store : i.source = j.source /\ i.index = j.index => i = j

SingleDocuments ==
  {<<Document(handbook, handbook, chunks)>> :
     chunks \in {<<intro1>>, <<intro1, body>>, <<intro2, intro1>>}}
=============================================================================
