------------------------------ MODULE Chunking ------------------------------
(***************************************************************************)
(* rag/ingestion.py:_chunk_text, one loop iteration per step.  A text is   *)
(* the kind of each of its characters; a chunk is the set of positions of  *)
(* the text that it keeps.                                                 *)
(***************************************************************************)
EXTENDS Integers, Sequences

CONSTANTS ChunkSize,     \* chunk_size
          ChunkOverlap,  \* chunk_overlap
          MaxLength      \* bound on the length of the texts

ASSUME ChunkingAssumption ==
  ChunkSize \in Nat \ {0} /\ ChunkOverlap \in Nat /\ MaxLength \in Nat

\* " " breaks a window, every white space is stripped from a chunk's ends.
Kinds == {"ink", "blank", "newline"}

VARIABLES
  length,  \* len(text)
  text,    \* the kind of each character
  start,   \* where the next window starts
  windows, \* history: the windows text[from:to]
  chunks   \* what is returned once the loop ends

vars == <<length, text, start, windows, chunks>>

Windows == [from : Nat, to : Nat]

TypeOK ==
  /\ length \in 0 .. MaxLength
  /\ text \in [0 .. length - 1 -> Kinds]
  /\ start \in Nat
  /\ windows \in Seq(Windows)
  /\ chunks \in Seq(SUBSET (0 .. length - 1))

Init ==
  /\ length \in 0 .. MaxLength
  /\ text \in [0 .. length - 1 -> Kinds]
  /\ start = 0
  /\ windows = <<>>
  /\ chunks = <<>>

Positions(from, to) == {i \in 0 .. length - 1 : from <= i /\ i < to}

Ink(i) == text[i] = "ink"

\* text[from:to].strip()
Strip(from, to) ==
  {i \in Positions(from, to) :
     \E j, k \in Positions(from, to) : Ink(j) /\ Ink(k) /\ j <= i /\ i <= k}

\* Mutant: the first blank of the window is taken, not the last.
WindowEndFirst(from, to) ==
  \/ /\ to = from + ChunkSize
     /\ to < length => \A i \in Positions(from + 1, to) : text[i] # "blank"
  \/ /\ from + ChunkSize < length
     /\ to \in Positions(from + 1, from + ChunkSize)
     /\ text[to] = "blank"
     /\ \A i \in Positions(from + 1, to) : text[i] # "blank"

\* The window ends at the last blank after its first character, if it does not
\* reach the end of the text and has one; rfind's result is unique.
WindowEnd(from, to) ==
  \/ /\ to = from + ChunkSize
     /\ to < length => \A i \in Positions(from + 1, to) : text[i] # "blank"
  \/ /\ from + ChunkSize < length
     /\ to \in Positions(from + 1, from + ChunkSize)
     /\ text[to] = "blank"
     /\ \A i \in Positions(to + 1, from + ChunkSize) : text[i] # "blank"

\* Mutant: no guarantee of progress.
NextStartUnguarded(from, to) == to - ChunkOverlap

Stride == IF ChunkOverlap < ChunkSize THEN ChunkSize - ChunkOverlap ELSE 1

NextStart(from, to) ==
  IF to - ChunkOverlap <= from THEN from + Stride ELSE to - ChunkOverlap

\* Mutant: a window of white space becomes an empty chunk.
KeptEmpty(from, to) == Append(chunks, Strip(from, to))

Kept(from, to) ==
  IF Strip(from, to) = {} THEN chunks ELSE Append(chunks, Strip(from, to))

\* A text that fits is returned as a whole.
Whole ==
  /\ length <= ChunkSize /\ start < length
  /\ windows' = <<[from |-> 0, to |-> length]>>
  /\ chunks' = Kept(0, length)
  /\ start' = length
  /\ UNCHANGED <<length, text>>

Cut ==
  /\ length > ChunkSize /\ start < length
  /\ \E to \in start + 1 .. start + ChunkSize :
       /\ WindowEnd(start, to)
       /\ windows' = Append(windows, [from |-> start, to |-> to])
       /\ chunks' = Kept(start, to)
       /\ start' = NextStart(start, to)
  /\ UNCHANGED <<length, text>>

Next == Whole \/ Cut

Spec == Init /\ [][Next]_vars

-----------------------------------------------------------------------------
\* Every window starts behind the one before it and there are no more windows
\* than characters: the loop ends for every text, chunk_size and chunk_overlap
\* ("Guarantee forward progress on pathological input").
MovesForward == [][start' > start /\ Len(windows') <= start']_vars

\* Position i lies in a stretch without a blank that is too long for the
\* overlap to bridge.
InLongWord(i) ==
  \E a, b \in 0 .. length - 1 :
    /\ a <= i /\ i <= b
    /\ b - a + 1 >= ChunkSize - ChunkOverlap - 1
    /\ \A j \in a .. b : text[j] # "blank"

\* Nothing that is written is lost behind the next window, except inside such
\* a long word: chunks cover the text before start.
ShortWordsKept ==
  \A i \in Positions(0, start) :
    Ink(i) => InLongWord(i) \/ \E k \in 1 .. Len(chunks) : i \in chunks[k]

\* No chunk is longer than chunk_size or empty, and none starts before the
\* chunk before it does.
ChunksFit ==
  \A k \in 1 .. Len(chunks) :
    /\ chunks[k] # {}
    /\ \A i, j \in chunks[k] : j - i < ChunkSize
    /\ k < Len(chunks) => \E i \in chunks[k] : \A j \in chunks[k + 1] : i <= j
=============================================================================
