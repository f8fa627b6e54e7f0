--------------------------- MODULE ChunkingProofs ---------------------------
(***************************************************************************)
(* Proofs about Chunking for texts of every length and every choice of     *)
(* chunk_size and chunk_overlap.                                           *)
(***************************************************************************)
EXTENDS Chunking, WellFoundedInduction, TLAPS

\* The inductive invariant.
Inv ==
  /\ TypeOK
  /\ ShortWordsKept
  /\ Len(windows) <= start
  /\ \A k \in 1 .. Len(chunks) :
       chunks[k] # {} /\ \A i, j \in chunks[k] : j - i < ChunkSize

\* A character of the window that is not white space is in its chunk.
LEMMA StripKeepsInk ==
  ASSUME NEW from \in Nat, NEW to \in Nat, NEW i \in Positions(from, to), Ink(i)
  PROVE  i \in Strip(from, to)
BY DEF Strip, Positions

\* Adding a window keeps the chunks typed, non-empty and short enough, keeps
\* the ones there are, and adds the window's characters.
LEMMA KeptChunks ==
  ASSUME Inv, NEW from \in Nat, NEW to \in Nat, to - from <= ChunkSize
  PROVE  /\ Kept(from, to) \in Seq(SUBSET (0 .. length - 1))
         /\ \A k \in 1 .. Len(Kept(from, to)) :
              /\ Kept(from, to)[k] # {}
              /\ \A i, j \in Kept(from, to)[k] : j - i < ChunkSize
         /\ Len(chunks) <= Len(Kept(from, to))
         /\ \A k \in 1 .. Len(chunks) : Kept(from, to)[k] = chunks[k]
         /\ \A i \in Positions(from, to) :
              Ink(i) => \E k \in 1 .. Len(Kept(from, to)) : i \in Kept(from, to)[k]
<1> DEFINE strip == Strip(from, to)
<1>1. chunks \in Seq(SUBSET (0 .. length - 1)) /\ length \in Nat
  BY ChunkingAssumption DEF Inv, TypeOK
<1>2. strip \in SUBSET (0 .. length - 1)
  BY DEF Strip, Positions
<1>3. \A i, j \in strip : j - i < ChunkSize
  BY <1>1, ChunkingAssumption DEF Strip, Positions
<1>4. \A i \in Positions(from, to) : Ink(i) => i \in strip
  BY StripKeepsInk
<1> HIDE DEF strip
<1>5. CASE strip = {}
  <2>1. Kept(from, to) = chunks
    BY <1>5 DEF Kept, strip
  <2>2. QED BY <1>1, <1>4, <1>5, <2>1 DEF Inv
<1>6. CASE strip # {}
  <2>1. Kept(from, to) = Append(chunks, strip)
    BY <1>6 DEF Kept, strip
  <2>2. /\ Append(chunks, strip) \in Seq(SUBSET (0 .. length - 1))
        /\ Len(Append(chunks, strip)) = Len(chunks) + 1
        /\ \A k \in 1 .. Len(chunks) : Append(chunks, strip)[k] = chunks[k]
        /\ Append(chunks, strip)[Len(chunks) + 1] = strip
        /\ Len(chunks) \in Nat
    BY <1>1, <1>2
  <2>3. QED BY <1>3, <1>4, <1>6, <2>1, <2>2 DEF Inv
<1>7. QED BY <1>5, <1>6

\* The first window starts at the first character.
LEMMA InitInv == Init => Inv
BY DEF Init, Inv, TypeOK, ShortWordsKept, Positions

\* Each window leaves everything before the next one kept or in a long word.
LEMMA NextInv == Inv /\ [Next]_vars => Inv'
<1> SUFFICES ASSUME Inv, [Next]_vars PROVE Inv'
  OBVIOUS
<1>1. /\ length \in Nat /\ start \in Nat
      /\ windows \in Seq(Windows)
      /\ chunks \in Seq(SUBSET (0 .. length - 1))
      /\ Len(chunks) \in Nat
  BY ChunkingAssumption DEF Inv, TypeOK
<1>2. CASE Whole
  <2>1. /\ length <= ChunkSize
        /\ windows' = <<[from |-> 0, to |-> length]>>
        /\ chunks' = Kept(0, length)
        /\ start' = length /\ length' = length /\ text' = text
    BY <1>2 DEF Whole
  <2>2. /\ chunks' \in Seq(SUBSET (0 .. length - 1))
        /\ \A k \in 1 .. Len(chunks') :
             chunks'[k] # {} /\ \A i, j \in chunks'[k] : j - i < ChunkSize
        /\ \A i \in Positions(0, length) :
             Ink(i) => \E k \in 1 .. Len(chunks') : i \in chunks'[k]
    <3>1. 0 \in Nat /\ length - 0 <= ChunkSize
      BY <1>1, <2>1
    <3> DEFINE kept == Kept(0, length)
    <3>2. /\ kept \in Seq(SUBSET (0 .. length - 1))
          /\ \A k \in 1 .. Len(kept) :
               kept[k] # {} /\ \A i, j \in kept[k] : j - i < ChunkSize
          /\ \A i \in Positions(0, length) :
               Ink(i) => \E k \in 1 .. Len(kept) : i \in kept[k]
      BY <1>1, <3>1, KeptChunks
    <3> HIDE DEF kept
    <3>3. QED BY <2>1, <3>2 DEF kept
  <2>3. TypeOK'
    BY <1>1, <2>1, <2>2 DEF Inv, TypeOK, Windows
  <2>4. ShortWordsKept'
    BY <2>1, <2>2 DEF ShortWordsKept, Positions, Ink
  <2>5. Len(windows') <= start'
    BY <1>1, <1>2, <2>1 DEF Whole
  <2>6. QED BY <2>1, <2>2, <2>3, <2>4, <2>5 DEF Inv
<1>3. CASE Cut
  <2>1. PICK to \in start + 1 .. start + ChunkSize :
          /\ WindowEnd(start, to)
          /\ windows' = Append(windows, [from |-> start, to |-> to])
          /\ chunks' = Kept(start, to)
          /\ start' = NextStart(start, to)
    BY <1>3 DEF Cut
  <2>2. length' = length /\ text' = text
    BY <1>3 DEF Cut
  <2>3. to \in Nat /\ to - start <= ChunkSize /\ start < to
    BY <1>1, <2>1, ChunkingAssumption
  <2>4. /\ chunks' \in Seq(SUBSET (0 .. length - 1))
        /\ \A k \in 1 .. Len(chunks') :
             chunks'[k] # {} /\ \A i, j \in chunks'[k] : j - i < ChunkSize
        /\ Len(chunks) <= Len(chunks')
        /\ \A k \in 1 .. Len(chunks) : chunks'[k] = chunks[k]
        /\ \A i \in Positions(start, to) :
             Ink(i) => \E k \in 1 .. Len(chunks') : i \in chunks'[k]
    <3> DEFINE kept == Kept(start, to)
    <3>1. /\ kept \in Seq(SUBSET (0 .. length - 1))
          /\ \A k \in 1 .. Len(kept) :
               kept[k] # {} /\ \A i, j \in kept[k] : j - i < ChunkSize
          /\ Len(chunks) <= Len(kept)
          /\ \A k \in 1 .. Len(chunks) : kept[k] = chunks[k]
          /\ \A i \in Positions(start, to) :
               Ink(i) => \E k \in 1 .. Len(kept) : i \in kept[k]
      BY <1>1, <2>3, KeptChunks
    <3> HIDE DEF kept
    <3>2. QED BY <2>1, <3>1 DEF kept
  <2>5. start' \in Nat
    BY <1>1, <2>1, <2>3, ChunkingAssumption DEF NextStart, Stride
  <2>6. TypeOK'
    <3>1. windows' \in Seq(Windows)
      BY <1>1, <2>1, <2>3 DEF Windows
    <3>2. QED BY <2>2, <2>4, <2>5, <3>1 DEF Inv, TypeOK
  <2>7. ASSUME NEW i \in Positions(0, start'), Ink(i), ~InLongWord(i)
        PROVE  \E k \in 1 .. Len(chunks') : i \in chunks'[k]
    <3>1. i \in 0 .. length - 1 /\ i < start'
      BY DEF Positions
    <3>2. CASE i < start
      <4>1. \E k \in 1 .. Len(chunks) : i \in chunks[k]
        BY <2>7, <3>1, <3>2 DEF Inv, ShortWordsKept, Positions
      <4>2. Len(chunks') \in Nat
        BY <2>4
      <4>3. QED BY <1>1, <2>4, <4>1, <4>2
    <3>3. CASE start <= i /\ i < to
      BY <2>4, <2>7, <3>1, <3>3 DEF Positions
    <3>4. CASE to <= i
      <4>1. /\ ChunkOverlap < ChunkSize
            /\ to - ChunkOverlap <= start
            /\ start' = start + ChunkSize - ChunkOverlap
        BY <1>1, <2>1, <2>3, <3>1, <3>4, ChunkingAssumption DEF NextStart, Stride
      <4>2. /\ start + ChunkSize < length
            /\ text[to] = "blank"
            /\ \A j \in Positions(to + 1, start + ChunkSize) : text[j] # "blank"
        BY <1>1, <2>1, <2>3, <3>1, <3>4, <4>1, ChunkingAssumption DEF WindowEnd
      <4>3. to + 1 <= i /\ i <= start + ChunkSize - 1
        BY <1>1, <2>3, <2>7, <3>1, <3>4, <4>1, <4>2, ChunkingAssumption DEF Ink
      <4>4. /\ to + 1 \in 0 .. length - 1
            /\ start + ChunkSize - 1 \in 0 .. length - 1
            /\ start + ChunkSize - 1 - (to + 1) + 1 >= ChunkSize - ChunkOverlap - 1
            /\ \A j \in to + 1 .. start + ChunkSize - 1 : text[j] # "blank"
        BY <1>1, <2>3, <3>1, <4>1, <4>2, <4>3, ChunkingAssumption DEF Positions
      <4>5. InLongWord(i)
        <5> DEFINE a == to + 1
                   b == start + ChunkSize - 1
        <5>1. /\ a \in 0 .. length - 1 /\ b \in 0 .. length - 1
              /\ a <= i /\ i <= b
              /\ b - a + 1 >= ChunkSize - ChunkOverlap - 1
              /\ \A j \in a .. b : text[j] # "blank"
          BY <1>1, <2>3, <3>1, <4>3, <4>4, ChunkingAssumption
        <5> HIDE DEF a, b
        <5>2. QED BY <5>1 DEF InLongWord
      <4>6. QED BY <2>7, <4>5
    <3>5. QED BY <1>1, <2>3, <3>1, <3>2, <3>3, <3>4
  <2>8. ShortWordsKept'
    BY <2>2, <2>7 DEF ShortWordsKept, Positions, Ink, InLongWord
  <2>9. Len(windows') <= start'
    <3>1. start < start'
      BY <1>1, <2>1, <2>3, ChunkingAssumption DEF NextStart, Stride
    <3>2. Len(windows') = Len(windows) + 1 /\ Len(windows) \in Nat
      BY <1>1, <2>1, <2>3 DEF Windows
    <3>3. QED BY <1>1, <2>5, <3>1, <3>2 DEF Inv
  <2>10. QED BY <2>4, <2>2, <2>6, <2>8, <2>9 DEF Inv
<1>4. CASE UNCHANGED vars
  <2>1. /\ length' = length /\ text' = text /\ start' = start
        /\ windows' = windows /\ chunks' = chunks
    BY <1>4 DEF vars
  <2>2. TypeOK'
    BY <2>1 DEF Inv, TypeOK
  <2>3. ShortWordsKept'
    <3>1. \A i : Ink(i)' <=> Ink(i)
      BY <2>1 DEF Ink
    <3>2. \A i : InLongWord(i)' <=> InLongWord(i)
      BY <2>1 DEF InLongWord
    <3>3. QED BY <2>1, <3>1, <3>2 DEF Inv, ShortWordsKept, Positions
  <2>4. Len(windows') <= start'
    BY <2>1 DEF Inv
  <2>5. QED BY <2>1, <2>2, <2>3, <2>4 DEF Inv
<1>5. QED BY <1>2, <1>3, <1>4 DEF Next

\* A step of the loop starts its next window behind the one it cut.
LEMMA NextMovesForward ==
  Inv /\ Inv' /\ [Next]_vars => [start' > start /\ Len(windows') <= start']_vars
<1> SUFFICES ASSUME Inv, Inv', Next PROVE start' > start /\ Len(windows') <= start'
  OBVIOUS
<1>1. length \in Nat /\ start \in Nat
  BY ChunkingAssumption DEF Inv, TypeOK
<1>2. Len(windows') <= start'
  BY DEF Inv
<1>3. CASE Whole
  BY <1>1, <1>2, <1>3 DEF Whole
<1>4. CASE Cut
  <2>1. PICK to \in start + 1 .. start + ChunkSize : start' = NextStart(start, to)
    BY <1>4 DEF Cut
  <2>2. start' > start
    BY <1>1, <2>1, ChunkingAssumption DEF NextStart, Stride
  <2>3. QED BY <1>2, <2>2
<1>5. QED BY <1>3, <1>4 DEF Next

\* The variables stay within their types.
THEOREM ChunkingTypeCorrect == Spec => []TypeOK
<1>1. Inv => TypeOK
  BY DEF Inv
<1>2. QED BY <1>1, InitInv, NextInv, PTL DEF Spec

\* For every text, chunk_size and chunk_overlap, the chunks hold everything
\* that is written before the next window, long unbroken words excepted
\* (ingestion.py:_chunk_text).
THEOREM ChunkingKeepsShortWords == Spec => []ShortWordsKept
<1>1. Inv => ShortWordsKept
  BY DEF Inv
<1>2. QED BY <1>1, InitInv, NextInv, PTL DEF Spec

\* For every text, chunk_size and chunk_overlap, the loop goes on to a window
\* that starts later, so there are at most as many as characters.
THEOREM ChunkingMovesForward == Spec => MovesForward
BY InitInv, NextInv, NextMovesForward, PTL DEF Spec, MovesForward

-----------------------------------------------------------------------------
(***************************************************************************)
(* The order of the chunks.  Some character of the last chunk lies before  *)
(* everything that is still to be cut and written.                         *)
(***************************************************************************)
Ordered ==
  /\ \A k \in 1 .. Len(chunks) :
       k < Len(chunks) => \E i \in chunks[k] : \A j \in chunks[k + 1] : i <= j
  /\ chunks # <<>> =>
       \E i \in chunks[Len(chunks)] : \A q \in Positions(start, length) : Ink(q) => i <= q
  /\ length <= ChunkSize /\ start < length => chunks = <<>>

\* Every set of numbers that is not empty has a least one.
LEMMA LeastNumber ==
  ASSUME NEW S \in SUBSET Nat, S # {}
  PROVE  \E n \in S : \A m \in S : n <= m
<1> DEFINE R == OpToRel(<, Nat)
<1>1. IsWellFoundedOn(R, Nat)
  BY NatLessThanWellFounded
<1>2. ASSUME NEW x \in Nat, NEW y \in Nat, x < y PROVE <<x, y>> \in R
  BY <1>2, Zenon DEF OpToRel
<1> HIDE DEF R
<1>3. PICK n \in S : \A m \in S : ~ (<<m, n>> \in R)
  BY <1>1, WFMin, Zenon
<1>4. ASSUME NEW m \in S PROVE n <= m
  <2>1. ~(m < n)
    BY <1>2, <1>3
  <2> QED BY <2>1
<1> QED BY <1>4

\* A window's chunk begins at a character that is not white space, and all that
\* is written from the window's start on lies there or later.
LEMMA StripBegins ==
  ASSUME NEW from \in Nat, NEW to \in Nat, length \in Nat, Strip(from, to) # {}
  PROVE  \E i \in Strip(from, to) :
           /\ Ink(i) /\ from <= i
           /\ \A j \in Strip(from, to) : i <= j
           /\ \A q \in Positions(from, length) : Ink(q) => i <= q
<1> DEFINE written == {i \in Positions(from, to) : Ink(i)}
<1>1. written \in SUBSET Nat /\ written # {}
  BY DEF Strip, Positions
<1>2. PICK i \in written : \A m \in written : i <= m
  BY <1>1, LeastNumber
<1>3. i \in Strip(from, to) /\ Ink(i) /\ from <= i
  BY <1>2, StripKeepsInk DEF Positions
<1>4. \A j \in Strip(from, to) : i <= j
  <2>1. TAKE j \in Strip(from, to)
  <2>2. PICK h \in Positions(from, to) : Ink(h) /\ h <= j
    BY DEF Strip
  <2>3. i <= h /\ h \in Int /\ i \in Int /\ j \in Int
    BY <1>1, <1>2, <2>2 DEF Strip, Positions
  <2> QED BY <2>2, <2>3
<1>5. \A q \in Positions(from, length) : Ink(q) => i <= q
  <2>1. SUFFICES ASSUME NEW q \in Positions(from, length), Ink(q)
                 PROVE  i <= q
    OBVIOUS
  <2>2. q \in Nat /\ i \in Nat /\ i < to
    BY <1>1 DEF Positions
  <2>3. CASE q < to
    BY <1>2, <2>1, <2>2, <2>3 DEF Positions
  <2>4. CASE to <= q
    BY <2>2, <2>4
  <2> QED BY <2>2, <2>3, <2>4
<1> QED BY <1>3, <1>4, <1>5

\* Cutting a window that starts where the last one left off keeps the order.
LEMMA KeptOrdered ==
  ASSUME Inv, NEW from \in Nat, NEW to \in Nat, NEW next \in Nat,
         from < next,
         \A k \in 1 .. Len(chunks) :
           k < Len(chunks) => \E i \in chunks[k] : \A j \in chunks[k + 1] : i <= j,
         chunks # <<>> =>
           \E i \in chunks[Len(chunks)] : \A q \in Positions(from, length) : Ink(q) => i <= q
  PROVE  /\ \A k \in 1 .. Len(Kept(from, to)) :
              k < Len(Kept(from, to)) =>
                \E i \in Kept(from, to)[k] : \A j \in Kept(from, to)[k + 1] : i <= j
         /\ Kept(from, to) # <<>> =>
              \E i \in Kept(from, to)[Len(Kept(from, to))] :
                \A q \in Positions(next, length) : Ink(q) => i <= q
<1> DEFINE strip == Strip(from, to)
           kept == Kept(from, to)
<1>1. /\ chunks \in Seq(SUBSET (0 .. length - 1)) /\ length \in Nat
      /\ Len(chunks) \in Nat
  BY ChunkingAssumption DEF Inv, TypeOK
<1>2. strip \in SUBSET (0 .. length - 1)
  BY DEF Strip, Positions
<1>3. Positions(next, length) \subseteq Positions(from, length)
  BY <1>1 DEF Positions
<1>4. CASE strip = {}
  <2>1. kept = chunks
    BY <1>4 DEF Kept
  <2> HIDE DEF kept
  <2> QED BY <1>3, <2>1 DEF kept
<1>5. CASE strip # {}
  <2>1. PICK i \in strip :
          /\ Ink(i) /\ from <= i
          /\ \A j \in strip : i <= j
          /\ \A q \in Positions(from, length) : Ink(q) => i <= q
    BY <1>1, <1>5, StripBegins
  <2>2. i \in Positions(from, length)
    BY <1>1, <1>2, <2>1 DEF Positions
  <2>3. kept = Append(chunks, strip)
    BY <1>5 DEF Kept
  <2> HIDE DEF strip, kept
  <2>4. /\ Len(kept) = Len(chunks) + 1
        /\ \A k \in 1 .. Len(chunks) : kept[k] = chunks[k]
        /\ kept[Len(kept)] = strip
    BY <1>1, <1>2, <2>3
  <2>5. ASSUME NEW k \in 1 .. Len(kept), k < Len(kept)
        PROVE  \E h \in kept[k] : \A j \in kept[k + 1] : h <= j
    <3>1. CASE k < Len(chunks)
      <4>1. kept[k] = chunks[k] /\ kept[k + 1] = chunks[k + 1] /\ k \in 1 .. Len(chunks)
        BY <1>1, <2>4, <2>5, <3>1
      <4> QED BY <3>1, <4>1
    <3>2. CASE k = Len(chunks)
      <4>1. chunks # <<>> /\ kept[k] = chunks[Len(chunks)] /\ kept[k + 1] = strip
        BY <1>1, <2>4, <2>5, <3>2
      <4>2. PICK h \in chunks[Len(chunks)] :
              \A q \in Positions(from, length) : Ink(q) => h <= q
        BY <4>1
      <4>3. h \in Int /\ h <= i /\ i \in Int
        BY <1>1, <1>2, <2>1, <2>2, <4>1, <4>2, <2>5, <3>2 DEF strip
      <4>4. \A j \in strip : h <= j
        BY <1>2, <2>1, <4>3
      <4> QED BY <4>1, <4>4
    <3> QED BY <1>1, <2>4, <2>5, <3>1, <3>2
  <2>6. \A q \in Positions(next, length) : Ink(q) => i <= q
    BY <1>3, <2>1
  <2> QED BY <2>1, <2>4, <2>5, <2>6 DEF kept
<1> QED BY <1>4, <1>5

LEMMA InitOrdered == Init => Ordered
BY DEF Init, Ordered

LEMMA NextOrdered == Inv /\ Ordered /\ [Next]_vars => Ordered'
<1> SUFFICES ASSUME Inv, Ordered, [Next]_vars PROVE Ordered'
  OBVIOUS
<1>1. length \in Nat /\ start \in Nat
  BY ChunkingAssumption DEF Inv, TypeOK
<1>2. CASE Whole
  <2>1. /\ start < length /\ chunks = <<>>
        /\ chunks' = Kept(0, length) /\ start' = length
        /\ length' = length /\ text' = text
    BY <1>2 DEF Whole, Ordered
  <2> DEFINE kept == Kept(0, length)
  <2>2. /\ \A k \in 1 .. Len(kept) :
             k < Len(kept) => \E i \in kept[k] : \A j \in kept[k + 1] : i <= j
        /\ kept # <<>> =>
             \E i \in kept[Len(kept)] : \A q \in Positions(length, length) : Ink(q) => i <= q
    <3>1. 0 \in Nat /\ 0 < length
      BY <1>1, <2>1
    <3>2. \A k \in 1 .. Len(chunks) :
            k < Len(chunks) => \E i \in chunks[k] : \A j \in chunks[k + 1] : i <= j
      BY DEF Ordered
    <3> HIDE DEF kept
    <3> QED BY <1>1, <2>1, <3>1, <3>2, KeptOrdered, Zenon DEF kept
  <2> HIDE DEF kept
  <2> QED BY <1>1, <2>1, <2>2 DEF Ordered, Positions, Ink, kept
<1>3. CASE Cut
  <2>1. PICK to \in start + 1 .. start + ChunkSize :
          chunks' = Kept(start, to) /\ start' = NextStart(start, to)
    BY <1>3 DEF Cut
  <2>2. length' = length /\ text' = text /\ ~(length <= ChunkSize)
    BY <1>1, <1>3, ChunkingAssumption DEF Cut
  <2>3. to \in Nat /\ start' \in Nat /\ start < start'
    BY <1>1, <2>1, ChunkingAssumption DEF NextStart, Stride
  <2> DEFINE kept == Kept(start, to)
             next == NextStart(start, to)
  <2>4. next \in Nat /\ start < next
    BY <2>1, <2>3
  <2> HIDE DEF next
  <2>5. /\ \A k \in 1 .. Len(kept) :
             k < Len(kept) => \E i \in kept[k] : \A j \in kept[k + 1] : i <= j
        /\ kept # <<>> =>
             \E i \in kept[Len(kept)] : \A q \in Positions(next, length) : Ink(q) => i <= q
    <3>1. /\ \A k \in 1 .. Len(chunks) :
               k < Len(chunks) => \E i \in chunks[k] : \A j \in chunks[k + 1] : i <= j
          /\ chunks # <<>> =>
               \E i \in chunks[Len(chunks)] : \A q \in Positions(start, length) : Ink(q) => i <= q
      BY DEF Ordered
    <3> HIDE DEF kept
    <3>2. start \in Nat /\ to \in Nat
      BY <1>1, <2>3
    <3> QED BY <2>4, <3>1, <3>2, KeptOrdered, ZenonT(60) DEF kept
  <2> HIDE DEF kept
  <2> QED BY <2>1, <2>2, <2>5 DEF Ordered, Positions, Ink, kept, next
<1>4. CASE UNCHANGED vars
  BY <1>4 DEF vars, Ordered, Positions, Ink
<1> QED BY <1>2, <1>3, <1>4 DEF Next

\* For every text, chunk_size and chunk_overlap, no chunk is empty or longer
\* than chunk_size, and each chunk begins no later than the next
\* (ingestion.py:_chunk_text).
THEOREM ChunkingFits == Spec => []ChunksFit
<1>1. Inv /\ Ordered => ChunksFit
  BY DEF Inv, Ordered, ChunksFit
<1>2. Init => Inv /\ Ordered
  BY InitInv, InitOrdered
<1>3. Inv /\ Ordered /\ [Next]_vars => (Inv /\ Ordered)'
  BY NextInv, NextOrdered
<1>4. QED BY <1>1, <1>2, <1>3, PTL DEF Spec
=============================================================================
