\* Texts of up to nine characters, windows of five.
SPECIFICATION Spec
CONSTANTS
  ChunkSize = 5
  ChunkOverlap = 1
  MaxLength = 9
INVARIANTS ShortWordsKept ChunksFit
PROPERTIES MovesForward
\* The function has returned.
CHECK_DEADLOCK FALSE
