\* Documents ingested again, changed.
SPECIFICATION Spec
CONSTANTS
  handbook = handbook
  notes = notes
  intro1 = intro1
  intro2 = intro2
  body = body
  c1 = c1
  c2 = c2
  r1 = r1
  NULL = NULL
  Sources = {handbook, notes}
  Contents = {intro1, intro2, body}
  FirstChars <- MCFirstChars
  Requests <- SingleDocuments
  BatchSize = 2
  Calls = {c1, c2}
  Removals = {}
INVARIANTS EntriesAreUpdated
\* The calls have returned.
CHECK_DEADLOCK FALSE
