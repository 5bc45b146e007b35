CONSTANTS
  s1 = s1
  s2 = s2
  s3 = s3
  c1 = c1
  c2 = c2
  t1 = t1
  t2 = t2
  None = None
  FetchSize = 1
  InlineMax = 1
  Stmts = {s1, s2}
  Kind <- KindSS
  Size <- TwoRows
  Handles = {1}
  Cursors = {c1, c2}
  Tasks = {t1, t2}
  Api <- FetchCalls
  MaxCancels = 0
  WantSizes = {1}
SPECIFICATION Spec
INVARIANTS
  RowsOfOwnStatement
CHECK_DEADLOCK FALSE
