CONSTANTS
  s1 = s1
  s2 = s2
  s3 = s3
  c1 = c1
  c2 = c2
  t1 = t1
  t2 = t2
  None = None
  FetchSize = 1
  InlineMax = 1
  Stmts = {s1}
  Kind <- KindI
  Size <- OneRow
  Handles = {1}
  Cursors = {c1}
  Tasks = {t1}
  Api <- CancelCalls
  MaxCancels = 1
  WantSizes = {1}
SPECIFICATION Spec
PROPERTIES
  CommitDurable
CHECK_DEADLOCK FALSE
