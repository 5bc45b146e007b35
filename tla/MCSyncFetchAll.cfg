CONSTANTS
  s1 = s1
  s2 = s2
  s3 = s3
  c1 = c1
  c2 = c2
  None = None
  Stmts = {s1}
  Kind <- KindS
  Size <- SizeS
  Handles = {1, 2}
  FetchSize = 1
  InlineMax = 1
  Cursors = {c1}
  Api <- LoopingCalls
  WantSizes = {1, 2}
SPECIFICATION Spec
PROPERTIES
  FetchAllComplete
