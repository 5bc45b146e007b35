CONSTANTS
  s1 = s1
  s2 = s2
  s3 = s3
  c1 = c1
  c2 = c2
  None = None
  Stmts = {s1, s2, s3}
  Kind <- KindISC
  Size <- TwoRows
  Handles = {1}
  FetchSize = 1
  InlineMax = 1
  Cursors = {c1}
  Api <- EveryCall
  WantSizes = {1}
SPECIFICATION FairSpec
INVARIANTS
  LastRowIdOwned
  AckedKept
PROPERTIES
  OnTransport
  CommitDurable
  CallsReturn
