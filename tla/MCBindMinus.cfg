CONSTANTS
  None = None
  Garbage = Garbage
  Empty = Empty
  Duplicate = Duplicate
  Unexpected = Unexpected
  ta = ta
  tb = tb
  vd = vd
  Length <- TwoOrThree
  Operations <- MinusTexts
  Values <- AllValues
  MaxValues = 2
  Requests <- AllRequests
  Texts <- SomeTexts
  Messages <- AllMessages
  ColumnLists <- AllColumns
  Cells <- CellsIn
  CallCells <- SomeCells
  Connections <- AllConnections
  MaxPieces = 12
SPECIFICATION Spec
INVARIANTS
  SqlAsDocumented
