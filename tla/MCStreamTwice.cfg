SPECIFICATION Spec
CONSTANTS
  Keys <- MCKeys
  HeaderSize = 2
  MaxInput = 2
  MaxResponse = 3
  MaxRecords = 3
  MaxEdges = 3
  Ids <- MCIds
  NullRef = NullRef
  Inputs <- ArraysTwice
INVARIANTS
  AnswersItsFrame
CHECK_DEADLOCK FALSE
