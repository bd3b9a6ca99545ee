SPECIFICATION MainSpec
CONSTANTS
  main = main
  other = other
  nothing = nothing
  earlier = earlier
  Keys <- MCKeys
  Ids <- MCIds
  NullRef = NullRef
  HeaderSize = 2
  MaxInput = 2
  MaxResponse = 3
  Inputs <- MCInputs
  Processes = {main, other}
  Paths = {"results.json"}
  TempNames = {"tmp1", "tmp2"}
  Nothing = nothing
  Earlier = earlier
  MaxRecords = 3
  MaxEdges = 3
  Commands <- MCCommands
INVARIANTS
  TypeOK
  AnswersItsFrame
  CleanExitAnswersAll
  OnlyTransportStops
  ResultsWhole
  ExitTellsResult
PROPERTIES
  ProgramEnds
CHECK_DEADLOCK FALSE
