SPECIFICATION OneShotSpec
CONSTANTS
  FieldCount = 2
  EnvironmentField = 2
  ValidValues <- MCValidValues
  Symbols <- MCSymbols
  Strings <- MCStrings
  Kinds <- MCKinds
  Qualifiers <- MCQualifiers
  Code <- MCCode
  Requirements <- MCRequirements
  Clauses <- MCClauses
  Remediations = 3
  Action <- MCAction
  Ids <- MCIds
  MaxRows = 2
  MaxEvidence = 2
  MaxEdges = 4
  Packs <- OneRowPacks
INVARIANTS
  ReasonMatchesTruth
  SettledOperandSettlesAll
  NoFindingOutranksDecision
  DriverIsAFinding
PROPERTY
  Implements
CHECK_DEADLOCK FALSE
