SPECIFICATION Spec
CONSTANTS
  Texts <- MCTexts
  LongTexts = {"long"}
  Trim <- MCTrim
  FieldNames <- MCFieldNames
  ValidFieldValues <- MCValidFieldValues
  EvidenceKinds = {"approval", "attest"}
  QualifierNames <- MCQualifierNames
  MaxDepth = 3
  MaxNodes = 13
  MaxPolicyBytes = 15
  Sources <- MCWideSources
  CountLimit = 14
  TextLimit = 16
INVARIANTS
  SetsKept
