SPECIFICATION Spec
CONSTANTS
  none = none
  mm = mm
  bashrc = bashrc
  zshrc = zshrc
  fish = fish
  Absent = none
  Binary = mm
  ProfileFiles = {bashrc, zshrc, fish}
  Profiles <- MCProfiles
  Links <- MCLinks
  Texts = {"text"}
  OldBodies = {"older"}
  FirstDisks <- MCDisks
  MaxRuns = 2
  MaxFaults = 3
  MaxEdits = 1
INVARIANTS
  TypeOK
  SuccessInstalls
  OneBlock
  UserTextKept
  FailureRestores
  BinaryStays
  BlockNeedsBinary
PROPERTIES
  RerunChangesNothing
  InstallEnds
CHECK_DEADLOCK FALSE
