CONSTANTS
  Limit <- MCLimit
  PointLimit = 8
  BlockLimit = 3
  MemoryLimit = 3
  UnitByteLimit = 16
  LoopbackLimit = 3
  Settings <- MCSettings
  Requests <- MCRequests
  LabelItems <- MCItems
SPECIFICATION Spec
INVARIANT OutputsBounded
INVARIANT CellsWithinBody
INVARIANT AnswersTile
INVARIANT ErrorLeavesOutputs
INVARIANT HonestAnswerAccepted
INVARIANT EncodingFits
INVARIANT RegistrationBelieved
INVARIANT ScratchTrailsSource
