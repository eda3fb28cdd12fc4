SPECIFICATION Spec
CONSTANTS
  WordBits = 2
  NumberRange = 8
  Octal = 2
  Decimal = 3
  Hexadecimal = 4
  Texts <- MCTexts
  ListTexts <- MCListTexts
  MaxNames = 3
  MaxPolled = 2
  RandomLimit = 2
  ReadOnlyCodes = {"TS"}
  LastNumber = 6
  InitialMem <- MCInitialMem
  Volatile <- MCVolatile
  Formers <- MCFormers
  MaxChanges = 2
INVARIANT NormalFormMeansSame
INVARIANT SnapshotWhole
INVARIANT PollIsOfLastCompile
PROPERTY OtherBitsKept
PROPERTY ImplementsRegisters
