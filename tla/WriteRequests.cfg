SPECIFICATION Spec
CONSTANTS
  D = D
  M = M
  SM = SM
  Routes = {D, M, SM}
  BitRoutes = {M}
  ReadOnlyRoutes = {SM}
  ShortRoutes = {D}
  WireNumbers = 4
  Numbers = {0, 1, 2, 4}
  LastDevice = 4
  WordBits = 2
  MaxTargets = 2
  MaxPoints = 2
  SpecSize = 4
  ExtSpecSize = 11
  BitSize = 1
  HeaderSize = 15
  Capacities = {1, 15, 29, 64}
  SizeRange = 65536
INVARIANT PlainWritesExact
INVARIANT NoNeedlessRejection
INVARIANT DirectEncodingFits
