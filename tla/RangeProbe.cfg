SPECIFICATION Spec
CONSTANTS
  Bits = 5
  ProbeCount = 32
  FileCount = 8
  Readable = {0, 1, 2, 7, 8, 9, 21, 30, 31, 32, 33}
  RegisterCounts = {40}
  ReadsMayFail = TRUE
INVARIANT TypeOK
INVARIANT NeverOverstates
INVARIANT CountExact
INVARIANT ReadsBounded
PROPERTY CallEnds
