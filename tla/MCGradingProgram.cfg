SPECIFICATION ProgramSpec
CONSTANTS
  Worker = {w1, w2, w3}
  First = w1
  Tests = 3
  Timed = TRUE
  NbTx = 1
CHECK_DEADLOCK FALSE
INVARIANTS
  ProgramTypeOK
  TestsApart
  VerdictRight
  CheckPasses
  LibraryIdle
PROPERTIES
  BarrierMeets
  ProgramEnds
