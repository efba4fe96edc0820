SPECIFICATION Spec
CONSTANTS
  Tx = {t1, t2, t3}
  NumWords = 2
  Value = {v0, v1}
  InitVal = v0
  ReadFirst = FALSE
SYMMETRY TxSymmetry
CHECK_DEADLOCK FALSE
INVARIANTS
  TypeOK
  OneWriter
  AccessDiscipline
PROPERTY
  ImplementsEpochMemory
