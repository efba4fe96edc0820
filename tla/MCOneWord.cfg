SPECIFICATION Spec
CONSTANTS
  Tx = {t1, t2, t3, t4}
  NumWords = 1
  Value = {v0, v1}
  InitVal = v0
  ReadFirst = FALSE
SYMMETRY TxSymmetry
CHECK_DEADLOCK FALSE
INVARIANTS
  WordControl
  ReadOnlyCommits
  AbortNeedsRival
