SPECIFICATION Spec
CONSTANTS
  Tx = {t1, t2, t3}
  MaxNode = 3
  Value = {v0, v1}
  InitVal = v0
SYMMETRY TxSymmetry
CHECK_DEADLOCK FALSE
INVARIANT
  SegmentList
PROPERTY
  ImplementsAtomicMemory
