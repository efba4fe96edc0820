SPECIFICATION Spec
CONSTANTS
  Tx = {t1, t2, t3}
  FirstSize = 2
  Sizes = {1, 2}
  MaxAddress = 6
  MaxFrees = 1
SYMMETRY TxSymmetry
CHECK_DEADLOCK FALSE
INVARIANT
  StartsAligned
