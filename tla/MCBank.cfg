SPECIFICATION BankSpec
CONSTANTS
  Tx = {t1, t2, t3}
  NumWords = 15
  ReadFirst = FALSE
  InitVal = 0
  Value <- MCValue
  nbaccounts = 2
  init_balance = 1
  MaxSegments = 3
  AccountIds = {0, 2, 3}
SYMMETRY TxSymmetry
CHECK_DEADLOCK FALSE
INVARIANTS
  BankTypeOK
  MoneyConstant
  PointersLive
  ListShape
