SPECIFICATION FairBatcherSpec
CONSTANT Tx = {t1, t2, t3, t4}
CHECK_DEADLOCK FALSE
INVARIANTS
  BatcherTypeOK
  RemainingIsPresent
  EpochsAndNumbers
  TrNumIdentifies
  VectorsAreThisEpoch
  NoLostWakeup
PROPERTIES
  BeginsAfterIsLater
  ImplementsBatches
  ParkedRuns
