---------------------------- MODULE BatcherProofs ----------------------------
(***************************************************************************)
(* The batcher keeps its invariants for any finite set of transactions.    *)
(*                                                                         *)
(* BatcherInv is inductive.  Its parts lean on each other: that remaining  *)
(* counts the present transactions shows that the last one to leave is     *)
(* alone in its epoch; that the i-th parked transaction has number i shows *)
(* that no transaction is parked twice, and so that blocked.size() counts  *)
(* the members of the next epoch.                                          *)
(***************************************************************************)
EXTENDS Batcher, FiniteSetTheorems, TLAPS

\* The transactions present are finite in number.
LEMMA PresentFinite == /\ IsFiniteSet(Present)
                       /\ Cardinality(Present) \in Nat
<1>1. Present \in SUBSET Tx
  BY DEF Present
<1> QED
  BY <1>1, TxAssumption, FS_Subset, FS_CardinalityType

\* blocked holds no transaction twice: its length counts those parked in it.
LEMMA ParkedCounted ==
  ASSUME blocked \in Seq(Tx),
         \A i \in 1..Len(blocked) : trNum[blocked[i]] = i
  PROVE  Cardinality(Parked) = Len(blocked)
<1> DEFINE f == [i \in 1..Len(blocked) |-> blocked[i]]
<1>1. Len(blocked) \in Nat
  OBVIOUS
<1>2. f \in Bijection(1..Len(blocked), Parked)
  <2>1. f \in [1..Len(blocked) -> Parked]
    BY DEF Parked
  <2>2. \A i, j \in 1..Len(blocked) : f[i] = f[j] => i = j
    OBVIOUS
  <2>3. \A u \in Parked : \E i \in 1..Len(blocked) : f[i] = u
    BY DEF Parked
  <2> QED
    BY <2>1, <2>2, <2>3 DEF Bijection, Injection, Surjection, IsInjective
<1>3. ExistsBijection(1..Len(blocked), Parked)
  BY <1>2 DEF ExistsBijection
<1> QED
  BY <1>1, <1>3, FS_CountingElements

\* Whoever belongs to the next epoch is in blocked.
LEMMA NextEpochParked ==
  ASSUME BatcherTypeOK, EpochsAndNumbers,
         NEW t \in Tx, pc[t] # "idle", epoch[t] = counter + 1
  PROVE  t \in Parked
<1>1. counter \in Nat /\ pc[t] \in PC
  BY DEF BatcherTypeOK
<1>2. pc[t] # "running" /\ pc[t] # "left"
  BY <1>1 DEF EpochsAndNumbers, RunningInCurrentEpoch
<1>3. pc[t] \in {"asleep", "woken"}
  BY <1>1, <1>2 DEF PC
<1> QED
  BY <1>1, <1>3 DEF EpochsAndNumbers

USE DEF ParkedEpoch, ParkedNumber, NextRemaining, NotifyAll

LEMMA BatcherInitInv == BatcherInit => BatcherInv
<1> SUFFICES ASSUME BatcherInit PROVE BatcherInv
  OBVIOUS
<1> USE DEF BatcherInit
<1>1. BatcherTypeOK
  BY DEF BatcherTypeOK, PC
<1>2. RemainingIsPresent
  <2>1. Present = {}
    BY DEF Present
  <2> QED
    BY <2>1, FS_EmptySet DEF RemainingIsPresent
<1>3. EpochsAndNumbers
  BY DEF EpochsAndNumbers, RunningInCurrentEpoch
<1>4. TrNumIdentifies
  BY DEF TrNumIdentifies
<1>5. VectorsAreThisEpoch
  BY DEF VectorsAreThisEpoch
<1> QED
  BY <1>1, <1>2, <1>3, <1>4, <1>5 DEF BatcherInv

LEMMA EnterFirstInv ==
  ASSUME BatcherInv, NEW t \in Tx, EnterFirst(t)
  PROVE  BatcherInv'
<1> USE DEF BatcherInv, EnterFirst
<1>1. BatcherTypeOK'
  BY DEF BatcherTypeOK, PC
<1>2. RemainingIsPresent'
  <2>1. Present = {}
    BY DEF Present, EpochsAndNumbers, BatcherTypeOK
  <2>2. Present' = {t}
    BY <2>1 DEF Present, BatcherTypeOK
  <2> QED
    BY <2>2, FS_Singleton DEF RemainingIsPresent
<1>3. EpochsAndNumbers'
  BY DEF EpochsAndNumbers, RunningInCurrentEpoch, BatcherTypeOK, Parked
<1>4. TrNumIdentifies'
  BY DEF TrNumIdentifies, EpochsAndNumbers, BatcherTypeOK
<1>5. VectorsAreThisEpoch'
  BY DEF VectorsAreThisEpoch, BatcherTypeOK
<1> QED
  BY <1>1, <1>2, <1>3, <1>4, <1>5 DEF BatcherInv

LEMMA EnterBlockedInv ==
  ASSUME BatcherInv, NEW t \in Tx, EnterBlocked(t)
  PROVE  BatcherInv'
<1> USE DEF BatcherInv, EnterBlocked
<1>0. /\ blocked' \in Seq(Tx)
      /\ Len(blocked') = Len(blocked) + 1
      /\ Len(blocked) \in Nat
      /\ \A i \in 1..Len(blocked) : blocked'[i] = blocked[i] /\ blocked[i] \in Tx
      /\ blocked'[Len(blocked')] = t
  BY DEF BatcherTypeOK
<1>a. \A i \in 1..Len(blocked) : blocked[i] # t
  BY DEF EpochsAndNumbers, BatcherTypeOK
<1>b. Parked' = Parked \cup {t}
  BY <1>0 DEF Parked
<1>1. BatcherTypeOK'
  BY <1>0 DEF BatcherTypeOK, PC
<1>2. RemainingIsPresent'
  <2>1. Present' = Present
    BY DEF Present, BatcherTypeOK
  <2> QED
    BY <2>1 DEF RemainingIsPresent
<1>3. EpochsAndNumbers'
  <2>1. RunningInCurrentEpoch'
    BY DEF EpochsAndNumbers, RunningInCurrentEpoch, BatcherTypeOK
  <2>2. \A u \in Tx :
          pc'[u] \in {"asleep", "woken"} =>
             \/ awake'[u] /\ epoch'[u] = counter' /\ pc'[u] = "woken"
             \/ ~awake'[u] /\ epoch'[u] = counter' + 1 /\ u \in Parked'
    BY <1>b DEF EpochsAndNumbers, BatcherTypeOK
  <2>3. \A u \in Tx : /\ pc'[u] = "left" => epoch'[u] <= counter'
                      /\ pc'[u] # "idle" => trNum'[u] >= 1
    BY <1>0 DEF EpochsAndNumbers, BatcherTypeOK
  <2>4. ASSUME NEW i \in 1..Len(blocked')
        PROVE  /\ pc'[blocked'[i]] \in {"asleep", "woken"}
               /\ ~awake'[blocked'[i]]
               /\ trNum'[blocked'[i]] = i
    <3>1. CASE i = Len(blocked')
      BY <1>0, <3>1 DEF BatcherTypeOK
    <3>2. CASE i \in 1..Len(blocked)
      BY <1>0, <1>a, <3>2 DEF EpochsAndNumbers, BatcherTypeOK
    <3> QED
      BY <1>0, <3>1, <3>2
  <2>5. remaining' # 0
    OBVIOUS
  <2> QED
    BY <2>1, <2>2, <2>3, <2>4, <2>5 DEF EpochsAndNumbers
<1>4. TrNumIdentifies'
  <2>1. ASSUME NEW u \in Tx, u # t, pc[u] # "idle", epoch[u] = counter + 1
        PROVE  trNum[u] # Len(blocked')
    <3>1. u \in Parked
      BY <2>1, NextEpochParked
    <3>2. PICK i \in 1..Len(blocked) : u = blocked[i]
      BY <3>1 DEF Parked
    <3> QED
      BY <1>0, <3>2 DEF EpochsAndNumbers
  <2> QED
    BY <2>1 DEF TrNumIdentifies, BatcherTypeOK
<1>5. VectorsAreThisEpoch'
  BY DEF VectorsAreThisEpoch, BatcherTypeOK
<1> QED
  BY <1>1, <1>2, <1>3, <1>4, <1>5 DEF BatcherInv

LEMMA SpuriousWakeInv ==
  ASSUME BatcherInv, NEW t \in Tx, SpuriousWake(t)
  PROVE  BatcherInv'
<1> USE DEF BatcherInv, SpuriousWake
<1>1. BatcherTypeOK'
  BY DEF BatcherTypeOK, PC
<1>2. RemainingIsPresent'
  <2>1. Present' = Present
    BY DEF Present, BatcherTypeOK
  <2> QED
    BY <2>1 DEF RemainingIsPresent
<1>3. EpochsAndNumbers'
  <2>1. Parked' = Parked
    BY DEF Parked
  <2> QED
    BY <2>1 DEF EpochsAndNumbers, RunningInCurrentEpoch, BatcherTypeOK
<1>4. TrNumIdentifies'
  BY DEF TrNumIdentifies, BatcherTypeOK
<1>5. VectorsAreThisEpoch'
  BY DEF VectorsAreThisEpoch, BatcherTypeOK
<1> QED
  BY <1>1, <1>2, <1>3, <1>4, <1>5 DEF BatcherInv

LEMMA TestAwakeInv ==
  ASSUME BatcherInv, NEW t \in Tx, TestAwake(t)
  PROVE  BatcherInv'
<1> USE DEF BatcherInv, TestAwake
<1>1. BatcherTypeOK'
  BY DEF BatcherTypeOK, PC
<1>2. RemainingIsPresent'
  <2>1. Present' = Present
    BY DEF Present, BatcherTypeOK
  <2> QED
    BY <2>1 DEF RemainingIsPresent
<1>3. EpochsAndNumbers'
  <2>1. Parked' = Parked
    BY DEF Parked
  <2>2. ASSUME NEW i \in 1..Len(blocked)
        PROVE  pc'[blocked[i]] \in {"asleep", "woken"}
    BY DEF EpochsAndNumbers, BatcherTypeOK
  <2> QED
    BY <2>1, <2>2 DEF EpochsAndNumbers, RunningInCurrentEpoch, BatcherTypeOK
<1>4. TrNumIdentifies'
  BY DEF TrNumIdentifies, BatcherTypeOK
<1>5. VectorsAreThisEpoch'
  BY DEF VectorsAreThisEpoch, BatcherTypeOK
<1> QED
  BY <1>1, <1>2, <1>3, <1>4, <1>5 DEF BatcherInv

LEMMA LeaveEarlyInv ==
  ASSUME BatcherInv, NEW t \in Tx, NEW ok \in BOOLEAN, LeaveEarly(t, ok)
  PROVE  BatcherInv'
<1> USE DEF BatcherInv, LeaveEarly, Finished
<1>a. t \in Present
  BY DEF Present, EpochsAndNumbers, RunningInCurrentEpoch
<1>b. remaining > 1
  <2>1. Cardinality(Present) # 0
    BY <1>a, PresentFinite, FS_EmptySet
  <2> QED
    BY <2>1, PresentFinite DEF RemainingIsPresent
<1>1. BatcherTypeOK'
  BY <1>b DEF BatcherTypeOK, PC
<1>2. RemainingIsPresent'
  <2>1. Present' = Present \ {t}
    BY DEF Present, BatcherTypeOK
  <2> QED
    BY <1>a, <2>1, PresentFinite, FS_RemoveElement DEF RemainingIsPresent
<1>3. EpochsAndNumbers'
  <2>1. Parked' = Parked
    BY DEF Parked
  <2>2. remaining' # 0
    BY <1>b DEF BatcherTypeOK
  <2>3. ASSUME NEW i \in 1..Len(blocked)
        PROVE  blocked[i] # t
    BY DEF EpochsAndNumbers, BatcherTypeOK
  <2> QED
    BY <2>1, <2>2, <2>3
    DEF EpochsAndNumbers, RunningInCurrentEpoch, BatcherTypeOK
<1>4. TrNumIdentifies'
  BY DEF TrNumIdentifies, BatcherTypeOK
<1>5. VectorsAreThisEpoch'
  BY DEF VectorsAreThisEpoch, BatcherTypeOK, EpochsAndNumbers, RunningInCurrentEpoch
<1> QED
  BY <1>1, <1>2, <1>3, <1>4, <1>5 DEF BatcherInv

\* The transaction that brings remaining to zero is alone in its epoch.
LEMMA LastIsAlone ==
  ASSUME BatcherInv, NEW t \in Tx, pc[t] = "running", remaining = 1
  PROVE  Present = {t}
<1>1. t \in Present
  BY DEF Present, BatcherInv, EpochsAndNumbers, RunningInCurrentEpoch
<1>2. Cardinality(Present) = 1
  BY DEF BatcherInv, RemainingIsPresent
<1>3. PICK u : Present = {u}
  BY <1>2, PresentFinite, FS_Singleton
<1> QED
  BY <1>1, <1>3

LEMMA LeaveLastInv ==
  ASSUME BatcherInv, NEW t \in Tx, NEW ok \in BOOLEAN, LeaveLast(t, ok)
  PROVE  BatcherInv'
<1> USE DEF BatcherInv, LeaveLast
<1>a. Present = {t}
  BY LastIsAlone
<1>b. Parked \subseteq Tx /\ Len(blocked) \in Nat
  BY DEF Parked, BatcherTypeOK
<1>c. ASSUME NEW u \in Tx, pc[u] \in {"asleep", "woken"}
      PROVE  ~awake[u] /\ epoch[u] = counter + 1 /\ u \in Parked
  <2>1. u # t
    BY <1>c
  <2>2. u \notin Present
    BY <2>1, <1>a
  <2> QED
    BY <2>2, <1>c DEF EpochsAndNumbers, Present, BatcherTypeOK
<1>d. ASSUME NEW u \in Parked
      PROVE  u \in Tx /\ pc[u] \in {"asleep", "woken"} /\ epoch[u] = counter + 1
  <2>1. PICK i \in 1..Len(blocked) : u = blocked[i]
    BY DEF Parked
  <2> QED
    BY <1>b, <1>c, <2>1 DEF EpochsAndNumbers
<1>e. \A u \in Tx : u # t => pc[u] # "running"
  BY <1>a DEF Present, EpochsAndNumbers, RunningInCurrentEpoch
<1>f. /\ counter \in Nat
      /\ counter' = counter + 1
      /\ epoch' = epoch
      /\ trNum' = trNum
  BY DEF BatcherTypeOK
<1>g. ASSUME NEW u \in Tx
      PROVE  /\ pc'[u] = "woken" <=> u \in Parked
             /\ pc'[u] = "idle" <=> pc[u] = "idle"
             /\ pc'[u] = "left" <=> u = t \/ pc[u] = "left"
             /\ pc'[u] # "running" /\ pc'[u] # "asleep"
             /\ awake'[u] <=> awake[u] \/ u \in Parked
  <2>1. pc[u] \in PC /\ pc' \in [Tx -> PC]
    BY DEF BatcherTypeOK, PC
  <2>2. t \notin Parked
    BY <1>d
  <2> QED
    BY <1>c, <1>d, <1>e, <2>1, <2>2 DEF PC
<1>1. BatcherTypeOK'
  BY <1>b DEF BatcherTypeOK, PC
<1>2. RemainingIsPresent'
  <2>1. Present' = Parked
    <3>1. ASSUME NEW u \in Tx, u \in Parked
          PROVE  pc'[u] = "woken" /\ epoch'[u] = counter'
      BY <1>d, <1>f, <1>g, <3>1
    <3>2. ASSUME NEW u \in Tx, pc'[u] \in {"asleep", "woken", "running"}
          PROVE  u \in Parked
      BY <1>g, <3>2
    <3> QED
      BY <1>b, <3>1, <3>2 DEF Present
  <2>2. Cardinality(Parked) = Len(blocked)
    BY ParkedCounted DEF BatcherTypeOK, EpochsAndNumbers
  <2> QED
    BY <2>1, <2>2 DEF RemainingIsPresent
<1>3. EpochsAndNumbers'
  <2>1. RunningInCurrentEpoch'
    BY <1>g DEF RunningInCurrentEpoch
  <2>2. ASSUME NEW u \in Tx, pc'[u] \in {"asleep", "woken"}
        PROVE  awake'[u] /\ epoch'[u] = counter' /\ pc'[u] = "woken"
    BY <1>d, <1>f, <1>g, <2>2
  <2>3. ASSUME NEW u \in Tx, pc'[u] = "left"
        PROVE  epoch'[u] < counter'
    BY <1>f, <1>g, <2>3 DEF EpochsAndNumbers, RunningInCurrentEpoch, BatcherTypeOK
  <2>4. ASSUME NEW u \in Tx, pc'[u] # "idle"
        PROVE  trNum'[u] >= 1
    BY <1>f, <1>g, <2>4 DEF EpochsAndNumbers
  <2>5. blocked' = << >>
    OBVIOUS
  <2>6. ASSUME remaining' = 0, NEW u \in Tx, pc'[u] # "idle"
        PROVE  epoch'[u] < counter'
    <3>1. Parked = {}
      BY <2>6, <1>b DEF Parked
    <3>2. pc'[u] = "left"
      <4>1. pc'[u] \in PC
        BY <1>1 DEF BatcherTypeOK
      <4> QED
        BY <1>g, <2>6, <3>1, <4>1 DEF PC
    <3> QED
      BY <2>3, <3>2
  <2>7. /\ \A u \in Tx : pc'[u] = "left" => epoch'[u] <= counter'
        /\ \A i \in 1..Len(blocked') : FALSE
    BY <1>f, <2>3, <2>5 DEF BatcherTypeOK
  <2> QED
    BY <2>1, <2>2, <2>4, <2>5, <2>6, <2>7 DEF EpochsAndNumbers
<1>4. TrNumIdentifies'
  BY <1>f, <1>g DEF TrNumIdentifies
<1>5. VectorsAreThisEpoch'
  <2>1. ASSUME NEW u \in Tx, pc'[u] = "left"
        PROVE  epoch'[u] # counter'
    BY <1>f, <1>g, <2>1 DEF EpochsAndNumbers, RunningInCurrentEpoch, BatcherTypeOK
  <2> QED
    BY <2>1 DEF VectorsAreThisEpoch
<1> QED
  BY <1>1, <1>2, <1>3, <1>4, <1>5 DEF BatcherInv

LEMMA BatcherStepInv == BatcherInv /\ [BatcherNext]_batcherVars => BatcherInv'
<1> SUFFICES ASSUME BatcherInv, [BatcherNext]_batcherVars
             PROVE  BatcherInv'
  OBVIOUS
<1>1. CASE UNCHANGED batcherVars
  BY <1>1 DEF batcherVars, BatcherInv, BatcherTypeOK, RemainingIsPresent, Present,
              EpochsAndNumbers, RunningInCurrentEpoch, Parked, TrNumIdentifies,
              VectorsAreThisEpoch
<1>2. ASSUME NEW t \in Tx, Enter(t)
      PROVE  BatcherInv'
  BY <1>2, EnterFirstInv, EnterBlockedInv DEF Enter
<1>3. ASSUME NEW t \in Tx, SpuriousWake(t)
      PROVE  BatcherInv'
  BY <1>3, SpuriousWakeInv
<1>4. ASSUME NEW t \in Tx, TestAwake(t)
      PROVE  BatcherInv'
  BY <1>4, TestAwakeInv
<1>5. ASSUME NEW t \in Tx, NEW ok \in BOOLEAN, Leave(t, ok)
      PROVE  BatcherInv'
  BY <1>5, LeaveEarlyInv, LeaveLastInv DEF Leave
<1> QED
  BY <1>1, <1>2, <1>3, <1>4, <1>5 DEF BatcherNext

\* The batcher keeps its inductive invariant.
THEOREM BatcherInvariant == BatcherSpec => []BatcherInv
BY BatcherInitInv, BatcherStepInv, PTL DEF BatcherSpec

\* Type correctness.
THEOREM BatcherTypeCorrect == BatcherSpec => []BatcherTypeOK
<1>1. BatcherInv => BatcherTypeOK
  BY DEF BatcherInv
<1> QED
  BY <1>1, BatcherInvariant, PTL

\* remaining counts the transactions present in the epoch: leave never
\* decrements it below zero, whatever the order of enter, wake-ups and leave.
THEOREM RemainingCounts == BatcherSpec => []RemainingIsPresent
<1>1. BatcherInv => RemainingIsPresent
  BY DEF BatcherInv
<1> QED
  BY <1>1, BatcherInvariant, PTL

\* Epochs do not overlap: what runs belongs to the current epoch, what is parked
\* to the next, and blocked lists the latter by their numbers.
THEOREM EpochsDisjoint == BatcherSpec => []EpochsAndNumbers
<1>1. BatcherInv => EpochsAndNumbers
  BY DEF BatcherInv
<1> QED
  BY <1>1, BatcherInvariant, PTL

\* tr_num is unique within an epoch.
THEOREM TrNumUnique == BatcherSpec => []TrNumIdentifies
<1>1. BatcherInv => TrNumIdentifies
  BY DEF BatcherInv
<1> QED
  BY <1>1, BatcherInvariant, PTL

\* onEpochEnd sees each transaction of its epoch once, and none of another.
THEOREM VectorsThisEpoch == BatcherSpec => []VectorsAreThisEpoch
<1>1. BatcherInv => VectorsAreThisEpoch
  BY DEF BatcherInv
<1> QED
  BY <1>1, BatcherInvariant, PTL

\* No thread sleeps on that has been admitted, and none that waits is dropped.
THEOREM WakeupsNotLost == BatcherSpec => []NoLostWakeup
<1>1. BatcherInv => NoLostWakeup
  BY DEF BatcherInv, EpochsAndNumbers, NoLostWakeup
<1> QED
  BY <1>1, BatcherInvariant, PTL

\* What begins after something has left gets a later epoch.
THEOREM BeginsLater == BatcherSpec => BeginsAfterIsLater
<1>1. ASSUME BatcherInv, [BatcherNext]_batcherVars,
             NEW t \in Tx, NEW u \in Tx,
             pc[t] = "idle", pc'[t] # "idle", pc[u] = "left"
      PROVE  epoch[u] < epoch'[t]
  <2>1. Enter(t)
    <3>1. pc \in [Tx -> PC]
      BY <1>1 DEF BatcherInv, BatcherTypeOK
    <3>2. ASSUME NEW v \in Tx, SpuriousWake(v) \/ TestAwake(v) \/ \E ok \in BOOLEAN : Leave(v, ok)
          PROVE  pc'[t] = "idle"
      BY <1>1, <3>1, <3>2 DEF SpuriousWake, TestAwake, Leave, LeaveEarly, LeaveLast
    <3>3. ASSUME NEW v \in Tx \ {t}, Enter(v)
          PROVE  pc'[t] = "idle"
      BY <1>1, <3>1, <3>3 DEF Enter, EnterFirst, EnterBlocked
    <3> QED
      BY <1>1, <3>2, <3>3 DEF BatcherNext, batcherVars
  <2>2. /\ counter \in Nat /\ epoch \in [Tx -> Nat]
        /\ epoch[u] <= counter
        /\ remaining = 0 => epoch[u] < counter
    BY <1>1 DEF BatcherInv, BatcherTypeOK, EpochsAndNumbers
  <2> QED
    BY <2>1, <2>2 DEF Enter, EnterFirst, EnterBlocked
<1>2. BatcherInv /\ [BatcherNext]_batcherVars
        => [\A t, u \in Tx :
              pc[t] = "idle" /\ pc'[t] # "idle" /\ pc[u] = "left"
                => epoch[u] < epoch'[t]]_batcherVars
  BY <1>1
<1> QED
  BY <1>2, BatcherInvariant, PTL DEF BeginsAfterIsLater, BatcherSpec

-----------------------------------------------------------------------------
(***************************************************************************)
(* The batcher implements EpochBatches.  Entering is arriving, leaving is  *)
(* departing, and waking up does not show.                                 *)
(***************************************************************************)

\* What is parked belongs to the next epoch.
LEMMA ParkedWaits ==
  ASSUME BatcherInv, NEW u \in Parked
  PROVE  u \in Tx /\ pc[u] \in {"asleep", "woken"} /\ epoch[u] = counter + 1
<1>1. PICK i \in 1..Len(blocked) : u = blocked[i]
  BY DEF Parked
<1>2. u \in Tx /\ pc[u] \in {"asleep", "woken"} /\ ~awake[u]
  BY <1>1 DEF BatcherInv, BatcherTypeOK, EpochsAndNumbers
<1> QED
  BY <1>2 DEF BatcherInv, EpochsAndNumbers

\* To enter is to arrive.
LEMMA EnterArrives ==
  ASSUME BatcherInv, NEW t \in Tx, Enter(t)
  PROVE  Batches!Arrive(t)
<1> DEFINE Done == {u \in Tx : pc[u] = "left"}
<1>a. /\ BatcherTypeOK /\ EpochsAndNumbers /\ RunningInCurrentEpoch
      /\ counter \in Nat /\ epoch \in [Tx -> Nat] /\ pc \in [Tx -> PC]
      /\ blocked \in Seq(Tx)
  BY DEF BatcherInv, EpochsAndNumbers, BatcherTypeOK
<1>1. CASE EnterFirst(t)
  <2>1. Present = {} /\ Present' = {t}
    BY <1>1, <1>a DEF EnterFirst, Present, EpochsAndNumbers
  <2>2. Parked = {} /\ Parked' = {} /\ Done' = Done /\ t \notin Done
    BY <1>1, <1>a DEF EnterFirst, Parked, EpochsAndNumbers
  <2> QED
    BY <2>1, <2>2 DEF Batches!Arrive
<1>2. CASE EnterBlocked(t)
  <2>1. Present' = Present /\ t \notin Present
    BY <1>2, <1>a DEF EnterBlocked, Present
  <2>2. Present # {}
    BY <1>2, <1>a, FS_EmptySet DEF EnterBlocked, BatcherInv, RemainingIsPresent
  <2>3. Parked' = Parked \cup {t}
    <3>1. /\ Len(blocked') = Len(blocked) + 1 /\ Len(blocked) \in Nat
          /\ \A i \in 1..Len(blocked) : blocked'[i] = blocked[i]
          /\ blocked'[Len(blocked')] = t
      BY <1>2, <1>a DEF EnterBlocked
    <3> QED
      BY <3>1 DEF Parked
  <2>4. t \notin Parked /\ Done' = Done /\ t \notin Done
    BY <1>2, <1>a, ParkedWaits DEF EnterBlocked
  <2> QED
    BY <2>1, <2>2, <2>3, <2>4 DEF Batches!Arrive
<1> QED
  BY <1>1, <1>2 DEF Enter

\* To return from cv.wait, for a reason or not, is no step of the batches.
LEMMA WakingStutters ==
  ASSUME BatcherInv, NEW t \in Tx, SpuriousWake(t) \/ TestAwake(t)
  PROVE  UNCHANGED Batches!vars
<1>a. /\ BatcherTypeOK /\ EpochsAndNumbers /\ RunningInCurrentEpoch
      /\ counter \in Nat /\ epoch \in [Tx -> Nat] /\ pc \in [Tx -> PC]
      /\ blocked \in Seq(Tx)
  BY DEF BatcherInv, EpochsAndNumbers, BatcherTypeOK
<1>1. Present' = Present
  BY <1>a DEF SpuriousWake, TestAwake, Present
<1>2. Parked' = Parked /\ {u \in Tx : pc[u] = "left"}' = {u \in Tx : pc[u] = "left"}
  BY <1>a DEF SpuriousWake, TestAwake, Parked
<1> QED
  BY <1>1, <1>2 DEF Batches!vars

\* To leave is to depart, and the last one to leave departs from {t}.
LEMMA LeaveDeparts ==
  ASSUME BatcherInv, NEW t \in Tx, NEW ok \in BOOLEAN, Leave(t, ok)
  PROVE  /\ Batches!Depart(t)
         /\ LeaveEarly(t, ok) => Present # {t}
         /\ LeaveLast(t, ok) => Present = {t}
<1> DEFINE Done == {u \in Tx : pc[u] = "left"}
<1>a. /\ BatcherTypeOK /\ EpochsAndNumbers /\ RunningInCurrentEpoch
      /\ counter \in Nat /\ epoch \in [Tx -> Nat] /\ pc \in [Tx -> PC]
      /\ blocked \in Seq(Tx)
  BY DEF BatcherInv, EpochsAndNumbers, BatcherTypeOK
<1>1. CASE LeaveEarly(t, ok)
  <2>1. Present' = Present \ {t} /\ t \in Present
    BY <1>1, <1>a DEF LeaveEarly, Present, EpochsAndNumbers, RunningInCurrentEpoch
  <2>2. Present # {t}
    BY <1>1, <1>a, FS_Singleton DEF LeaveEarly, BatcherInv, RemainingIsPresent
  <2>3. Parked' = Parked /\ Done' = Done \cup {t}
    BY <1>1, <1>a DEF LeaveEarly, Parked
  <2>4. ~LeaveLast(t, ok)
    BY <1>1, <1>a DEF LeaveEarly, LeaveLast
  <2> QED
    BY <1>1, <1>a, <2>1, <2>2, <2>3, <2>4 DEF Batches!Depart
<1>2. CASE LeaveLast(t, ok)
  <2>1. Present = {t}
    BY <1>2, <1>a, LastIsAlone DEF LeaveLast
  <2>2. t \notin Parked
    BY <1>2, <1>a, ParkedWaits DEF LeaveLast
  <2>3. Parked' = {} /\ Done' = Done \cup {t}
    BY <1>2, <1>a DEF LeaveLast, Parked
  <2>4. Present' = Parked
    <3>1. ASSUME NEW u \in Tx, u \in Present'
          PROVE  u \in Parked
      <4>1. /\ u # t /\ pc[u] \in {"asleep", "woken", "running"}
            /\ epoch[u] = counter + 1
        BY <1>2, <1>a, <3>1 DEF LeaveLast, Present
      <4> QED
        BY <1>a, <4>1, NextEpochParked
    <3>2. ASSUME NEW u \in Parked
          PROVE  u \in Present'
      <4>1. u \in Tx /\ pc[u] \in {"asleep", "woken"} /\ epoch[u] = counter + 1 /\ u # t
        BY <2>2, ParkedWaits
      <4>2. pc'[u] = "woken"
        BY <1>2, <1>a, <4>1 DEF LeaveLast
      <4> QED
        BY <1>2, <1>a, <4>1, <4>2 DEF LeaveLast, Present
    <3> QED
      BY <3>1, <3>2 DEF Present
  <2>5. ~LeaveEarly(t, ok)
    BY <1>2, <1>a DEF LeaveEarly, LeaveLast
  <2> QED
    BY <1>2, <1>a, <2>1, <2>3, <2>4, <2>5 DEF Batches!Depart
<1> QED
  BY <1>1, <1>2 DEF Leave

LEMMA BatchesInit == BatcherInit => Batches!Init
<1> SUFFICES ASSUME BatcherInit PROVE Batches!Init
  OBVIOUS
<1>1. Present = {} /\ Parked = {} /\ {t \in Tx : pc[t] = "left"} = {}
  BY DEF BatcherInit, Present, Parked
<1> QED
  BY <1>1 DEF Batches!Init

\* Every behaviour of the batcher is one of the batches it promises.
THEOREM BatcherImplementsBatches == BatcherSpec => ImplementsBatches
<1>1. BatcherInv /\ [BatcherNext]_batcherVars => [Batches!Next]_Batches!vars
  <2> SUFFICES ASSUME BatcherInv, [BatcherNext]_batcherVars
               PROVE  [Batches!Next]_Batches!vars
    OBVIOUS
  <2>1. CASE UNCHANGED batcherVars
    BY <2>1 DEF batcherVars, Batches!vars, Present, Parked
  <2>2. CASE BatcherNext
    BY <2>2, EnterArrives, WakingStutters, LeaveDeparts DEF BatcherNext, Batches!Next
  <2> QED
    BY <2>1, <2>2
<1> QED
  BY <1>1, BatchesInit, BatcherInvariant, PTL DEF BatcherSpec, ImplementsBatches, Batches!Spec

=============================================================================
