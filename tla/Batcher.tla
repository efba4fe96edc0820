------------------------------- MODULE Batcher -------------------------------
(***************************************************************************)
(* The thread batcher of the dual-versioned STM (321215/batcher.cpp).      *)
(*                                                                         *)
(* Batcher::enter admits a transaction at once when no epoch is open and   *)
(* otherwise parks its thread on a condition variable until the open epoch *)
(* is over.  Batcher::leave counts the transactions of the epoch down; the *)
(* one that brings the count to zero ends the epoch and admits everything  *)
(* that was parked.                                                        *)
(*                                                                         *)
(* A member of Tx is one Transaction object, that is one call of tm_begin. *)
(* A retry of an aborted transaction is another member.  The code never    *)
(* looks at the thread that runs a transaction (b_thread::thread_id is     *)
(* stored and not read), so threads do not appear.  Each body that holds   *)
(* Batcher::mutex is one step; the mutex is released inside cv.wait only.  *)
(***************************************************************************)
EXTENDS Integers, Sequences, FiniteSets

CONSTANT Tx          \* the transactions that may be begun

ASSUME TxAssumption == IsFiniteSet(Tx)

VARIABLES
  counter,           \* Batcher::counter, the number of the current epoch
  remaining,         \* Batcher::remaining, those of the epoch yet to leave
  blocked,           \* Batcher::blocked, in order of arrival
  committed,         \* Batcher::committed_transactions
  aborted,           \* Batcher::aborted_transactions
  awake,             \* b_thread::awake of the frame inside enter
  epoch,             \* Transaction::epoch (kept when the object is deleted)
  trNum,             \* Transaction::tr_num (kept likewise)
  pc                 \* where the thread that runs the transaction stands

batcherVars ==
  <<counter, remaining, blocked, committed, aborted, awake, epoch, trNum, pc>>

(***************************************************************************)
(* "idle"    tm_begin has not been called                                  *)
(* "asleep"  inside cv.wait                                                *)
(* "woken"   out of cv.wait by a notification or spuriously, about to hold *)
(*           the mutex again and to test awake                             *)
(* "running" tm_begin has returned                                         *)
(* "left"    leave has returned                                            *)
(***************************************************************************)
PC == {"idle", "asleep", "woken", "running", "left"}

BatcherInit ==
  /\ counter = 0
  /\ remaining = 0
  /\ blocked = << >>
  /\ committed = {}
  /\ aborted = {}
  /\ awake = [t \in Tx |-> FALSE]
  /\ epoch = [t \in Tx |-> 0]
  /\ trNum = [t \in Tx |-> 0]
  /\ pc = [t \in Tx |-> "idle"]

\* enter with a test that lets a transaction join the open epoch.
EnterFirstAnytime(t) ==
  /\ pc[t] = "idle"
  /\ remaining' = remaining + 1
  /\ epoch' = [epoch EXCEPT ![t] = counter]
  /\ trNum' = [trNum EXCEPT ![t] = remaining']
  /\ pc' = [pc EXCEPT ![t] = "running"]
  /\ UNCHANGED <<counter, blocked, committed, aborted, awake>>

\* enter when no epoch is open: the transaction runs alone until it leaves.
EnterFirst(t) ==
  /\ pc[t] = "idle"
  /\ remaining = 0
  /\ remaining' = 1
  /\ epoch' = [epoch EXCEPT ![t] = counter]
  /\ trNum' = [trNum EXCEPT ![t] = 1]
  /\ pc' = [pc EXCEPT ![t] = "running"]
  /\ UNCHANGED <<counter, blocked, committed, aborted, awake>>

\* The epoch and the number of a transaction that parks: the next epoch, and
\* blocked.size() after it has been pushed.
ParkedInThisEpoch == counter

ParkedEpoch == counter + 1

ParkedBeforePush == Len(blocked)

ParkedByRemaining == remaining

ParkedNumber == Len(blocked) + 1

\* enter while an epoch is open: queue for the next one and wait.
EnterBlocked(t) ==
  /\ pc[t] = "idle"
  /\ remaining # 0
  /\ awake' = [awake EXCEPT ![t] = FALSE]
  /\ blocked' = Append(blocked, t)
  /\ epoch' = [epoch EXCEPT ![t] = ParkedEpoch]
  /\ trNum' = [trNum EXCEPT ![t] = ParkedNumber]
  /\ pc' = [pc EXCEPT ![t] = "asleep"]
  /\ UNCHANGED <<counter, remaining, committed, aborted>>

\* cv.wait may return although nobody notified.
SpuriousWake(t) ==
  /\ pc[t] = "asleep"
  /\ pc' = [pc EXCEPT ![t] = "woken"]
  /\ UNCHANGED <<counter, remaining, blocked, committed, aborted, awake, epoch, trNum>>

\* The loop test of enter, with the mutex held again.
TestAwake(t) ==
  /\ pc[t] = "woken"
  /\ pc' = [pc EXCEPT ![t] = IF awake[t] THEN "running" ELSE "asleep"]
  /\ UNCHANGED <<counter, remaining, blocked, committed, aborted, awake, epoch, trNum>>

\* push_back without the else: an aborted transaction is in both vectors.
FinishedInBoth(t, ok) ==
  [committed |-> committed \cup {t},
   aborted   |-> aborted \cup {u \in {t} : ~ok}]

\* The two vectors once leave has pushed its caller.
Finished(t, ok) ==
  [committed |-> committed \cup {u \in {t} : ok},
   aborted   |-> aborted \cup {u \in {t} : ~ok}]

\* The set of the transactions parked in blocked.
Parked == {blocked[i] : i \in 1..Len(blocked)}

\* remaining of the next epoch, blocked.size().
RemainingForgotten == 0

RemainingLessOne == Len(blocked) - 1

NextRemaining == Len(blocked)

\* cv.notify_all, and what happens without it.
NotifyNobody(p) == p

NotifyAll(p) == IF p = "asleep" THEN "woken" ELSE p

\* leave by a transaction that is not the last of its epoch.
LeaveEarly(t, ok) ==
  /\ pc[t] = "running"
  /\ remaining # 1
  /\ remaining' = remaining - 1
  /\ committed' = Finished(t, ok).committed
  /\ aborted' = Finished(t, ok).aborted
  /\ pc' = [pc EXCEPT ![t] = "left"]
  /\ UNCHANGED <<counter, blocked, awake, epoch, trNum>>

\* leave by the last one: onEpochEnd empties both vectors, the next epoch is
\* made of the parked transactions, and all sleepers are notified.
LeaveLast(t, ok) ==
  /\ pc[t] = "running"
  /\ remaining = 1
  /\ committed' = {}
  /\ aborted' = {}
  /\ counter' = counter + 1
  /\ remaining' = NextRemaining
  /\ awake' = [u \in Tx |-> awake[u] \/ u \in Parked]
  /\ blocked' = << >>
  /\ pc' = [u \in Tx |-> IF u = t THEN "left" ELSE NotifyAll(pc[u])]
  /\ UNCHANGED <<epoch, trNum>>

Enter(t) == EnterFirst(t) \/ EnterBlocked(t)

Leave(t, ok) == LeaveEarly(t, ok) \/ LeaveLast(t, ok)

BatcherNext ==
  \E t \in Tx :
    \/ Enter(t)
    \/ SpuriousWake(t)
    \/ TestAwake(t)
    \/ \E ok \in BOOLEAN : Leave(t, ok)

BatcherSpec == BatcherInit /\ [][BatcherNext]_batcherVars

(***************************************************************************)
(* Fairness.  A thread that is out of cv.wait gets the mutex in the end    *)
(* (the mutex is never held across a wait), and a client that runs a       *)
(* transaction ends it (tm.hpp has no other way to leave one).  Beginning  *)
(* a transaction and waking up for no reason are never forced.             *)
(***************************************************************************)
BatcherFairness ==
  \A t \in Tx :
    /\ WF_batcherVars(TestAwake(t))
    /\ WF_batcherVars(\E ok \in BOOLEAN : Leave(t, ok))

FairBatcherSpec == BatcherSpec /\ BatcherFairness

-----------------------------------------------------------------------------

\* Every variable stays in its type.
BatcherTypeOK ==
  /\ counter \in Nat
  /\ remaining \in Nat
  /\ blocked \in Seq(Tx)
  /\ committed \subseteq Tx
  /\ aborted \subseteq Tx
  /\ awake \in [Tx -> BOOLEAN]
  /\ epoch \in [Tx -> Nat]
  /\ trNum \in [Tx -> Nat]
  /\ pc \in [Tx -> PC]

\* The transactions of the current epoch that have not left it.
Present == {t \in Tx : pc[t] \in {"asleep", "woken", "running"} /\ epoch[t] = counter}

\* remaining is exactly the number of transactions of the current epoch that
\* have not left: it can neither underflow (the DEBUG check at the top of
\* leave) nor keep an epoch open that nobody is in.
RemainingIsPresent == remaining = Cardinality(Present)

\* Epochs never overlap: whatever runs belongs to the current epoch, also
\* when threads of the epoch return from cv.wait late.
RunningInCurrentEpoch == \A t \in Tx : pc[t] = "running" => epoch[t] = counter

\* tr_num tells the transactions of one epoch apart; Word compares nothing
\* else to decide whether a word is the caller's own.
TrNumIdentifies ==
  \A t, u \in Tx :
    /\ pc[t] # "idle" /\ pc[u] # "idle" /\ t # u
    /\ epoch[t] = epoch[u]
    => trNum[t] # trNum[u]

\* The vectors that onEpochEnd walks hold just those of the current epoch that
\* have left, each in one of the two: nothing is committed in a later epoch,
\* forgotten, or both committed and aborted.
VectorsAreThisEpoch ==
  /\ committed \cup aborted = {t \in Tx : pc[t] = "left" /\ epoch[t] = counter}
  /\ committed \cap aborted = {}

\* No lost wake-up: a thread inside cv.wait has not been admitted, and a thread
\* that is parked for the next epoch is still in blocked.
NoLostWakeup ==
  \A t \in Tx :
    /\ pc[t] = "asleep" => ~awake[t] /\ t \in Parked
    /\ pc[t] = "woken" /\ ~awake[t] => t \in Parked

\* What a parked, a woken and a running thread know of the epochs: together
\* with the invariants above it is preserved by every step.
EpochsAndNumbers ==
  /\ RunningInCurrentEpoch
  /\ \A t \in Tx :
       pc[t] \in {"asleep", "woken"} =>
         \/ awake[t] /\ epoch[t] = counter /\ pc[t] = "woken"
         \/ ~awake[t] /\ epoch[t] = counter + 1 /\ t \in Parked
  /\ \A t \in Tx : pc[t] = "left" => epoch[t] <= counter
  /\ \A t \in Tx : pc[t] # "idle" => trNum[t] >= 1
  /\ \A i \in 1..Len(blocked) :
       /\ pc[blocked[i]] \in {"asleep", "woken"}
       /\ ~awake[blocked[i]]
       /\ trNum[blocked[i]] = i
  /\ remaining = 0 =>
       /\ blocked = << >>
       /\ \A t \in Tx : pc[t] # "idle" => epoch[t] < counter

\* The inductive invariant of the batcher.
BatcherInv ==
  /\ BatcherTypeOK
  /\ RemainingIsPresent
  /\ EpochsAndNumbers
  /\ TrNumIdentifies
  /\ VectorsAreThisEpoch

\* A transaction that begins after another one has left runs in a later epoch
\* (the real-time order that makes a finished commit visible to it).
BeginsAfterIsLater ==
  [][\A t, u \in Tx :
       pc[t] = "idle" /\ pc'[t] # "idle" /\ pc[u] = "left"
         => epoch[u] < epoch'[t]]_batcherVars

\* Whoever is parked is admitted in the end.
ParkedRuns == \A t \in Tx : pc[t] = "asleep" ~> pc[t] = "running"

\* The batcher implements the batches of EpochBatches, waking up included: the
\* batch that runs is made of those of the current epoch that have not left.
Batches == INSTANCE EpochBatches WITH
             current <- Present,
             pending <- Parked,
             done    <- {t \in Tx : pc[t] = "left"}

ImplementsBatches == Batches!Spec

=============================================================================
