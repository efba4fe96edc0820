------------------------ MODULE ProducerConsumerProofs ------------------------
(***************************************************************************)
(* The three producer-consumer programs implement a bounded queue, for any *)
(* number of rounds and any size of the buffer.                            *)
(*                                                                         *)
(* The argument needs no lock: each counter is written by one thread only, *)
(* and the test before a round keeps the slot that is being written apart  *)
(* from those between the counters.  So the one invariant serves all three *)
(* versions, and shows that in procon3.c nothing is missing.               *)
(***************************************************************************)
EXTENDS ProducerConsumer, SequenceTheorems, TLAPS

TypeOK ==
  /\ version \in {"lock", "atomics", "cond"}
  /\ pc \in [Thread -> PC]
  /\ r \in [Thread -> Nat]
  /\ buffer \in [0..(BUFFER_SIZE - 1) -> Data \cup {Torn}]
  /\ produced_until \in Nat
  /\ consumed_until \in Nat
  /\ consumed \in Seq(Data \cup {Torn})

\* A thread is in the middle of the round that its counter says.
Working == {"copy", "copying", "count"}

\* The round of a thread whose counter is n.
InRound(t, n) ==
  /\ n = IF pc[t] \in {"release", "wake"} THEN r[t] + 1 ELSE r[t]
  /\ r[t] = RUNS <=> pc[t] = "done"
  /\ r[t] <= RUNS

CountersInv ==
  /\ InRound("producer", produced_until)
  /\ InRound("consumer", consumed_until)
  /\ consumed_until <= produced_until
  /\ produced_until <= consumed_until + BUFFER_SIZE
  /\ pc["producer"] \in Working => Room(r["producer"])
  /\ pc["consumer"] \in Working => Filled(r["consumer"])

\* The data between the counters are whole, and so is what was consumed.
DataInv ==
  /\ \A k \in consumed_until..(produced_until - 1) : buffer[k % BUFFER_SIZE] = k
  /\ pc["producer"] = "count" => buffer[produced_until % BUFFER_SIZE] = produced_until
  /\ Len(consumed) = IF pc["consumer"] \in {"copying", "count"} THEN consumed_until + 1 ELSE consumed_until
  /\ \A k \in 1..Len(consumed) : consumed[k] = k - 1

QueueInv == TypeOK /\ CountersInv /\ DataInv

-----------------------------------------------------------------------------

\* Rounds that are less than BUFFER_SIZE apart have slots of their own.
LEMMA SlotsDiffer ==
  ASSUME NEW i \in Nat, NEW j \in Nat, i < j, j < i + BUFFER_SIZE
  PROVE  i % BUFFER_SIZE # j % BUFFER_SIZE
<1> SUFFICES ASSUME i % BUFFER_SIZE = j % BUFFER_SIZE
             PROVE  FALSE
  OBVIOUS
<1> DEFINE laps == (j \div BUFFER_SIZE) - (i \div BUFFER_SIZE)
<1>1. /\ i = BUFFER_SIZE * (i \div BUFFER_SIZE) + (i % BUFFER_SIZE)
      /\ j = BUFFER_SIZE * (j \div BUFFER_SIZE) + (j % BUFFER_SIZE)
      /\ i \div BUFFER_SIZE \in Int /\ j \div BUFFER_SIZE \in Int /\ laps \in Int
      /\ i % BUFFER_SIZE \in Int
  BY ProducerConsumerAssumption
<1>2. BUFFER_SIZE * laps =
        BUFFER_SIZE * (j \div BUFFER_SIZE) - BUFFER_SIZE * (i \div BUFFER_SIZE)
  BY <1>1, ProducerConsumerAssumption
<1>3. BUFFER_SIZE * laps = j - i
  <2> HIDE DEF laps
  <2>1. BUFFER_SIZE * (i \div BUFFER_SIZE) \in Int /\ BUFFER_SIZE * (j \div BUFFER_SIZE) \in Int
    BY <1>1, ProducerConsumerAssumption
  <2> QED
    BY <1>1, <1>2, <2>1
<1> HIDE DEF laps
<1>4. CASE laps >= 1
  <2>1. BUFFER_SIZE * laps >= BUFFER_SIZE
    BY <1>1, <1>4, ProducerConsumerAssumption
  <2> QED
    BY <1>3, <2>1, ProducerConsumerAssumption
<1>5. CASE laps <= 0
  <2>1. BUFFER_SIZE * laps <= 0
    BY <1>1, <1>5, ProducerConsumerAssumption
  <2> QED
    BY <1>3, <2>1
<1> QED
  BY <1>1, <1>4, <1>5

LEMMA SlotInBuffer ==
  ASSUME NEW i \in Nat
  PROVE  i % BUFFER_SIZE \in 0..(BUFFER_SIZE - 1)
BY ProducerConsumerAssumption

LEMMA InitQueueInv == Init => QueueInv
<1> SUFFICES ASSUME Init
             PROVE  QueueInv
  OBVIOUS
<1>1. TypeOK
  BY DEF Init, TypeOK, Top, Locked, PC
<1>2. pc["producer"] \in {"acquire", "test"} /\ pc["consumer"] \in {"acquire", "test"}
  BY DEF Init, Top, Thread
<1>3. CountersInv
  BY <1>2, ProducerConsumerAssumption DEF Init, CountersInv, InRound, Thread, Working
<1>4. DataInv
  BY <1>2 DEF Init, DataInv
<1> QED
  BY <1>1, <1>3, <1>4 DEF QueueInv

\* Steps that only move threads, and none into, within or out of a round's work.
LEMMA ElsewhereInv ==
  ASSUME QueueInv, UNCHANGED <<version, r, buffer, produced_until, consumed_until, consumed>>,
         pc' \in [Thread -> PC],
         \A t \in Thread :
           \/ pc'[t] = pc[t]
           \/ {pc[t], pc'[t]} \cap (Working \cup {"release", "wake", "done"}) = {}
  PROVE  QueueInv'
<1>1. TypeOK'
  BY DEF QueueInv, TypeOK
<1>2. CountersInv'
  BY DEF QueueInv, CountersInv, InRound, Room, Filled, Working, Thread
<1>3. DataInv'
  BY DEF QueueInv, DataInv, Working, Thread
<1> QED
  BY <1>1, <1>2, <1>3 DEF QueueInv

\* The loop test: a thread begins to work on its round when the round may go on.
LEMMA TestInv ==
  ASSUME QueueInv, NEW t \in Thread, Test(t)
  PROVE  QueueInv'
<1>1. CASE MayGoOn(t) /\ Goto(t, "copy")
  <2>1. /\ pc[t] = "test" /\ pc'[t] = "copy" /\ pc' \in [Thread -> PC]
        /\ \A u \in Thread \ {t} : pc'[u] = pc[u]
        /\ UNCHANGED <<version, r, buffer, produced_until, consumed_until, consumed>>
    BY <1>1 DEF Test, Goto, QueueInv, TypeOK, PC
  <2>2. TypeOK'
    BY <2>1 DEF QueueInv, TypeOK
  <2>3. CountersInv'
    BY <1>1, <2>1 DEF QueueInv, CountersInv, InRound, Room, Filled, Working, Thread, MayGoOn
  <2>4. DataInv'
    BY <2>1 DEF QueueInv, DataInv, Thread
  <2> QED
    BY <2>2, <2>3, <2>4 DEF QueueInv
<1>2. CASE ~MayGoOn(t)
  <2>1. /\ pc[t] = "test" /\ pc'[t] \in {"test", "retry", "asleep"} /\ pc' \in [Thread -> PC]
        /\ \A u \in Thread \ {t} : pc'[u] = pc[u]
        /\ UNCHANGED <<version, r, buffer, produced_until, consumed_until, consumed>>
    BY <1>2 DEF Test, Goto, QueueInv, TypeOK, PC
  <2> QED
    BY <2>1, ElsewhereInv DEF Working
<1> QED
  BY <1>1, <1>2 DEF Test

\* The producer writes to a slot that is not between the counters.
LEMMA ProducerCopiesInv ==
  ASSUME QueueInv, NEW d \in Data \cup {Torn},
         \/ pc["producer"] = "copy" /\ pc'["producer"] = "copying"
         \/ pc["producer"] = "copying" /\ pc'["producer"] = "count" /\ d = r["producer"],
         pc'["consumer"] = pc["consumer"], pc' \in [Thread -> PC],
         buffer' = [buffer EXCEPT ![Slot("producer")] = d],
         UNCHANGED <<version, r, produced_until, consumed_until, consumed>>
  PROVE  QueueInv'
<1>1. /\ produced_until = r["producer"] /\ produced_until \in Nat /\ consumed_until \in Nat
      /\ produced_until < consumed_until + BUFFER_SIZE
  BY DEF QueueInv, TypeOK, CountersInv, InRound, Working, Room
<1>2. Slot("producer") = produced_until % BUFFER_SIZE
  BY <1>1 DEF Slot
<1>3. \A k \in consumed_until..(produced_until - 1) : buffer'[k % BUFFER_SIZE] = k
  <2> TAKE k \in consumed_until..(produced_until - 1)
  <2>0. k \in Nat /\ k < produced_until /\ produced_until < k + BUFFER_SIZE
    BY <1>1, ProducerConsumerAssumption
  <2>1. k % BUFFER_SIZE # produced_until % BUFFER_SIZE
    BY <1>1, <2>0, SlotsDiffer
  <2>2. k % BUFFER_SIZE \in 0..(BUFFER_SIZE - 1)
    BY <2>0, SlotInBuffer
  <2>3. buffer[k % BUFFER_SIZE] = k
    BY DEF QueueInv, DataInv
  <2> QED
    BY <1>2, <2>1, <2>2, <2>3 DEF QueueInv, TypeOK
<1>4. buffer'[produced_until % BUFFER_SIZE] = d
  BY <1>1, <1>2, SlotInBuffer DEF QueueInv, TypeOK
<1>5. TypeOK'
  BY DEF QueueInv, TypeOK
<1>6. CountersInv'
  BY DEF QueueInv, CountersInv, InRound, Room, Filled, Working
<1>7. DataInv'
  BY <1>1, <1>3, <1>4 DEF QueueInv, DataInv
<1> QED
  BY <1>5, <1>6, <1>7 DEF QueueInv

\* The slot that the consumer copies is whole from the first look to the last.
LEMMA ConsumerCopiesInv ==
  ASSUME QueueInv,
         \/ /\ pc["consumer"] = "copy" /\ pc'["consumer"] = "copying"
            /\ consumed' = Append(consumed, buffer[Slot("consumer")])
         \/ /\ pc["consumer"] = "copying" /\ pc'["consumer"] = "count"
            /\ consumed' = [consumed EXCEPT ![r["consumer"] + 1] =
                              IF buffer[Slot("consumer")] = @ THEN @ ELSE Torn],
         pc'["producer"] = pc["producer"], pc' \in [Thread -> PC],
         UNCHANGED <<version, r, buffer, produced_until, consumed_until>>
  PROVE  QueueInv'
<1>1. /\ consumed_until = r["consumer"] /\ produced_until \in Nat /\ consumed_until \in Nat
      /\ consumed_until < produced_until
      /\ consumed \in Seq(Data \cup {Torn})
  BY DEF QueueInv, TypeOK, CountersInv, InRound, Working, Filled
<1>2. /\ buffer[Slot("consumer")] = consumed_until
      /\ buffer[Slot("consumer")] \in Data \cup {Torn}
  <2>1. consumed_until \in consumed_until..(produced_until - 1)
    BY <1>1
  <2>2. consumed_until % BUFFER_SIZE \in 0..(BUFFER_SIZE - 1)
    BY <1>1, SlotInBuffer
  <2> QED
    BY <1>1, <2>1, <2>2 DEF QueueInv, DataInv, TypeOK, Slot
<1>3. /\ consumed' \in Seq(Data \cup {Torn}) /\ Len(consumed') = consumed_until + 1
      /\ \A k \in 1..Len(consumed') : consumed'[k] = k - 1
  <2>1. CASE pc["consumer"] = "copy"
    <3>1. Len(consumed) = consumed_until /\ consumed' = Append(consumed, consumed_until)
      BY <1>2, <2>1 DEF QueueInv, DataInv
    <3>2. consumed_until \in Data \cup {Torn}
      BY <1>2
    <3> QED
      BY <1>1, <3>1, <3>2 DEF QueueInv, DataInv
  <2>2. CASE pc["consumer"] = "copying"
    <3>1. Len(consumed) = consumed_until + 1 /\ consumed[consumed_until + 1] = consumed_until
      BY <1>1, <2>2 DEF QueueInv, DataInv
    <3>2. consumed' = [consumed EXCEPT ![consumed_until + 1] = consumed_until]
      BY <1>1, <1>2, <2>2, <3>1
    <3>3. consumed' = consumed
      BY <1>1, <3>1, <3>2
    <3> QED
      BY <1>1, <3>1, <3>3 DEF QueueInv, DataInv
  <2> QED
    BY <2>1, <2>2
<1>4. TypeOK'
  BY <1>3 DEF QueueInv, TypeOK
<1>5. CountersInv'
  BY DEF QueueInv, CountersInv, InRound, Room, Filled, Working
<1>6. DataInv'
  BY <1>3 DEF QueueInv, DataInv
<1> QED
  BY <1>4, <1>5, <1>6 DEF QueueInv


\* The producer counts its round: the datum of the round is whole by then.
LEMMA ProducerCountInv ==
  ASSUME QueueInv, Count("producer")
  PROVE  QueueInv'
<1>1. /\ pc["producer"] = "count" /\ pc' \in [Thread -> PC] /\ pc'["consumer"] = pc["consumer"]
      /\ r' \in [Thread -> Nat] /\ r'["consumer"] = r["consumer"]
      /\ produced_until' = produced_until + 1
      /\ UNCHANGED <<version, buffer, consumed_until, consumed>>
  BY DEF Count, EndRound, Goto, Top, QueueInv, TypeOK, PC, Thread
<1>2. \/ pc'["producer"] = "release" /\ r' = r
      \/ /\ r'["producer"] = r["producer"] + 1
         /\ pc'["producer"] = IF r["producer"] + 1 = RUNS THEN "done" ELSE Top
  BY DEF Count, EndRound, Goto, QueueInv, TypeOK, Thread
<1>3. /\ produced_until = r["producer"] /\ produced_until \in Nat /\ consumed_until \in Nat
      /\ consumed_until <= produced_until /\ produced_until < consumed_until + BUFFER_SIZE
      /\ produced_until < RUNS
  BY <1>1, ProducerConsumerAssumption
     DEF QueueInv, TypeOK, CountersInv, InRound, Working, Room
<1>4. TypeOK'
  BY <1>1, <1>3 DEF QueueInv, TypeOK
<1>5. InRound("producer", produced_until)'
  BY <1>1, <1>2, <1>3, ProducerConsumerAssumption DEF InRound, Top
<1>6. CountersInv'
  <2>1. pc'["producer"] \notin Working
    BY <1>2 DEF Working, Top
  <2>2. InRound("consumer", consumed_until)'
    BY <1>1 DEF QueueInv, CountersInv, InRound
  <2>3. pc'["consumer"] \in Working => Filled(r["consumer"])'
    BY <1>1, <1>3 DEF QueueInv, TypeOK, CountersInv, Filled, Thread
  <2> QED
    BY <1>1, <1>3, <1>5, <2>1, <2>2, <2>3, ProducerConsumerAssumption DEF CountersInv
<1>7. DataInv'
  <2>1. \A k \in consumed_until..produced_until : buffer[k % BUFFER_SIZE] = k
    BY <1>1, <1>3 DEF QueueInv, DataInv
  <2>2. pc'["producer"] # "count"
    BY <1>2 DEF Top
  <2> QED
    BY <1>1, <1>3, <2>1, <2>2 DEF QueueInv, DataInv
<1> QED
  BY <1>4, <1>6, <1>7 DEF QueueInv

\* The consumer counts its round, whose copy is whole by then.
LEMMA ConsumerCountInv ==
  ASSUME QueueInv, Count("consumer")
  PROVE  QueueInv'
<1>1. /\ pc["consumer"] = "count" /\ pc' \in [Thread -> PC] /\ pc'["producer"] = pc["producer"]
      /\ r' \in [Thread -> Nat] /\ r'["producer"] = r["producer"]
      /\ consumed_until' = consumed_until + 1
      /\ UNCHANGED <<version, buffer, produced_until, consumed>>
  BY DEF Count, EndRound, Goto, Top, QueueInv, TypeOK, PC, Thread
<1>2. \/ pc'["consumer"] = "release" /\ r' = r
      \/ /\ r'["consumer"] = r["consumer"] + 1
         /\ pc'["consumer"] = IF r["consumer"] + 1 = RUNS THEN "done" ELSE Top
  BY DEF Count, EndRound, Goto, QueueInv, TypeOK, Thread
<1>3. /\ consumed_until = r["consumer"] /\ produced_until \in Nat /\ consumed_until \in Nat
      /\ consumed_until < produced_until /\ produced_until <= consumed_until + BUFFER_SIZE
      /\ consumed_until < RUNS
  BY <1>1, ProducerConsumerAssumption
     DEF QueueInv, TypeOK, CountersInv, InRound, Working, Filled
<1>4. TypeOK'
  BY <1>1, <1>3 DEF QueueInv, TypeOK
<1>5. InRound("consumer", consumed_until)'
  BY <1>1, <1>2, <1>3, ProducerConsumerAssumption DEF InRound, Top
<1>6. CountersInv'
  <2>1. pc'["consumer"] \notin Working
    BY <1>2 DEF Working, Top
  <2>2. InRound("producer", produced_until)'
    BY <1>1 DEF QueueInv, CountersInv, InRound
  <2>3. pc'["producer"] \in Working => Room(r["producer"])'
    BY <1>1, <1>3, ProducerConsumerAssumption DEF QueueInv, TypeOK, CountersInv, Room, Thread
  <2> QED
    BY <1>1, <1>3, <1>5, <2>1, <2>2, <2>3, ProducerConsumerAssumption DEF CountersInv
<1>7. DataInv'
  <2>1. Len(consumed) = consumed_until + 1
    BY <1>1 DEF QueueInv, DataInv
  <2>2. pc'["consumer"] \notin {"copying", "count"}
    BY <1>2 DEF Top
  <2> QED
    BY <1>1, <1>3, <2>1, <2>2 DEF QueueInv, DataInv
<1> QED
  BY <1>4, <1>6, <1>7 DEF QueueInv

\* A thread that has counted its round begins the next one, or ends; it may
\* wake the other thread as it does.
LEMMA EndRoundInv ==
  ASSUME QueueInv, NEW t \in Thread, pc[t] \in {"release", "wake"},
         r' = [r EXCEPT ![t] = @ + 1],
         pc'[t] = IF r[t] + 1 = RUNS THEN "done" ELSE Top,
         pc' \in [Thread -> PC],
         \A u \in Thread \ {t} : pc'[u] = pc[u] \/ (pc[u] = "asleep" /\ pc'[u] = "acquire"),
         UNCHANGED <<version, buffer, produced_until, consumed_until, consumed>>
  PROVE  QueueInv'
<1>1. /\ r' \in [Thread -> Nat] /\ r'[t] = r[t] + 1
      /\ \A u \in Thread \ {t} : r'[u] = r[u]
  BY DEF QueueInv, TypeOK
<1>2. TypeOK'
  BY <1>1 DEF QueueInv, TypeOK
<1>3. /\ pc'[t] \notin {"release", "wake"}
      /\ r[t] < RUNS
      /\ r'[t] = RUNS <=> pc'[t] = "done"
  <2>1. r[t] \in Nat /\ r[t] <= RUNS /\ r[t] # RUNS
    BY DEF QueueInv, TypeOK, CountersInv, InRound, Thread
  <2> QED
    BY <1>1, <2>1, ProducerConsumerAssumption DEF Top
<1>4. InRound("producer", produced_until)' /\ InRound("consumer", consumed_until)'
  <2>1. ASSUME NEW u \in Thread, NEW n \in Nat, InRound(u, n)
        PROVE  /\ n = IF pc'[u] \in {"release", "wake"} THEN r'[u] + 1 ELSE r'[u]
               /\ r'[u] = RUNS <=> pc'[u] = "done"
               /\ r'[u] <= RUNS
    <3>1. CASE u = t
      <4>1. n = r[t] + 1
        BY <2>1, <3>1 DEF InRound
      <4> QED
        BY <1>1, <1>3, <3>1, <4>1, ProducerConsumerAssumption DEF QueueInv, TypeOK
    <3>2. CASE u # t
      <4>1. r'[u] = r[u]
        BY <1>1, <3>2
      <4>2. pc'[u] = pc[u] \/ (pc[u] = "asleep" /\ pc'[u] = "acquire")
        BY <3>2
      <4> QED
        BY <2>1, <4>1, <4>2 DEF InRound
    <3> QED
      BY <3>1, <3>2
  <2>2. InRound("producer", produced_until) /\ InRound("consumer", consumed_until)
    BY DEF QueueInv, CountersInv
  <2> QED
    BY <2>1, <2>2 DEF QueueInv, TypeOK, InRound, Thread
<1>5. \A u \in Thread \ {t} : /\ pc'[u] \in Working => pc[u] \in Working
                              /\ pc'[u] = "count" <=> pc[u] = "count"
                              /\ pc'[u] \in {"copying", "count"} <=> pc[u] \in {"copying", "count"}
  BY DEF Working
<1>6. pc'[t] \notin Working /\ pc[t] \notin Working
  BY DEF Working, Top
<1>7. CountersInv'
  BY <1>1, <1>4, <1>5, <1>6 DEF QueueInv, CountersInv, Room, Filled, Thread
<1>8. DataInv'
  BY <1>5, <1>6 DEF QueueInv, DataInv, Working, Thread
<1> QED
  BY <1>2, <1>7, <1>8 DEF QueueInv

LEMMA QueueInvStep ==
  ASSUME QueueInv, [Next]_vars
  PROVE  QueueInv'
<1>1. ASSUME NEW t \in Thread, Acquire(t)
      PROVE  QueueInv'
  BY <1>1, ElsewhereInv DEF Acquire, Goto, QueueInv, TypeOK, PC, Working
<1>2. ASSUME NEW t \in Thread, Test(t)
      PROVE  QueueInv'
  BY <1>2, TestInv
<1>3. ASSUME NEW t \in Thread, Retry(t)
      PROVE  QueueInv'
  BY <1>3, ElsewhereInv DEF Retry, Goto, QueueInv, TypeOK, PC, Working
<1>4. ASSUME NEW t \in Thread, WakeSpuriously(t)
      PROVE  QueueInv'
  BY <1>4, ElsewhereInv DEF WakeSpuriously, Goto, QueueInv, TypeOK, PC, Working
<1>5. ASSUME NEW t \in Thread, Copy(t)
      PROVE  QueueInv'
  <2>1. /\ pc' \in [Thread -> PC] /\ pc[t] = "copy" /\ pc'[t] = "copying"
        /\ \A u \in Thread \ {t} : pc'[u] = pc[u]
    BY <1>5 DEF Copy, Goto, QueueInv, TypeOK, PC
  <2>2. CASE t = "producer"
    BY <1>5, <2>1, <2>2, ProducerCopiesInv DEF Copy, Thread
  <2>3. CASE t = "consumer"
    BY <1>5, <2>1, <2>3, ConsumerCopiesInv DEF Copy, Thread
  <2> QED
    BY <2>2, <2>3 DEF Thread
<1>6. ASSUME NEW t \in Thread, Copied(t)
      PROVE  QueueInv'
  <2>1. /\ pc' \in [Thread -> PC] /\ pc[t] = "copying" /\ pc'[t] = "count"
        /\ \A u \in Thread \ {t} : pc'[u] = pc[u]
    BY <1>6 DEF Copied, Goto, QueueInv, TypeOK, PC
  <2>2. CASE t = "producer"
    <3>1. r["producer"] \in Data \cup {Torn}
      BY <2>1, <2>2, ProducerConsumerAssumption
         DEF QueueInv, TypeOK, CountersInv, InRound, Data, Thread
    <3> QED
      BY <1>6, <2>1, <2>2, <3>1, ProducerCopiesInv DEF Copied, Thread
  <2>3. CASE t = "consumer"
    BY <1>6, <2>1, <2>3, ConsumerCopiesInv DEF Copied, Thread
  <2> QED
    BY <2>2, <2>3 DEF Thread
<1>7. ASSUME NEW t \in Thread, Count(t)
      PROVE  QueueInv'
  BY <1>7, ProducerCountInv, ConsumerCountInv DEF Thread
<1>8. ASSUME NEW t \in Thread, Release(t)
      PROVE  QueueInv'
  <2>1. CASE version = "cond"
    <3>1. /\ pc[t] = "release" /\ pc'[t] = "wake" /\ pc' \in [Thread -> PC]
          /\ \A u \in Thread \ {t} : pc'[u] = pc[u]
          /\ UNCHANGED <<version, r, buffer, produced_until, consumed_until, consumed>>
      BY <1>8, <2>1 DEF Release, Goto, QueueInv, TypeOK, PC
    <3>2. TypeOK'
      BY <3>1 DEF QueueInv, TypeOK
    <3>3. CountersInv'
      BY <3>1 DEF QueueInv, CountersInv, InRound, Room, Filled, Working, Thread
    <3>4. DataInv'
      BY <3>1 DEF QueueInv, DataInv, Thread
    <3> QED
      BY <3>2, <3>3, <3>4 DEF QueueInv
  <2>2. CASE version # "cond"
    BY <1>8, <2>2, EndRoundInv DEF Release, EndRound, Goto, Top, QueueInv, TypeOK, PC
  <2> QED
    BY <2>1, <2>2
<1>9. ASSUME NEW t \in Thread, WakeUp(t)
      PROVE  QueueInv'
  <2>1. pc'[t] = IF r[t] + 1 = RUNS THEN "done" ELSE Top
    BY <1>9 DEF WakeUp
  <2>2. \A u \in Thread \ {t} : pc'[u] = IF u \in Woken(t) THEN "acquire" ELSE pc[u]
    BY <1>9 DEF WakeUp
  <2>3. \A u \in Thread \ {t} : pc'[u] = pc[u] \/ (pc[u] = "asleep" /\ pc'[u] = "acquire")
    BY <2>2 DEF Woken
  <2>4. pc' \in [Thread -> PC]
    <3>1. \A u \in Thread : pc'[u] \in PC
      BY <2>1, <2>3 DEF Top, QueueInv, TypeOK, PC
    <3> QED
      BY <1>9, <3>1 DEF WakeUp
  <2> QED
    BY <1>9, <2>1, <2>3, <2>4, EndRoundInv DEF WakeUp
<1>10. CASE UNCHANGED vars
  <2>1. TypeOK'
    BY <1>10 DEF QueueInv, TypeOK, vars, threadVars
  <2>2. CountersInv'
    BY <1>10 DEF QueueInv, CountersInv, InRound, Room, Filled, vars, threadVars
  <2>3. DataInv'
    BY <1>10 DEF QueueInv, DataInv, vars, threadVars
  <2> QED
    BY <2>1, <2>2, <2>3 DEF QueueInv
<1> QED
  BY <1>1, <1>2, <1>3, <1>4, <1>5, <1>6, <1>7, <1>8, <1>9, <1>10 DEF Next, Step

\* What was consumed is what was produced, in order, whatever the version.
THEOREM QueueInvariant == Spec => []QueueInv
<1>1. Init => QueueInv
  BY InitQueueInv
<1>2. QueueInv /\ [Next]_vars => QueueInv'
  BY QueueInvStep
<1> QED
  BY <1>1, <1>2, PTL DEF Spec

-----------------------------------------------------------------------------

\* The refinement: the buffer between the counters is the queue.

queueOf == [k \in 1..(produced_until - consumed_until) |->
              buffer[(consumed_until + k - 1) % BUFFER_SIZE]]

takenOf == SubSeq(consumed, 1, consumed_until)

\* What the mapped variables are, by the invariant.
Numbered ==
  /\ queueOf = [k \in 1..(produced_until - consumed_until) |-> consumed_until + k - 1]
  /\ takenOf = [k \in 1..consumed_until |-> k - 1]
  /\ consumed_until \in Nat /\ produced_until \in Nat /\ consumed_until <= produced_until
  /\ produced_until <= RUNS

LEMMA QueueIs == QueueInv => Numbered
<1> SUFFICES ASSUME QueueInv
             PROVE  Numbered
  OBVIOUS
<1>1. /\ consumed_until \in Nat /\ produced_until \in Nat /\ consumed_until <= produced_until
      /\ consumed \in Seq(Data \cup {Torn})
  BY DEF QueueInv, TypeOK, CountersInv
<1>2. \A k \in 1..(produced_until - consumed_until) :
        buffer[(consumed_until + k - 1) % BUFFER_SIZE] = consumed_until + k - 1
  <2> TAKE k \in 1..(produced_until - consumed_until)
  <2>1. consumed_until + k - 1 \in consumed_until..(produced_until - 1)
    BY <1>1
  <2> QED
    BY <2>1 DEF QueueInv, DataInv
<1>3. Len(consumed) >= consumed_until /\ \A k \in 1..consumed_until : consumed[k] = k - 1
  BY <1>1 DEF QueueInv, DataInv
<1>4. takenOf = [k \in 1..consumed_until |-> k - 1]
  <2>1. takenOf = [k \in 1..consumed_until |-> consumed[k]]
    BY <1>1, <1>3 DEF takenOf
  <2> QED
    BY <1>3, <2>1
<1>5. produced_until <= RUNS
  BY ProducerConsumerAssumption DEF QueueInv, TypeOK, CountersInv, InRound, Thread
<1> QED
  BY <1>1, <1>2, <1>4, <1>5 DEF queueOf, Numbered

\* Counting a produced datum puts it.
LEMMA ProducerPuts ==
  ASSUME QueueInv, Numbered, Numbered', Count("producer")
  PROVE  /\ Len(queueOf) < BUFFER_SIZE
         /\ produced_until \in Data
         /\ queueOf' = Append(queueOf, produced_until)
         /\ takenOf' = takenOf
<1>1. /\ produced_until' = produced_until + 1 /\ consumed_until' = consumed_until /\ consumed' = consumed
      /\ pc["producer"] = "count"
  BY DEF Count
<1>2. queueOf = [k \in 1..(produced_until - consumed_until) |-> consumed_until + k - 1]
      /\ consumed_until \in Nat /\ produced_until \in Nat /\ consumed_until <= produced_until
  BY DEF Numbered
<1>3. queueOf' = [k \in 1..(produced_until + 1 - consumed_until) |-> consumed_until + k - 1]
      /\ produced_until' <= RUNS
  <2>1. queueOf' = [k \in 1..(produced_until' - consumed_until') |-> consumed_until' + k - 1]
        /\ produced_until' <= RUNS
    BY DEF Numbered
  <2> QED
    BY <1>1, <1>2, <2>1
<1>4. produced_until < consumed_until + BUFFER_SIZE
  BY <1>1 DEF QueueInv, CountersInv, InRound, Working, Room
<1>5. queueOf \in Seq(Int) /\ Len(queueOf) = produced_until - consumed_until
  BY <1>2
<1>6. queueOf' = Append(queueOf, produced_until)
  BY <1>2, <1>3, <1>5
<1> QED
  BY <1>1, <1>2, <1>3, <1>4, <1>5, <1>6, ProducerConsumerAssumption DEF takenOf, Data

\* Counting a consumed datum takes it.
LEMMA ConsumerTakes ==
  ASSUME QueueInv, Numbered, Numbered', Count("consumer")
  PROVE  /\ queueOf # << >>
         /\ takenOf' = Append(takenOf, Head(queueOf))
         /\ queueOf' = Tail(queueOf)
<1>1. /\ consumed_until' = consumed_until + 1 /\ produced_until' = produced_until
      /\ pc["consumer"] = "count"
  BY DEF Count
<1>2. queueOf = [k \in 1..(produced_until - consumed_until) |-> consumed_until + k - 1]
      /\ takenOf = [k \in 1..consumed_until |-> k - 1]
      /\ consumed_until \in Nat /\ produced_until \in Nat
  BY DEF Numbered
<1>3. queueOf' = [k \in 1..(produced_until - consumed_until - 1) |-> consumed_until + k]
      /\ takenOf' = [k \in 1..(consumed_until + 1) |-> k - 1]
  <2>1. queueOf' = [k \in 1..(produced_until' - consumed_until') |-> consumed_until' + k - 1]
        /\ takenOf' = [k \in 1..consumed_until' |-> k - 1]
    BY DEF Numbered
  <2> QED
    BY <1>1, <1>2, <2>1
<1>4. consumed_until < produced_until
  BY <1>1 DEF QueueInv, CountersInv, InRound, Working, Filled
<1>5. /\ queueOf \in Seq(Int) /\ Len(queueOf) = produced_until - consumed_until
      /\ takenOf \in Seq(Int) /\ Len(takenOf) = consumed_until
  BY <1>2, <1>4
<1>6. queueOf # << >> /\ Head(queueOf) = consumed_until
  <2>1. queueOf # << >>
    BY <1>2, <1>4, <1>5
  <2>2. queueOf[1] = consumed_until
    BY <1>2, <1>4
  <2>3. Head(queueOf) = queueOf[1]
    BY DEF Head
  <2> QED
    BY <2>1, <2>2, <2>3
<1>7. queueOf' = Tail(queueOf)
  <2>1. /\ Tail(queueOf) \in Seq(Int)
        /\ Len(Tail(queueOf)) = produced_until - consumed_until - 1
        /\ \A k \in 1..(produced_until - consumed_until - 1) : Tail(queueOf)[k] = queueOf[k + 1]
    BY <1>5, <1>6, HeadTailProperties
  <2>2. \A k \in 1..(produced_until - consumed_until - 1) : queueOf[k + 1] = consumed_until + k
    BY <1>2
  <2>3. queueOf' \in Seq(Int) /\ Len(queueOf') = produced_until - consumed_until - 1
    BY <1>2, <1>3, <1>4
  <2>4. \A k \in 1..(produced_until - consumed_until - 1) : queueOf'[k] = consumed_until + k
    BY <1>3
  <2> QED
    BY <2>1, <2>2, <2>3, <2>4, SeqEqual
<1>8. takenOf' = Append(takenOf, consumed_until)
  BY <1>2, <1>3, <1>5
<1> QED
  BY <1>6, <1>7, <1>8

\* Every step puts, takes, or leaves the queue as it is.
LEMMA QueueStep ==
  ASSUME QueueInv, Numbered, Numbered', [Next]_vars
  PROVE  [Queue!Next]_<<queueOf, takenOf>>
<1>1. CASE Count("producer")
  <2>1. /\ Len(queueOf) < BUFFER_SIZE
        /\ produced_until \in Data
        /\ queueOf' = Append(queueOf, produced_until)
        /\ takenOf' = takenOf
    BY <1>1, ProducerPuts
  <2>2. PICK d \in Data : d = produced_until
    BY <2>1
  <2>3. Queue!Put(d)
    BY <2>1, <2>2 DEF Queue!Put, queueOf, takenOf
  <2> QED
    BY <2>3 DEF Queue!Next
<1>2. CASE Count("consumer")
  <2>1. Queue!Take
    BY <1>2, ConsumerTakes DEF Queue!Take, queueOf, takenOf
  <2> QED
    BY <2>1 DEF Queue!Next
<1>3. CASE UNCHANGED <<produced_until, consumed_until>>
  <2>1. queueOf' = queueOf
    <3>1. queueOf' = [k \in 1..(produced_until' - consumed_until') |-> consumed_until' + k - 1]
      BY DEF Numbered
    <3> QED
      BY <1>3, <3>1 DEF Numbered
  <2>2. takenOf' = takenOf
    <3>1. takenOf' = [k \in 1..consumed_until' |-> k - 1]
      BY DEF Numbered
    <3> QED
      BY <1>3, <3>1 DEF Numbered
  <2> QED
    BY <2>1, <2>2
<1>4. ASSUME NEW t \in Thread, Step(t) \/ WakeSpuriously(t), ~Count(t)
      PROVE  UNCHANGED <<produced_until, consumed_until>>
  BY <1>4 DEF Step, WakeSpuriously, Acquire, Test, Retry, Copy, Copied, Release, WakeUp
<1>5. UNCHANGED vars => UNCHANGED <<produced_until, consumed_until>>
  BY DEF vars
<1> QED
  BY <1>1, <1>2, <1>3, <1>4, <1>5 DEF Next, Thread

\* The three programs are a bounded queue: what is put between the counters is
\* taken whole and in order, and no more than BUFFER_SIZE data wait
\* ("Consumed the wrong data on round" is never printed).
THEOREM ProducerConsumerRefinement == Spec => ImplementsQueue
<1>1. Init => Queue!Init
  <2> SUFFICES ASSUME Init
               PROVE  Queue!Init
    OBVIOUS
  <2>1. Numbered
    BY InitQueueInv, QueueIs
  <2>2. queueOf = << >> /\ takenOf = << >>
    BY <2>1 DEF Numbered, Init
  <2> QED
    BY <2>2 DEF Queue!Init, queueOf, takenOf
<1>2. QueueInv /\ Numbered /\ Numbered' /\ [Next]_vars => [Queue!Next]_<<queueOf, takenOf>>
  BY QueueStep
<1>3. QueueInv /\ Numbered /\ Numbered' /\ [Next]_vars =>
        [Queue!Next]_<<[k \in 1..(produced_until - consumed_until) |->
                          buffer[(consumed_until + k - 1) % BUFFER_SIZE]],
                       SubSeq(consumed, 1, consumed_until)>>
  BY <1>2 DEF queueOf, takenOf
<1> QED
  BY <1>1, <1>3, QueueInvariant, QueueIs, PTL DEF Spec, ImplementsQueue, Queue!Spec

=============================================================================
