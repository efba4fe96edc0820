-------------------------- MODULE ProducerConsumer --------------------------
(***************************************************************************)
(* The producer-consumer programs of sync-examples, in the three versions  *)
(* that their comments call correct: "lock" (procon2.c) polls with a lock, *)
(* "atomics" (procon3.c) polls two atomic counters, and "cond" (procon4.c) *)
(* waits on a condition variable that both threads share, and wakes after  *)
(* it has released the lock.                                               *)
(*                                                                         *)
(* Both threads count rounds from 0.  The data of a round are copied into  *)
(* and out of a slot of the buffer bit by bit: a slot that is being        *)
(* written is torn, and a copy of it is spoiled.  Random data are told     *)
(* apart by their round.  Atomics behave as if memory were sequentially    *)
(* consistent, which their orderings and the dependencies between the      *)
(* accesses are there for.                                                 *)
(***************************************************************************)
EXTENDS Integers, Sequences

CONSTANTS RUNS,         \* how many rounds
          BUFFER_SIZE   \* slots of the buffer

ASSUME ProducerConsumerAssumption == RUNS \in Nat \ {0} /\ BUFFER_SIZE \in Nat \ {0}

VARIABLES
  version,         \* which program runs; it never changes
  lock,            \* who holds the lock
  pc,              \* where each thread stands
  r,               \* the round of each thread
  buffer,
  produced_until, consumed_until,
  consumed         \* the copies that the consumer has made

threadVars == <<pc, r>>

vars == <<version, lock, threadVars, buffer, produced_until, consumed_until, consumed>>

Thread == {"producer", "consumer"}

Other(t) == IF t = "producer" THEN "consumer" ELSE "producer"

Nobody == "nobody"

Torn == -1

Data == 0..(RUNS - 1)

(***************************************************************************)
(* "acquire"  about to take the lock        "test"    about to look        *)
(* "asleep"   in lock_wait                  "retry"   has to look again    *)
(* "copy"     the data are copied           "count"   copied, not counted  *)
(* "release"  about to release the lock     "wake"    about to wake        *)
(* "done"                                                                  *)
(***************************************************************************)
PC == {"acquire", "test", "asleep", "retry", "copy", "copying", "count", "release", "wake", "done"}

Locked == version # "atomics"

\* Where a round begins.
Top == IF Locked THEN "acquire" ELSE "test"

Init ==
  /\ version \in {"lock", "atomics", "cond"}
  /\ lock = Nobody
  /\ pc = [t \in Thread |-> Top]
  /\ r = [t \in Thread |-> 0]
  /\ buffer = [s \in 0..(BUFFER_SIZE - 1) |-> Torn]
  /\ produced_until = 0
  /\ consumed_until = 0
  /\ consumed = << >>

Goto(t, p) == pc' = [pc EXCEPT ![t] = p]

Slot(t) == r[t] % BUFFER_SIZE

Acquire(t) ==
  /\ pc[t] = "acquire"
  /\ lock = Nobody
  /\ lock' = t
  /\ Goto(t, "test")
  /\ UNCHANGED <<version, r, buffer, produced_until, consumed_until, consumed>>

\* Room for round r, also with one slot too many, and data of round r.
RoomForOneMore(n) == consumed_until + BUFFER_SIZE >= n

Room(n) == consumed_until + BUFFER_SIZE > n

Filled(n) == produced_until > n

MayGoOn(t) == IF t = "producer" THEN Room(r[t]) ELSE Filled(r[t])

\* The loop test.  What a thread that has to wait does depends on the version.
Test(t) ==
  /\ pc[t] = "test"
  /\ \/ MayGoOn(t) /\ Goto(t, "copy") /\ UNCHANGED lock
     \/ ~MayGoOn(t) /\ version = "atomics" /\ UNCHANGED <<pc, lock>>
     \/ ~MayGoOn(t) /\ version = "lock" /\ Goto(t, "retry") /\ UNCHANGED lock
     \/ ~MayGoOn(t) /\ version = "cond" /\ Goto(t, "asleep") /\ lock' = Nobody
  /\ UNCHANGED <<version, r, buffer, produced_until, consumed_until, consumed>>

\* lock_release in the polling loop.
Retry(t) ==
  /\ pc[t] = "retry"
  /\ lock' = Nobody
  /\ Goto(t, "acquire")
  /\ UNCHANGED <<version, r, buffer, produced_until, consumed_until, consumed>>

\* pthread_cond_wait returns for no reason.
WakeSpuriously(t) ==
  /\ pc[t] = "asleep"
  /\ Goto(t, "acquire")
  /\ UNCHANGED <<version, lock, r, buffer, produced_until, consumed_until, consumed>>

\* The copy of the data begins and ends.
Copy(t) ==
  /\ pc[t] = "copy"
  /\ Goto(t, "copying")
  /\ \/ /\ t = "producer"
        /\ buffer' = [buffer EXCEPT ![Slot(t)] = Torn]
        /\ UNCHANGED consumed
     \/ /\ t = "consumer"
        /\ consumed' = Append(consumed, buffer[Slot(t)])
        /\ UNCHANGED buffer
  /\ UNCHANGED <<version, lock, r, produced_until, consumed_until>>

Copied(t) ==
  /\ pc[t] = "copying"
  /\ Goto(t, "count")
  /\ \/ /\ t = "producer"
        /\ buffer' = [buffer EXCEPT ![Slot(t)] = r[t]]
        /\ UNCHANGED consumed
     \/ /\ t = "consumer"
        /\ consumed' = [consumed EXCEPT ![r[t] + 1] = IF buffer[Slot(t)] = @ THEN @ ELSE Torn]
        /\ UNCHANGED buffer
  /\ UNCHANGED <<version, lock, r, produced_until, consumed_until>>

\* The next round, or the end of the thread.
EndRound(t) ==
  /\ r' = [r EXCEPT ![t] = @ + 1]
  /\ Goto(t, IF r[t] + 1 = RUNS THEN "done" ELSE Top)

Count(t) ==
  /\ pc[t] = "count"
  /\ \/ t = "producer" /\ produced_until' = produced_until + 1 /\ UNCHANGED consumed_until
     \/ t = "consumer" /\ consumed_until' = consumed_until + 1 /\ UNCHANGED produced_until
  /\ IF Locked THEN Goto(t, "release") /\ UNCHANGED r ELSE EndRound(t)
  /\ UNCHANGED <<version, lock, buffer, consumed>>

Release(t) ==
  /\ pc[t] = "release"
  /\ lock' = Nobody
  /\ IF version = "cond" THEN Goto(t, "wake") /\ UNCHANGED r ELSE EndRound(t)
  /\ UNCHANGED <<version, buffer, produced_until, consumed_until, consumed>>

\* Whom a broadcast by t wakes: nobody if only the producer did it.
WokenByProducer(t) == IF t = "producer" /\ pc["consumer"] = "asleep" THEN {"consumer"} ELSE {}

Woken(t) == {u \in Thread : pc[u] = "asleep"}

\* lock_wake_up, without the lock.
WakeUp(t) ==
  /\ pc[t] = "wake"
  /\ r' = [r EXCEPT ![t] = @ + 1]
  /\ pc' = [u \in Thread |->
              CASE u = t -> IF r[t] + 1 = RUNS THEN "done" ELSE Top
                [] u # t /\ u \in Woken(t) -> "acquire"
                [] OTHER -> pc[u]]
  /\ UNCHANGED <<version, lock, buffer, produced_until, consumed_until, consumed>>

Step(t) ==
  \/ Acquire(t) \/ Test(t) \/ Retry(t) \/ Copy(t) \/ Copied(t) \/ Count(t) \/ Release(t) \/ WakeUp(t)

Next == \E t \in Thread : Step(t) \/ WakeSpuriously(t)

(***************************************************************************)
(* Fairness.  Each thread is scheduled again and again, and a lock that is *)
(* free again and again is not kept from a thread for ever (main joins     *)
(* both threads, and the polling version relies on it).  Nobody is forced  *)
(* to wake up without a reason.                                            *)
(***************************************************************************)
Spec ==
  /\ Init /\ [][Next]_vars
  /\ \A t \in Thread : WF_vars(Step(t)) /\ SF_vars(Acquire(t))

-----------------------------------------------------------------------------

\* The three programs implement a bounded queue: what the buffer holds between
\* the two counters is whole and in order, and the consumer has got just that
\* ("Consumed the wrong data on round").
Queue == INSTANCE BoundedQueue WITH
           Size  <- BUFFER_SIZE,
           queue <- [k \in 1..(produced_until - consumed_until) |->
                       buffer[(consumed_until + k - 1) % BUFFER_SIZE]],
           taken <- SubSeq(consumed, 1, consumed_until)

ImplementsQueue == Queue!Spec

\* main joins both threads: no wake-up is lost that one of them needs.
BothEnd == <>(\A t \in Thread : pc[t] = "done")

=============================================================================
