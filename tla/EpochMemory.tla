----------------------------- MODULE EpochMemory -----------------------------
(***************************************************************************)
(* What the STM promises to the transactions of a batch.  They all read    *)
(* the memory as it was when the batch began and their own writes, write   *)
(* into logs of their own that never overlap, and the logs of those that   *)
(* committed reach the memory together, when the last one has departed.    *)
(* Nothing is left of those that aborted.                                  *)
(***************************************************************************)
CONSTANTS Tx, Words, Value, InitVal

VARIABLES
  current, pending, done,   \* the batches, see EpochBatches
  mem,                      \* the memory the transactions of the batch see
  log,                      \* what each of them has written, word by word
  committed,                \* those of the batch that have committed
  target                    \* what each transaction read last

memoryVars == <<mem, log, committed, target>>

batchVars == <<current, pending, done>>

Batches == INSTANCE EpochBatches

NoLog == [w \in {} |-> InitVal]

Init ==
  /\ Batches!Init
  /\ mem = [w \in Words |-> InitVal]
  /\ log = [t \in Tx |-> NoLog]
  /\ committed = {}
  /\ target = [t \in Tx |-> InitVal]

Arrive(t) == Batches!Arrive(t) /\ UNCHANGED memoryVars

Read(t, w) ==
  /\ t \in current
  /\ target' = [target EXCEPT ![t] = IF w \in DOMAIN log[t] THEN log[t][w] ELSE mem[w]]
  /\ UNCHANGED <<batchVars, mem, log, committed>>

Write(t, w, v) ==
  /\ t \in current
  /\ \A u \in Tx \ {t} : w \notin DOMAIN log[u]
  /\ log' = [log EXCEPT ![t] = [x \in DOMAIN @ \cup {w} |-> IF x = w THEN v ELSE @[x]]]
  /\ UNCHANGED <<batchVars, mem, committed, target>>

\* The memory with the logs of the transactions in C.
WithLogs(C) ==
  [w \in Words |->
     IF \E u \in C : w \in DOMAIN log[u]
     THEN log[CHOOSE u \in C : w \in DOMAIN log[u]][w]
     ELSE mem[w]]

Depart(t, C) ==
  /\ Batches!Depart(t)
  /\ \/ current # {t} /\ committed' = C /\ UNCHANGED <<mem, log>>
     \/ /\ current = {t}
        /\ mem' = WithLogs(C)
        /\ log' = [u \in Tx |-> NoLog]
        /\ committed' = {}
  /\ UNCHANGED target

Next ==
  \E t \in Tx :
    \/ Arrive(t)
    \/ \E w \in Words : Read(t, w)
    \/ \E w \in Words, v \in Value : Write(t, w, v)
    \/ \E C \in {committed, committed \cup {t}} : Depart(t, C)

Spec == Init /\ [][Next]_<<batchVars, memoryVars>>

=============================================================================
