---------------------------- MODULE EpochBatches ----------------------------
(***************************************************************************)
(* What the thread batcher promises, without its counter, its vectors and  *)
(* its condition variable: transactions run in batches.  One that arrives  *)
(* while nobody runs starts a batch of its own, one that arrives later     *)
(* waits, and all that wait start together once the batch is over.         *)
(***************************************************************************)
CONSTANT Tx

VARIABLES
  current,           \* the batch that runs
  pending,           \* the batch that waits for it
  done               \* what has run

vars == <<current, pending, done>>

Init ==
  /\ current = {}
  /\ pending = {}
  /\ done = {}

Arrive(t) ==
  /\ t \notin current \cup pending \cup done
  /\ \/ current = {} /\ current' = {t} /\ pending' = pending
     \/ current # {} /\ pending' = pending \cup {t} /\ current' = current
  /\ UNCHANGED done

Depart(t) ==
  /\ t \in current
  /\ done' = done \cup {t}
  /\ \/ current # {t} /\ current' = current \ {t} /\ pending' = pending
     \/ current = {t} /\ current' = pending /\ pending' = {}

Next == \E t \in Tx : Arrive(t) \/ Depart(t)

Spec == Init /\ [][Next]_vars

=============================================================================
