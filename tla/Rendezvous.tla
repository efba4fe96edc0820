----------------------------- MODULE Rendezvous -----------------------------
(***************************************************************************)
(* What a barrier that is used again and again promises: a thread passes   *)
(* it for the n-th time only when all threads have come to it n times.     *)
(***************************************************************************)
EXTENDS Integers

CONSTANT Thread

VARIABLES
  come,     \* how often each thread has come to the barrier
  passed    \* how often it has passed it

vars == <<come, passed>>

Init ==
  /\ come = [t \in Thread |-> 0]
  /\ passed = [t \in Thread |-> 0]

Come(t) ==
  /\ come[t] = passed[t]
  /\ come' = [come EXCEPT ![t] = @ + 1]
  /\ UNCHANGED passed

Pass(t) ==
  /\ passed[t] < come[t]
  /\ \A u \in Thread : come[u] >= come[t]
  /\ passed' = [passed EXCEPT ![t] = @ + 1]
  /\ UNCHANGED come

Next == \E t \in Thread : Come(t) \/ Pass(t)

Spec == Init /\ [][Next]_vars

=============================================================================
