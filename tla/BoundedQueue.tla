---------------------------- MODULE BoundedQueue ----------------------------
(***************************************************************************)
(* What a producer and a consumer promise: what is put is taken, whole and *)
(* in the same order, and never more than Size things wait.                *)
(***************************************************************************)
EXTENDS Integers, Sequences

CONSTANTS Data, Size

VARIABLES
  queue,    \* what has been put and not taken
  taken     \* what has been taken

Init == queue = << >> /\ taken = << >>

Put(d) ==
  /\ Len(queue) < Size
  /\ queue' = Append(queue, d)
  /\ UNCHANGED taken

Take ==
  /\ queue # << >>
  /\ taken' = Append(taken, Head(queue))
  /\ queue' = Tail(queue)

Next == Take \/ \E d \in Data : Put(d)

Spec == Init /\ [][Next]_<<queue, taken>>

=============================================================================
