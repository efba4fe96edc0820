----------------------------- MODULE SpinBarrier -----------------------------
(***************************************************************************)
(* The spinning barrier of grading/common.hpp (class Barrier).  A thread   *)
(* counts itself in and spins until the last one to come has switched the  *)
(* mode to leave; then it counts itself out and spins until the last one   *)
(* to go has switched the mode back to enter.  The same two atomics serve  *)
(* the next round, which a fast thread may begin while a slow one has not  *)
(* seen the end of this one.                                               *)
(*                                                                         *)
(* Each access to an atomic is a step.  The orderings let an access to     *)
(* step move before the thread's own store of mode just before it; all     *)
(* others wait for that store, so nobody can tell.                         *)
(***************************************************************************)
EXTENDS Integers, FiniteSets

CONSTANT Thread   \* the threads that synchronise, a finite set

VARIABLES
  step,     \* Barrier::step
  mode,     \* Barrier::mode
  place,    \* where each thread stands in sync
  passed    \* how often each thread has returned from sync

barrierVars == <<step, mode, place, passed>>

(***************************************************************************)
(* "out"      outside of sync                                              *)
(* "lastIn"   about to set the mode to leave                               *)
(* "in"       spins until the mode is leave                                *)
(* "leaving"  about to count itself out                                    *)
(* "lastOut"  about to set the mode to enter                               *)
(* "spin"     spins until the mode is enter                                *)
(***************************************************************************)
Places == {"out", "lastIn", "in", "leaving", "lastOut", "spin"}

Init ==
  /\ step = 0
  /\ mode = "enter"
  /\ place = [t \in Thread |-> "out"]
  /\ passed = [t \in Thread |-> 0]

Goto(t, p) == place' = [place EXCEPT ![t] = p]

\* Where a thread goes after step.fetch_add(1).
AfterEnter(t) == IF step + 1 = Cardinality(Thread) THEN "lastIn" ELSE "in"

Enter(t) ==
  /\ place[t] = "out"
  /\ step' = step + 1
  /\ Goto(t, AfterEnter(t))
  /\ UNCHANGED <<mode, passed>>

Open(t) ==
  /\ place[t] = "lastIn"
  /\ mode' = "leave"
  /\ Goto(t, "leaving")
  /\ UNCHANGED <<step, passed>>

SeeOpen(t) ==
  /\ place[t] = "in"
  /\ mode = "leave"
  /\ Goto(t, "leaving")
  /\ UNCHANGED <<step, mode, passed>>

\* Where a thread goes after step.fetch_sub(1): without the second wait, and
\* with it.
AfterLeaveAtOnce(t) == IF step - 1 = 0 THEN "lastOut" ELSE "out"

AfterLeave(t) == IF step - 1 = 0 THEN "lastOut" ELSE "spin"

\* A thread that is outside again has passed.
Passed(t, p) == [passed EXCEPT ![t] = IF p = "out" THEN @ + 1 ELSE @]

Leave(t) ==
  /\ place[t] = "leaving"
  /\ step' = step - 1
  /\ Goto(t, AfterLeave(t))
  /\ passed' = Passed(t, AfterLeave(t))
  /\ UNCHANGED mode

Close(t) ==
  /\ place[t] = "lastOut"
  /\ mode' = "enter"
  /\ Goto(t, "out")
  /\ passed' = Passed(t, "out")
  /\ UNCHANGED step

SeeClosed(t) ==
  /\ place[t] = "spin"
  /\ mode = "enter"
  /\ Goto(t, "out")
  /\ passed' = Passed(t, "out")
  /\ UNCHANGED <<step, mode>>

Sync(t) == Enter(t) \/ Open(t) \/ SeeOpen(t) \/ Leave(t) \/ Close(t) \/ SeeClosed(t)

Next == \E t \in Thread : Sync(t)

Spec == Init /\ [][Next]_barrierVars

-----------------------------------------------------------------------------

\* The barrier implements Rendezvous, in every round of its use.
Meeting == INSTANCE Rendezvous WITH
             come <- [t \in Thread |-> IF place[t] = "out" THEN passed[t] ELSE passed[t] + 1]

ImplementsRendezvous == Meeting!Spec

=============================================================================
