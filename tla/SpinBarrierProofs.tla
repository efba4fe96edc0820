-------------------------- MODULE SpinBarrierProofs --------------------------
(***************************************************************************)
(* The spinning barrier implements Rendezvous for any finite set of        *)
(* threads.                                                                *)
(*                                                                         *)
(* BarrierInv is inductive.  The counter alone would not do: it says       *)
(* nothing of the threads that have counted themselves out and have not    *)
(* seen the end of the round.  Phases says that those are the only ones of *)
(* the last round that may be left when the next one begins, and that the  *)
(* one who switches the mode is alone; Lockstep, that the rounds of the    *)
(* threads differ by the one round such a thread is behind.                *)
(***************************************************************************)
EXTENDS SpinBarrier, FiniteSetTheorems, TLAPS

BarrierTypeOK ==
  /\ step \in Nat
  /\ mode \in {"enter", "leave"}
  /\ place \in [Thread -> Places]
  /\ passed \in [Thread -> Nat]

\* The threads that step counts.
Counted == {t \in Thread : place[t] \in {"lastIn", "in", "leaving"}}

CountsInside == step = Cardinality(Counted)

\* Where the threads stand in each mode; the last one to come, and the last one
\* to go, is one.
Phases ==
  /\ mode = "enter" => \A t \in Thread : place[t] \in {"out", "spin", "in", "lastIn"}
  /\ mode = "leave" => \A t \in Thread : place[t] \in {"in", "leaving", "spin", "lastOut"}
  /\ \A t \in Thread : place[t] = "lastIn"  => step = Cardinality(Thread)
  /\ \A t \in Thread : place[t] = "lastOut" => step = 0
  /\ \A t, u \in Thread : place[t] \in {"lastIn", "lastOut"} /\ place[u] = place[t] => t = u

\* The round a thread is in or would enter: one that spins has passed, in all
\* but name, when the mode is enter again.
Round(t) == IF mode = "enter" /\ place[t] = "spin" THEN passed[t] + 1 ELSE passed[t]

Lockstep == \A t, u \in Thread : Round(t) = Round(u)

BarrierInv == BarrierTypeOK /\ CountsInside /\ Phases /\ Lockstep

-----------------------------------------------------------------------------

LEMMA CountedFinite ==
  ASSUME IsFiniteSet(Thread)
  PROVE  /\ IsFiniteSet(Counted)
         /\ Cardinality(Counted) \in Nat
         /\ Cardinality(Counted) = Cardinality(Thread) => Counted = Thread
         /\ Cardinality(Counted) = 0 => Counted = {}
BY FS_Subset, FS_CardinalityType, FS_EmptySet DEF Counted

LEMMA InitInv == ASSUME IsFiniteSet(Thread), Init PROVE BarrierInv
<1>1. BarrierTypeOK
  BY DEF Init, BarrierTypeOK, Places
<1>2. CountsInside
  <2>1. Counted = {}
    BY DEF Init, Counted
  <2> QED
    BY <2>1, FS_EmptySet DEF Init, CountsInside
<1>3. Phases /\ Lockstep
  BY DEF Init, Phases, Lockstep, Round
<1> QED
  BY <1>1, <1>2, <1>3 DEF BarrierInv

\* A thread counts itself in.
LEMMA EnterInv ==
  ASSUME IsFiniteSet(Thread), BarrierInv, NEW t \in Thread, Enter(t)
  PROVE  BarrierInv'
<1> USE DEF BarrierInv, Goto
<1>0. /\ AfterEnter(t) \in {"in", "lastIn"}
      /\ AfterEnter(t) = "lastIn" => step' = Cardinality(Thread)
  BY DEF AfterEnter, Enter
<1>1. BarrierTypeOK'
  <2>1. place' \in [Thread -> Places]
    BY <1>0 DEF BarrierTypeOK, Enter, Places
  <2> QED
    BY <2>1 DEF BarrierTypeOK, Enter
<1>2. mode = "enter"
  BY DEF BarrierTypeOK, Phases, Enter
<1>3. CountsInside'
  <2>1. Counted' = Counted \cup {t} /\ t \notin Counted
    BY <1>0 DEF BarrierTypeOK, Enter, Counted
  <2> QED
    BY <2>1, CountedFinite, FS_AddElement DEF CountsInside, Enter
<1>4. ~ \E u \in Thread : place[u] = "lastIn"
  <2> SUFFICES ASSUME NEW u \in Thread, place[u] = "lastIn" PROVE FALSE
    OBVIOUS
  <2>1. Counted = Thread
    BY CountedFinite DEF CountsInside, Phases
  <2> QED
    BY <2>1 DEF Counted, Enter
<1>5. Phases'
  BY <1>0, <1>2, <1>4 DEF Phases, Enter, BarrierTypeOK
<1>6. Lockstep'
  BY <1>0, <1>2 DEF Lockstep, Round, Enter, BarrierTypeOK
<1> QED
  BY <1>1, <1>3, <1>5, <1>6

\* The last thread to come is inside with all the others.
LEMMA AllInside ==
  ASSUME IsFiniteSet(Thread), BarrierInv, NEW t \in Thread, place[t] = "lastIn"
  PROVE  \A u \in Thread : place[u] \in {"in", "lastIn"} /\ (u # t => place[u] = "in")
<1>1. Counted = Thread
  BY CountedFinite DEF BarrierInv, CountsInside, Phases
<1>2. mode = "enter"
  BY DEF BarrierInv, BarrierTypeOK, Phases
<1> QED
  BY <1>1, <1>2 DEF BarrierInv, Phases, Counted

LEMMA OpenInv ==
  ASSUME IsFiniteSet(Thread), BarrierInv, NEW t \in Thread, Open(t)
  PROVE  BarrierInv'
<1> USE DEF BarrierInv, Goto
<1>1. BarrierTypeOK'
  BY DEF BarrierTypeOK, Open, Places
<1>2. CountsInside'
  <2>1. Counted' = Counted
    BY DEF BarrierTypeOK, Open, Counted
  <2> QED
    BY <2>1 DEF CountsInside, Open
<1>3. \A u \in Thread : place[u] \in {"in", "lastIn"} /\ (u # t => place[u] = "in")
  BY AllInside DEF Open
<1>4. Phases'
  BY <1>3 DEF Phases, Open, BarrierTypeOK
<1>5. Lockstep'
  BY <1>3 DEF Lockstep, Round, Open, BarrierTypeOK
<1> QED
  BY <1>1, <1>2, <1>4, <1>5

LEMMA SeeOpenInv ==
  ASSUME BarrierInv, NEW t \in Thread, SeeOpen(t)
  PROVE  BarrierInv'
<1> USE DEF BarrierInv, Goto
<1>1. BarrierTypeOK'
  BY DEF BarrierTypeOK, SeeOpen, Places
<1>2. CountsInside'
  <2>1. Counted' = Counted
    BY DEF BarrierTypeOK, SeeOpen, Counted
  <2> QED
    BY <2>1 DEF CountsInside, SeeOpen
<1>3. Phases'
  BY DEF Phases, SeeOpen, BarrierTypeOK
<1>4. Lockstep'
  BY DEF Lockstep, Round, SeeOpen, BarrierTypeOK
<1> QED
  BY <1>1, <1>2, <1>3, <1>4

\* A thread counts itself out; nobody has passed yet.
LEMMA LeaveInv ==
  ASSUME IsFiniteSet(Thread), BarrierInv, NEW t \in Thread, Leave(t)
  PROVE  BarrierInv' /\ passed' = passed
<1> USE DEF BarrierInv, Goto
<1>1. step = Cardinality(Counted) /\ t \in Counted /\ step # 0
  <2>1. t \in Counted
    BY DEF Counted, Leave
  <2> QED
    BY <2>1, CountedFinite DEF CountsInside
<1>2. mode = "leave" /\ ~ \E u \in Thread : place[u] \in {"lastIn", "lastOut"}
  <2>1. place[t] = "leaving"
    BY DEF Leave
  <2> QED
    BY <1>1, <2>1 DEF Phases, BarrierTypeOK
<1>3. passed' = passed
  BY DEF Leave, Passed, AfterLeave, BarrierTypeOK
<1>4. BarrierTypeOK'
  <2>1. AfterLeave(t) \in Places
    BY DEF AfterLeave, Places
  <2>2. place' = [place EXCEPT ![t] = AfterLeave(t)] /\ step' = step - 1 /\ mode' = mode
    BY DEF Leave
  <2>3. place' \in [Thread -> Places]
    BY <2>1, <2>2 DEF BarrierTypeOK
  <2> QED
    BY <1>1, <1>3, <2>2, <2>3 DEF BarrierTypeOK
<1>5. CountsInside'
  <2>1. Counted' = Counted \ {t}
    BY DEF BarrierTypeOK, Leave, AfterLeave, Counted
  <2> QED
    BY <1>1, <2>1, CountedFinite, FS_RemoveElement DEF CountsInside, Leave
<1>6. Phases'
  BY <1>2 DEF Phases, Leave, AfterLeave, BarrierTypeOK
<1>7. Lockstep'
  BY <1>2, <1>3 DEF Lockstep, Round, Leave, AfterLeave, BarrierTypeOK
<1> QED
  BY <1>3, <1>4, <1>5, <1>6, <1>7

\* The last thread to go leaves the others spinning.
LEMMA AllSpin ==
  ASSUME IsFiniteSet(Thread), BarrierInv, NEW t \in Thread, place[t] = "lastOut"
  PROVE  mode = "leave" /\ \A u \in Thread : u # t => place[u] = "spin"
<1>1. mode = "leave" /\ step = 0
  BY DEF BarrierInv, BarrierTypeOK, Phases
<1>2. Counted = {}
  BY <1>1, CountedFinite DEF BarrierInv, CountsInside
<1> QED
  BY <1>1, <1>2 DEF BarrierInv, Phases, Counted

LEMMA CloseInv ==
  ASSUME IsFiniteSet(Thread), BarrierInv, NEW t \in Thread, Close(t)
  PROVE  BarrierInv'
<1> USE DEF BarrierInv, Goto
<1>1. BarrierTypeOK'
  <2>1. passed' = [passed EXCEPT ![t] = passed[t] + 1]
    BY DEF BarrierTypeOK, Close, Passed
  <2>2. place' = [place EXCEPT ![t] = "out"] /\ step' = step /\ mode' = "enter"
    BY DEF Close
  <2>3. place' \in [Thread -> Places]
    BY <2>2 DEF BarrierTypeOK, Places
  <2>4. passed' \in [Thread -> Nat]
    BY <2>1 DEF BarrierTypeOK
  <2> QED
    BY <2>2, <2>3, <2>4 DEF BarrierTypeOK
<1>2. CountsInside'
  <2>1. Counted' = Counted
    BY DEF BarrierTypeOK, Close, Counted
  <2> QED
    BY <2>1 DEF CountsInside, Close
<1>3. mode = "leave" /\ \A u \in Thread : u # t => place[u] = "spin"
  BY AllSpin DEF Close
<1>4. Phases'
  BY <1>3 DEF Phases, Close, BarrierTypeOK
<1>5. Lockstep'
  BY <1>3 DEF Lockstep, Round, Close, Passed, BarrierTypeOK
<1> QED
  BY <1>1, <1>2, <1>4, <1>5

LEMMA SeeClosedInv ==
  ASSUME BarrierInv, NEW t \in Thread, SeeClosed(t)
  PROVE  BarrierInv'
<1> USE DEF BarrierInv, Goto
<1>1. BarrierTypeOK'
  <2>1. passed' = [passed EXCEPT ![t] = passed[t] + 1]
    BY DEF BarrierTypeOK, SeeClosed, Passed
  <2>2. place' = [place EXCEPT ![t] = "out"] /\ step' = step /\ mode' = "enter"
    BY DEF SeeClosed
  <2>3. place' \in [Thread -> Places]
    BY <2>2 DEF BarrierTypeOK, Places
  <2>4. passed' \in [Thread -> Nat]
    BY <2>1 DEF BarrierTypeOK
  <2> QED
    BY <2>2, <2>3, <2>4 DEF BarrierTypeOK
<1>2. CountsInside'
  <2>1. Counted' = Counted
    BY DEF BarrierTypeOK, SeeClosed, Counted
  <2> QED
    BY <2>1 DEF CountsInside, SeeClosed
<1>3. Phases'
  BY DEF Phases, SeeClosed, BarrierTypeOK
<1>4. Lockstep'
  BY DEF Lockstep, Round, SeeClosed, Passed, BarrierTypeOK
<1> QED
  BY <1>1, <1>2, <1>3, <1>4

LEMMA SyncInv ==
  ASSUME IsFiniteSet(Thread), BarrierInv, NEW t \in Thread, Sync(t)
  PROVE  BarrierInv'
BY EnterInv, OpenInv, SeeOpenInv, LeaveInv, CloseInv, SeeClosedInv DEF Sync

LEMMA UnchangedInv == ASSUME BarrierInv, UNCHANGED barrierVars PROVE BarrierInv'
BY DEF barrierVars, BarrierInv, BarrierTypeOK, CountsInside, Counted, Phases, Lockstep, Round

\* The barrier keeps its invariant in every round.
THEOREM BarrierInvariant == ASSUME IsFiniteSet(Thread) PROVE Spec => []BarrierInv
<1>1. Init => BarrierInv
  BY InitInv
<1>2. BarrierInv /\ [Next]_barrierVars => BarrierInv'
  <2> SUFFICES ASSUME BarrierInv, [Next]_barrierVars PROVE BarrierInv'
    OBVIOUS
  <2>1. CASE Next
    BY <2>1, SyncInv DEF Next
  <2>2. CASE UNCHANGED barrierVars
    BY <2>2, UnchangedInv
  <2> QED
    BY <2>1, <2>2
<1> QED
  BY <1>1, <1>2, PTL DEF Spec

-----------------------------------------------------------------------------

\* The abstract count of arrivals.
Arrivals == [t \in Thread |-> IF place[t] = "out" THEN passed[t] ELSE passed[t] + 1]

LEMMA ArrivalsKept ==
  ASSUME passed' = passed,
         \A u \in Thread : place'[u] = "out" <=> place[u] = "out"
  PROVE  Arrivals' = Arrivals
BY DEF Arrivals

LEMMA EnterComes ==
  ASSUME BarrierTypeOK, NEW t \in Thread, Enter(t)
  PROVE  Meeting!Come(t)
<1>1. place' = [place EXCEPT ![t] = AfterEnter(t)] /\ passed' = passed /\ place[t] = "out"
  BY DEF Enter, Goto
<1>2. AfterEnter(t) # "out"
  BY DEF AfterEnter
<1>3. Arrivals' = [Arrivals EXCEPT ![t] = @ + 1]
  BY <1>1, <1>2 DEF Arrivals, BarrierTypeOK
<1>4. Arrivals[t] = passed[t]
  BY <1>1 DEF Arrivals
<1> QED
  BY <1>1, <1>3, <1>4 DEF Meeting!Come, Arrivals

\* A thread that comes out of sync has waited for the arrival of all.
LEMMA OutPasses ==
  ASSUME BarrierInv, NEW t \in Thread,
         place[t] # "out",
         \A u \in Thread : Arrivals[u] >= Arrivals[t],
         Goto(t, "out"), passed' = Passed(t, "out")
  PROVE  Meeting!Pass(t)
<1>1. BarrierTypeOK
  BY DEF BarrierInv
<1>2. passed' = [passed EXCEPT ![t] = passed[t] + 1] /\ place' = [place EXCEPT ![t] = "out"]
  BY <1>1 DEF Passed, Goto, BarrierTypeOK
<1>3. Arrivals' = Arrivals
  BY <1>1, <1>2 DEF Arrivals, BarrierTypeOK
<1>4. passed[t] < Arrivals[t]
  BY <1>1 DEF Arrivals, BarrierTypeOK
<1> QED
  BY <1>2, <1>3, <1>4 DEF Meeting!Pass, Arrivals

LEMMA SyncMeets ==
  ASSUME IsFiniteSet(Thread), BarrierInv, NEW t \in Thread, Sync(t)
  PROVE  Meeting!Come(t) \/ Meeting!Pass(t) \/ UNCHANGED Meeting!vars
<1> USE DEF BarrierInv
<1>1. CASE Enter(t)
  BY <1>1, EnterComes
<1>2. CASE Open(t)
  <2>1. Arrivals' = Arrivals
    BY <1>2, ArrivalsKept DEF Open, Goto, BarrierTypeOK
  <2> QED
    BY <1>2, <2>1 DEF Open, Meeting!vars, Arrivals
<1>3. CASE SeeOpen(t)
  <2>1. Arrivals' = Arrivals
    BY <1>3, ArrivalsKept DEF SeeOpen, Goto, BarrierTypeOK
  <2> QED
    BY <1>3, <2>1 DEF SeeOpen, Meeting!vars, Arrivals
<1>4. CASE Leave(t)
  <2>1. AfterLeave(t) # "out"
    BY DEF AfterLeave
  <2>2. passed' = passed
    BY <1>4, LeaveInv
  <2>3. Arrivals' = Arrivals
    BY <1>4, <2>1, <2>2, ArrivalsKept DEF Leave, Goto, BarrierTypeOK
  <2> QED
    BY <2>2, <2>3 DEF Meeting!vars, Arrivals
<1>5. CASE Close(t)
  <2>1. mode = "leave" /\ \A u \in Thread : place[u] # "out"
    BY <1>5, AllSpin DEF Close
  <2>2. \A u \in Thread : Arrivals[u] = Arrivals[t]
    BY <2>1 DEF Arrivals, Lockstep, Round
  <2>3. Arrivals \in [Thread -> Nat]
    BY DEF Arrivals, BarrierTypeOK
  <2>4. \A u \in Thread : Arrivals[u] >= Arrivals[t]
    BY <2>2, <2>3
  <2> QED
    BY <1>5, <2>1, <2>4, OutPasses DEF Close
<1>6. CASE SeeClosed(t)
  <2>1. \A u \in Thread : Arrivals[u] >= Arrivals[t]
    <3> SUFFICES ASSUME NEW u \in Thread PROVE Arrivals[u] >= Arrivals[t]
      OBVIOUS
    <3>1. mode = "enter" /\ place[t] = "spin"
      BY <1>6 DEF SeeClosed
    <3>2. Round(t) = passed[t] + 1 /\ Arrivals[t] = passed[t] + 1
      BY <3>1 DEF Round, Arrivals
    <3>3. CASE place[u] = "spin"
      BY <3>1, <3>2, <3>3 DEF Round, Lockstep, Arrivals, BarrierTypeOK
    <3>4. CASE place[u] # "spin"
      <4>1. passed[u] = passed[t] + 1
        BY <3>1, <3>2, <3>4 DEF Round, Lockstep
      <4> QED
        BY <3>2, <4>1 DEF Arrivals, BarrierTypeOK
    <3> QED
      BY <3>3, <3>4
  <2> QED
    BY <1>6, <2>1, OutPasses DEF SeeClosed
<1> QED
  BY <1>1, <1>2, <1>3, <1>4, <1>5, <1>6 DEF Sync

LEMMA MeetingInit == Init => Meeting!Init
BY DEF Init, Meeting!Init

\* Nobody passes the barrier for the n-th time before all threads have come to it
\* n times: the barrier implements Rendezvous.
THEOREM BarrierRefinement ==
  ASSUME IsFiniteSet(Thread) PROVE Spec => ImplementsRendezvous
<1>1. BarrierInv /\ [Next]_barrierVars => [Meeting!Next]_(Meeting!vars)
  <2> SUFFICES ASSUME BarrierInv, [Next]_barrierVars PROVE [Meeting!Next]_(Meeting!vars)
    OBVIOUS
  <2>1. CASE Next
    BY <2>1, SyncMeets DEF Next, Meeting!Next
  <2>2. CASE UNCHANGED barrierVars
    BY <2>2 DEF barrierVars, Meeting!vars
  <2> QED
    BY <2>1, <2>2
<1> QED
  BY <1>1, MeetingInit, BarrierInvariant, PTL DEF Spec, ImplementsRendezvous, Meeting!Spec

-----------------------------------------------------------------------------
(***************************************************************************)
(* What a user of the barrier needs of it.                                 *)
(***************************************************************************)

\* step never passes the number of threads.
LEMMA StepBound ==
  ASSUME IsFiniteSet(Thread), BarrierInv
  PROVE  step \in 0..Cardinality(Thread)
<1>1. Counted \in SUBSET Thread
  BY DEF Counted
<1>2. Cardinality(Counted) <= Cardinality(Thread) /\ Cardinality(Thread) \in Nat
  BY <1>1, FS_Subset, FS_CardinalityType
<1> QED
  BY <1>2 DEF BarrierInv, BarrierTypeOK, CountsInside

\* Nobody has passed more often than anybody has come.
LEMMA NobodyAhead ==
  ASSUME BarrierInv, NEW t \in Thread, NEW u \in Thread
  PROVE  passed[u] <= Arrivals[t]
<1>1. passed \in [Thread -> Nat] /\ mode \in {"enter", "leave"}
  BY DEF BarrierInv, BarrierTypeOK
<1>2. Round(u) = Round(t)
  BY DEF BarrierInv, Lockstep
<1>3. passed[u] <= Round(u)
  BY <1>1 DEF Round
<1>4. Round(t) <= Arrivals[t]
  BY <1>1 DEF Round, Arrivals
<1>5. Round(t) \in Nat /\ Arrivals[t] \in Nat
  BY <1>1 DEF Round, Arrivals
<1> QED
  BY <1>1, <1>2, <1>3, <1>4, <1>5

\* A step moves one thread, which has passed when it is outside again.
LEMMA SyncMoves ==
  ASSUME IsFiniteSet(Thread), BarrierInv, NEW t \in Thread, Sync(t)
  PROVE  /\ \A u \in Thread : u # t => place'[u] = place[u] /\ passed'[u] = passed[u]
         /\ passed'[t] = IF place'[t] = "out" THEN passed[t] + 1 ELSE passed[t]
<1>1. BarrierTypeOK
  BY DEF BarrierInv
<1>2. CASE Enter(t)
  <2>1. AfterEnter(t) # "out"
    BY DEF AfterEnter
  <2> QED
    BY <1>1, <1>2, <2>1 DEF Enter, Goto, BarrierTypeOK
<1>3. CASE Open(t) \/ SeeOpen(t)
  BY <1>1, <1>3 DEF Open, SeeOpen, Goto, BarrierTypeOK
<1>4. CASE Leave(t)
  <2>1. AfterLeave(t) # "out"
    BY DEF AfterLeave
  <2>2. passed' = passed
    BY <1>4, LeaveInv
  <2> QED
    BY <1>1, <1>4, <2>1, <2>2 DEF Leave, Goto, BarrierTypeOK
<1>5. CASE Close(t) \/ SeeClosed(t)
  BY <1>1, <1>5 DEF Close, SeeClosed, Goto, Passed, BarrierTypeOK
<1> QED
  BY <1>2, <1>3, <1>4, <1>5 DEF Sync

=============================================================================
