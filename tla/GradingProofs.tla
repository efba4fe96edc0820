---------------------------- MODULE GradingProofs ----------------------------
(***************************************************************************)
(* The grading program keeps its invariants for any number of workers and  *)
(* of tests.                                                               *)
(*                                                                         *)
(* First the master and the workers (module GradingSync).  SyncInv is      *)
(* inductive.  Its key is that the status alone says in which places the   *)
(* workers can be (Stations), although it is set by one worker while the   *)
(* others move on: the last worker to arrive, or to report, is alone with  *)
(* workers that cannot move before it is done (Leaders), which it is the   *)
(* last because nbready counts those before it (Counting).                 *)
(*                                                                         *)
(* Then check (module CheckTest) on the barrier, of which BarrierInv is    *)
(* taken over.  Between two barriers a worker knows how often each other   *)
(* one has passed, and so at which lines it can be (CheckLines); with a    *)
(* right library the counter and the set of the decreases that have        *)
(* happened (Decreased) add up to its first value.                         *)
(*                                                                         *)
(* Last the whole program: what main does before the workers exist, while  *)
(* they run and after they are joined (StageInv).                          *)
(***************************************************************************)
EXTENDS GradingProgram, FiniteSetTheorems, TLAPS

SyncTypes ==
  /\ status \in Status
  /\ nbready \in Nat
  /\ errmsg \in BOOLEAN
  /\ raised \in BOOLEAN
  /\ pc \in [Worker -> WorkerPC]
  /\ round \in [Worker -> Nat]
  /\ outcome \in [Worker -> {"ok", "error", "exception"}]
  /\ master \in MasterPC \ {"unreachable"}
  /\ test \in Nat /\ test <= Tests
  /\ error \in BOOLEAN

Waits == master \in {"wait", "asleep", "overrun"}

\* What the status is where the master does not wait.
MasterPlaces ==
  /\ master = "notify" => status = "Done" /\ test < Tests
  /\ master \in {"check", "quit"} => status \in {"Done", "Fail"}
  /\ master \in {"join", "joined"} <=> status = "Quit"
  /\ raised => Waits /\ status \in {"Done", "Fail"}
  /\ \A w \in Worker : pc[w] = "raise" => Waits /\ ~raised

\* Where the workers can be at each status.
Stations ==
  /\ status = "Wait" =>
       \A w \in Worker : pc[w] \in {"await", "arrive", "spin", "clear", "release"}
  /\ status \in {"Run", "Abort"} =>
       \A w \in Worker : pc[w] \in {"spin", "work", "message", "mark", "count", "await",
                                    "gone", "reset", "decide", "done", "fail"}
  /\ status \in {"Done", "Fail", "Quit"} =>
       \A w \in Worker : pc[w] \in {"await", "gone", "raise"}

\* A worker that has not arrived yet is one test behind.
Behind(w) == status = "Wait" /\ pc[w] \in {"await", "arrive"}

Rounds == \A w \in Worker : round[w] = IF Behind(w) THEN test - 1 ELSE test

\* The last worker to arrive or to report, and where all the others are.
Leaders ==
  /\ \A w, u \in Worker :
       w # u /\ pc[w] \in {"clear", "release"} => pc[u] = "spin"
  /\ \A w, u \in Worker :
       w # u /\ pc[w] \in {"reset", "decide", "done", "fail", "raise"} =>
         pc[u] \in {"await", "gone"}

Arrived == {w \in Worker : pc[w] \in {"spin", "clear"}}

Reported == {w \in Worker : pc[w] \in {"await", "gone", "reset"}}

HasCleared == \E w \in Worker : pc[w] \in {"release", "decide", "done", "fail"}

\* What nbready counts.
Counting ==
  /\ HasCleared => nbready = 0
  /\ status \in {"Done", "Fail", "Quit"} => nbready = 0
  /\ status = "Wait" /\ ~HasCleared => nbready = Cardinality(Arrived)
  /\ status \in {"Run", "Abort"} /\ ~HasCleared => nbready = Cardinality(Reported)

\* A failure that the status shows, or will show.
Failed(w) == outcome[w] # "ok"

Marked(w) == Failed(w) /\ pc[w] \notin {"message", "mark"}

Outcomes ==
  /\ \A w \in Worker :
       /\ Failed(w) => status # "Wait" /\ pc[w] \notin {"spin", "work"}
       /\ pc[w] \in {"message", "mark"} => Failed(w)
       /\ pc[w] = "gone" /\ status # "Quit" => outcome[w] = "exception"
       /\ pc[w] = "mark" => errmsg
       /\ pc[w] = "done" => status = "Run"
       /\ pc[w] = "fail" => status = "Abort"
       /\ Marked(w) => status # "Run"
       /\ Failed(w) => status # "Done"
  /\ status \in {"Abort", "Fail"} => errmsg /\ \E w \in Worker : Marked(w)

SyncInv ==
  /\ SyncTypes
  /\ MasterPlaces
  /\ Stations
  /\ Rounds
  /\ Leaders
  /\ Counting
  /\ Outcomes

-----------------------------------------------------------------------------

LEMMA ArrivedFinite ==
  /\ IsFiniteSet(Arrived)
  /\ Cardinality(Arrived) \in Nat
  /\ Cardinality(Arrived) <= Cardinality(Worker)
  /\ Cardinality(Worker) = Cardinality(Arrived) => Arrived = Worker
BY SyncAssumption, FS_Subset, FS_CardinalityType DEF Arrived

LEMMA ReportedFinite ==
  /\ IsFiniteSet(Reported)
  /\ Cardinality(Reported) \in Nat
  /\ Cardinality(Reported) <= Cardinality(Worker)
  /\ Cardinality(Worker) = Cardinality(Reported) => Reported = Worker
BY SyncAssumption, FS_Subset, FS_CardinalityType DEF Reported

LEMMA SyncInitInv == ASSUME Init PROVE SyncInv
<1>1. SyncTypes
  <2>1. /\ pc \in [Worker -> WorkerPC]
        /\ round \in [Worker -> Nat]
        /\ outcome \in [Worker -> {"ok", "error", "exception"}]
    BY DEF Init, WorkerPC
  <2>2. status \in Status /\ master \in MasterPC \ {"unreachable"}
    BY DEF Init, Status, MasterPC
  <2>3. test \in Nat /\ test <= Tests
    BY SyncAssumption DEF Init
  <2> QED
    BY <2>1, <2>2, <2>3 DEF Init, SyncTypes
<1>2. MasterPlaces /\ Stations /\ Rounds /\ Leaders /\ Outcomes
  BY SyncAssumption DEF Init, MasterPlaces, Waits, Stations, Rounds, Behind, Leaders, Outcomes,
         Failed, Marked
<1>3. Counting
  BY DEF Init, Counting, HasCleared
<1> QED
  BY <1>1, <1>2, <1>3 DEF SyncInv

LEMMA AwaitInv ==
  ASSUME SyncInv, NEW w \in Worker, Await(w)
  PROVE  SyncInv'
<1> USE DEF SyncInv
<1>0. PICK p \in {"arrive", "gone"} :
        /\ pc' = [pc EXCEPT ![w] = p]
        /\ (p = "arrive" <=> status = "Wait")
  <2> DEFINE q == IF status = "Wait" THEN "arrive" ELSE "gone"
  <2>1. q \in {"arrive", "gone"} /\ Goto(w, q) /\ ((q = "arrive" <=> status = "Wait"))
    BY DEF Await
  <2> HIDE DEF q
  <2> QED
    BY <2>1 DEF Goto
<1>1. SyncTypes'
  BY <1>0 DEF SyncTypes, Status, WorkerPC, MasterPC, Await, At, masterVars
<1>2. MasterPlaces'
  BY <1>0 DEF MasterPlaces, Waits, SyncTypes, Await, At, masterVars
<1>3. Stations'
  BY <1>0 DEF Stations, SyncTypes, Await, At, masterVars
<1>4. Rounds'
  BY <1>0 DEF Rounds, Behind, Stations, MasterPlaces, SyncTypes, Await, At, masterVars
<1>5. Leaders'
  BY <1>0 DEF Leaders, Stations, SyncTypes, Await, At, masterVars
<1>6. Counting'
  <2>1. Arrived' = Arrived \/ status' # "Wait"
    BY <1>0 DEF Arrived, Stations, SyncTypes, Await, At, masterVars
  <2>2. Reported' = Reported \/ status' \notin {"Run", "Abort"}
    BY <1>0 DEF Reported, Stations, SyncTypes, Await, At, masterVars
  <2> QED
    BY <1>0, <2>1, <2>2 DEF Counting, HasCleared, Stations, Leaders, SyncTypes, Await, At, masterVars
<1>7. Outcomes'
  BY <1>0 DEF Outcomes, Failed, Marked, Stations, Leaders, SyncTypes, Await, At, masterVars
<1> QED
  BY <1>1, <1>2, <1>3, <1>4, <1>5, <1>6, <1>7

\* The last worker to arrive finds all the others spinning.
LEMMA ArriveInv ==
  ASSUME SyncInv, NEW w \in Worker, Arrive(w)
  PROVE  SyncInv'
<1> USE DEF SyncInv
<1>0. PICK p \in {"clear", "spin"} :
        /\ pc' = [pc EXCEPT ![w] = p]
        /\ (p = "clear" <=> nbready + 1 = Cardinality(Worker))
  <2> DEFINE q == IF Last(nbready) THEN "clear" ELSE "spin"
  <2>1. q \in {"clear", "spin"} /\ Goto(w, q) /\ ((q = "clear" <=> nbready + 1 = Cardinality(Worker)))
    BY DEF Arrive, Last
  <2> HIDE DEF q
  <2> QED
    BY <2>1 DEF Goto
<1>8. status = "Wait" /\ ~HasCleared /\ w \notin Arrived
  BY DEF Arrive, At, SyncTypes, Status, Stations, HasCleared, Leaders, Arrived
<1>9. Arrived' = Arrived \cup {w}
  BY <1>0 DEF Arrived, SyncTypes
<1>10. Cardinality(Arrived') = nbready + 1
  BY <1>8, <1>9, ArrivedFinite, FS_AddElement DEF Counting
<1>11. p = "clear" => \A u \in Worker : u # w => pc[u] = "spin"
  <2> SUFFICES ASSUME p = "clear", NEW u \in Worker, u # w PROVE pc[u] = "spin"
    OBVIOUS
  <2>1. Arrived' = Worker
    <3>1. Arrived' \in SUBSET Worker
      BY DEF Arrived
    <3> QED
      BY <1>0, <1>10, <3>1, SyncAssumption, FS_Subset
  <2>2. pc[u] \in {"spin", "clear"}
    BY <1>0, <1>9, <2>1 DEF Arrived
  <2> QED
    BY <2>2 DEF Leaders, Arrive, At
<1>1. SyncTypes'
  BY <1>0, <1>8 DEF SyncTypes, Status, WorkerPC, MasterPC, Arrive, At, masterVars
<1>2. MasterPlaces'
  BY <1>0, <1>8 DEF MasterPlaces, Waits, SyncTypes, Arrive, At, masterVars
<1>3. Stations'
  BY <1>0, <1>8 DEF Stations, SyncTypes, Arrive, At, masterVars
<1>4. Rounds'
  <2>1. round[w] = test - 1 /\ round[w] + 1 = test
    BY <1>8 DEF Rounds, Behind, Arrive, At, SyncTypes
  <2>2. round' = [round EXCEPT ![w] = test] /\ test' = test /\ status' = status
    BY <2>1 DEF Arrive, masterVars, SyncTypes
  <2> QED
    BY <1>0, <2>2 DEF Rounds, Behind, SyncTypes
<1>5. Leaders'
  BY <1>0, <1>8, <1>11 DEF Leaders, Stations, Arrive, At, SyncTypes
<1>6. Counting'
  <2>1. ~HasCleared' /\ status' = "Wait" /\ nbready' = nbready + 1
    BY <1>0, <1>8 DEF HasCleared, Arrive, SyncTypes
  <2> QED
    BY <1>10, <2>1 DEF Counting
<1>7. Outcomes'
  BY <1>0, <1>8 DEF Outcomes, Failed, Marked, Arrive, At, SyncTypes
<1> QED
  BY <1>1, <1>2, <1>3, <1>4, <1>5, <1>6, <1>7

LEMMA ClearInv ==
  ASSUME SyncInv, NEW w \in Worker, Clear(w)
  PROVE  SyncInv'
<1> USE DEF SyncInv
<1>1. SyncTypes'
  BY DEF SyncTypes, Status, WorkerPC, MasterPC, Clear, At, Goto, Cleared, masterVars
<1>2. MasterPlaces'
  BY DEF MasterPlaces, Waits, SyncTypes, Clear, At, Goto, Cleared, masterVars
<1>3. Stations'
  BY DEF Stations, SyncTypes, Clear, At, Goto, Cleared, masterVars
<1>4. Rounds'
  BY DEF Rounds, Behind, Stations, MasterPlaces, SyncTypes, Clear, At, Goto, Cleared, masterVars
<1>5. Leaders'
  BY DEF Leaders, Stations, SyncTypes, Clear, At, Goto, Cleared, masterVars
<1>6. Counting'
  <2>1. nbready' = 0 /\ HasCleared'
    BY DEF Clear, At, Goto, Cleared, HasCleared, SyncTypes
  <2> QED
    BY <2>1 DEF Counting
<1>7. Outcomes'
  BY DEF Outcomes, Failed, Marked, Stations, Leaders, SyncTypes, Clear, At, Goto, Cleared, masterVars
<1> QED
  BY <1>1, <1>2, <1>3, <1>4, <1>5, <1>6, <1>7

LEMMA ReleaseInv ==
  ASSUME SyncInv, NEW w \in Worker, Release(w)
  PROVE  SyncInv'
<1> USE DEF SyncInv
<1>8. status = "Wait" /\ pc[w] = "release" /\ \A u \in Worker : u # w => pc[u] = "spin"
  BY DEF Release, At, SyncTypes, Status, Stations, Leaders
<1>1. SyncTypes'
  BY <1>8 DEF SyncTypes, Status, WorkerPC, MasterPC, Release, At, Goto, masterVars
<1>2. MasterPlaces'
  BY <1>8 DEF MasterPlaces, Waits, SyncTypes, Release, At, Goto, masterVars
<1>3. Stations'
  BY <1>8 DEF Stations, SyncTypes, Release, At, Goto, masterVars
<1>4. Rounds'
  BY <1>8 DEF Rounds, Behind, Stations, MasterPlaces, SyncTypes, Release, At, Goto, masterVars
<1>5. Leaders'
  BY <1>8 DEF Leaders, Stations, SyncTypes, Release, At, Goto, masterVars
<1>6. Counting'
  <2>1. \A u \in Worker : pc'[u] \in {"work", "spin"}
    BY DEF Release, At, Goto, Leaders, SyncTypes
  <2>2. Reported' = {} /\ ~HasCleared'
    BY <2>1 DEF Reported, HasCleared
  <2>3. nbready' = 0 /\ status' = "Run"
    BY DEF Release, At, Counting, HasCleared
  <2> QED
    BY <2>2, <2>3, FS_EmptySet DEF Counting
<1>7. Outcomes'
  BY <1>8 DEF Outcomes, Failed, Marked, Stations, Leaders, SyncTypes, Release, At, Goto, masterVars
<1> QED
  BY <1>1, <1>2, <1>3, <1>4, <1>5, <1>6, <1>7

LEMMA SpinInv ==
  ASSUME SyncInv, NEW w \in Worker, Spin(w)
  PROVE  SyncInv'
<1> USE DEF SyncInv
<1>1. SyncTypes'
  BY DEF SyncTypes, Status, WorkerPC, MasterPC, Spin, At, Goto, Started, masterVars
<1>2. MasterPlaces'
  BY DEF MasterPlaces, Waits, SyncTypes, Spin, At, Goto, Started, masterVars
<1>3. Stations'
  BY DEF Stations, SyncTypes, Spin, At, Goto, Started, masterVars
<1>4. Rounds'
  BY DEF Rounds, Behind, Stations, MasterPlaces, SyncTypes, Spin, At, Goto, Started, masterVars
<1>5. Leaders'
  BY DEF Leaders, Stations, SyncTypes, Spin, At, Goto, Started, masterVars
<1>6. Counting'
  <2>1. Arrived' = Arrived \/ status' # "Wait"
    BY DEF Arrived, Stations, SyncTypes, Spin, At, Goto, Started, masterVars
  <2>2. Reported' = Reported \/ status' \notin {"Run", "Abort"}
    BY DEF Reported, Stations, SyncTypes, Spin, At, Goto, Started, masterVars
  <2> QED
    BY <2>1, <2>2 DEF Counting, HasCleared, Stations, Leaders, SyncTypes, Spin, At, Goto, Started, masterVars
<1>7. Outcomes'
  BY DEF Outcomes, Failed, Marked, Stations, Leaders, SyncTypes, Spin, At, Goto, Started, masterVars
<1> QED
  BY <1>1, <1>2, <1>3, <1>4, <1>5, <1>6, <1>7

LEMMA WorkInv ==
  ASSUME SyncInv, NEW w \in Worker, NEW o \in {"ok", "error", "exception"}, Work(w, o)
  PROVE  SyncInv'
<1> USE DEF SyncInv
<1>0. PICK p \in {"count", "message"} :
        /\ pc' = [pc EXCEPT ![w] = p]
        /\ (p = "count" <=> o = "ok")
  <2> DEFINE q == IF o = "ok" THEN "count" ELSE "message"
  <2>1. q \in {"count", "message"} /\ Goto(w, q) /\ ((q = "count" <=> o = "ok"))
    BY DEF Work
  <2> HIDE DEF q
  <2> QED
    BY <2>1 DEF Goto
<1>1. SyncTypes'
  BY <1>0 DEF SyncTypes, Status, WorkerPC, MasterPC, Work, At, masterVars
<1>2. MasterPlaces'
  BY <1>0 DEF MasterPlaces, Waits, SyncTypes, Work, At, masterVars
<1>3. Stations'
  BY <1>0 DEF Stations, SyncTypes, Work, At, masterVars
<1>4. Rounds'
  BY <1>0 DEF Rounds, Behind, Stations, MasterPlaces, SyncTypes, Work, At, masterVars
<1>5. Leaders'
  BY <1>0 DEF Leaders, Stations, SyncTypes, Work, At, masterVars
<1>6. Counting'
  <2>1. Arrived' = Arrived \/ status' # "Wait"
    BY <1>0 DEF Arrived, Stations, SyncTypes, Work, At, masterVars
  <2>2. Reported' = Reported \/ status' \notin {"Run", "Abort"}
    BY <1>0 DEF Reported, Stations, SyncTypes, Work, At, masterVars
  <2> QED
    BY <1>0, <2>1, <2>2 DEF Counting, HasCleared, Stations, Leaders, SyncTypes, Work, At, masterVars
<1>7. Outcomes'
  BY <1>0 DEF Outcomes, Failed, Marked, Stations, Leaders, SyncTypes, Work, At, masterVars
<1> QED
  BY <1>1, <1>2, <1>3, <1>4, <1>5, <1>6, <1>7

LEMMA MessageInv ==
  ASSUME SyncInv, NEW w \in Worker, Message(w)
  PROVE  SyncInv'
<1> USE DEF SyncInv
<1>1. SyncTypes'
  BY DEF SyncTypes, Status, WorkerPC, MasterPC, Message, At, Goto, masterVars
<1>2. MasterPlaces'
  BY DEF MasterPlaces, Waits, SyncTypes, Message, At, Goto, masterVars
<1>3. Stations'
  BY DEF Stations, SyncTypes, Message, At, Goto, masterVars
<1>4. Rounds'
  BY DEF Rounds, Behind, Stations, MasterPlaces, SyncTypes, Message, At, Goto, masterVars
<1>5. Leaders'
  BY DEF Leaders, Stations, SyncTypes, Message, At, Goto, masterVars
<1>6. Counting'
  <2>1. Arrived' = Arrived \/ status' # "Wait"
    BY DEF Arrived, Stations, SyncTypes, Message, At, Goto, masterVars
  <2>2. Reported' = Reported \/ status' \notin {"Run", "Abort"}
    BY DEF Reported, Stations, SyncTypes, Message, At, Goto, masterVars
  <2> QED
    BY <2>1, <2>2 DEF Counting, HasCleared, Stations, Leaders, SyncTypes, Message, At, Goto, masterVars
<1>7. Outcomes'
  BY DEF Outcomes, Failed, Marked, Stations, Leaders, SyncTypes, Message, At, Goto, masterVars
<1> QED
  BY <1>1, <1>2, <1>3, <1>4, <1>5, <1>6, <1>7

LEMMA MarkInv ==
  ASSUME SyncInv, NEW w \in Worker, Mark(w)
  PROVE  SyncInv'
<1> USE DEF SyncInv
<1>8. status \in {"Run", "Abort"} /\ pc[w] = "mark"
  BY DEF Mark, At, SyncTypes, Status, Stations
<1>1. SyncTypes'
  BY <1>8 DEF SyncTypes, Status, WorkerPC, MasterPC, Mark, At, Goto, masterVars
<1>2. MasterPlaces'
  BY <1>8 DEF MasterPlaces, Waits, SyncTypes, Mark, At, Goto, masterVars
<1>3. Stations'
  BY <1>8 DEF Stations, SyncTypes, Mark, At, Goto, masterVars
<1>4. Rounds'
  BY <1>8 DEF Rounds, Behind, Stations, MasterPlaces, SyncTypes, Mark, At, Goto, masterVars
<1>5. Leaders'
  BY <1>8 DEF Leaders, Stations, SyncTypes, Mark, At, Goto, masterVars
<1>6. Counting'
  <2>1. Arrived' = Arrived \/ status' # "Wait"
    BY <1>8 DEF Arrived, Stations, SyncTypes, Mark, At, Goto, masterVars
  <2>2. Reported' = Reported \/ status' \notin {"Run", "Abort"}
    BY <1>8 DEF Reported, Stations, SyncTypes, Mark, At, Goto, masterVars
  <2> QED
    BY <1>8, <2>1, <2>2 DEF Counting, HasCleared, Stations, Leaders, SyncTypes, Mark, At, Goto, masterVars
<1>7. Outcomes'
  BY <1>8 DEF Outcomes, Failed, Marked, Stations, Leaders, SyncTypes, Mark, At, Goto, masterVars
<1> QED
  BY <1>1, <1>2, <1>3, <1>4, <1>5, <1>6, <1>7

\* The last worker to report finds that all the others are done.
LEMMA CountInv ==
  ASSUME SyncInv, NEW w \in Worker, Count(w)
  PROVE  SyncInv'
<1> USE DEF SyncInv
<1>0. PICK p \in {"reset", "gone", "await"} :
        /\ pc' = [pc EXCEPT ![w] = p]
        /\ (p = "reset" <=> nbready + 1 = Cardinality(Worker))
        /\ (p = "gone" => outcome[w] = "exception")
  <2> DEFINE q == IF Last(nbready) THEN "reset" ELSE AfterReport(w)
  <2>1. q \in {"reset", "gone", "await"} /\ Goto(w, q) /\ ((q = "reset" <=> nbready + 1 = Cardinality(Worker))
        /\ (q = "gone" => outcome[w] = "exception"))
    BY DEF Count, Last, AfterReport
  <2> HIDE DEF q
  <2> QED
    BY <2>1 DEF Goto
<1>8. status \in {"Run", "Abort"} /\ ~HasCleared /\ w \notin Reported /\ pc[w] = "count"
  BY DEF Count, At, SyncTypes, Status, Stations, HasCleared, Leaders, Reported
<1>9. Reported' = Reported \cup {w}
  BY <1>0 DEF Reported, SyncTypes
<1>10. Cardinality(Reported') = nbready + 1
  BY <1>8, <1>9, ReportedFinite, FS_AddElement DEF Counting
<1>11. p = "reset" => \A u \in Worker : u # w => pc[u] \in {"await", "gone"}
  <2> SUFFICES ASSUME p = "reset", NEW u \in Worker, u # w PROVE pc[u] \in {"await", "gone"}
    OBVIOUS
  <2>1. Reported' = Worker
    <3>1. Reported' \in SUBSET Worker
      BY DEF Reported
    <3> QED
      BY <1>0, <1>10, <3>1, SyncAssumption, FS_Subset
  <2>2. pc[u] \in {"await", "gone", "reset"}
    BY <1>0, <1>9, <2>1 DEF Reported
  <2> QED
    BY <1>8, <2>2 DEF Leaders
<1>1. SyncTypes'
  BY <1>0, <1>8 DEF SyncTypes, Status, WorkerPC, MasterPC, Count, At, masterVars
<1>2. MasterPlaces'
  BY <1>0, <1>8 DEF MasterPlaces, Waits, SyncTypes, Count, At, masterVars
<1>3. Stations'
  BY <1>0, <1>8 DEF Stations, SyncTypes, Count, At, masterVars
<1>4. Rounds'
  BY <1>0, <1>8 DEF Rounds, Behind, Stations, MasterPlaces, SyncTypes, Count, At, masterVars
<1>5. Leaders'
  BY <1>0, <1>8, <1>11 DEF Leaders, Stations, Count, At, SyncTypes
<1>6. Counting'
  <2>1. ~HasCleared' /\ status' = status /\ nbready' = nbready + 1
    BY <1>0, <1>8 DEF HasCleared, Count, SyncTypes
  <2> QED
    BY <1>8, <1>10, <2>1 DEF Counting
<1>7. Outcomes'
  BY <1>0, <1>8 DEF Outcomes, Failed, Marked, Stations, Leaders, SyncTypes, Count, At, masterVars
<1> QED
  BY <1>1, <1>2, <1>3, <1>4, <1>5, <1>6, <1>7

LEMMA DecideInv ==
  ASSUME SyncInv, NEW w \in Worker, Decide(w)
  PROVE  SyncInv'
<1> USE DEF SyncInv
<1>0. PICK p \in {"done", "fail"} :
        /\ pc' = [pc EXCEPT ![w] = p]
        /\ (p = "fail" <=> status = "Abort")
  <2> DEFINE q == Verdict(w)
  <2>1. q \in {"done", "fail"} /\ Goto(w, q) /\ ((q = "fail" <=> status = "Abort"))
    BY DEF Decide, Verdict
  <2> HIDE DEF q
  <2> QED
    BY <2>1 DEF Goto
<1>8. status \in {"Run", "Abort"} /\ pc[w] = "decide"
  BY DEF Decide, At, SyncTypes, Status, Stations
<1>1. SyncTypes'
  BY <1>0, <1>8 DEF SyncTypes, Status, WorkerPC, MasterPC, Decide, At, masterVars
<1>2. MasterPlaces'
  BY <1>0, <1>8 DEF MasterPlaces, Waits, SyncTypes, Decide, At, masterVars
<1>3. Stations'
  BY <1>0, <1>8 DEF Stations, SyncTypes, Decide, At, masterVars
<1>4. Rounds'
  BY <1>0, <1>8 DEF Rounds, Behind, Stations, MasterPlaces, SyncTypes, Decide, At, masterVars
<1>5. Leaders'
  BY <1>0, <1>8 DEF Leaders, Stations, SyncTypes, Decide, At, masterVars
<1>6. Counting'
  <2>1. nbready' = 0 /\ HasCleared' /\ status' = status
    BY <1>0, <1>8 DEF Decide, HasCleared, Counting, SyncTypes
  <2> QED
    BY <1>8, <2>1 DEF Counting
<1>7. Outcomes'
  BY <1>0, <1>8 DEF Outcomes, Failed, Marked, Stations, Leaders, SyncTypes, Decide, At, masterVars
<1> QED
  BY <1>1, <1>2, <1>3, <1>4, <1>5, <1>6, <1>7

\* The verdict is that of all the workers.
LEMMA PublishInv ==
  ASSUME SyncInv, NEW w \in Worker, Publish(w)
  PROVE  SyncInv'
<1> USE DEF SyncInv
<1>8. /\ status \in {"Run", "Abort"} /\ nbready = 0
      /\ pc[w] \in {"done", "fail"}
      /\ \A u \in Worker : u # w => pc[u] \in {"await", "gone"}
      /\ pc' = [pc EXCEPT ![w] = "raise"]
  BY DEF Publish, At, Goto, SyncTypes, Status, Stations, Leaders, Counting, HasCleared
<1>9. \/ status = "Run" /\ status' = "Done" /\ \A u \in Worker : ~Failed(u)
      \/ status = "Abort" /\ status' = "Fail" /\ errmsg /\ \E u \in Worker : Marked(u)
  BY <1>8 DEF Publish, At, Outcomes, Marked
<1>1. SyncTypes'
  BY <1>8 DEF SyncTypes, Status, WorkerPC, MasterPC, Publish, masterVars
<1>2. MasterPlaces'
  BY <1>8 DEF MasterPlaces, Waits, MasterPC, SyncTypes, Publish, masterVars
<1>3. Stations'
  BY <1>8 DEF Stations, SyncTypes, Publish, masterVars
<1>4. Rounds'
  BY <1>8 DEF Rounds, Behind, Stations, MasterPlaces, SyncTypes, Publish, masterVars
<1>5. Leaders'
  BY <1>8 DEF Leaders, Stations, SyncTypes, Publish, masterVars
<1>6. Counting'
  BY <1>8, <1>9 DEF Counting, HasCleared, Publish
<1>7. Outcomes'
  BY <1>8, <1>9 DEF Outcomes, Failed, Marked, Publish, SyncTypes
<1> QED
  BY <1>1, <1>2, <1>3, <1>4, <1>5, <1>6, <1>7

LEMMA RaiseInv ==
  ASSUME SyncInv, NEW w \in Worker, Raise(w)
  PROVE  SyncInv'
<1> USE DEF SyncInv
<1>0. PICK p \in {"gone", "await"} :
        /\ pc' = [pc EXCEPT ![w] = p]
        /\ (p = "gone" => outcome[w] = "exception")
  <2> DEFINE q == AfterReport(w)
  <2>1. q \in {"gone", "await"} /\ Goto(w, q) /\ ((q = "gone" => outcome[w] = "exception"))
    BY DEF Raise, Notified, AfterReport
  <2> HIDE DEF q
  <2> QED
    BY <2>1 DEF Goto
<1>8. /\ status \in {"Done", "Fail"} /\ nbready = 0
      /\ pc[w] = "raise" /\ \A u \in Worker : u # w => pc[u] \in {"await", "gone"}
      /\ Waits /\ ~raised /\ Waits'
  BY DEF Raise, Notified, At, SyncTypes, Status, Stations, Leaders, Counting, MasterPlaces, Waits
<1>1. SyncTypes'
  BY <1>0, <1>8 DEF SyncTypes, Status, WorkerPC, MasterPC, Raise, Notified
<1>2. MasterPlaces'
  BY <1>0, <1>8 DEF MasterPlaces, Waits, Raise, Notified, SyncTypes
<1>3. Stations'
  BY <1>0, <1>8 DEF Stations, SyncTypes, Raise, Notified
<1>4. Rounds'
  BY <1>0, <1>8 DEF Rounds, Behind, Stations, MasterPlaces, SyncTypes, Raise, Notified
<1>5. Leaders'
  BY <1>0, <1>8 DEF Leaders, Stations, SyncTypes, Raise, Notified
<1>6. Counting'
  BY <1>0, <1>8 DEF Counting, HasCleared, Raise, Notified
<1>7. Outcomes'
  BY <1>0, <1>8 DEF Outcomes, Failed, Marked, Stations, Leaders, SyncTypes, Raise, Notified
<1> QED
  BY <1>1, <1>2, <1>3, <1>4, <1>5, <1>6, <1>7

\* The master starts a test when all the workers await one.
LEMMA NotifyInv ==
  ASSUME SyncInv, Notify
  PROVE  SyncInv'
<1> USE DEF SyncInv
<1>8. /\ status = "Done" /\ nbready = 0 /\ ~raised /\ test + 1 <= Tests
      /\ \A u \in Worker : pc[u] = "await" /\ ~Failed(u) /\ round[u] = test
  BY SyncAssumption DEF Notify, MasterPlaces, Waits, Stations, Outcomes, Failed, Counting, Rounds, Behind, SyncTypes
<1>1. SyncTypes'
  BY <1>8 DEF SyncTypes, Status, WorkerPC, MasterPC, Notify, workerVars
<1>2. MasterPlaces'
  BY <1>8 DEF MasterPlaces, Waits, SyncTypes, Notify, workerVars
<1>3. Stations'
  BY <1>8 DEF Stations, SyncTypes, Notify, workerVars
<1>4. Rounds'
  <2>1. test' - 1 = test /\ round' = round /\ pc' = pc /\ status' = "Wait"
    BY DEF Notify, workerVars, SyncTypes
  <2> QED
    BY <1>8, <2>1 DEF Rounds, Behind
<1>5. Leaders'
  BY <1>8 DEF Leaders, Stations, SyncTypes, Notify, workerVars
<1>6. Counting'
  <2>1. Arrived' = {} /\ ~HasCleared' /\ status' = "Wait" /\ nbready' = 0
    BY <1>8 DEF Arrived, HasCleared, Notify, workerVars
  <2> QED
    BY <2>1, FS_EmptySet DEF Counting
<1>7. Outcomes'
  BY <1>8 DEF Outcomes, Failed, Marked, Stations, Leaders, SyncTypes, Notify, workerVars
<1> QED
  BY <1>1, <1>2, <1>3, <1>4, <1>5, <1>6, <1>7

LEMMA MasterWaitInv ==
  ASSUME SyncInv, MasterWait
  PROVE  SyncInv'
<1> USE DEF SyncInv
<1>1. SyncTypes'
  BY DEF SyncTypes, Status, WorkerPC, MasterPC, MasterWait, workerVars
<1>2. MasterPlaces'
  BY DEF MasterPlaces, Waits, SyncTypes, MasterWait, workerVars
<1>3. Stations'
  BY DEF Stations, SyncTypes, MasterWait, workerVars
<1>4. Rounds'
  BY DEF Rounds, Behind, Stations, MasterPlaces, SyncTypes, MasterWait, workerVars
<1>5. Leaders'
  BY DEF Leaders, Stations, SyncTypes, MasterWait, workerVars
<1>6. Counting'
  <2>1. Arrived' = Arrived /\ Reported' = Reported /\ (HasCleared' <=> HasCleared)
    BY DEF Arrived, Reported, HasCleared, MasterWait, workerVars
  <2> QED
    BY <2>1 DEF Counting, MasterWait, workerVars
<1>7. Outcomes'
  BY DEF Outcomes, Failed, Marked, Stations, Leaders, SyncTypes, MasterWait, workerVars
<1> QED
  BY <1>1, <1>2, <1>3, <1>4, <1>5, <1>6, <1>7

LEMMA SpuriousWakeInv ==
  ASSUME SyncInv, SpuriousWake
  PROVE  SyncInv'
<1> USE DEF SyncInv
<1>1. SyncTypes'
  BY DEF SyncTypes, Status, WorkerPC, MasterPC, SpuriousWake, workerVars
<1>2. MasterPlaces'
  BY DEF MasterPlaces, Waits, SyncTypes, SpuriousWake, workerVars
<1>3. Stations'
  BY DEF Stations, SyncTypes, SpuriousWake, workerVars
<1>4. Rounds'
  BY DEF Rounds, Behind, Stations, MasterPlaces, SyncTypes, SpuriousWake, workerVars
<1>5. Leaders'
  BY DEF Leaders, Stations, SyncTypes, SpuriousWake, workerVars
<1>6. Counting'
  <2>1. Arrived' = Arrived /\ Reported' = Reported /\ (HasCleared' <=> HasCleared)
    BY DEF Arrived, Reported, HasCleared, SpuriousWake, workerVars
  <2> QED
    BY <2>1 DEF Counting, SpuriousWake, workerVars
<1>7. Outcomes'
  BY DEF Outcomes, Failed, Marked, Stations, Leaders, SyncTypes, SpuriousWake, workerVars
<1> QED
  BY <1>1, <1>2, <1>3, <1>4, <1>5, <1>6, <1>7

LEMMA OverrunInv ==
  ASSUME SyncInv, Overrun
  PROVE  SyncInv'
<1> USE DEF SyncInv
<1>1. SyncTypes'
  BY DEF SyncTypes, Status, WorkerPC, MasterPC, Overrun, workerVars
<1>2. MasterPlaces'
  BY DEF MasterPlaces, Waits, SyncTypes, Overrun, workerVars
<1>3. Stations'
  BY DEF Stations, SyncTypes, Overrun, workerVars
<1>4. Rounds'
  BY DEF Rounds, Behind, Stations, MasterPlaces, SyncTypes, Overrun, workerVars
<1>5. Leaders'
  BY DEF Leaders, Stations, SyncTypes, Overrun, workerVars
<1>6. Counting'
  <2>1. Arrived' = Arrived /\ Reported' = Reported /\ (HasCleared' <=> HasCleared)
    BY DEF Arrived, Reported, HasCleared, Overrun, workerVars
  <2> QED
    BY <2>1 DEF Counting, Overrun, workerVars
<1>7. Outcomes'
  BY DEF Outcomes, Failed, Marked, Stations, Leaders, SyncTypes, Overrun, workerVars
<1> QED
  BY <1>1, <1>2, <1>3, <1>4, <1>5, <1>6, <1>7

LEMMA MasterChecksInv ==
  ASSUME SyncInv, Check
  PROVE  SyncInv'
<1> USE DEF SyncInv
<1>8. /\ status \in {"Done", "Fail"} /\ ~raised
      /\ \/ master' = "notify" /\ status = "Done" /\ test < Tests
         \/ master' = "quit"
  BY DEF Check, MasterPlaces, Waits
<1>1. SyncTypes'
  BY <1>8 DEF SyncTypes, Status, WorkerPC, MasterPC, Check, workerVars
<1>2. MasterPlaces'
  BY <1>8 DEF MasterPlaces, Waits, SyncTypes, Check, workerVars
<1>3. Stations'
  BY <1>8 DEF Stations, SyncTypes, Check, workerVars
<1>4. Rounds'
  BY <1>8 DEF Rounds, Behind, Stations, MasterPlaces, SyncTypes, Check, workerVars
<1>5. Leaders'
  BY <1>8 DEF Leaders, Stations, SyncTypes, Check, workerVars
<1>6. Counting'
  <2>1. Arrived' = Arrived /\ Reported' = Reported /\ (HasCleared' <=> HasCleared)
    BY DEF Arrived, Reported, HasCleared, Check, workerVars
  <2> QED
    BY <2>1 DEF Counting, Check, workerVars
<1>7. Outcomes'
  BY <1>8 DEF Outcomes, Failed, Marked, Stations, Leaders, SyncTypes, Check, workerVars
<1> QED
  BY <1>1, <1>2, <1>3, <1>4, <1>5, <1>6, <1>7

LEMMA QuitInv ==
  ASSUME SyncInv, Quit
  PROVE  SyncInv'
<1> USE DEF SyncInv
<1>8. /\ status \in {"Done", "Fail"} /\ nbready = 0 /\ ~raised
      /\ \A u \in Worker : pc[u] \in {"await", "gone"}
  BY DEF Quit, MasterPlaces, Waits, Stations, Counting
<1>1. SyncTypes'
  BY <1>8 DEF SyncTypes, Status, WorkerPC, MasterPC, Quit, workerVars
<1>2. MasterPlaces'
  BY <1>8 DEF MasterPlaces, Waits, SyncTypes, Quit, workerVars
<1>3. Stations'
  BY <1>8 DEF Stations, SyncTypes, Quit, workerVars
<1>4. Rounds'
  BY <1>8 DEF Rounds, Behind, Stations, MasterPlaces, SyncTypes, Quit, workerVars
<1>5. Leaders'
  BY <1>8 DEF Leaders, Stations, SyncTypes, Quit, workerVars
<1>6. Counting'
  BY <1>8 DEF Counting, HasCleared, Quit, workerVars
<1>7. Outcomes'
  BY <1>8 DEF Outcomes, Failed, Marked, Stations, Leaders, SyncTypes, Quit, workerVars
<1> QED
  BY <1>1, <1>2, <1>3, <1>4, <1>5, <1>6, <1>7

LEMMA JoinInv ==
  ASSUME SyncInv, Join
  PROVE  SyncInv'
<1> USE DEF SyncInv
<1>1. SyncTypes'
  BY DEF SyncTypes, Status, WorkerPC, MasterPC, Join, workerVars
<1>2. MasterPlaces'
  BY DEF MasterPlaces, Waits, SyncTypes, Join, workerVars
<1>3. Stations'
  BY DEF Stations, SyncTypes, Join, workerVars
<1>4. Rounds'
  BY DEF Rounds, Behind, Stations, MasterPlaces, SyncTypes, Join, workerVars
<1>5. Leaders'
  BY DEF Leaders, Stations, SyncTypes, Join, workerVars
<1>6. Counting'
  <2>1. Arrived' = Arrived /\ Reported' = Reported /\ (HasCleared' <=> HasCleared)
    BY DEF Arrived, Reported, HasCleared, Join, workerVars
  <2> QED
    BY <2>1 DEF Counting, Join, workerVars
<1>7. Outcomes'
  BY DEF Outcomes, Failed, Marked, Stations, Leaders, SyncTypes, Join, workerVars
<1> QED
  BY <1>1, <1>2, <1>3, <1>4, <1>5, <1>6, <1>7

LEMMA SyncNextInv == ASSUME SyncInv, [Next]_vars PROVE SyncInv'
<1>1. CASE \E w \in Worker : WorkerStep(w)
  BY <1>1, AwaitInv, ArriveInv, ClearInv, ReleaseInv, SpinInv, WorkInv, MessageInv, MarkInv,
     CountInv, DecideInv, PublishInv, RaiseInv DEF WorkerStep
<1>2. CASE MasterStep \/ Accident
  BY <1>2, NotifyInv, MasterWaitInv, MasterChecksInv, QuitInv, JoinInv, SpuriousWakeInv, OverrunInv
     DEF MasterStep, Accident
<1>3. CASE UNCHANGED vars
  BY <1>3 DEF vars, workerVars, masterVars, SyncInv, SyncTypes, MasterPlaces, Waits, Stations,
       Rounds, Behind, Leaders, Counting, HasCleared, Arrived, Reported, Outcomes, Failed, Marked
<1> QED
  BY <1>1, <1>2, <1>3 DEF Next

-----------------------------------------------------------------------------

LEMMA InvTypeOK == SyncInv => TypeOK
<1> SUFFICES ASSUME SyncInv PROVE TypeOK
  OBVIOUS
<1>1. Cardinality(Worker) \in Nat /\ nbready \in 0..Cardinality(Worker)
  BY SyncAssumption, FS_CardinalityType, ArrivedFinite, ReportedFinite
     DEF SyncInv, SyncTypes, Status, Counting
<1>2. round \in [Worker -> 0..Tests]
  <2> SUFFICES ASSUME NEW w \in Worker PROVE round[w] \in 0..Tests
    BY DEF SyncInv, SyncTypes
  <2>1. round[w] \in Nat /\ (round[w] = test \/ round[w] = test - 1)
    BY DEF SyncInv, SyncTypes, Rounds
  <2> QED
    BY <2>1, SyncAssumption DEF SyncInv, SyncTypes
<1>3. test \in 0..Tests
  BY SyncAssumption DEF SyncInv, SyncTypes
<1> QED
  BY <1>1, <1>2, <1>3 DEF SyncInv, SyncTypes, TypeOK

LEMMA InvTestsApart == SyncInv => TestsApart
<1> SUFFICES ASSUME SyncInv, NEW w \in Worker, pc[w] = "work", NEW u \in Worker
             PROVE  test = round[w] /\ round[u] = round[w]
  BY DEF TestsApart, At
<1>1. status # "Wait"
  BY DEF SyncInv, Stations
<1> QED
  BY <1>1 DEF SyncInv, Rounds, Behind

LEMMA InvVerdictRight == SyncInv => VerdictRight
<1> SUFFICES ASSUME SyncInv PROVE VerdictRight
  OBVIOUS
<1>1. master # "unreachable"
  BY DEF SyncInv, SyncTypes
<1>2. ASSUME raised \/ master = "check"
      PROVE  /\ status \in {"Done", "Fail"}
             /\ \A w \in Worker : round[w] = test /\ pc[w] \in {"await", "gone"}
  BY <1>2 DEF SyncInv, SyncTypes, MasterPlaces, Waits, Stations, Rounds, Behind
<1>3. status = "Done" => \A w \in Worker : outcome[w] = "ok"
  BY DEF SyncInv, Outcomes, Failed
<1>4. status = "Fail" => errmsg /\ ~ \A w \in Worker : outcome[w] = "ok"
  BY DEF SyncInv, Outcomes, Marked, Failed
<1> QED
  BY <1>1, <1>2, <1>3, <1>4 DEF VerdictRight

-----------------------------------------------------------------------------
(***************************************************************************)
(* The test check.  The barrier is that of SpinBarrierProofs; the two      *)
(* instances define the same, the operators of FiniteSets included.        *)
(***************************************************************************)
BP == INSTANCE SpinBarrierProofs WITH Thread <- Worker

LEMMA SameFiniteSets ==
  \A S : /\ BP!IsFiniteSet(S) <=> IsFiniteSet(S)
         /\ BP!Cardinality(S) = Cardinality(S)
         /\ CheckBody!Cardinality(S) = Cardinality(S)
         /\ CheckBody!Barrier!Cardinality(S) = Cardinality(S)
<1>1. \A S : BP!IsFiniteSet(S) <=> IsFiniteSet(S)
  BY DEF IsFiniteSet, BP!IsFiniteSet
<1>2. \A S : BP!Cardinality(S) = Cardinality(S)
  BY DEF Cardinality, BP!Cardinality
<1>3. \A S : CheckBody!Cardinality(S) = Cardinality(S)
  BY DEF Cardinality, CheckBody!Cardinality
<1>4. \A S : CheckBody!Barrier!Cardinality(S) = Cardinality(S)
  BY DEF Cardinality, CheckBody!Barrier!Cardinality
<1> QED
  BY <1>1, <1>2, <1>3, <1>4

LEMMA SameSync ==
  ASSUME NEW w \in Worker, CheckBody!Barrier!Sync(w)
  PROVE  BP!Sync(w)
<1> USE DEF CheckBody!Barrier!Goto, BP!Goto, CheckBody!Barrier!Passed, BP!Passed
<1>1. CheckBody!Barrier!AfterEnter(w) = BP!AfterEnter(w)
  BY SameFiniteSets DEF CheckBody!Barrier!AfterEnter, BP!AfterEnter
<1>2. CheckBody!Barrier!Enter(w) => BP!Enter(w)
  BY <1>1 DEF CheckBody!Barrier!Enter, BP!Enter
<1>3. CheckBody!Barrier!Open(w) => BP!Open(w)
  BY DEF CheckBody!Barrier!Open, BP!Open
<1>4. CheckBody!Barrier!SeeOpen(w) => BP!SeeOpen(w)
  BY DEF CheckBody!Barrier!SeeOpen, BP!SeeOpen
<1>5. CheckBody!Barrier!Leave(w) => BP!Leave(w)
  BY DEF CheckBody!Barrier!Leave, BP!Leave, CheckBody!Barrier!AfterLeave, BP!AfterLeave
<1>6. CheckBody!Barrier!Close(w) => BP!Close(w)
  BY DEF CheckBody!Barrier!Close, BP!Close
<1>7. CheckBody!Barrier!SeeClosed(w) => BP!SeeClosed(w)
  BY DEF CheckBody!Barrier!SeeClosed, BP!SeeClosed
<1> QED
  BY <1>2, <1>3, <1>4, <1>5, <1>6, <1>7 DEF CheckBody!Barrier!Sync, BP!Sync

InitCounter == CheckBody!InitCounter

Greatest == CheckBody!Greatest

Readings == CheckBody!Readings

CheckTypes ==
  /\ line \in [Worker -> CheckBody!Lines]
  /\ value \in 0..Greatest
  /\ seen \in [Worker -> 0..Greatest]
  /\ turn \in [Worker -> 0..NbTx]
  /\ faulty \in BOOLEAN

\* How often a worker has passed the barrier when it is at a line of check, and
\* at which lines it can be inside the barrier, or only the first worker can be.
CheckLines ==
  \A w \in Worker :
    /\ line[w] = "sync1" => passed[w] = 0
    /\ line[w] \in {"init", "verify", "sync2", "error2"} => passed[w] = 1
    /\ line[w] \in {"fetch", "decrease", "sync3", "error1"} => passed[w] = 2
    /\ line[w] \in {"final", "ok", "error"} => passed[w] = 3
    /\ place[w] # "out" => line[w] \in CheckBody!SyncLines
    /\ line[w] \in {"init", "verify", "final", "error2"} => w = First

CheckTurns ==
  \A w \in Worker :
    /\ line[w] \in {"sync1", "init", "verify", "sync2", "error2"} => turn[w] = 0
    /\ line[w] \in {"fetch", "decrease"} => turn[w] < NbTx
    /\ line[w] \in {"sync3", "final", "ok"} => turn[w] = NbTx

\* The decreases that have been done, each named by its worker and its number.
Decreases == Worker \X (1..NbTx)

Decreased == {d \in Decreases : d[2] <= turn[d[1]]}

\* With a right library the counter is what its first value and the decreases
\* make of it, and no worker has read a smaller one.
CheckCounter ==
  ~faulty =>
    /\ \A w \in Worker : line[w] \notin {"error2", "error1", "error"}
    /\ line[First] \notin {"sync1", "init"} =>
         value + Cardinality(Decreased) = InitCounter
    /\ \A w \in Worker : line[w] = "decrease" => value <= seen[w]

CheckInv ==
  /\ BP!BarrierInv
  /\ CheckTypes
  /\ CheckLines
  /\ CheckTurns
  /\ CheckCounter

-----------------------------------------------------------------------------

LEMMA CounterFacts ==
  /\ InitCounter \in Nat /\ Greatest \in Nat /\ Greatest = InitCounter + 1
  /\ IsFiniteSet(Decreases) /\ Cardinality(Decreases) = InitCounter
  /\ First \in Worker /\ NbTx \in Nat /\ NbTx > 0
<1>1. First \in Worker /\ NbTx \in Nat /\ NbTx > 0
  BY ProgramAssumption
<1>2. IsFiniteSet(1..NbTx) /\ Cardinality(1..NbTx) = NbTx
  BY <1>1, FS_Interval
<1>3. Cardinality(Worker) \in Nat
  BY SyncAssumption, FS_CardinalityType
<1>4. InitCounter = NbTx * Cardinality(Worker)
  BY SameFiniteSets DEF InitCounter, CheckBody!InitCounter
<1>5. IsFiniteSet(Decreases) /\ Cardinality(Decreases) = Cardinality(Worker) * NbTx
  BY <1>2, SyncAssumption, FS_Product DEF Decreases
<1>6. Cardinality(Worker) * NbTx = NbTx * Cardinality(Worker) /\ NbTx * Cardinality(Worker) \in Nat
  BY <1>1, <1>3
<1>7. Greatest = InitCounter + 1
  BY DEF Greatest, CheckBody!Greatest, InitCounter
<1>8. InitCounter \in Nat /\ Greatest \in Nat
  BY <1>4, <1>6, <1>7
<1> QED
  BY <1>1, <1>4, <1>5, <1>6, <1>7, <1>8

LEMMA DecreasedFinite ==
  /\ IsFiniteSet(Decreased)
  /\ Cardinality(Decreased) \in Nat
  /\ Cardinality(Decreased) <= InitCounter
<1>1. Decreased \in SUBSET Decreases
  BY DEF Decreased
<1> QED
  BY <1>1, CounterFacts, FS_Subset, FS_CardinalityType

\* 0 - 1 is the greatest value, all others go down by one.
LEMMA LessOne ==
  ASSUME NEW v \in 0..Greatest
  PROVE  /\ CheckBody!Less(v) \in 0..Greatest
         /\ v > 0 => CheckBody!Less(v) = v - 1
<1>1. Greatest \in Nat /\ v \in Nat
  BY CounterFacts
<1>2. \A x \in Int, g \in Nat : x % (g + 1) \in 0..g
  OBVIOUS
<1>3. \A x \in Nat, g \in Nat : x <= g => x % (g + 1) = x
  OBVIOUS
<1>4. CheckBody!Less(v) = (v - 1) % (Greatest + 1)
  BY DEF CheckBody!Less, Greatest
<1>5. v > 0 => v - 1 \in Nat /\ v - 1 <= Greatest
  BY <1>1
<1>6. v > 0 => CheckBody!Less(v) = v - 1
  BY <1>1, <1>3, <1>4, <1>5
<1>7. v - 1 \in Int
  BY <1>1
<1>8. CheckBody!Less(v) \in 0..Greatest
  BY <1>1, <1>2, <1>4, <1>7
<1> QED
  BY <1>6, <1>8

LEMMA CheckInitInv == ASSUME CheckBody!Init PROVE CheckInv
<1>1. BP!BarrierInv
  <2>1. BP!Init
    BY DEF CheckBody!Init, CheckBody!Barrier!Init, BP!Init
  <2> QED
    BY <2>1, SyncAssumption, SameFiniteSets, BP!InitInv
<1>2. CheckTypes
  <2>1. "sync1" \in CheckBody!Lines
    BY DEF CheckBody!Lines, CheckBody!SyncLines
  <2>2. 0 \in 0..Greatest /\ 0 \in 0..NbTx
    BY CounterFacts
  <2> QED
    BY <2>1, <2>2 DEF CheckTypes, CheckBody!Init
<1>3. CheckLines
  BY DEF CheckLines, CheckBody!Init, CheckBody!Barrier!Init
<1>4. CheckTurns /\ CheckCounter
  BY CounterFacts DEF CheckBody!Init, CheckTurns, CheckCounter
<1> QED
  BY <1>1, <1>2, <1>3, <1>4 DEF CheckInv

LEMMA Still ==
  ASSUME BP!BarrierInv, UNCHANGED <<step, mode, place, passed>>
  PROVE  BP!BarrierInv'
BY BP!UnchangedInv DEF BP!barrierVars

\* A worker at a line between two barriers knows where the others can be.
LEMMA OthersNear ==
  ASSUME BP!BarrierInv, CheckLines, NEW w \in Worker, NEW u \in Worker
  PROVE  passed[u] <= passed[w] + 1 /\ (place[w] = "out" => passed[u] <= passed[w])
<1>1. passed[u] <= BP!Arrivals[w]
  BY BP!NobodyAhead
<1>2. passed \in [Worker -> Nat]
  BY DEF BP!BarrierInv, BP!BarrierTypeOK
<1>3. BP!Arrivals[w] = IF place[w] = "out" THEN passed[w] ELSE passed[w] + 1
  BY DEF BP!Arrivals
<1> QED
  BY <1>1, <1>2, <1>3

\* While the first worker sets the counter up nobody has begun to decrease it.
LEMMA NothingDecreased ==
  ASSUME BP!BarrierInv, CheckTypes, CheckLines, CheckTurns,
         line[First] \in {"init", "verify"}
  PROVE  /\ Decreased = {}
         /\ \A u \in Worker : line[u] \notin {"fetch", "decrease"}
<1>1. First \in Worker /\ passed[First] = 1 /\ place[First] = "out"
  BY CounterFacts DEF CheckLines, CheckBody!SyncLines
<1>2. \A u \in Worker : passed[u] <= 1
  BY <1>1, OthersNear
<1>3. \A u \in Worker : line[u] \in {"sync1", "init", "verify", "sync2", "error2"}
  <2> SUFFICES ASSUME NEW u \in Worker
               PROVE  line[u] \in {"sync1", "init", "verify", "sync2", "error2"}
    OBVIOUS
  <2>1. passed[u] # 2 /\ passed[u] # 3
    BY <1>2
  <2>2. line[u] \in CheckBody!Lines
    BY DEF CheckTypes
  <2> QED
    BY <2>1, <2>2 DEF CheckLines, CheckBody!Lines, CheckBody!SyncLines, CheckBody!TxLines
<1>4. \A u \in Worker : turn[u] = 0
  BY <1>3 DEF CheckTurns
<1>5. \A d \in Decreases : d[1] \in Worker /\ d[2] > 0
  BY CounterFacts DEF Decreases
<1>6. Decreased = {}
  <2> SUFFICES ASSUME NEW d \in Decreased PROVE FALSE
    OBVIOUS
  <2>1. d \in Decreases /\ d[2] <= turn[d[1]]
    BY DEF Decreased
  <2>2. d[2] \in Nat
    BY <2>1, CounterFacts DEF Decreases
  <2> QED
    BY <1>4, <1>5, <2>1, <2>2
<1> QED
  BY <1>3, <1>6

\* barrier.sync().
LEMMA MeetInv ==
  ASSUME CheckInv, NEW w \in Worker, CheckBody!Meet(w)
  PROVE  CheckInv'
<1> USE DEF CheckInv
<1>0. /\ line[w] \in CheckBody!SyncLines /\ CheckBody!Barrier!Sync(w)
      /\ place'[w] = "out" => CheckBody!GoOn(w, CheckBody!AfterSync(w))
      /\ place'[w] # "out" => line' = line
      /\ UNCHANGED <<value, seen, turn, faulty>>
  BY DEF CheckBody!Meet
<1>1. BP!Sync(w)
  BY <1>0, SameSync
<1>2. BP!BarrierInv'
  BY <1>1, SyncAssumption, SameFiniteSets, BP!SyncInv
<1>3. /\ \A u \in Worker : u # w => place'[u] = place[u] /\ passed'[u] = passed[u]
      /\ passed'[w] = IF place'[w] = "out" THEN passed[w] + 1 ELSE passed[w]
  BY <1>1, SyncAssumption, SameFiniteSets, BP!SyncMoves
<1>4. CASE place'[w] # "out"
  <2>1. passed'[w] = passed[w] /\ line' = line
    BY <1>0, <1>3, <1>4
  <2>2. CheckLines'
    <3>1. \A u \in Worker : passed'[u] = passed[u] /\ (u # w => place'[u] = place[u])
      BY <1>3, <2>1
    <3> QED
      BY <1>0, <2>1, <3>1 DEF CheckLines
  <2> QED
    BY <1>0, <1>2, <2>1, <2>2 DEF CheckTypes, CheckTurns, CheckCounter, Decreased
<1>5. CASE place'[w] = "out"
  <2>1. passed'[w] = passed[w] + 1 /\ CheckBody!GoOn(w, CheckBody!AfterSync(w))
    BY <1>0, <1>3, <1>5
  <2>2. /\ line[w] = "sync1" => CheckBody!AfterSync(w) \in {"init", "sync2"}
        /\ CheckBody!AfterSync(w) \in {"init", "final"} => w = First
        /\ line[w] = "sync1" /\ w = First => CheckBody!AfterSync(w) = "init"
        /\ line[w] = "sync2" => CheckBody!AfterSync(w) = "fetch"
        /\ line[w] = "sync3" => CheckBody!AfterSync(w) \in {"final", "ok"}
        /\ line[w] = "error2" => CheckBody!AfterSync(w) = "error1"
        /\ line[w] = "error1" => CheckBody!AfterSync(w) = "error"
    <3>1. CASE line[w] = "sync1"
      BY <3>1 DEF CheckBody!AfterSync
    <3>2. CASE line[w] = "sync2"
      BY <3>2 DEF CheckBody!AfterSync
    <3>3. CASE line[w] = "sync3"
      BY <3>3 DEF CheckBody!AfterSync
    <3>4. CASE line[w] = "error2"
      BY <3>4 DEF CheckBody!AfterSync
    <3>5. CASE line[w] = "error1"
      BY <3>5 DEF CheckBody!AfterSync
    <3> QED
      BY <1>0, <3>1, <3>2, <3>3, <3>4, <3>5 DEF CheckBody!SyncLines
  <2>3. PICK l : /\ line' = [line EXCEPT ![w] = l]
                 /\ \/ line[w] = "sync1" /\ l \in {"init", "sync2"}
                       /\ (w = First <=> l = "init")
                    \/ line[w] = "sync2" /\ l = "fetch"
                    \/ line[w] = "sync3" /\ l \in {"final", "ok"} /\ (l = "final" => w = First)
                    \/ line[w] = "error2" /\ l = "error1"
                    \/ line[w] = "error1" /\ l = "error"
    BY <1>0, <2>1, <2>2 DEF CheckBody!GoOn, CheckBody!SyncLines
  <2>4. passed[w] \in Nat
    BY DEF BP!BarrierInv, BP!BarrierTypeOK
  <2>5. CheckTypes'
    BY <1>0, <2>3 DEF CheckTypes, CheckBody!Lines, CheckBody!SyncLines, CheckBody!TxLines
  <2>6. CheckLines'
    <3> SUFFICES ASSUME NEW u \in Worker
                 PROVE  /\ line'[u] = "sync1" => passed'[u] = 0
                        /\ line'[u] \in {"init", "verify", "sync2", "error2"} => passed'[u] = 1
                        /\ line'[u] \in {"fetch", "decrease", "sync3", "error1"} => passed'[u] = 2
                        /\ line'[u] \in {"final", "ok", "error"} => passed'[u] = 3
                        /\ place'[u] # "out" => line'[u] \in CheckBody!SyncLines
                        /\ line'[u] \in {"init", "verify", "final", "error2"} => u = First
      BY DEF CheckLines
    <3>1. CASE u # w
      BY <1>3, <2>3, <3>1 DEF CheckLines, CheckTypes
    <3>2. CASE u = w
      <4>1. line'[w] = l
        BY <2>3 DEF CheckTypes
      <4>2. /\ line[w] = "sync1" => passed[w] = 0
            /\ line[w] \in {"sync2", "error2"} => passed[w] = 1
            /\ line[w] \in {"sync3", "error1"} => passed[w] = 2
        BY DEF CheckLines
      <4>3. /\ line[w] = "sync1" => passed'[w] = 1
            /\ line[w] \in {"sync2", "error2"} => passed'[w] = 2
            /\ line[w] \in {"sync3", "error1"} => passed'[w] = 3
        BY <2>1, <2>4, <4>2
      <4> QED
        BY <1>5, <2>3, <3>2, <4>1, <4>3
    <3> QED
      BY <3>1, <3>2
  <2>7. CheckTurns'
    BY <1>0, <2>3, CounterFacts DEF CheckTurns, CheckTypes
  <2>8. CheckCounter'
    BY <1>0, <2>3, CounterFacts DEF CheckCounter, CheckTypes, Decreased
  <2> QED
    BY <1>2, <2>5, <2>6, <2>7, <2>8
<1> QED
  BY <1>4, <1>5

LEMMA InitTxInv ==
  ASSUME CheckInv, NEW w \in Worker, CheckBody!InitTx(w)
  PROVE  CheckInv'
<1> USE DEF CheckInv
<1>1. BP!BarrierInv'
  BY Still DEF CheckBody!InitTx, CheckBody!barrierVars
<1>2. /\ w = First /\ line[w] = "init"
      /\ line' = [line EXCEPT ![w] = "verify"]
      /\ turn' = turn /\ seen' = seen /\ faulty' = faulty /\ passed' = passed /\ place' = place
  BY DEF CheckBody!InitTx, CheckLines, CheckBody!GoOn, CheckBody!barrierVars
<1>3. value' \in 0..Greatest /\ (~faulty => value' = InitCounter)
  BY CounterFacts DEF CheckBody!InitTx, CheckTypes, CheckBody!Stored, InitCounter
<1>4. CheckTypes'
  BY <1>2, <1>3 DEF CheckTypes, CheckBody!Lines, CheckBody!SyncLines, CheckBody!TxLines
<1>5. CheckLines' /\ CheckTurns'
  BY <1>2 DEF CheckLines, CheckTurns, CheckTypes, CheckBody!SyncLines
<1>6. Decreased = {} /\ \A u \in Worker : line[u] # "decrease"
  BY <1>2, NothingDecreased
<1>7. Cardinality(Decreased') = 0
  BY <1>2, <1>6, FS_EmptySet DEF Decreased
<1>8. CheckCounter'
  <2>1. ~faulty => value' + Cardinality(Decreased') = InitCounter
    BY <1>3, <1>7, CounterFacts
  <2>2. \A u \in Worker : line'[u] # "decrease" /\ (u # w => line'[u] = line[u])
    BY <1>2, <1>6 DEF CheckTypes
  <2>3. line'[w] = "verify"
    BY <1>2 DEF CheckTypes
  <2> QED
    BY <1>2, <2>1, <2>2, <2>3 DEF CheckCounter
<1> QED
  BY <1>1, <1>4, <1>5, <1>8

LEMMA VerifyTxInv ==
  ASSUME CheckInv, NEW w \in Worker, CheckBody!VerifyTx(w)
  PROVE  CheckInv'
<1> USE DEF CheckInv
<1>0. UNCHANGED <<step, mode, place, passed, value, seen, turn, faulty>>
  BY DEF CheckBody!VerifyTx, CheckBody!barrierVars
<1>1. BP!BarrierInv'
  BY <1>0, Still
<1>2. w = First /\ line[w] = "verify"
  BY DEF CheckBody!VerifyTx, CheckLines
<1>3. ~faulty => value = InitCounter
  <2>1. Decreased = {}
    BY <1>2, NothingDecreased
  <2>2. Cardinality(Decreased) = 0
    BY <2>1, FS_EmptySet
  <2>3. ~faulty => value + Cardinality(Decreased) = InitCounter
    BY <1>2 DEF CheckCounter
  <2>4. value \in Nat
    BY CounterFacts DEF CheckTypes
  <2> QED
    BY <2>2, <2>3, <2>4
<1>4. PICK l \in {"sync2", "error2"} : /\ line' = [line EXCEPT ![w] = l]
                                       /\ ~faulty => l = "sync2"
  <2>1. PICK r \in Readings :
          CheckBody!GoOn(w, IF r = InitCounter THEN "sync2" ELSE CheckBody!ErrorAfterVerify)
    BY DEF CheckBody!VerifyTx, InitCounter, Readings
  <2> DEFINE q == IF r = InitCounter THEN "sync2" ELSE CheckBody!ErrorAfterVerify
  <2>2. q \in {"sync2", "error2"} /\ (~faulty => q = "sync2")
    BY <1>3 DEF Readings, CheckBody!Readings, CheckBody!ErrorAfterVerify
  <2>3. CheckBody!GoOn(w, q)
    BY <2>1
  <2> HIDE DEF q
  <2> QED
    BY <2>2, <2>3 DEF CheckBody!GoOn
<1>5. line'[w] = l /\ \A u \in Worker : u # w => line'[u] = line[u]
  <2>1. line \in [Worker -> CheckBody!Lines]
    BY DEF CheckTypes
  <2> QED
    BY <1>4, <2>1
<1>6. CheckTypes'
  <2>1. l \in CheckBody!Lines
    BY DEF CheckBody!Lines, CheckBody!SyncLines
  <2>2. line \in [Worker -> CheckBody!Lines]
    BY DEF CheckTypes
  <2>3. line' \in [Worker -> CheckBody!Lines]
    BY <1>4, <2>1, <2>2
  <2> QED
    BY <1>0, <2>3 DEF CheckTypes
<1>7. CheckLines'
  <2>1. place[w] = "out" /\ passed[w] = 1
    BY <1>2 DEF CheckLines, CheckBody!SyncLines
  <2> QED
    BY <1>0, <1>2, <1>5, <2>1 DEF CheckLines
<1>8. CheckTurns'
  BY <1>0, <1>2, <1>5 DEF CheckTurns
<1>9. CheckCounter'
  <2>1. Decreased' = Decreased
    BY <1>0 DEF Decreased
  <2>2. line'[First] \notin {"sync1", "init"} /\ line[First] \notin {"sync1", "init"}
    BY <1>2, <1>5
  <2>3. ~faulty => \A u \in Worker : line'[u] \notin {"error2", "error1", "error"}
    BY <1>4, <1>5 DEF CheckCounter
  <2>4. \A u \in Worker : line'[u] = "decrease" => line[u] = "decrease"
    BY <1>5
  <2> QED
    BY <1>0, <2>1, <2>2, <2>3, <2>4 DEF CheckCounter
<1> QED
  BY <1>1, <1>6, <1>7, <1>8, <1>9

LEMMA FetchTxInv ==
  ASSUME CheckInv, NEW w \in Worker, CheckBody!FetchTx(w)
  PROVE  CheckInv'
<1> USE DEF CheckInv
<1>0. UNCHANGED <<step, mode, place, passed, value, turn, faulty>>
  BY DEF CheckBody!FetchTx, CheckBody!barrierVars
<1>1. BP!BarrierInv'
  BY <1>0, Still
<1>2. /\ line[w] = "fetch" /\ line' = [line EXCEPT ![w] = "decrease"]
      /\ \E r \in Readings : seen' = [seen EXCEPT ![w] = r]
  BY DEF CheckBody!FetchTx, CheckBody!GoOn, Readings
<1>3. Readings \in SUBSET (0..Greatest) /\ (~faulty => Readings = {value})
  BY DEF Readings, CheckBody!Readings, CheckTypes, Greatest
<1>4. CheckTypes'
  <2>1. seen' \in [Worker -> 0..Greatest]
    BY <1>2, <1>3 DEF CheckTypes
  <2> QED
    BY <1>0, <1>2, <2>1 DEF CheckTypes, CheckBody!Lines, CheckBody!TxLines
<1>5. CheckLines' /\ CheckTurns'
  <2>1. line'[w] = "decrease" /\ \A u \in Worker : u # w => line'[u] = line[u]
    BY <1>2 DEF CheckTypes
  <2>2. place[w] = "out" /\ passed[w] = 2 /\ turn[w] < NbTx
    BY <1>2 DEF CheckLines, CheckTurns, CheckBody!SyncLines
  <2>3. CheckLines'
    BY <1>0, <2>1, <2>2 DEF CheckLines
  <2>4. CheckTurns'
    BY <1>0, <2>1, <2>2 DEF CheckTurns
  <2> QED
    BY <2>3, <2>4
<1>6. CheckCounter'
  <2>1. ~faulty => seen'[w] = value /\ \A u \in Worker : u # w => seen'[u] = seen[u]
    BY <1>2, <1>3 DEF CheckTypes
  <2>2. value \in Nat
    BY CounterFacts DEF CheckTypes
  <2>3. ~faulty => \A u \in Worker : line'[u] = "decrease" => value <= seen'[u]
    BY <1>2, <2>1, <2>2 DEF CheckCounter, CheckTypes
  <2> QED
    BY <1>0, <1>2, <2>3 DEF CheckCounter, CheckTypes, Decreased
<1> QED
  BY <1>1, <1>4, <1>5, <1>6

\* One more decrease is done; there was one left to do.
LEMMA OneMore ==
  ASSUME CheckTypes, NEW w \in Worker, turn[w] < NbTx,
         turn' = [turn EXCEPT ![w] = turn[w] + 1]
  PROVE  /\ Cardinality(Decreased') = Cardinality(Decreased) + 1
         /\ Cardinality(Decreased') <= InitCounter
<1> DEFINE d == <<w, turn[w] + 1>>
<1>1. turn \in [Worker -> 0..NbTx] /\ NbTx \in Nat /\ turn[w] \in Nat
  BY CounterFacts DEF CheckTypes
<1>2. d \in Decreases /\ d \notin Decreased
  BY <1>1 DEF Decreases, Decreased
<1>3. Decreased' = Decreased \cup {d}
  <2>1. ASSUME NEW e \in Decreases
        PROVE  e[2] <= turn'[e[1]] <=> e[2] <= turn[e[1]] \/ e = d
    <3>1. e[1] \in Worker /\ e[2] \in Nat /\ e = <<e[1], e[2]>>
      BY <1>1 DEF Decreases
    <3>2. CASE e[1] # w
      BY <1>1, <3>1, <3>2
    <3>3. CASE e[1] = w
      <4>1. turn'[e[1]] = turn[w] + 1
        BY <1>1, <3>3
      <4> QED
        BY <1>1, <3>1, <3>3, <4>1
    <3> QED
      BY <3>2, <3>3
  <2> HIDE DEF d
  <2> QED
    BY <1>2, <2>1 DEF Decreased
<1>4. Decreased' \in SUBSET Decreases
  BY DEF Decreased
<1> HIDE DEF d
<1>5. Cardinality(Decreased') = Cardinality(Decreased) + 1
  BY <1>2, <1>3, DecreasedFinite, FS_AddElement
<1> QED
  BY <1>4, <1>5, CounterFacts, FS_Subset

LEMMA DecreaseTxInv ==
  ASSUME CheckInv, NEW w \in Worker, CheckBody!DecreaseTx(w)
  PROVE  CheckInv'
<1> USE DEF CheckInv
<1>0. UNCHANGED <<step, mode, place, passed, faulty>> /\ line[w] = "decrease"
  BY DEF CheckBody!DecreaseTx, CheckBody!barrierVars
<1>1. BP!BarrierInv'
  BY <1>0, Still
<1>2. place[w] = "out" /\ passed[w] = 2 /\ turn[w] < NbTx
  BY <1>0 DEF CheckLines, CheckTurns, CheckBody!SyncLines
<1>3. Readings \in SUBSET (0..Greatest) /\ (~faulty => Readings = {value})
  BY DEF Readings, CheckBody!Readings, CheckTypes, Greatest
<1>4. ASSUME NEW r \in Readings, CheckBody!Increased(r, seen[w]),
             CheckBody!GoOn(w, "error1"), UNCHANGED <<value, turn, seen>>
      PROVE  CheckInv'
  <2>1. faulty
    <3>1. r \in Nat /\ value \in Nat /\ seen[w] \in Nat
      BY <1>3, CounterFacts DEF CheckTypes
    <3> QED
      BY <1>0, <1>3, <1>4, <3>1 DEF CheckBody!Increased, CheckCounter
  <2>2. line' = [line EXCEPT ![w] = "error1"]
    BY <1>4 DEF CheckBody!GoOn
  <2>3. CheckTypes'
    BY <1>0, <1>4, <2>2 DEF CheckTypes, CheckBody!Lines, CheckBody!SyncLines
  <2>4. CheckLines' /\ CheckTurns'
    BY <1>0, <1>2, <1>4, <2>2 DEF CheckLines, CheckTurns, CheckTypes, CheckBody!SyncLines
  <2> QED
    BY <1>0, <1>1, <2>1, <2>3, <2>4 DEF CheckCounter
<1>5. ASSUME NEW r \in Readings, ~CheckBody!Increased(r, seen[w]),
             value' = CheckBody!Stored(CheckBody!Less(r)),
             turn' = [turn EXCEPT ![w] = turn[w] + 1],
             seen' = [seen EXCEPT ![w] = 0],
             NEW l \in {"fetch", "sync3"}, line' = [line EXCEPT ![w] = l],
             l = "fetch" <=> turn[w] + 1 < NbTx
      PROVE  CheckInv'
  <2>1. turn \in [Worker -> 0..NbTx] /\ NbTx \in Nat /\ turn[w] \in Nat
    BY CounterFacts DEF CheckTypes
  <2>2. value' \in 0..Greatest
    BY <1>3, <1>5, LessOne DEF CheckBody!Stored, CheckTypes
  <2>3. turn' \in [Worker -> 0..NbTx]
    BY <1>2, <1>5, <2>1
  <2>4. 0 \in 0..Greatest
    BY CounterFacts
  <2>5. CheckTypes'
    <3>1. l \in CheckBody!Lines
      BY DEF CheckBody!Lines, CheckBody!SyncLines, CheckBody!TxLines
    <3> QED
      BY <1>0, <1>5, <2>2, <2>3, <2>4, <3>1 DEF CheckTypes
  <2>6. CheckLines'
    BY <1>0, <1>2, <1>5 DEF CheckLines, CheckTypes, CheckBody!SyncLines
  <2>7. CheckTurns'
    <3>1. turn'[w] = turn[w] + 1 /\ (l = "sync3" => turn'[w] = NbTx)
      BY <1>2, <1>5, <2>1
    <3>2. line'[w] = l /\ \A u \in Worker : u # w => line'[u] = line[u] /\ turn'[u] = turn[u]
      BY <1>5 DEF CheckTypes
    <3> QED
      BY <1>5, <3>1, <3>2 DEF CheckTurns
  <2>8. CheckCounter'
    <3> SUFFICES ASSUME ~faulty PROVE CheckCounter'
      BY <1>0 DEF CheckCounter
    <3>1. passed[First] # 0 /\ ~(passed[First] = 1 /\ place[First] = "out")
      <4>1. passed[First] \in Nat /\ First \in Worker
        BY CounterFacts DEF BP!BarrierInv, BP!BarrierTypeOK
      <4> QED
        BY <1>2, <4>1, OthersNear
    <3>2. line[First] \notin {"sync1", "init"}
      BY <3>1, CounterFacts DEF CheckLines, CheckBody!SyncLines
    <3>3. value + Cardinality(Decreased) = InitCounter /\ r = value
      BY <1>3, <3>2 DEF CheckCounter
    <3>4. /\ Cardinality(Decreased') = Cardinality(Decreased) + 1
          /\ Cardinality(Decreased') <= InitCounter
      BY <1>2, <1>5, OneMore
    <3>5. value \in Nat /\ Cardinality(Decreased) \in Nat /\ InitCounter \in Nat
      BY DecreasedFinite, CounterFacts DEF CheckTypes
    <3>6. value > 0
      BY <3>3, <3>4, <3>5
    <3>7. value' = value - 1
      BY <1>5, <3>3, <3>6, LessOne DEF CheckBody!Stored, CheckTypes
    <3>8. value' + Cardinality(Decreased') = InitCounter
      BY <3>3, <3>4, <3>5, <3>7
    <3>9. \A u \in Worker : line'[u] = "decrease" => value' <= seen'[u]
      <4> SUFFICES ASSUME NEW u \in Worker, line'[u] = "decrease" PROVE value' <= seen'[u]
        OBVIOUS
      <4>1. u # w /\ line[u] = "decrease" /\ seen'[u] = seen[u]
        BY <1>5 DEF CheckTypes
      <4>2. value <= seen[u] /\ seen[u] \in Nat
        BY <4>1, CounterFacts DEF CheckCounter, CheckTypes
      <4> QED
        BY <3>5, <3>7, <4>1, <4>2
    <3>10. /\ \A u \in Worker : line'[u] \notin {"error2", "error1", "error"}
      BY <1>5 DEF CheckCounter, CheckTypes
    <3> QED
      BY <3>8, <3>9, <3>10 DEF CheckCounter
  <2> QED
    BY <1>1, <2>5, <2>6, <2>7, <2>8
<1>6. PICK r \in Readings :
        \/ /\ CheckBody!Increased(r, seen[w])
           /\ CheckBody!GoOn(w, "error1")
           /\ UNCHANGED <<value, turn, seen>>
        \/ /\ ~CheckBody!Increased(r, seen[w])
           /\ value' = CheckBody!Stored(CheckBody!Less(r))
           /\ turn' = [turn EXCEPT ![w] = @ + 1]
           /\ seen' = [seen EXCEPT ![w] = 0]
           /\ CheckBody!GoOn(w, IF turn[w] + 1 < NbTx THEN "fetch" ELSE "sync3")
  BY DEF CheckBody!DecreaseTx, Readings
<1>7. CASE CheckBody!Increased(r, seen[w])
  BY <1>4, <1>6, <1>7
<1>8. CASE ~CheckBody!Increased(r, seen[w])
  <2> DEFINE q == IF turn[w] + 1 < NbTx THEN "fetch" ELSE "sync3"
  <2>1. q \in {"fetch", "sync3"} /\ (q = "fetch" <=> turn[w] + 1 < NbTx)
    OBVIOUS
  <2>2. CheckBody!GoOn(w, q)
    BY <1>6, <1>8
  <2> HIDE DEF q
  <2>3. line' = [line EXCEPT ![w] = q]
    BY <2>2 DEF CheckBody!GoOn
  <2>4. /\ value' = CheckBody!Stored(CheckBody!Less(r))
        /\ turn' = [turn EXCEPT ![w] = turn[w] + 1]
        /\ seen' = [seen EXCEPT ![w] = 0]
    BY <1>6, <1>8
  <2> QED
    BY <1>5, <1>8, <2>1, <2>3, <2>4
<1> QED
  BY <1>7, <1>8

LEMMA FinalTxInv ==
  ASSUME CheckInv, NEW w \in Worker, CheckBody!FinalTx(w)
  PROVE  CheckInv'
<1> USE DEF CheckInv
<1>0. UNCHANGED <<step, mode, place, passed, value, seen, turn, faulty>>
  BY DEF CheckBody!FinalTx, CheckBody!barrierVars
<1>1. BP!BarrierInv'
  BY <1>0, Still
<1>2. w = First /\ line[w] = "final" /\ place[w] = "out" /\ passed[w] = 3 /\ turn[w] = NbTx
  BY DEF CheckBody!FinalTx, CheckLines, CheckTurns, CheckBody!SyncLines
<1>3. ~faulty => value = 0
  <2> SUFFICES ASSUME ~faulty PROVE value = 0
    OBVIOUS
  <2>1. \A u \in Worker : turn[u] = NbTx
    <3> SUFFICES ASSUME NEW u \in Worker PROVE turn[u] = NbTx
      OBVIOUS
    <3>1. passed[u] \in Nat /\ line[u] \in CheckBody!Lines
      BY DEF BP!BarrierInv, BP!BarrierTypeOK, CheckTypes
    <3>2. passed[u] # 0 /\ passed[u] # 1 /\ (passed[u] = 2 => place[u] # "out")
      BY <1>2, <3>1, OthersNear
    <3>3. line[u] \notin {"error2", "error1", "error"}
      BY DEF CheckCounter
    <3>4. line[u] \in {"sync3", "final", "ok"}
      BY <3>1, <3>2, <3>3 DEF CheckLines, CheckBody!Lines, CheckBody!SyncLines, CheckBody!TxLines
    <3> QED
      BY <3>4 DEF CheckTurns
  <2>2. Decreased = Decreases
    <3>1. \A d \in Decreases : d[1] \in Worker /\ d[2] <= NbTx
      BY CounterFacts DEF Decreases
    <3> QED
      BY <2>1, <3>1 DEF Decreased
  <2>3. value + InitCounter = InitCounter
    BY <1>2, <2>2, CounterFacts DEF CheckCounter
  <2>4. value \in Nat /\ InitCounter \in Nat
    BY CounterFacts DEF CheckTypes
  <2> QED
    BY <2>3, <2>4
<1>4. PICK l \in {"ok", "error"} : line' = [line EXCEPT ![w] = l] /\ (~faulty => l = "ok")
  <2>1. PICK r \in Readings : CheckBody!GoOn(w, IF r = 0 THEN "ok" ELSE "error")
    BY DEF CheckBody!FinalTx, Readings
  <2> DEFINE q == IF r = 0 THEN "ok" ELSE "error"
  <2>2. q \in {"ok", "error"} /\ (~faulty => q = "ok")
    BY <1>3 DEF Readings, CheckBody!Readings
  <2>3. CheckBody!GoOn(w, q)
    BY <2>1
  <2> HIDE DEF q
  <2> QED
    BY <2>2, <2>3 DEF CheckBody!GoOn
<1>5. line \in [Worker -> CheckBody!Lines]
  BY DEF CheckTypes
<1>6. line'[w] = l /\ \A u \in Worker : u # w => line'[u] = line[u]
  BY <1>4, <1>5
<1>7. CheckTypes'
  <2>1. l \in CheckBody!Lines
    BY DEF CheckBody!Lines
  <2>2. line' \in [Worker -> CheckBody!Lines]
    BY <1>4, <1>5, <2>1
  <2> QED
    BY <1>0, <2>2 DEF CheckTypes
<1>8. CheckLines'
  BY <1>0, <1>2, <1>6 DEF CheckLines
<1>9. CheckTurns'
  BY <1>0, <1>2, <1>6 DEF CheckTurns
<1>10. CheckCounter'
  <2>1. Decreased' = Decreased
    BY <1>0 DEF Decreased
  <2>2. line'[First] \notin {"sync1", "init"} /\ line[First] \notin {"sync1", "init"}
    BY <1>2, <1>6
  <2>3. ~faulty => \A u \in Worker : line'[u] \notin {"error2", "error1", "error"}
    BY <1>4, <1>6 DEF CheckCounter
  <2>4. \A u \in Worker : line'[u] = "decrease" => line[u] = "decrease"
    BY <1>6
  <2> QED
    BY <1>0, <2>1, <2>2, <2>3, <2>4 DEF CheckCounter
<1> QED
  BY <1>1, <1>7, <1>8, <1>9, <1>10

LEMMA CheckNextInv ==
  ASSUME CheckInv, (\E w \in Worker : CheckBody!CheckStep(w)) \/ UNCHANGED checkVars
  PROVE  CheckInv'
<1>1. CASE \E w \in Worker : CheckBody!CheckStep(w)
  BY <1>1, MeetInv, InitTxInv, VerifyTxInv, FetchTxInv, DecreaseTxInv, FinalTxInv
     DEF CheckBody!CheckStep
<1>2. CASE UNCHANGED checkVars
  <2>1. BP!BarrierInv'
    BY <1>2, Still DEF checkVars, CheckInv
  <2>2. CheckTypes' /\ CheckLines' /\ CheckTurns' /\ CheckCounter'
    BY <1>2 DEF checkVars, CheckInv, CheckTypes, CheckLines, CheckTurns, CheckCounter, Decreased
  <2> QED
    BY <2>1, <2>2 DEF CheckInv
<1> QED
  BY <1>1, <1>2

-----------------------------------------------------------------------------
(***************************************************************************)
(* The program: what main knows of the workers and of bounded_run at each  *)
(* stage.                                                                  *)
(***************************************************************************)
AllGone == \A w \in Worker : pc[w] = "gone"

NotBegun == test = 0 /\ master = "notify"

StageInv ==
  /\ caller \in Side!CallerPlaces
  /\ runner \in Side!RunnerPlaces
  /\ stage \in Stages
  /\ caller = "returned" => runner = "ended"
  /\ stage = "create" => NotBegun
  /\ master = "joined" => AllGone
  /\ stage \in {"destroy", "terminated"} => AllGone
  /\ stage = "unloaded" => /\ AllGone \/ NotBegun
                           /\ runner = "ended" \/ caller = "thrown"

ProgramInv == SyncInv /\ CheckInv /\ StageInv

\* A step of the program is a step of the workers and the master, or none.
LEMMA ProgramSyncStep == ASSUME [ProgramNext]_programVars PROVE [Next]_vars
<1>1. ASSUME NEW w \in Worker, MeasureWorker(w) PROVE [Next]_vars
  <2>1. CASE OutsideCheck(w)
    BY <2>1 DEF OutsideCheck, Next
  <2>2. CASE RunCheck(w)
    BY <2>2 DEF RunCheck, Next, WorkerStep
  <2>3. CASE ThrowInCheck(w)
    BY <2>3 DEF ThrowInCheck, Next, WorkerStep
  <2> QED
    BY <1>1, <2>1, <2>2, <2>3 DEF MeasureWorker
<1>2. CASE Main
  BY <1>2 DEF Main, SideCall, SideCaller, SideOver, MeasureMaster, MeasureOver, Next
<1>3. CASE SideRunner \/ SideAccident \/ MeasureAccident
  BY <1>3 DEF SideRunner, SideAccident, MeasureAccident, Next
<1>4. CASE UNCHANGED programVars
  BY <1>4 DEF programVars
<1> QED
  BY <1>1, <1>2, <1>3, <1>4 DEF ProgramNext

\* A step of the program is a step of check, or none.
LEMMA ProgramCheckStep ==
  ASSUME [ProgramNext]_programVars
  PROVE  (\E w \in Worker : CheckBody!CheckStep(w)) \/ UNCHANGED checkVars
<1>1. CASE \E w \in Worker : MeasureWorker(w)
  BY <1>1 DEF MeasureWorker, OutsideCheck, RunCheck, ThrowInCheck
<1>2. CASE Main
  BY <1>2 DEF Main, SideCall, SideCaller, SideOver, MeasureMaster, MeasureOver
<1>3. CASE SideRunner \/ SideAccident \/ MeasureAccident
  BY <1>3 DEF SideRunner, SideAccident, MeasureAccident
<1>4. CASE UNCHANGED programVars
  BY <1>4 DEF programVars
<1> QED
  BY <1>1, <1>2, <1>3, <1>4 DEF ProgramNext

\* A worker that is gone does nothing, and the master joins only such workers.
LEMMA GoneStays ==
  ASSUME SyncTypes, master = "joined" => AllGone, [Next]_vars
  PROVE  master' = "joined" => AllGone'
<1>1. CASE \E w \in Worker : WorkerStep(w)
  <2> SUFFICES ASSUME NEW w \in Worker, WorkerStep(w), master' = "joined" PROVE FALSE
    BY <1>1
  <2>1. pc[w] # "gone"
    BY DEF WorkerStep, Await, Arrive, Clear, Release, Spin, Work, Message, Mark, Count, Decide,
           Publish, Raise, At
  <2>2. master = "joined"
    BY DEF WorkerStep, Await, Arrive, Clear, Release, Spin, Work, Message, Mark, Count, Decide,
           Publish, Raise, Notified, masterVars
  <2> QED
    BY <2>1, <2>2 DEF AllGone
<1>2. CASE MasterStep
  BY <1>2 DEF MasterStep, Notify, MasterWait, Check, Quit, Join, workerVars, AllGone, At
<1>3. CASE Accident
  BY <1>3 DEF Accident, SpuriousWake, Overrun
<1>4. CASE UNCHANGED vars
  BY <1>4 DEF vars, masterVars, workerVars, AllGone
<1> QED
  BY <1>1, <1>2, <1>3, <1>4 DEF Next

LEMMA StageInitInv == ASSUME ProgramInit PROVE StageInv
BY DEF ProgramInit, Init, Side!Init, StageInv, NotBegun, Stages, Side!CallerPlaces,
       Side!RunnerPlaces

\* Steps of the workers and the master: the stage is measure.
LEMMA StageMeasure ==
  ASSUME SyncInv, StageInv, stage = "measure", [Next]_vars,
         UNCHANGED <<sideVars, stage>>
  PROVE  StageInv'
<1>1. master' = "joined" => AllGone'
  BY GoneStays DEF StageInv, SyncInv
<1> QED
  BY <1>1 DEF StageInv, sideVars

\* Steps of bounded_run.
LEMMA StageSide ==
  ASSUME StageInv, UNCHANGED <<vars, stage>>,
         Side!CallerStep \/ Side!RunnerStep \/ Side!Accident
         \/ (stage \in {"create", "destroy"} /\ Side!Call)
  PROVE  StageInv'
<1>1. NotBegun' = NotBegun /\ AllGone' = AllGone /\ master' = master /\ stage' = stage
  BY DEF vars, workerVars, masterVars, NotBegun, AllGone
<1>2. /\ caller' \in Side!CallerPlaces
      /\ runner' \in Side!RunnerPlaces
      /\ caller' = "returned" => runner' = "ended"
      /\ stage = "unloaded" => (runner' = "ended" \/ caller' = "thrown")
  BY DEF StageInv, Side!CallerStep, Side!RunnerStep, Side!Accident, Side!Call, Side!WaitFor,
         Side!InTime, Side!Joined, Side!FuncEnds, Side!Notify, Side!WakeEarly, Side!TimeUp,
         Side!CallerPlaces, Side!RunnerPlaces
<1> QED
  BY <1>1, <1>2 DEF StageInv

LEMMA StageNextInv ==
  ASSUME SyncInv, StageInv, [ProgramNext]_programVars
  PROVE  StageInv'
<1>1. [Next]_vars
  BY ProgramSyncStep
<1>2. CASE \/ \E w \in Worker : MeasureWorker(w)
           \/ MeasureMaster \/ MeasureAccident
  BY <1>1, <1>2, StageMeasure DEF MeasureWorker, MeasureMaster, MeasureAccident
<1>3. CASE SideCall \/ SideCaller \/ SideRunner \/ SideAccident
  BY <1>3, StageSide DEF SideCall, SideCaller, SideRunner, SideAccident
<1>4. CASE SideOver
  <2>1. NotBegun' = NotBegun /\ AllGone' = AllGone /\ master' = master
    BY <1>4 DEF SideOver, vars, workerVars, masterVars, NotBegun, AllGone
  <2>2. CASE stage = "create"
    BY <1>4, <2>1, <2>2 DEF SideOver, StageAfter, StageInv, Stages, sideVars, Side!CallerPlaces,
                            Side!RunnerPlaces
  <2>3. CASE stage = "destroy"
    BY <1>4, <2>1, <2>3 DEF SideOver, StageAfter, StageInv, Stages, sideVars, Side!CallerPlaces,
                            Side!RunnerPlaces
  <2> QED
    BY <1>4, <2>2, <2>3 DEF SideOver
<1>5. CASE MeasureOver
  <2>1. NotBegun' = NotBegun /\ AllGone' = AllGone /\ master' = master
    BY <1>5 DEF MeasureOver, vars, workerVars, masterVars, NotBegun, AllGone
  <2> QED
    BY <1>5, <2>1 DEF MeasureOver, StageInv, Stages, sideVars
<1>6. CASE UNCHANGED programVars
  BY <1>6 DEF programVars, vars, sideVars, workerVars, masterVars, StageInv, NotBegun, AllGone
<1> QED
  BY <1>2, <1>3, <1>4, <1>5, <1>6 DEF ProgramNext, Main

-----------------------------------------------------------------------------

LEMMA InvCheckTypeOK == CheckInv => CheckBody!CheckTypeOK
<1> SUFFICES ASSUME CheckInv PROVE CheckBody!CheckTypeOK
  OBVIOUS
<1>1. step \in 0..CheckBody!Cardinality(Worker)
  BY SyncAssumption, SameFiniteSets, BP!StepBound DEF CheckInv
<1>2. mode \in {"enter", "leave"} /\ place \in [Worker -> CheckBody!Barrier!Places]
  BY DEF CheckInv, BP!BarrierInv, BP!BarrierTypeOK, BP!Places, CheckBody!Barrier!Places
<1>3. passed \in [Worker -> 0..3]
  <2>1. passed \in [Worker -> Nat]
    BY DEF CheckInv, BP!BarrierInv, BP!BarrierTypeOK
  <2>2. \A w \in Worker : passed[w] \in {0, 1, 2, 3}
    BY DEF CheckInv, CheckTypes, CheckLines, CheckBody!Lines, CheckBody!SyncLines,
           CheckBody!TxLines
  <2>3. \A w \in Worker : passed[w] \in 0..3
    BY <2>2
  <2> QED
    BY <2>1, <2>3
<1> QED
  BY <1>1, <1>2, <1>3 DEF CheckInv, CheckTypes, Greatest, CheckBody!CheckTypeOK

LEMMA InvLibraryIdle == ProgramInv => LibraryIdle
<1> SUFFICES ASSUME ProgramInv PROVE LibraryIdle
  OBVIOUS
<1>1. NotBegun => \A w \in Worker : round[w] = 0
  <2> SUFFICES ASSUME NotBegun, NEW w \in Worker PROVE round[w] = 0
    OBVIOUS
  <2>1. status = "Done" /\ test = 0
    BY DEF ProgramInv, SyncInv, MasterPlaces, NotBegun
  <2> QED
    BY <2>1 DEF ProgramInv, SyncInv, Rounds, Behind
<1> QED
  BY <1>1 DEF ProgramInv, StageInv, LibraryIdle, AllGone, At

-----------------------------------------------------------------------------

\* The master and the workers, by themselves: every variable keeps its type, no
\* test overlaps with another, and the verdict the master reads is right.
THEOREM SyncCorrect == Spec => [](TypeOK /\ TestsApart /\ VerdictRight)
<1>1. Init => SyncInv
  BY SyncInitInv
<1>2. SyncInv /\ [Next]_vars => SyncInv'
  BY SyncNextInv
<1>3. SyncInv => TypeOK /\ TestsApart /\ VerdictRight
  BY InvTypeOK, InvTestsApart, InvVerdictRight
<1> QED
  BY <1>1, <1>2, <1>3, PTL DEF Spec

\* The invariant of the whole program.
THEOREM ProgramInvariant == ProgramSpec => []ProgramInv
<1>1. ProgramInit => ProgramInv
  BY SyncInitInv, CheckInitInv, StageInitInv DEF ProgramInit, ProgramInv
<1>2. ProgramInv /\ [ProgramNext]_programVars => ProgramInv'
  BY ProgramSyncStep, SyncNextInv, ProgramCheckStep, CheckNextInv, StageNextInv DEF ProgramInv
<1> QED
  BY <1>1, <1>2, PTL DEF ProgramSpec

\* Every variable of the program keeps its type; neither nbready nor the barrier's
\* step ever passes the number of workers.
THEOREM ProgramTypes == ProgramSpec => []ProgramTypeOK
<1>1. ProgramInv => ProgramTypeOK
  BY InvTypeOK, InvCheckTypeOK DEF ProgramInv, StageInv, ProgramTypeOK
<1> QED
  BY <1>1, ProgramInvariant, PTL

\* No test of the program overlaps with another.
THEOREM ProgramTestsApart == ProgramSpec => []TestsApart
<1>1. ProgramInv => TestsApart
  BY InvTestsApart DEF ProgramInv
<1> QED
  BY <1>1, ProgramInvariant, PTL

\* The verdict that measure returns is that of all the workers.
THEOREM ProgramVerdictRight == ProgramSpec => []VerdictRight
<1>1. ProgramInv => VerdictRight
  BY InvVerdictRight DEF ProgramInv
<1> QED
  BY <1>1, ProgramInvariant, PTL

\* check reports no error of a library whose transactions are atomic.
THEOREM ProgramCheckPasses == ProgramSpec => []CheckPasses
<1>1. ProgramInv => CheckPasses
  BY DEF ProgramInv, CheckInv, CheckCounter, CheckPasses
<1> QED
  BY <1>1, ProgramInvariant, PTL

\* The library is destroyed and unloaded when no thread uses it any more.
THEOREM ProgramLibraryIdle == ProgramSpec => []LibraryIdle
BY InvLibraryIdle, ProgramInvariant, PTL

\* The barrier of check lets nobody go on before all have come.
THEOREM ProgramBarrierMeets == ProgramSpec => BarrierMeets
<1> DEFINE M == CheckBody!Barrier!Meeting!Next
           v == CheckBody!Barrier!Meeting!vars
<1>1. ProgramInit => CheckBody!Barrier!Meeting!Init
  BY DEF ProgramInit, CheckBody!Init, CheckBody!Barrier!Init, CheckBody!Barrier!Meeting!Init
<1>2. ASSUME CheckInv, NEW w \in Worker, CheckBody!Barrier!Sync(w)
      PROVE  M \/ UNCHANGED v
  <2>1. BP!Meeting!Come(w) \/ BP!Meeting!Pass(w) \/ UNCHANGED BP!Meeting!vars
    BY <1>2, SameSync, SyncAssumption, SameFiniteSets, BP!SyncMeets DEF CheckInv
  <2>2. BP!Meeting!Come(w) => CheckBody!Barrier!Meeting!Come(w)
    BY DEF BP!Meeting!Come, CheckBody!Barrier!Meeting!Come
  <2>3. BP!Meeting!Pass(w) => CheckBody!Barrier!Meeting!Pass(w)
    BY DEF BP!Meeting!Pass, CheckBody!Barrier!Meeting!Pass
  <2>4. UNCHANGED BP!Meeting!vars => UNCHANGED v
    BY DEF BP!Meeting!vars, CheckBody!Barrier!Meeting!vars
  <2> QED
    BY <2>1, <2>2, <2>3, <2>4 DEF CheckBody!Barrier!Meeting!Next
<1>3. ASSUME UNCHANGED <<step, mode, place, passed>> PROVE UNCHANGED v
  BY <1>3 DEF CheckBody!Barrier!Meeting!vars
<1>4. ProgramInv /\ [ProgramNext]_programVars => [M]_v
  <2> SUFFICES ASSUME ProgramInv, [ProgramNext]_programVars PROVE M \/ UNCHANGED v
    OBVIOUS
  <2>1. CASE \E w \in Worker : CheckBody!CheckStep(w)
    <3>1. PICK w \in Worker : CheckBody!CheckStep(w)
      BY <2>1
    <3>2. CASE CheckBody!Meet(w)
      BY <1>2, <3>2 DEF ProgramInv, CheckBody!Meet
    <3>3. CASE ~CheckBody!Meet(w)
      <4>1. UNCHANGED <<step, mode, place, passed>>
        BY <3>1, <3>3 DEF CheckBody!CheckStep, CheckBody!InitTx, CheckBody!VerifyTx,
           CheckBody!FetchTx, CheckBody!DecreaseTx, CheckBody!FinalTx, CheckBody!barrierVars
      <4> QED
        BY <1>3, <4>1
    <3> QED
      BY <3>2, <3>3
  <2>2. CASE UNCHANGED checkVars
    BY <1>3, <2>2 DEF checkVars
  <2> QED
    BY <2>1, <2>2, ProgramCheckStep
<1> QED
  BY <1>1, <1>4, ProgramInvariant, PTL
     DEF ProgramSpec, BarrierMeets, CheckBody!Barrier!ImplementsRendezvous,
         CheckBody!Barrier!Meeting!Spec

=============================================================================
