------------------------------ MODULE CheckTest ------------------------------
(***************************************************************************)
(* The last test of the grading program (grading/workload.hpp, check): the *)
(* workers decrease a counter in the shared memory together.  They meet    *)
(* three times at the barrier, before and after the first one has set the  *)
(* counter, and at the end; whoever finds an error meets the others as     *)
(* often as it still has to, and returns.                                  *)
(*                                                                         *)
(* A transaction is one step here.  The library under test may be wrong:   *)
(* then a read may return anything.                                        *)
(***************************************************************************)
EXTENDS Integers, FiniteSets

CONSTANTS Worker,
          First,    \* the worker of uid 0
          NbTx      \* nbtxperwrk, a constant 100 in the code

VARIABLES
  step, mode, place, passed,  \* the barrier, see SpinBarrier
  line,      \* what each worker does next in check
  value,     \* the counter in the shared memory
  seen,      \* last: what each worker has read in its first transaction
  turn,      \* i: the loop of each worker
  faulty     \* is the library wrong?

barrierVars == <<step, mode, place, passed>>

localVars == <<line, seen, turn>>

checkVars == <<barrierVars, localVars, value, faulty>>

Barrier == INSTANCE SpinBarrier WITH Thread <- Worker

(***************************************************************************)
(* "sync1", "sync2", "sync3"     the three barriers                        *)
(* "error2", "error1"            barriers still to pass after an error     *)
(* "init", "verify", "fetch", "decrease", "final"   transactions           *)
(* "ok", "error"                 check has returned                        *)
(***************************************************************************)
SyncLines == {"sync1", "sync2", "sync3", "error2", "error1"}

TxLines == {"init", "verify", "fetch", "decrease", "final"}

Lines == SyncLines \cup TxLines \cup {"ok", "error"}

InitCounter == NbTx * Cardinality(Worker)

\* The values of the counter; the greatest stands for all that are greater, and
\* is what size_t makes of 0 - 1.
Greatest == InitCounter + 1

Less(v) == (v - 1) % (Greatest + 1)

Init ==
  /\ Barrier!Init
  /\ line = [w \in Worker |-> "sync1"]
  /\ value = 0
  /\ seen = [w \in Worker |-> 0]
  /\ turn = [w \in Worker |-> 0]
  /\ faulty \in BOOLEAN

\* What a transaction may read.
Readings == IF faulty THEN 0..Greatest ELSE {value}

\* What a write leaves in the memory, which nobody will see if reads are wrong.
Stored(v) == IF faulty THEN value ELSE v

GoOn(w, l) == line' = [line EXCEPT ![w] = l]

AfterSync(w) ==
  CASE line[w] = "sync1"  -> IF w = First THEN "init" ELSE "sync2"
    [] line[w] = "sync2"  -> "fetch"
    [] line[w] = "sync3"  -> IF w = First THEN "final" ELSE "ok"
    [] line[w] = "error2" -> "error1"
    [] line[w] = "error1" -> "error"

\* barrier.sync(), its return included.
Meet(w) ==
  /\ line[w] \in SyncLines
  /\ Barrier!Sync(w)
  /\ IF place'[w] = "out" THEN GoOn(w, AfterSync(w)) ELSE UNCHANGED line
  /\ UNCHANGED <<value, seen, turn, faulty>>

InitTx(w) ==
  /\ line[w] = "init"
  /\ value' = Stored(InitCounter)
  /\ GoOn(w, "verify")
  /\ UNCHANGED <<barrierVars, seen, turn, faulty>>

\* Both barriers that follow are left when the first worker fails.
ErrorAfterVerify == "error2"

VerifyTx(w) ==
  /\ line[w] = "verify"
  /\ \E r \in Readings : GoOn(w, IF r = InitCounter THEN "sync2" ELSE ErrorAfterVerify)
  /\ UNCHANGED <<barrierVars, value, seen, turn, faulty>>

FetchTx(w) ==
  /\ line[w] = "fetch"
  /\ \E r \in Readings : seen' = [seen EXCEPT ![w] = r]
  /\ GoOn(w, "decrease")
  /\ UNCHANGED <<barrierVars, value, turn, faulty>>

\* Has the counter been increased since?  Also without the case of no change.
IncreasedOrSame(v, last) == v >= last

Increased(v, last) == v > last

DecreaseTx(w) ==
  /\ line[w] = "decrease"
  /\ \E r \in Readings :
       \/ /\ Increased(r, seen[w])
          /\ GoOn(w, "error1")
          /\ UNCHANGED <<value, turn, seen>>
       \/ /\ ~Increased(r, seen[w])
          /\ value' = Stored(Less(r))
          /\ turn' = [turn EXCEPT ![w] = @ + 1]
          /\ seen' = [seen EXCEPT ![w] = 0]
          /\ GoOn(w, IF turn[w] + 1 < NbTx THEN "fetch" ELSE "sync3")
  /\ UNCHANGED <<barrierVars, faulty>>

FinalTx(w) ==
  /\ line[w] = "final"
  /\ \E r \in Readings : GoOn(w, IF r = 0 THEN "ok" ELSE "error")
  /\ UNCHANGED <<barrierVars, value, seen, turn, faulty>>

CheckStep(w) ==
  \/ Meet(w) \/ InitTx(w) \/ VerifyTx(w) \/ FetchTx(w) \/ DecreaseTx(w) \/ FinalTx(w)

CheckTypeOK ==
  /\ step \in 0..Cardinality(Worker)
  /\ mode \in {"enter", "leave"}
  /\ place \in [Worker -> Barrier!Places]
  /\ passed \in [Worker -> 0..3]
  /\ line \in [Worker -> Lines]
  /\ value \in 0..Greatest
  /\ seen \in [Worker -> 0..Greatest]
  /\ turn \in [Worker -> 0..NbTx]
  /\ faulty \in BOOLEAN

=============================================================================
