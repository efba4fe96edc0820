----------------------------- MODULE GradingSync -----------------------------
(***************************************************************************)
(* How the grading program runs its tests (grading/grading.cpp, class Sync *)
(* and function measure; grading/common.hpp, class Latch).  The master     *)
(* starts a test by setting the status; the workers spin until all of them *)
(* have arrived, run the test, and report; the last one to report raises a *)
(* latch that wakes the master, which reads the verdict and starts the     *)
(* next test or tells the workers to quit.                                 *)
(*                                                                         *)
(* Every access to an atomic is a step.  A test ends with success, with an *)
(* error message, or with an exception, after which the worker is gone.    *)
(***************************************************************************)
EXTENDS Integers, FiniteSets

CONSTANTS Worker,  \* the worker threads
          Tests,   \* init, the repetitions of run, and check
          Timed    \* does the master give up after some time?

ASSUME SyncAssumption ==
  /\ IsFiniteSet(Worker) /\ Worker # {}
  /\ Tests \in Nat \ {0}
  /\ Timed \in BOOLEAN

VARIABLES
  status,   \* Sync::status
  nbready,  \* Sync::nbready
  errmsg,   \* is there a message in Sync::errmsg?
  raised,   \* Latch::raised
  pc,       \* where each worker stands
  round,    \* the number of tests each worker has arrived at
  outcome,  \* how its last test ended
  master,   \* where the master stands
  test,     \* the number of tests it has started
  error     \* has measure returned an error?

workerVars == <<pc, round, outcome>>

masterVars == <<master, test, error>>

vars == <<status, nbready, errmsg, raised, workerVars, masterVars>>

Status == {"Wait", "Run", "Abort", "Done", "Fail", "Quit"}

WorkerPC == {"await", "arrive", "clear", "release", "spin", "work", "message", "mark",
             "count", "reset", "decide", "done", "fail", "raise", "gone"}

MasterPC == {"notify", "wait", "asleep", "check", "quit", "join", "joined", "overrun",
             "unreachable"}

Init ==
  /\ status = "Done"
  /\ nbready = 0
  /\ errmsg = FALSE
  /\ raised = FALSE
  /\ pc = [w \in Worker |-> "await"]
  /\ round = [w \in Worker |-> 0]
  /\ outcome = [w \in Worker |-> "ok"]
  /\ master = "notify"
  /\ test = 0
  /\ error = FALSE

At(w, p) == pc[w] = p

Goto(w, p) == pc' = [pc EXCEPT ![w] = p]

\* What the spinning workers take for the start of the test.
Started == {"Run", "Abort"}

\* Does fetch_add return this for the last worker?
LastOfFewer(n) == n + 2 = Cardinality(Worker)

Last(n) == n + 1 = Cardinality(Worker)

\* nbready.store(0) in its two places.
NotCleared == nbready

Cleared == 0

-----------------------------------------------------------------------------
\* worker_wait

Await(w) ==
  /\ At(w, "await")
  /\ status \in {"Wait", "Quit"}
  /\ Goto(w, IF status = "Wait" THEN "arrive" ELSE "gone")
  /\ UNCHANGED <<status, nbready, errmsg, raised, round, outcome, masterVars>>

Arrive(w) ==
  /\ At(w, "arrive")
  /\ nbready' = nbready + 1
  /\ round' = [round EXCEPT ![w] = @ + 1]
  /\ Goto(w, IF Last(nbready) THEN "clear" ELSE "spin")
  /\ UNCHANGED <<status, errmsg, raised, outcome, masterVars>>

Clear(w) ==
  /\ \/ At(w, "clear") /\ Goto(w, "release")
     \/ At(w, "reset") /\ Goto(w, "decide")
  /\ nbready' = Cleared
  /\ UNCHANGED <<status, errmsg, raised, round, outcome, masterVars>>

Release(w) ==
  /\ At(w, "release")
  /\ status' = "Run"
  /\ Goto(w, "work")
  /\ UNCHANGED <<nbready, errmsg, raised, round, outcome, masterVars>>

Spin(w) ==
  /\ At(w, "spin")
  /\ status \in Started
  /\ Goto(w, "work")
  /\ UNCHANGED <<status, nbready, errmsg, raised, round, outcome, masterVars>>

-----------------------------------------------------------------------------
\* The test, and worker_notify

Work(w, o) ==
  /\ At(w, "work")
  /\ outcome' = [outcome EXCEPT ![w] = o]
  /\ Goto(w, IF o = "ok" THEN "count" ELSE "message")
  /\ UNCHANGED <<status, nbready, errmsg, raised, round, masterVars>>

Message(w) ==
  /\ At(w, "message")
  /\ errmsg' = TRUE
  /\ Goto(w, "mark")
  /\ UNCHANGED <<status, nbready, raised, round, outcome, masterVars>>

Mark(w) ==
  /\ At(w, "mark")
  /\ status' = "Abort"
  /\ Goto(w, "count")
  /\ UNCHANGED <<nbready, errmsg, raised, round, outcome, masterVars>>

\* Where a worker goes once it has reported.
AfterReport(w) == IF outcome[w] = "exception" THEN "gone" ELSE "await"

Count(w) ==
  /\ At(w, "count")
  /\ nbready' = nbready + 1
  /\ Goto(w, IF Last(nbready) THEN "reset" ELSE AfterReport(w))
  /\ UNCHANGED <<status, errmsg, raised, round, outcome, masterVars>>

\* The verdict, by what the last worker has seen itself or by the status.
OwnVerdict(w) == IF outcome[w] = "ok" THEN "done" ELSE "fail"

Verdict(w) == IF status = "Abort" THEN "fail" ELSE "done"

Decide(w) ==
  /\ At(w, "decide")
  /\ Goto(w, Verdict(w))
  /\ UNCHANGED <<status, nbready, errmsg, raised, round, outcome, masterVars>>

Publish(w) ==
  /\ \/ At(w, "done") /\ status' = "Done"
     \/ At(w, "fail") /\ status' = "Fail"
  /\ Goto(w, "raise")
  /\ UNCHANGED <<nbready, errmsg, raised, round, outcome, masterVars>>

\* notify_all on the latch's condition variable, and its absence.
NobodyNotified == master

Notified == IF master = "asleep" THEN "wait" ELSE master

\* Latch::raise.
Raise(w) ==
  /\ At(w, "raise")
  /\ raised' = TRUE
  /\ master' = Notified
  /\ Goto(w, AfterReport(w))
  /\ UNCHANGED <<status, nbready, errmsg, round, outcome, test, error>>

-----------------------------------------------------------------------------
\* master_notify, master_wait, master_join

Notify ==
  /\ master = "notify"
  /\ status' = "Wait"
  /\ test' = test + 1
  /\ master' = "wait"
  /\ UNCHANGED <<nbready, errmsg, raised, workerVars, error>>

\* Latch::wait, holding its lock.
MasterWait ==
  /\ master = "wait"
  /\ master' = IF raised THEN "check" ELSE "asleep"
  /\ raised' = FALSE
  /\ UNCHANGED <<status, nbready, errmsg, workerVars, test, error>>

\* cv.wait returns for no reason.
SpuriousWake ==
  /\ master = "asleep"
  /\ master' = "wait"
  /\ UNCHANGED <<status, nbready, errmsg, raised, workerVars, test, error>>

\* The time is up and the latch is not raised: measure throws.
Overrun ==
  /\ Timed
  /\ master \in {"wait", "asleep"}
  /\ ~raised
  /\ master' = "overrun"
  /\ UNCHANGED <<status, nbready, errmsg, raised, workerVars, test, error>>

Check ==
  /\ master = "check"
  /\ master' = CASE status = "Done" -> IF test < Tests THEN "notify" ELSE "quit"
                 [] status = "Fail" -> "quit"
                 [] OTHER -> "unreachable"
  /\ error' = (status = "Fail")
  /\ UNCHANGED <<status, nbready, errmsg, raised, workerVars, test>>

Quit ==
  /\ master = "quit"
  /\ status' = "Quit"
  /\ master' = "join"
  /\ UNCHANGED <<nbready, errmsg, raised, workerVars, test, error>>

\* thread.join of threads that have been detached before.
JoinNobody ==
  /\ master = "join"
  /\ master' = "joined"
  /\ UNCHANGED <<status, nbready, errmsg, raised, workerVars, test, error>>

Join ==
  /\ master = "join"
  /\ \A w \in Worker : At(w, "gone")
  /\ master' = "joined"
  /\ UNCHANGED <<status, nbready, errmsg, raised, workerVars, test, error>>

WorkerStep(w) ==
  \/ Await(w) \/ Arrive(w) \/ Clear(w) \/ Release(w) \/ Spin(w)
  \/ \E o \in {"ok", "error", "exception"} : Work(w, o)
  \/ Message(w) \/ Mark(w) \/ Count(w) \/ Decide(w) \/ Publish(w) \/ Raise(w)

MasterStep == Notify \/ MasterWait \/ Check \/ Quit \/ Join

\* Time and the condition variable: never forced to happen.
Accident == SpuriousWake \/ Overrun

Next ==
  \/ \E w \in Worker : WorkerStep(w)
  \/ MasterStep
  \/ Accident

Spec == Init /\ [][Next]_vars

-----------------------------------------------------------------------------

\* Every variable stays in its type; nbready never passes the number of workers.
TypeOK ==
  /\ status \in Status
  /\ nbready \in 0..Cardinality(Worker)
  /\ errmsg \in BOOLEAN
  /\ raised \in BOOLEAN
  /\ pc \in [Worker -> WorkerPC]
  /\ round \in [Worker -> 0..Tests]
  /\ outcome \in [Worker -> {"ok", "error", "exception"}]
  /\ master \in MasterPC
  /\ test \in 0..Tests
  /\ error \in BOOLEAN

\* A worker runs a test only when the master has started this one and all the
\* workers have arrived at it: no test overlaps with another.
TestsApart ==
  \A w \in Worker : At(w, "work") =>
    /\ test = round[w]
    /\ \A u \in Worker : round[u] = round[w]

\* When the latch is raised for the master every worker has reported, and the
\* verdict is right: Done if all have succeeded, else Fail, with a message.
\* The default of master_wait's switch is never reached.
VerdictRight ==
  /\ raised \/ master = "check" =>
       /\ \A w \in Worker : round[w] = test /\ pc[w] \in {"await", "gone"}
       /\ status = IF \A w \in Worker : outcome[w] = "ok" THEN "Done" ELSE "Fail"
       /\ status = "Fail" => errmsg
  /\ master # "unreachable"

=============================================================================
