--------------------------- MODULE GradingProgram ---------------------------
(***************************************************************************)
(* The grading program for one library, from the construction of the bank  *)
(* to its destruction (grading/grading.cpp, main and measure).  It puts    *)
(* together                                                                *)
(*   - bounded_run (module BoundedRun), in which the constructor and the   *)
(*     destructor of TransactionalMemory call the library,                 *)
(*   - the master and the workers (module GradingSync),                    *)
(*   - the test check (module CheckTest), which is the last one and makes  *)
(*     the workers meet at a barrier.                                      *)
(* The tests init and run are single steps that end in any way.            *)
(***************************************************************************)
EXTENDS GradingSync

CONSTANTS First, NbTx   \* see CheckTest

ASSUME ProgramAssumption == First \in Worker /\ NbTx \in Nat \ {0}

VARIABLES
  caller, runner,                                             \* see BoundedRun
  step, mode, place, passed, line, value, seen, turn, faulty, \* see CheckTest
  stage      \* how far main is with the library

sideVars == <<caller, runner>>

checkVars == <<step, mode, place, passed, line, value, seen, turn, faulty>>

programVars == <<vars, sideVars, checkVars, stage>>

Side == INSTANCE BoundedRun

CheckBody == INSTANCE CheckTest

(***************************************************************************)
(* "create"      the constructor of bank                                   *)
(* "measure"     measure                                                   *)
(* "destroy"     the destructor of bank                                    *)
(* "unloaded"    the destructor of the library has run, after destroy or   *)
(*               because the constructor of bank has thrown                *)
(* "quickExit"   measure has thrown                                        *)
(* "terminated"  the destructor of bank, which is noexcept, has thrown     *)
(***************************************************************************)
Stages == {"create", "measure", "destroy", "unloaded", "quickExit", "terminated"}

ProgramInit ==
  /\ Init
  /\ Side!Init
  /\ CheckBody!Init
  /\ stage = "create"

\* A bounded_run of the stage begins.
SideCall ==
  /\ stage \in {"create", "destroy"}
  /\ Side!Call
  /\ UNCHANGED <<vars, checkVars, stage>>

SideCaller == Side!CallerStep /\ UNCHANGED <<vars, checkVars, stage>>

SideRunner == Side!RunnerStep /\ UNCHANGED <<vars, checkVars, stage>>

SideAccident == Side!Accident /\ UNCHANGED <<vars, checkVars, stage>>

\* What main does when bounded_run is over; a second one begins afresh.
StageAfter ==
  CASE stage = "create"  /\ caller = "returned" -> "measure"
    [] stage = "create"  /\ caller = "thrown"   -> "unloaded"
    [] stage = "destroy" /\ caller = "returned" -> "unloaded"
    [] stage = "destroy" /\ caller = "thrown"   -> "terminated"

SideOver ==
  /\ stage \in {"create", "destroy"}
  /\ caller \in {"returned", "thrown"}
  /\ stage' = StageAfter
  /\ IF stage' = "measure" THEN caller' = "idle" /\ runner' = "none"
     ELSE UNCHANGED sideVars
  /\ UNCHANGED <<vars, checkVars>>

\* measure has returned, or thrown.
MeasureOver ==
  /\ stage = "measure"
  /\ \/ master = "joined" /\ stage' = "destroy"
     \/ master = "overrun" /\ stage' = "quickExit"
  /\ UNCHANGED <<vars, sideVars, checkVars>>

\* Is the worker inside check?
InCheck(w) == At(w, "work") /\ round[w] = Tests

\* A step of check; its return ends the test.
RunCheck(w) ==
  /\ InCheck(w)
  /\ \/ CheckBody!CheckStep(w) /\ UNCHANGED vars
     \/ line[w] = "ok" /\ Work(w, "ok") /\ UNCHANGED checkVars
     \/ line[w] = "error" /\ Work(w, "error") /\ UNCHANGED checkVars

\* A transaction of check throws: the worker is gone and will not meet the others.
ThrowInCheck(w) ==
  /\ InCheck(w)
  /\ line[w] \in CheckBody!TxLines
  /\ Work(w, "exception")
  /\ UNCHANGED checkVars

\* The other tests, and everything around the tests.
OutsideCheck(w) == ~InCheck(w) /\ WorkerStep(w) /\ UNCHANGED checkVars

MeasureWorker(w) ==
  /\ stage = "measure"
  /\ OutsideCheck(w) \/ RunCheck(w) \/ ThrowInCheck(w)
  /\ UNCHANGED <<sideVars, stage>>

MeasureMaster == stage = "measure" /\ MasterStep /\ UNCHANGED <<sideVars, checkVars, stage>>

MeasureAccident == stage = "measure" /\ Accident /\ UNCHANGED <<sideVars, checkVars, stage>>

Main == SideCall \/ SideCaller \/ SideOver \/ MeasureMaster \/ MeasureOver

ProgramNext ==
  \/ Main
  \/ SideRunner
  \/ \E w \in Worker : MeasureWorker(w)
  \/ SideAccident
  \/ MeasureAccident

(***************************************************************************)
(* Fairness.  Every thread is scheduled again and again, and the functions *)
(* that bounded_run and the tests call return.  SideAccident and           *)
(* MeasureAccident are left out: time is never forced to run out, and      *)
(* nobody is forced to wake up early, so that a thread asleep depends on   *)
(* being notified.  Nor is anybody forced to throw.                        *)
(***************************************************************************)
ProgramSpec ==
  /\ ProgramInit /\ [][ProgramNext]_programVars
  /\ WF_programVars(Main)
  /\ WF_programVars(SideRunner)
  /\ \A w \in Worker : WF_programVars(MeasureWorker(w))

-----------------------------------------------------------------------------

\* Every variable stays in its type; neither counter of arrivals ever passes
\* the number of workers.
ProgramTypeOK ==
  /\ TypeOK
  /\ CheckBody!CheckTypeOK
  /\ caller \in Side!CallerPlaces
  /\ runner \in Side!RunnerPlaces
  /\ stage \in Stages

\* The barrier lets nobody into a part of check before all have come to it, in
\* all three rounds and whoever returns early because of an error.
BarrierMeets == CheckBody!Barrier!ImplementsRendezvous

\* "false negative-free": with a library whose transactions are atomic check
\* never reports an error, however the workers interleave.
CheckPasses == ~faulty => \A w \in Worker : line[w] \notin {"error2", "error1", "error"}

\* The memory is destroyed and the library unloaded when no worker is left, and
\* no thread of a bounded_run is inside the library when it is unloaded.  The
\* exception is a library that takes too long to create the memory: its thread
\* is left behind.
LibraryIdle ==
  /\ stage \in {"destroy", "unloaded", "terminated"} =>
       \A w \in Worker : round[w] > 0 => At(w, "gone")
  /\ stage = "unloaded" => runner = "ended" \/ caller = "thrown"

\* A worker has thrown in check, and another one waits for it at the barrier.
Abandoned ==
  /\ \E w \in Worker : round[w] = Tests /\ outcome[w] = "exception"
  /\ \E w \in Worker : InCheck(w) /\ place[w] = "in"

\* The program is done with the library in the end: the last worker to report
\* wakes the master, and whoever finds an error in check still lets the others
\* through the barrier.  Only two things can keep it, both for ever: bounded_run
\* is woken early and joins, with the mutex held, a thread that needs the mutex;
\* or a worker throws in check while others have the barrier still before them.
ProgramEnds ==
  <>[](stage \in {"unloaded", "quickExit", "terminated"} \/ Side!Stuck \/ Abandoned)

=============================================================================
