----------------------------- MODULE BoundedRun -----------------------------
(***************************************************************************)
(* bounded_run of grading/common.hpp: a second thread runs a function, and *)
(* the caller waits for it on a condition variable, for some time at most. *)
(*                                                                         *)
(* The caller holds the mutex from the start, except inside wait_for; it   *)
(* still holds it when it joins the other thread.  It looks at nothing but *)
(* the status that wait_for returns, so it takes a wake-up without reason  *)
(* for the end of the function.                                            *)
(***************************************************************************)
VARIABLES
  caller,   \* where the caller stands
  runner    \* where the thread that runs the function stands

runVars == <<caller, runner>>

(***************************************************************************)
(* "idle"      bounded_run is not called                                   *)
(* "start"     the thread is made, wait_for is not called yet              *)
(* "waiting"   inside wait_for, without the mutex                          *)
(* "woken"     about to hold the mutex again and to look at the time       *)
(* "joining"   inside runner.join(), with the mutex                        *)
(* "returned", "thrown"                                                    *)
(***************************************************************************)
CallerPlaces == {"idle", "start", "waiting", "woken", "joining", "returned", "thrown"}

\* "notify": the function has ended, the mutex and the notification are next.
RunnerPlaces == {"none", "func", "notify", "ended"}

Init ==
  /\ caller = "idle"
  /\ runner = "none"

\* Does the caller hold the mutex?  Once it has thrown, the mutex is gone with
\* its frame; a thread that takes it all the same may get through.
Held == caller \in {"start", "joining"}

Call ==
  /\ caller = "idle"
  /\ caller' = "start"
  /\ runner' = "func"

WaitFor ==
  /\ caller = "start"
  /\ caller' = "waiting"
  /\ UNCHANGED runner

\* wait_for returns although nobody has notified.
WakeEarly ==
  /\ caller = "waiting"
  /\ caller' = "woken"
  /\ UNCHANGED runner

\* The time is up, with or without a notification: detach and throw.
TimeUp ==
  /\ caller \in {"waiting", "woken"}
  /\ caller' = "thrown"
  /\ UNCHANGED runner

InTime ==
  /\ caller = "woken"
  /\ caller' = "joining"
  /\ UNCHANGED runner

Joined ==
  /\ caller = "joining"
  /\ runner = "ended"
  /\ caller' = "returned"
  /\ UNCHANGED runner

FuncEnds ==
  /\ runner = "func"
  /\ runner' = "notify"
  /\ UNCHANGED caller

\* notify_all without the mutex, and with it.
NotifyUnlocked ==
  /\ runner = "notify"
  /\ runner' = "ended"
  /\ caller' = IF caller = "waiting" THEN "woken" ELSE caller

Notify ==
  /\ runner = "notify"
  /\ ~Held
  /\ runner' = "ended"
  /\ caller' = IF caller = "waiting" THEN "woken" ELSE caller

CallerStep == WaitFor \/ InTime \/ Joined

RunnerStep == FuncEnds \/ Notify

\* Time and the condition variable: never forced to happen.
Accident == WakeEarly \/ TimeUp

\* The deadlock of bounded_run: it was woken early, holds the mutex, and joins
\* a thread that needs it.
Stuck == caller = "joining" /\ runner # "ended"

=============================================================================
