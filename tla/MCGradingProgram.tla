-------------------------- MODULE MCGradingProgram --------------------------
(***************************************************************************)
(* TLC instance of GradingProgram: three workers, three tests (init, one   *)
(* run and check), one decrease of the counter by each worker.             *)
(***************************************************************************)
EXTENDS GradingProgram

=============================================================================
