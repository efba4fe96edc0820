------------------------------ MODULE MCBatcher ------------------------------
(***************************************************************************)
(* TLC instance of Batcher: four transactions, so that one can run while   *)
(* two are parked and a fourth arrives late.  No other bound is needed: a  *)
(* transaction begins once, so counter cannot exceed their number.  There  *)
(* is no symmetry, because the run checks a liveness property.             *)
(***************************************************************************)
EXTENDS Batcher

=============================================================================
