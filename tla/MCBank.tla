------------------------------- MODULE MCBank -------------------------------
(***************************************************************************)
(* TLC instance of Bank: two accounts per segment, three segments, three   *)
(* transactions, so that two of them run in one epoch.                     *)
(***************************************************************************)
EXTENDS Bank, TLC

MCValue == Int

TxSymmetry == Permutations(Tx)

=============================================================================
