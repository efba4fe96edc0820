------------------------------ MODULE MCDualStm ------------------------------
(***************************************************************************)
(* TLC instances of DualStm: three transactions, so that one epoch has two *)
(* concurrent ones, on two words with two contents.                        *)
(***************************************************************************)
EXTENDS DualStm, TLC

TxSymmetry == Permutations(Tx)

=============================================================================
