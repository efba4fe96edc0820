---------------------------- MODULE MCReferenceTm ----------------------------
(***************************************************************************)
(* TLC instance of ReferenceTm: three transactions and room for three      *)
(* allocated segments, so that a node in the middle of the list is freed   *)
(* and its address used again.                                             *)
(***************************************************************************)
EXTENDS ReferenceTm, TLC

TxSymmetry == Permutations(Tx)

=============================================================================
