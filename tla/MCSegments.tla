----------------------------- MODULE MCSegments -----------------------------
(***************************************************************************)
(* TLC instance of Segments: three transactions, a first segment of two    *)
(* words and room for a few more of one or two words.                      *)
(***************************************************************************)
EXTENDS Segments, TLC

TxSymmetry == Permutations(Tx)

=============================================================================
