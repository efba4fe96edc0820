------------------------- MODULE MCProducerConsumer -------------------------
(***************************************************************************)
(* TLC instance of ProducerConsumer: a buffer of three slots and eight     *)
(* rounds, so that slots are used again, and the last time not all.        *)
(***************************************************************************)
EXTENDS ProducerConsumer

=============================================================================
