-------------------------------- MODULE Word --------------------------------
(***************************************************************************)
(* One dual-versioned word (321215/word.cpp): two copies of its content    *)
(* and the control data that decides, within an epoch, whose accesses are  *)
(* accepted.  A transaction is known to a word by its tr_num only.         *)
(*                                                                         *)
(* The operators are the bodies of Word::read and Word::write, which run   *)
(* under word_mutex, split into the test, the value and the effect.        *)
(***************************************************************************)
EXTENDS Integers

CONSTANTS Value,     \* the contents of a word (alignment bytes)
          InitVal    \* all bytes zero

ASSUME InitValAssumption == InitVal \in Value

WordRecord == [is_copy_a_readable : BOOLEAN,
               copy_a : Value,
               copy_b : Value,
               last_tx_accessed : Nat,
               accessed_by_many : BOOLEAN,
               written : BOOLEAN]

NewWord == [is_copy_a_readable |-> TRUE,
            copy_a |-> InitVal,
            copy_b |-> InitVal,
            last_tx_accessed |-> 0,
            accessed_by_many |-> FALSE,
            written |-> FALSE]

\* readCopy(target, true) and readCopy(target, false).
Readable(w) == IF w.is_copy_a_readable THEN w.copy_a ELSE w.copy_b

Writable(w) == IF w.is_copy_a_readable THEN w.copy_b ELSE w.copy_a

WriteCopy(w, v) ==
  IF w.is_copy_a_readable THEN [w EXCEPT !.copy_b = v] ELSE [w EXCEPT !.copy_a = v]

\* Variants of AddToAccessSet: a second accessor goes unnoticed; a write leaves
\* the word unmarked.
AddForgettingMany(w, n, writing) ==
  [w EXCEPT !.written = @ \/ writing, !.last_tx_accessed = n]

AddForgettingWritten(w, n, writing) ==
  [w EXCEPT !.accessed_by_many = @ \/ w.last_tx_accessed \notin {0, n},
            !.last_tx_accessed = n]

\* n is the tr_num of the transaction.  The word's half of addToAccessSet; the
\* other half puts the word in a set of the transaction.
AddToAccessSet(w, n, writing) ==
  [w EXCEPT !.written = @ \/ writing,
            !.accessed_by_many = @ \/ w.last_tx_accessed \notin {0, n},
            !.last_tx_accessed = n]

\* Word::read by a transaction that is not read-only.
ReadAccepted(w, n) == w.written => w.last_tx_accessed = n

ReadValue(w) == IF w.written THEN Writable(w) ELSE Readable(w)

ReadEffect(w, n) == IF w.written THEN w ELSE AddToAccessSet(w, n, FALSE)

\* A write test that does not look at the other accessors.
WriteAcceptedByOwner(w, n) == w.written => w.last_tx_accessed = n

\* Word::write.
WriteAccepted(w, n) ==
  IF w.written THEN w.last_tx_accessed = n ELSE ~w.accessed_by_many

WriteEffect(w, n, v) ==
  IF w.written THEN WriteCopy(w, v) ELSE AddToAccessSet(WriteCopy(w, v), n, TRUE)

\* A reset that leaves accessed_by_many.
ResetForgettingMany(w) == [w EXCEPT !.written = FALSE, !.last_tx_accessed = 0]

\* What the end of an epoch does to a word that was accessed in it.
ResetState(w) ==
  [w EXCEPT !.written = FALSE, !.last_tx_accessed = 0, !.accessed_by_many = FALSE]

UpdateWritten(w) ==
  [ResetState(w) EXCEPT !.is_copy_a_readable = ~@]

=============================================================================
