------------------------------- MODULE DualStm -------------------------------
(***************************************************************************)
(* The dual-versioned STM on the words of one segment: the batcher of      *)
(* module Batcher, the words of module Word, and the transactions that     *)
(* read and write them (321215/dual_stm.cpp, segment.cpp, transaction.cpp, *)
(* word.cpp and the end of an epoch in batcher.cpp).                       *)
(*                                                                         *)
(* tm_read and tm_write work through the words of their range one at a     *)
(* time.  Each word is processed under its own mutex and is a step here,   *)
(* so the calls of concurrent transactions interleave word by word.  A     *)
(* word that refuses the access marks the transaction aborted; the call    *)
(* gives up and leaves the batcher in a later step, with no mutex held in  *)
(* between.                                                                *)
(*                                                                         *)
(* The client keeps the contract of include/tm.hpp: one call at a time per *)
(* transaction, no call after the transaction aborted, no write by a       *)
(* read-only one.                                                          *)
(***************************************************************************)
EXTENDS Batcher, Word

CONSTANTS NumWords,  \* size / alignment
          ReadFirst  \* does the client read each word before it writes it?

ASSUME StmAssumption == NumWords \in Nat /\ ReadFirst \in BOOLEAN

VARIABLES
  word,              \* Segment::words
  is_read_only,      \* Transaction::is_read_only
  readSet,           \* Transaction::read, the words read from the readable copy
  writtenSet,        \* Transaction::written
  doomed,            \* Transaction::aborted
  call,              \* the tm_read or tm_write in progress
  target             \* the word last copied to the caller by tm_read

stmVars == <<word, is_read_only, readSet, writtenSet, doomed, call, target>>

vars == <<batcherVars, stmVars>>

Words == 1..NumWords

\* A call that still has the words next..last to do.
Calls == [op : {"none", "read", "write"}, next : Nat, last : Nat]

NoCall == [op |-> "none", next |-> 0, last |-> 0]

Init ==
  /\ BatcherInit
  /\ word = [i \in Words |-> NewWord]
  /\ is_read_only = [t \in Tx |-> FALSE]
  /\ readSet = [t \in Tx |-> {}]
  /\ writtenSet = [t \in Tx |-> {}]
  /\ doomed = [t \in Tx |-> FALSE]
  /\ call = [t \in Tx |-> NoCall]
  /\ target = [t \in Tx |-> InitVal]

\* tm_begin: up to the return of Batcher::enter or its first cv.wait.
Begin(t, ro) ==
  /\ Enter(t)
  /\ is_read_only' = [is_read_only EXCEPT ![t] = ro]
  /\ UNCHANGED <<word, readSet, writtenSet, doomed, call, target>>

\* The rest of Batcher::enter.
Wait(t) ==
  /\ SpuriousWake(t) \/ TestAwake(t)
  /\ UNCHANGED stmVars

\* The client may make another call.
Ready(t) == pc[t] = "running" /\ ~doomed[t] /\ call[t] = NoCall

\* tm_read or tm_write of the words i..j is called.
StartCall(t, op, i, j) ==
  /\ Ready(t)
  /\ i <= j
  /\ op = "write" =>
       /\ ~is_read_only[t]
       /\ ReadFirst => i..j \subseteq readSet[t] \cup writtenSet[t]
  /\ call' = [call EXCEPT ![t] = [op |-> op, next |-> i, last |-> j]]
  /\ UNCHANGED <<batcherVars, word, is_read_only, readSet, writtenSet, doomed, target>>

\* The loops of Segment::read and Segment::write go on to the next word.
Advance(t) ==
  LET c == call[t]
  IN  call' = [call EXCEPT ![t] =
                 IF c.next < c.last THEN [c EXCEPT !.next = c.next + 1] ELSE NoCall]

\* Transaction t is about to do op on word i.
At(t, op, i) == ~doomed[t] /\ call[t].op = op /\ call[t].next = i

\* Word::read for a read-only transaction: no mutex, no control data.
ReadOnlyWord(t, i) ==
  /\ At(t, "read", i)
  /\ is_read_only[t]
  /\ target' = [target EXCEPT ![t] = Readable(word[i])]
  /\ Advance(t)
  /\ UNCHANGED <<batcherVars, word, is_read_only, readSet, writtenSet, doomed>>

\* Word::read that succeeds.  Only a read of the readable copy is recorded.
ReadWord(t, i) ==
  /\ At(t, "read", i)
  /\ ~is_read_only[t]
  /\ ReadAccepted(word[i], trNum[t])
  /\ target' = [target EXCEPT ![t] = ReadValue(word[i])]
  /\ word' = [word EXCEPT ![i] = ReadEffect(@, trNum[t])]
  /\ readSet' = IF word[i].written THEN readSet
                ELSE [readSet EXCEPT ![t] = @ \cup {i}]
  /\ Advance(t)
  /\ UNCHANGED <<batcherVars, is_read_only, writtenSet, doomed>>

\* Word::write that succeeds.
WriteWord(t, i, v) ==
  /\ At(t, "write", i)
  /\ WriteAccepted(word[i], trNum[t])
  /\ word' = [word EXCEPT ![i] = WriteEffect(@, trNum[t], v)]
  /\ writtenSet' = IF word[i].written THEN writtenSet
                   ELSE [writtenSet EXCEPT ![t] = @ \cup {i}]
  /\ Advance(t)
  /\ UNCHANGED <<batcherVars, is_read_only, readSet, doomed, target>>

\* Word::read without the branch for read-only transactions.
RefuseAnyReader(t, i) ==
  /\ \/ At(t, "read", i) /\ ~ReadAccepted(word[i], trNum[t])
     \/ At(t, "write", i) /\ ~WriteAccepted(word[i], trNum[t])
  /\ doomed' = [doomed EXCEPT ![t] = TRUE]
  /\ call' = [call EXCEPT ![t] = NoCall]
  /\ UNCHANGED <<batcherVars, word, is_read_only, readSet, writtenSet, target>>

\* Word::read or Word::write that sets tx->aborted and returns false.
RefuseWord(t, i) ==
  /\ \/ At(t, "read", i) /\ ~is_read_only[t] /\ ~ReadAccepted(word[i], trNum[t])
     \/ At(t, "write", i) /\ ~WriteAccepted(word[i], trNum[t])
  /\ doomed' = [doomed EXCEPT ![t] = TRUE]
  /\ call' = [call EXCEPT ![t] = NoCall]
  /\ UNCHANGED <<batcherVars, word, is_read_only, readSet, writtenSet, target>>

\* Transaction::abort that also calls updateWritten.
EndOfEpochForAll(i, C, A) ==
  LET swaps   == Cardinality({u \in C \cup A : i \in writtenSet[u]})
      touched == \E u \in C \cup A : i \in readSet[u] \cup writtenSet[u]
  IN  IF swaps % 2 = 1 THEN UpdateWritten(word[i])
      ELSE IF touched THEN ResetState(word[i])
      ELSE word[i]

\* Transaction::commit for the transactions of C and Transaction::abort for
\* those of A, on word i.  Each committed writer of the word swaps its copies.
EndOfEpoch(i, C, A) ==
  LET swaps   == Cardinality({u \in C : i \in writtenSet[u]})
      touched == \E u \in C \cup A : i \in readSet[u] \cup writtenSet[u]
  IN  IF swaps % 2 = 1 THEN UpdateWritten(word[i])
      ELSE IF touched THEN ResetState(word[i])
      ELSE word[i]

\* onEpochEnd that passes over the aborted transactions.
OnEpochEndCommitted(C, A) ==
  /\ word' = [i \in Words |-> EndOfEpoch(i, C, {})]
  /\ readSet' = [t \in Tx |-> IF t \in C THEN {} ELSE readSet[t]]
  /\ writtenSet' = [t \in Tx |-> IF t \in C THEN {} ELSE writtenSet[t]]

\* Batcher::onEpochEnd: the words, then the transactions are deleted.
OnEpochEnd(C, A) ==
  /\ word' = [i \in Words |-> EndOfEpoch(i, C, A)]
  /\ readSet' = [t \in Tx |-> IF t \in C \cup A THEN {} ELSE readSet[t]]
  /\ writtenSet' = [t \in Tx |-> IF t \in C \cup A THEN {} ELSE writtenSet[t]]

\* Batcher::leave, with what its last call for an epoch does to the words.
LeaveStm(t) ==
  LET ok == ~doomed[t]
  IN  /\ \/ LeaveEarly(t, ok) /\ UNCHANGED <<word, readSet, writtenSet>>
         \/ LeaveLast(t, ok) /\ OnEpochEnd(Finished(t, ok).committed, Finished(t, ok).aborted)
      /\ UNCHANGED <<is_read_only, doomed, call, target>>

\* tm_end.
End(t) == Ready(t) /\ LeaveStm(t)

\* The end of a tm_read or tm_write that was refused.
GiveUp(t) == doomed[t] /\ LeaveStm(t)

Step(t) ==
  \/ \E i \in Words : ReadOnlyWord(t, i)
  \/ \E i \in Words : ReadWord(t, i)
  \/ \E i \in Words, v \in Value : WriteWord(t, i, v)
  \/ \E i \in Words : RefuseWord(t, i)

Next ==
  \E t \in Tx :
    \/ \E ro \in BOOLEAN : Begin(t, ro)
    \/ Wait(t)
    \/ \E op \in {"read", "write"}, i, j \in Words : StartCall(t, op, i, j)
    \/ Step(t)
    \/ End(t)
    \/ GiveUp(t)

Spec == Init /\ [][Next]_vars

-----------------------------------------------------------------------------

\* Every variable stays in its type.
TypeOK ==
  /\ BatcherTypeOK
  /\ word \in [Words -> WordRecord]
  /\ is_read_only \in [Tx -> BOOLEAN]
  /\ readSet \in [Tx -> SUBSET Words]
  /\ writtenSet \in [Tx -> SUBSET Words]
  /\ doomed \in [Tx -> BOOLEAN]
  /\ call \in [Tx -> Calls]
  /\ target \in [Tx -> Value]

\* The transactions that have put word i in one of their sets.
Accessors(i) == {t \in Tx : i \in readSet[t] \cup writtenSet[t]}

\* A word has one writer at most: two write logs never meet in the single
\* writable copy, and the swap at the end of the epoch happens once.
OneWriter ==
  \A t, u \in Tx : t # u => writtenSet[t] \cap writtenSet[u] = {}

\* The control data of a word tell the truth about the current epoch, and only
\* about it: last_tx_accessed is the number of one of its accessors,
\* accessed_by_many is set if there are two, written if one has written it, and
\* then every writer has the number last_tx_accessed.
WordControlOf(i) ==
  LET last == word[i].last_tx_accessed
  IN  /\ last = 0 <=> Accessors(i) = {}
      /\ last # 0 => \E t \in Accessors(i) : trNum[t] = last
      /\ word[i].accessed_by_many => \E t, u \in Accessors(i) : t # u
      /\ ~word[i].accessed_by_many => \A t \in Accessors(i) : trNum[t] = last
      /\ word[i].written <=> \E t \in Tx : i \in writtenSet[t]
      /\ \A t \in Tx : i \in writtenSet[t] => trNum[t] = last

WordControl == \A i \in Words : WordControlOf(i)

\* What has accessed a word belongs to the current epoch: no control data and
\* no set of a transaction outlive it.  Read-only transactions leave no trace.
\* Only a running transaction is inside a call, and only one that has begun is
\* marked aborted.
AccessDiscipline ==
  \A t \in Tx :
    /\ readSet[t] \cup writtenSet[t] # {} =>
         /\ epoch[t] = counter
         /\ pc[t] \in {"running", "left"}
         /\ ~is_read_only[t]
    /\ call[t] # NoCall =>
         pc[t] = "running" /\ call[t].next <= call[t].last /\ call[t].last \in Words
    /\ call[t].op = "write" => ~is_read_only[t]
    /\ doomed[t] => pc[t] \in {"running", "left"} /\ call[t] = NoCall

\* The inductive invariant of the STM, on top of the batcher's.
StmInv ==
  /\ TypeOK
  /\ WordControl
  /\ AccessDiscipline

\* A read-only transaction never aborts.
ReadOnlyCommits == \A t \in Tx : is_read_only[t] => ~doomed[t]

\* A transaction aborts because of another one of its epoch: one that is alone
\* in its epoch commits.
AbortNeedsRival ==
  \A t \in Tx :
    doomed[t] => \E u \in Tx \ {t} : pc[u] # "idle" /\ epoch[u] = epoch[t]

\* What was committed in the current epoch, or still may be.
Candidates ==
  {t \in Tx : ~doomed[t] /\ pc[t] \in {"running", "left"} /\ epoch[t] = counter}

\* t has read a word from the readable copy that u writes: in a serial order
\* with the same reads t comes first.
MustPrecede(t, u) == t # u /\ readSet[t] \cap writtenSet[u] # {}

\* The transactions of an epoch that commit have the effect of some serial
\* order: no group of them is ordered in a circle.
Serializable ==
  \A S \in (SUBSET Candidates) \ {{}} : \E t \in S : \A u \in S : ~MustPrecede(u, t)

\* Stronger: what one transaction has read no other one writes.
ConflictFree ==
  \A t, u \in Tx : ~MustPrecede(t, u)

\* Why clients that read before they write are safe: a write is accepted from
\* the only accessor of the word, and later accesses by others are refused.
SoleAccessorWrites ==
  /\ \A t \in Tx :
       call[t].op = "write" => call[t].next..call[t].last \subseteq readSet[t] \cup writtenSet[t]
  /\ \A i \in Words :
       word[i].written => \A t \in Accessors(i) : trNum[t] = word[i].last_tx_accessed

\* leave's DEBUG check: an epoch ends with a committed transaction.
EpochCommits ==
  \A t \in Tx :
    pc[t] = "running" /\ remaining = 1 => ~doomed[t] \/ committed # {}

\* The two copies of every word, their control data and the batcher implement
\* EpochMemory: the readable copies are the memory, and the writable copy of a
\* word is the log of the one transaction that has written it.
Memory == INSTANCE EpochMemory WITH
            Words   <- Words,
            current <- Present,
            pending <- Parked,
            done    <- {t \in Tx : pc[t] = "left"},
            mem     <- [i \in Words |-> Readable(word[i])],
            log     <- [t \in Tx |-> [i \in writtenSet[t] |-> Writable(word[i])]]

ImplementsEpochMemory == Memory!Spec

=============================================================================
