---------------------------- MODULE DualStmProofs ----------------------------
(***************************************************************************)
(* The dual-versioned STM keeps its invariants for any number of words,    *)
(* any contents and any finite set of transactions.                        *)
(*                                                                         *)
(* The STM steps are batcher steps or leave the batcher alone, so all that *)
(* is proved of the batcher carries over.  On top of it StmInv is          *)
(* inductive: the control data of a word describe the transactions of the  *)
(* current epoch that have accessed it.  That tr_num identifies a          *)
(* transaction within its epoch turns this into ownership: a word has at   *)
(* most one writer.                                                        *)
(***************************************************************************)
EXTENDS DualStm, BatcherProofs

-----------------------------------------------------------------------------
\* What the operators of Word do to the fields of a word.

LEMMA AddToAccessSetFields ==
  ASSUME NEW w \in WordRecord, NEW n \in Nat, NEW b \in BOOLEAN
  PROVE  LET x == AddToAccessSet(w, n, b)
         IN  /\ x \in WordRecord
             /\ x.written <=> w.written \/ b
             /\ x.accessed_by_many <=>
                  w.accessed_by_many \/ (w.last_tx_accessed # 0 /\ w.last_tx_accessed # n)
             /\ x.last_tx_accessed = n
             /\ Readable(x) = Readable(w)
             /\ Writable(x) = Writable(w)
BY DEF AddToAccessSet, WordRecord, Readable, Writable

LEMMA WriteCopyFields ==
  ASSUME NEW w \in WordRecord, NEW v \in Value
  PROVE  LET x == WriteCopy(w, v)
         IN  /\ x \in WordRecord
             /\ x.written = w.written
             /\ x.accessed_by_many = w.accessed_by_many
             /\ x.last_tx_accessed = w.last_tx_accessed
             /\ Readable(x) = Readable(w)
             /\ Writable(x) = v
<1>1. CASE w.is_copy_a_readable
  BY <1>1 DEF WriteCopy, WordRecord, Readable, Writable
<1>2. CASE ~w.is_copy_a_readable
  BY <1>2 DEF WriteCopy, WordRecord, Readable, Writable
<1> QED
  BY <1>1, <1>2

LEMMA ResetFields ==
  ASSUME NEW w \in WordRecord, NEW x, x \in {ResetState(w), UpdateWritten(w)}
  PROVE  /\ x \in WordRecord
         /\ ~x.written
         /\ ~x.accessed_by_many
         /\ x.last_tx_accessed = 0
<1> DEFINE r == ResetState(w)
<1>1. r \in WordRecord /\ ~r.written /\ ~r.accessed_by_many /\ r.last_tx_accessed = 0
  BY DEF ResetState, WordRecord
<1>2. UpdateWritten(w) = [r EXCEPT !.is_copy_a_readable = ~@]
  BY DEF UpdateWritten
<1> HIDE DEF r
<1>3. CASE x = UpdateWritten(w)
  BY <1>1, <1>2, <1>3 DEF WordRecord
<1> QED
  BY <1>1, <1>3 DEF r

\* A reset keeps the two copies in their roles, updateWritten swaps them.
LEMMA ResetCopies ==
  ASSUME NEW w \in WordRecord
  PROVE  /\ Readable(ResetState(w)) = Readable(w)
         /\ Readable(UpdateWritten(w)) = Writable(w)
BY DEF ResetState, UpdateWritten, WordRecord, Readable, Writable

LEMMA ReadFields ==
  ASSUME NEW w \in WordRecord, NEW n \in Nat
  PROVE  LET x == ReadEffect(w, n)
         IN  /\ x \in WordRecord
             /\ w.written => x = w
             /\ ~w.written =>
                  /\ ~x.written
                  /\ x.accessed_by_many <=>
                       \/ w.accessed_by_many
                       \/ w.last_tx_accessed # 0 /\ w.last_tx_accessed # n
                  /\ x.last_tx_accessed = n
             /\ Readable(x) = Readable(w)
             /\ Writable(x) = Writable(w)
             /\ ReadValue(w) \in Value
<1>1. ReadValue(w) \in Value
  BY DEF ReadValue, Readable, Writable, WordRecord
<1> QED
  BY <1>1, AddToAccessSetFields DEF ReadEffect

LEMMA WriteFields ==
  ASSUME NEW w \in WordRecord, NEW n \in Nat, NEW v \in Value
  PROVE  LET x == WriteEffect(w, n, v)
         IN  /\ x \in WordRecord
             /\ x.written
             /\ w.written =>
                  /\ x.accessed_by_many = w.accessed_by_many
                  /\ x.last_tx_accessed = w.last_tx_accessed
             /\ ~w.written =>
                  /\ x.accessed_by_many <=>
                       \/ w.accessed_by_many
                       \/ w.last_tx_accessed # 0 /\ w.last_tx_accessed # n
                  /\ x.last_tx_accessed = n
             /\ Readable(x) = Readable(w)
             /\ Writable(x) = v
<1> DEFINE y == WriteCopy(w, v)
<1>1. /\ y \in WordRecord
      /\ y.written = w.written
      /\ y.accessed_by_many = w.accessed_by_many
      /\ y.last_tx_accessed = w.last_tx_accessed
      /\ Readable(y) = Readable(w)
      /\ Writable(y) = v
  BY WriteCopyFields
<1> HIDE DEF y
<1>2. CASE w.written
  BY <1>1, <1>2 DEF WriteEffect, y
<1>3. CASE ~w.written
  <2> DEFINE x == AddToAccessSet(y, n, TRUE)
  <2>1. WriteEffect(w, n, v) = x
    BY <1>3 DEF WriteEffect, y
  <2>2. /\ x \in WordRecord
        /\ x.written <=> y.written \/ TRUE
        /\ x.accessed_by_many <=>
             y.accessed_by_many \/ (y.last_tx_accessed # 0 /\ y.last_tx_accessed # n)
        /\ x.last_tx_accessed = n
        /\ Readable(x) = Readable(y)
        /\ Writable(x) = Writable(y)
    BY <1>1, AddToAccessSetFields
  <2> HIDE DEF x
  <2> QED
    BY <1>1, <1>3, <2>1, <2>2
<1> QED
  BY <1>2, <1>3

LEMMA NewWordFields ==
  /\ NewWord \in WordRecord
  /\ NewWord.last_tx_accessed = 0
  /\ ~NewWord.accessed_by_many
  /\ ~NewWord.written
  /\ Readable(NewWord) = InitVal
BY InitValAssumption DEF NewWord, WordRecord, Readable

-----------------------------------------------------------------------------
\* The STM moves the batcher only as the batcher allows.

LEMMA StmBatcherStep == [Next]_vars => [BatcherNext]_batcherVars
<1> SUFFICES ASSUME [Next]_vars
             PROVE  [BatcherNext]_batcherVars
  OBVIOUS
<1>1. CASE UNCHANGED vars
  BY <1>1 DEF vars
<1>2. ASSUME NEW t \in Tx, NEW ro \in BOOLEAN, Begin(t, ro)
      PROVE  BatcherNext
  BY <1>2 DEF Begin, BatcherNext
<1>3. ASSUME NEW t \in Tx, Wait(t)
      PROVE  BatcherNext
  BY <1>3 DEF Wait, BatcherNext
<1>4. ASSUME NEW t \in Tx, NEW op, NEW i \in Words, NEW j \in Words, StartCall(t, op, i, j)
      PROVE  UNCHANGED batcherVars
  BY <1>4 DEF StartCall
<1>5. ASSUME NEW t \in Tx, Step(t)
      PROVE  UNCHANGED batcherVars
  BY <1>5 DEF Step, ReadOnlyWord, ReadWord, WriteWord, RefuseWord
<1>6. ASSUME NEW t \in Tx, LeaveStm(t)
      PROVE  BatcherNext
  <2>1. (~doomed[t]) \in BOOLEAN
    OBVIOUS
  <2>2. Leave(t, ~doomed[t])
    BY <1>6 DEF LeaveStm, Leave
  <2> QED
    BY <2>1, <2>2 DEF BatcherNext
<1> QED
  BY <1>1, <1>2, <1>3, <1>4, <1>5, <1>6 DEF Next, End, GiveUp

\* The batcher inside the STM keeps all its properties.
THEOREM StmBatcher == Spec => BatcherSpec
<1>1. Init => BatcherInit
  BY DEF Init
<1> QED
  BY <1>1, StmBatcherStep, PTL DEF Spec, BatcherSpec

LEMMA StmBatcherInv == Spec => []BatcherInv
BY StmBatcher, BatcherInvariant, PTL

-----------------------------------------------------------------------------

LEMMA StmInitInv == Init => StmInv
<1> SUFFICES ASSUME Init PROVE StmInv
  OBVIOUS
<1> USE DEF Init
<1>1. TypeOK
  <2>1. BatcherTypeOK
    BY BatcherInitInv DEF BatcherInv
  <2>2. NoCall \in Calls
    BY DEF NoCall, Calls
  <2> QED
    BY <2>1, <2>2, NewWordFields, InitValAssumption DEF TypeOK
<1>2. WordControl
  BY NewWordFields DEF WordControl, WordControlOf, Accessors
<1>3. AccessDiscipline
  BY DEF AccessDiscipline, NoCall
<1> QED
  BY <1>1, <1>2, <1>3 DEF StmInv

\* Steps that touch neither the words nor the sets of the transactions keep
\* the control data true: who has accessed a word keeps its number.
LEMMA ControlFrame ==
  ASSUME StmInv, UNCHANGED <<word, readSet, writtenSet>>,
         \A u \in Tx : pc[u] # "idle" => trNum'[u] = trNum[u]
  PROVE  WordControl'
<1>1. \A i \in Words : Accessors(i)' = Accessors(i)
  BY DEF Accessors
<1>2. ASSUME NEW i \in Words, NEW u \in Accessors(i)
      PROVE  trNum'[u] = trNum[u]
  BY <1>2 DEF StmInv, AccessDiscipline, Accessors
<1>3. ASSUME NEW i \in Words, NEW u \in Tx, i \in writtenSet[u]
      PROVE  u \in Accessors(i)
  BY <1>3 DEF Accessors
<1> QED
  BY <1>1, <1>2, <1>3 DEF StmInv, WordControl, WordControlOf

LEMMA BeginInv ==
  ASSUME StmInv, BatcherInv, BatcherInv', NEW t \in Tx, NEW ro \in BOOLEAN, Begin(t, ro)
  PROVE  StmInv'
<1> USE DEF StmInv, Begin
<1>1. pc[t] = "idle" /\ counter' = counter
  BY DEF Enter, EnterFirst, EnterBlocked
<1>2. \A u \in Tx : u # t => /\ pc'[u] = pc[u]
                             /\ epoch'[u] = epoch[u]
                             /\ trNum'[u] = trNum[u]
  BY DEF Enter, EnterFirst, EnterBlocked, BatcherInv, BatcherTypeOK
<1>3. TypeOK'
  BY DEF TypeOK, BatcherInv
<1>4. WordControl'
  BY <1>1, <1>2, ControlFrame
<1>5. AccessDiscipline'
  BY <1>1, <1>2 DEF AccessDiscipline, TypeOK, NoCall
<1> QED
  BY <1>3, <1>4, <1>5

LEMMA WaitInv ==
  ASSUME StmInv, BatcherInv, BatcherInv', NEW t \in Tx, Wait(t)
  PROVE  StmInv'
<1> USE DEF StmInv, Wait, stmVars
<1>1. /\ pc[t] \in {"asleep", "woken"}
      /\ counter' = counter /\ epoch' = epoch /\ trNum' = trNum
      /\ \A u \in Tx : u # t => pc'[u] = pc[u]
  BY DEF SpuriousWake, TestAwake, BatcherInv, BatcherTypeOK
<1>2. TypeOK'
  BY DEF TypeOK, BatcherInv
<1>3. WordControl'
  BY <1>1, ControlFrame
<1>4. AccessDiscipline'
  BY <1>1 DEF AccessDiscipline
<1> QED
  BY <1>2, <1>3, <1>4

LEMMA StartCallInv ==
  ASSUME StmInv, NEW t \in Tx, NEW op \in {"read", "write"},
         NEW i \in Words, NEW j \in Words, StartCall(t, op, i, j)
  PROVE  StmInv'
<1> USE DEF StmInv, StartCall
<1>1. TypeOK'
  <2>1. [op |-> op, next |-> i, last |-> j] \in Calls
    BY StmAssumption DEF Calls, Words
  <2> QED
    BY <2>1 DEF TypeOK, batcherVars, BatcherTypeOK
<1>2. WordControl'
  BY ControlFrame DEF batcherVars
<1>3. AccessDiscipline'
  BY DEF AccessDiscipline, TypeOK, batcherVars, Ready
<1> QED
  BY <1>1, <1>2, <1>3

\* A call that goes on stays a call on words of the segment.
LEMMA AdvanceCalls ==
  ASSUME TypeOK, NEW t \in Tx, call[t] # NoCall => call[t].last \in Words,
         Advance(t)
  PROVE  /\ call' \in [Tx -> Calls]
         /\ \A u \in Tx : u # t => call'[u] = call[u]
         /\ call'[t] # NoCall => call[t] # NoCall
         /\ call'[t].op \in {"none", call[t].op}
         /\ call'[t] # NoCall =>
              call'[t].next <= call'[t].last /\ call'[t].last \in Words
<1>1. call[t] \in Calls /\ call \in [Tx -> Calls] /\ NoCall \in Calls
  BY DEF TypeOK, Calls, NoCall
<1> DEFINE c == [call[t] EXCEPT !.next = @ + 1]
<1>2. /\ c \in Calls /\ c.op = call[t].op /\ c.last = call[t].last
      /\ call[t].next < call[t].last => c.next <= c.last
  BY <1>1 DEF Calls
<1>3. call'[t] = IF call[t].next < call[t].last THEN c ELSE NoCall
  BY <1>1 DEF Advance
<1> HIDE DEF c
<1>4. call' \in [Tx -> Calls] /\ \A u \in Tx : u # t => call'[u] = call[u]
  <2>1. call' = [call EXCEPT ![t] = call'[t]]
    BY <1>1 DEF Advance
  <2> QED
    BY <1>1, <1>2, <1>3, <2>1
<1>5. NoCall.next = 0 /\ NoCall.last = 0 /\ NoCall.op = "none"
  BY DEF NoCall
<1>6. call'[t] # NoCall => call[t] # NoCall
  BY <1>3, <1>5
<1> QED
  BY <1>2, <1>3, <1>4, <1>5, <1>6

\* The part of the invariant about calls, for a step on a word.
LEMMA StepDiscipline ==
  ASSUME StmInv, BatcherInv, NEW t \in Tx, NEW op \in {"read", "write"}, NEW i \in Words,
         At(t, op, i), Advance(t),
         UNCHANGED <<batcherVars, is_read_only, doomed>>,
         \A u \in Tx : u # t => readSet'[u] \cup writtenSet'[u] = readSet[u] \cup writtenSet[u],
         ~is_read_only[t] \/ UNCHANGED <<readSet, writtenSet>>
  PROVE  AccessDiscipline'
<1> USE DEF StmInv
<1>1. /\ pc[t] = "running" /\ call[t] # NoCall /\ call[t].last \in Words
      /\ ~doomed[t]
  BY DEF At, AccessDiscipline, NoCall
<1>2. epoch[t] = counter
  BY <1>1 DEF BatcherInv, EpochsAndNumbers, RunningInCurrentEpoch
<1> QED
  BY <1>1, <1>2, AdvanceCalls DEF AccessDiscipline, batcherVars

LEMMA ReadOnlyWordInv ==
  ASSUME StmInv, BatcherInv, NEW t \in Tx, NEW i \in Words, ReadOnlyWord(t, i)
  PROVE  StmInv'
<1> USE DEF StmInv, ReadOnlyWord
<1>1. TypeOK'
  <2>1. word[i] \in WordRecord
    BY DEF TypeOK
  <2>2. Readable(word[i]) \in Value
    BY <2>1 DEF WordRecord, Readable
  <2>3. call' \in [Tx -> Calls]
    BY AdvanceCalls DEF AccessDiscipline
  <2> QED
    BY <2>2, <2>3 DEF TypeOK, batcherVars, BatcherTypeOK
<1>2. WordControl'
  BY ControlFrame DEF batcherVars
<1>3. AccessDiscipline'
  BY StepDiscipline
<1> QED
  BY <1>1, <1>2, <1>3

LEMMA ReadWordInv ==
  ASSUME StmInv, BatcherInv, NEW t \in Tx, NEW i \in Words, ReadWord(t, i)
  PROVE  StmInv'
<1> USE DEF StmInv, ReadWord
<1> DEFINE w == word[i]
           n == trNum[t]
<1>1. /\ w \in WordRecord /\ n \in Nat /\ word \in [Words -> WordRecord]
      /\ readSet \in [Tx -> SUBSET Words] /\ writtenSet \in [Tx -> SUBSET Words]
      /\ pc[t] = "running"
  BY DEF TypeOK, BatcherTypeOK, At, AccessDiscipline, NoCall
<1>2. n >= 1
  BY <1>1 DEF BatcherInv, EpochsAndNumbers
<1>3. /\ word'[i] = ReadEffect(w, n)
      /\ \A j \in Words : j # i => word'[j] = word[j]
  BY <1>1
<1>4. trNum' = trNum
  BY DEF batcherVars
<1>5. TypeOK'
  <2>1. call' \in [Tx -> Calls]
    BY AdvanceCalls DEF AccessDiscipline
  <2>2. ReadEffect(w, n) \in WordRecord /\ ReadValue(w) \in Value
    BY <1>1, ReadFields
  <2> QED
    BY <1>1, <2>1, <2>2 DEF TypeOK, batcherVars, BatcherTypeOK
<1>6. WordControl'
  <2>1. CASE w.written
    <3>1. word' = word /\ readSet' = readSet /\ writtenSet' = writtenSet
      <4>1. ReadEffect(w, n) = w
        BY <1>1, <2>1, ReadFields
      <4> QED
        BY <1>1, <2>1, <4>1
    <3> QED
      BY <1>4, <3>1, ControlFrame
  <2>2. CASE ~w.written
    <3> DEFINE x == ReadEffect(w, n)
    <3>1. /\ ~x.written
          /\ x.accessed_by_many <=>
               w.accessed_by_many \/ (w.last_tx_accessed # 0 /\ w.last_tx_accessed # n)
          /\ x.last_tx_accessed = n
      BY <1>1, <2>2, ReadFields
    <3> HIDE DEF x
    <3>2. /\ Accessors(i)' = Accessors(i) \cup {t}
          /\ \A j \in Words : j # i => Accessors(j)' = Accessors(j)
      BY <1>1, <2>2 DEF Accessors
    <3>3. word'[i] = x
      BY <1>3 DEF x
    <3>4. /\ ~word'[i].written
          /\ \A u \in Tx : i \notin writtenSet'[u]
      BY <2>2, <3>1, <3>3 DEF WordControl, WordControlOf
    <3>5. word'[i].accessed_by_many => \E u, v \in Accessors(i)' : u # v
      <4>1. CASE w.accessed_by_many
        BY <3>2, <4>1 DEF WordControl, WordControlOf
      <4>2. CASE w.last_tx_accessed # 0 /\ w.last_tx_accessed # n
        <5>1. PICK u \in Accessors(i) : trNum[u] = w.last_tx_accessed
          BY <4>2 DEF WordControl, WordControlOf
        <5> QED
          BY <3>2, <4>2, <5>1
      <4> QED
        BY <3>1, <3>3, <4>1, <4>2
    <3>6. ~word'[i].accessed_by_many =>
             \A u \in Accessors(i)' : trNum'[u] = word'[i].last_tx_accessed
      BY <1>4, <3>1, <3>2, <3>3 DEF WordControl, WordControlOf
    <3>7. /\ word'[i].last_tx_accessed # 0
          /\ t \in Accessors(i)' /\ trNum'[t] = word'[i].last_tx_accessed
      BY <1>2, <1>4, <3>1, <3>2, <3>3
    <3>8. ASSUME NEW j \in Words, j # i
          PROVE  word'[j] = word[j] /\ Accessors(j)' = Accessors(j)
      BY <1>3, <3>2, <3>8
    <3>9. WordControlOf(i)'
      BY <3>4, <3>5, <3>6, <3>7 DEF WordControlOf
    <3>10. \A j \in Words : j # i => WordControlOf(j)'
      BY <1>4, <3>8 DEF WordControl, WordControlOf
    <3> QED
      BY <3>9, <3>10 DEF WordControl
  <2> QED
    BY <2>1, <2>2
<1>7. AccessDiscipline'
  <2>1. \A u \in Tx : u # t => readSet'[u] \cup writtenSet'[u] = readSet[u] \cup writtenSet[u]
    BY <1>1
  <2> QED
    BY <2>1, StepDiscipline
<1> QED
  BY <1>5, <1>6, <1>7

LEMMA WriteWordInv ==
  ASSUME StmInv, BatcherInv, NEW t \in Tx, NEW i \in Words, NEW v \in Value,
         WriteWord(t, i, v)
  PROVE  StmInv'
<1> USE DEF StmInv, WriteWord
<1> DEFINE w == word[i]
           n == trNum[t]
           x == WriteEffect(w, n, v)
<1>1. /\ w \in WordRecord /\ n \in Nat /\ word \in [Words -> WordRecord]
      /\ readSet \in [Tx -> SUBSET Words] /\ writtenSet \in [Tx -> SUBSET Words]
      /\ pc[t] = "running"
  BY DEF TypeOK, BatcherTypeOK, At, AccessDiscipline, NoCall
<1>2. n >= 1
  BY <1>1 DEF BatcherInv, EpochsAndNumbers
<1>3. /\ word'[i] = x
      /\ \A j \in Words : j # i => word'[j] = word[j]
  BY <1>1
<1>4. trNum' = trNum
  BY DEF batcherVars
<1>5. /\ x \in WordRecord /\ x.written
      /\ w.written => /\ x.accessed_by_many = w.accessed_by_many
                      /\ x.last_tx_accessed = w.last_tx_accessed
      /\ ~w.written =>
           /\ x.accessed_by_many <=>
                w.accessed_by_many \/ (w.last_tx_accessed # 0 /\ w.last_tx_accessed # n)
           /\ x.last_tx_accessed = n
  BY <1>1, WriteFields
<1> HIDE DEF x
<1>6. TypeOK'
  <2>1. call' \in [Tx -> Calls]
    BY AdvanceCalls DEF AccessDiscipline
  <2>2. word' \in [Words -> WordRecord]
    BY <1>1, <1>5 DEF x
  <2> QED
    BY <1>1, <2>1, <2>2 DEF TypeOK, batcherVars, BatcherTypeOK
<1>7. WordControl'
  <2>1. ASSUME NEW j \in Words, j # i
        PROVE  /\ word'[j] = word[j] /\ Accessors(j)' = Accessors(j)
               /\ \A u \in Tx : j \in writtenSet'[u] <=> j \in writtenSet[u]
    BY <1>1, <1>3, <2>1 DEF Accessors
  <2>2. ASSUME w.written PROVE WordControlOf(i)'
    <3>1. /\ Accessors(i)' = Accessors(i)
          /\ writtenSet' = writtenSet
      BY <2>2 DEF Accessors
    <3>2. /\ word'[i].written
          /\ word'[i].accessed_by_many = w.accessed_by_many
          /\ word'[i].last_tx_accessed = w.last_tx_accessed
      BY <1>3, <1>5, <2>2
    <3> QED
      BY <1>4, <2>2, <3>1, <3>2 DEF WordControl, WordControlOf
  <2>3. ASSUME ~w.written PROVE WordControlOf(i)'
    <3>1. ~w.accessed_by_many
      BY <2>3 DEF WriteAccepted
    <3>2. /\ Accessors(i)' = Accessors(i) \cup {t}
          /\ \A u \in Tx : i \in writtenSet'[u] <=> u = t
      BY <1>1, <2>3 DEF Accessors, WordControl, WordControlOf
    <3>3. word'[i].accessed_by_many => \E a, b \in Accessors(i)' : a # b
      <4>1. SUFFICES ASSUME w.last_tx_accessed # 0, w.last_tx_accessed # n
                     PROVE  \E a, b \in Accessors(i)' : a # b
        BY <1>3, <1>5, <2>3, <3>1
      <4>2. PICK u \in Accessors(i) : trNum[u] = w.last_tx_accessed
        BY <4>1 DEF WordControl, WordControlOf
      <4> QED
        BY <3>2, <4>1, <4>2
    <3>4. ~word'[i].accessed_by_many =>
             \A u \in Accessors(i)' : trNum'[u] = word'[i].last_tx_accessed
      BY <1>3, <1>4, <1>5, <2>3, <3>2 DEF WordControl, WordControlOf
    <3>5. /\ word'[i].last_tx_accessed # 0
          /\ word'[i].written
          /\ t \in Accessors(i)' /\ trNum'[t] = word'[i].last_tx_accessed
      BY <1>2, <1>3, <1>4, <1>5, <2>3, <3>2
    <3> QED
      BY <1>4, <3>2, <3>3, <3>4, <3>5 DEF WordControlOf
  <2>4. \A j \in Words : j # i => WordControlOf(j)'
    BY <1>4, <2>1 DEF WordControl, WordControlOf
  <2> QED
    BY <2>2, <2>3, <2>4 DEF WordControl
<1>8. AccessDiscipline'
  <2>1. \A u \in Tx : u # t => readSet'[u] \cup writtenSet'[u] = readSet[u] \cup writtenSet[u]
    BY <1>1
  <2>2. ~is_read_only[t]
    BY DEF At, AccessDiscipline
  <2> QED
    BY <2>1, <2>2, StepDiscipline
<1> QED
  BY <1>6, <1>7, <1>8

LEMMA RefuseWordInv ==
  ASSUME StmInv, BatcherInv, NEW t \in Tx, NEW i \in Words, RefuseWord(t, i)
  PROVE  StmInv'
<1> USE DEF StmInv, RefuseWord
<1>1. pc[t] = "running"
  BY DEF At, AccessDiscipline, NoCall
<1>2. NoCall \in Calls /\ NoCall.op = "none"
  BY DEF NoCall, Calls
<1>3. TypeOK'
  BY <1>2 DEF TypeOK, batcherVars, BatcherTypeOK
<1>4. WordControl'
  BY ControlFrame DEF batcherVars
<1>5. AccessDiscipline'
  BY <1>1, <1>2 DEF AccessDiscipline, batcherVars, TypeOK
<1> QED
  BY <1>3, <1>4, <1>5

\* Everything that has accessed a word is in the vectors that onEpochEnd walks,
\* its caller included.
LEMMA AccessorsAreWalked ==
  ASSUME StmInv, BatcherInv, NEW t \in Tx, NEW ok \in BOOLEAN,
         pc[t] = "running", remaining = 1,
         NEW u \in Tx, readSet[u] \cup writtenSet[u] # {}
  PROVE  u \in Finished(t, ok).committed \cup Finished(t, ok).aborted
<1>1. /\ Finished(t, ok).committed = committed \cup {v \in {t} : ok}
      /\ Finished(t, ok).aborted = aborted \cup {v \in {t} : ~ok}
  BY DEF Finished
<1>2. epoch[u] = counter /\ pc[u] \in {"running", "left"}
  BY DEF StmInv, AccessDiscipline
<1>3. CASE pc[u] = "running"
  <2>1. u \in Present
    BY <1>2, <1>3 DEF Present
  <2> QED
    BY <1>1, <2>1, LastIsAlone
<1>4. CASE pc[u] = "left"
  BY <1>1, <1>2, <1>4 DEF BatcherInv, VectorsAreThisEpoch
<1> QED
  BY <1>2, <1>3, <1>4

\* The end of an epoch leaves no trace of it in the words.
LEMMA OnEpochEndCleans ==
  ASSUME StmInv, BatcherInv, NEW t \in Tx, NEW ok \in BOOLEAN,
         pc[t] = "running", remaining = 1,
         OnEpochEnd(Finished(t, ok).committed, Finished(t, ok).aborted)
  PROVE  /\ word' \in [Words -> WordRecord]
         /\ \A i \in Words : /\ ~word'[i].written
                             /\ ~word'[i].accessed_by_many
                             /\ word'[i].last_tx_accessed = 0
         /\ readSet' = [u \in Tx |-> {}]
         /\ writtenSet' = [u \in Tx |-> {}]
<1> DEFINE C == Finished(t, ok).committed
           A == Finished(t, ok).aborted
<1>1. \A u \in Tx : readSet[u] \cup writtenSet[u] # {} => u \in C \cup A
  BY AccessorsAreWalked
<1>2. C \cup A \subseteq Tx
  BY DEF Finished, BatcherInv, BatcherTypeOK
<1> HIDE DEF C, A
<1>3. OnEpochEnd(C, A)
  BY DEF C, A
<1>4. readSet' = [u \in Tx |-> {}] /\ writtenSet' = [u \in Tx |-> {}]
  BY <1>1, <1>3 DEF OnEpochEnd
<1>5. ASSUME NEW i \in Words
      PROVE  LET x == EndOfEpoch(i, C, A)
             IN  /\ x \in WordRecord
                 /\ ~x.written /\ ~x.accessed_by_many /\ x.last_tx_accessed = 0
  <2> DEFINE x == EndOfEpoch(i, C, A)
             touched == \E u \in C \cup A : i \in readSet[u] \cup writtenSet[u]
  <2>1. word[i] \in WordRecord
    BY DEF StmInv, TypeOK
  <2>2. x \in {ResetState(word[i]), UpdateWritten(word[i])} \/ (x = word[i] /\ ~touched)
    BY DEF EndOfEpoch
  <2> HIDE DEF x
  <2>3. CASE x \in {ResetState(word[i]), UpdateWritten(word[i])}
    <3>1. /\ x \in WordRecord
          /\ ~x.written /\ ~x.accessed_by_many /\ x.last_tx_accessed = 0
      BY <2>1, <2>3, ResetFields
    <3> QED
      BY <3>1 DEF x
  <2>4. CASE x = word[i] /\ ~touched
    <3>1. Accessors(i) = {}
      BY <1>1, <2>4 DEF Accessors
    <3>2. /\ ~word[i].written /\ ~word[i].accessed_by_many
          /\ word[i].last_tx_accessed = 0
      BY <3>1 DEF StmInv, WordControl, WordControlOf, Accessors
    <3> QED
      BY <2>1, <2>4, <3>2 DEF x
  <2> QED
    BY <2>2, <2>3, <2>4
<1>6. word' = [i \in Words |-> EndOfEpoch(i, C, A)]
  BY <1>3 DEF OnEpochEnd
<1> QED
  BY <1>4, <1>5, <1>6

LEMMA LeaveStmInv ==
  ASSUME StmInv, BatcherInv, BatcherInv', NEW t \in Tx,
         pc[t] = "running", call[t] = NoCall, LeaveStm(t)
  PROVE  StmInv'
<1> USE DEF StmInv, LeaveStm
<1>1. (~doomed[t]) \in BOOLEAN
  OBVIOUS
<1>2. /\ trNum' = trNum /\ epoch' = epoch
      /\ pc'[t] = "left"
      /\ \A u \in Tx : pc[u] \in {"running", "left"} /\ u # t => pc'[u] = pc[u]
  BY DEF LeaveEarly, LeaveLast, NotifyAll, BatcherInv, BatcherTypeOK
<1>3. CASE LeaveEarly(t, ~doomed[t]) /\ UNCHANGED <<word, readSet, writtenSet>>
  <2>1. counter' = counter
    BY <1>3 DEF LeaveEarly
  <2>2. TypeOK'
    BY <1>3 DEF TypeOK, BatcherInv
  <2>3. WordControl'
    BY <1>2, <1>3, ControlFrame
  <2>4. AccessDiscipline'
    BY <1>2, <1>3, <2>1 DEF AccessDiscipline
  <2> QED
    BY <2>2, <2>3, <2>4
<1>4. CASE /\ LeaveLast(t, ~doomed[t])
           /\ OnEpochEnd(Finished(t, ~doomed[t]).committed, Finished(t, ~doomed[t]).aborted)
  <2>1. /\ word' \in [Words -> WordRecord]
        /\ \A i \in Words : /\ ~word'[i].written
                            /\ ~word'[i].accessed_by_many
                            /\ word'[i].last_tx_accessed = 0
        /\ readSet' = [u \in Tx |-> {}]
        /\ writtenSet' = [u \in Tx |-> {}]
    BY <1>1, <1>4, OnEpochEndCleans DEF LeaveLast
  <2>2. TypeOK'
    BY <2>1 DEF TypeOK, BatcherInv
  <2>3. WordControl'
    BY <2>1 DEF WordControl, WordControlOf, Accessors
  <2>4. AccessDiscipline'
    BY <1>2, <2>1 DEF AccessDiscipline
  <2> QED
    BY <2>2, <2>3, <2>4
<1> QED
  BY <1>3, <1>4

LEMMA StmStepInv ==
  StmInv /\ BatcherInv /\ BatcherInv' /\ [Next]_vars => StmInv'
<1> SUFFICES ASSUME StmInv, BatcherInv, BatcherInv', [Next]_vars
             PROVE  StmInv'
  OBVIOUS
<1>1. CASE UNCHANGED vars
  <2>1. WordControl'
    BY <1>1, ControlFrame DEF vars, batcherVars, stmVars
  <2> QED
    BY <1>1, <2>1 DEF vars, batcherVars, stmVars, StmInv, TypeOK, BatcherTypeOK,
                      AccessDiscipline
<1>2. ASSUME NEW t \in Tx, NEW ro \in BOOLEAN, Begin(t, ro)
      PROVE  StmInv'
  BY <1>2, BeginInv
<1>3. ASSUME NEW t \in Tx, Wait(t)
      PROVE  StmInv'
  BY <1>3, WaitInv
<1>4. ASSUME NEW t \in Tx, NEW op \in {"read", "write"}, NEW i \in Words, NEW j \in Words,
             StartCall(t, op, i, j)
      PROVE  StmInv'
  BY <1>4, StartCallInv
<1>5. ASSUME NEW t \in Tx, Step(t)
      PROVE  StmInv'
  BY <1>5, ReadOnlyWordInv, ReadWordInv, WriteWordInv, RefuseWordInv DEF Step
<1>6. ASSUME NEW t \in Tx, End(t)
      PROVE  StmInv'
  BY <1>6, LeaveStmInv DEF End, Ready
<1>7. ASSUME NEW t \in Tx, GiveUp(t)
      PROVE  StmInv'
  <2>1. pc[t] = "running" /\ call[t] = NoCall
    BY <1>7 DEF GiveUp, LeaveStm, LeaveEarly, LeaveLast, StmInv, AccessDiscipline
  <2> QED
    BY <1>7, <2>1, LeaveStmInv DEF GiveUp
<1> QED
  BY <1>1, <1>2, <1>3, <1>4, <1>5, <1>6, <1>7 DEF Next

\* The STM keeps its inductive invariant.
THEOREM StmInvariant == Spec => []StmInv
BY StmInitInv, StmStepInv, StmBatcherInv, PTL DEF Spec

\* Type correctness.
THEOREM TypeCorrect == Spec => []TypeOK
<1>1. StmInv => TypeOK
  BY DEF StmInv
<1> QED
  BY <1>1, StmInvariant, PTL

\* The control data of the words are right about the current epoch.
THEOREM WordControlCorrect == Spec => []WordControl
<1>1. StmInv => WordControl
  BY DEF StmInv
<1> QED
  BY <1>1, StmInvariant, PTL

\* The sets of a transaction do not outlive its epoch.
THEOREM AccessDisciplined == Spec => []AccessDiscipline
<1>1. StmInv => AccessDiscipline
  BY DEF StmInv
<1> QED
  BY <1>1, StmInvariant, PTL

\* No word is written by two transactions of one epoch: both would have the
\* number last_tx_accessed, and tr_num is unique within the epoch.
LEMMA InvOneWriter == StmInv /\ BatcherInv => OneWriter
<1> SUFFICES ASSUME StmInv, BatcherInv,
                    NEW t \in Tx, NEW u \in Tx, t # u,
                    NEW i \in writtenSet[t] \cap writtenSet[u]
             PROVE  FALSE
  BY DEF OneWriter
<1>1. i \in Words
  BY DEF StmInv, TypeOK
<1>2. trNum[t] = trNum[u]
  BY <1>1 DEF StmInv, WordControl, WordControlOf
<1>3. /\ epoch[t] = epoch[u]
      /\ pc[t] # "idle" /\ pc[u] # "idle"
  BY DEF StmInv, AccessDiscipline
<1> QED
  BY <1>2, <1>3 DEF BatcherInv, TrNumIdentifies

\* A word has one writer at most.
THEOREM WriterUnique == Spec => []OneWriter
BY InvOneWriter, StmInvariant, StmBatcherInv, PTL

-----------------------------------------------------------------------------
\* What a step may do to transactions that it is not about.

\* Whoever has begun keeps its epoch and number, and stays begun.
LEMMA BegunKeeps ==
  ASSUME BatcherInv, [BatcherNext]_batcherVars, NEW u \in Tx, pc[u] # "idle"
  PROVE  pc'[u] # "idle" /\ epoch'[u] = epoch[u] /\ trNum'[u] = trNum[u]
<1> USE DEF BatcherInv, BatcherTypeOK
<1>1. CASE UNCHANGED batcherVars
  BY <1>1 DEF batcherVars
<1>2. ASSUME NEW t \in Tx, Enter(t)
      PROVE  pc'[u] # "idle" /\ epoch'[u] = epoch[u] /\ trNum'[u] = trNum[u]
  BY <1>2 DEF Enter, EnterFirst, EnterBlocked
<1>3. ASSUME NEW t \in Tx, SpuriousWake(t) \/ TestAwake(t)
      PROVE  pc'[u] # "idle" /\ epoch'[u] = epoch[u] /\ trNum'[u] = trNum[u]
  BY <1>3 DEF SpuriousWake, TestAwake
<1>4. ASSUME NEW t \in Tx, NEW ok \in BOOLEAN, Leave(t, ok)
      PROVE  pc'[u] # "idle" /\ epoch'[u] = epoch[u] /\ trNum'[u] = trNum[u]
  BY <1>4 DEF Leave, LeaveEarly, LeaveLast, NotifyAll
<1> QED
  BY <1>1, <1>2, <1>3, <1>4 DEF BatcherNext

\* Only a refused word marks a transaction aborted, and only the begin of a
\* transaction sets its is_read_only.
LEMMA DoomedOrigin ==
  ASSUME [Next]_vars, TypeOK, NEW u \in Tx
  PROVE  /\ doomed'[u] => doomed[u] \/ \E i \in Words : RefuseWord(u, i)
         /\ is_read_only'[u] = is_read_only[u] \/ pc[u] = "idle"
<1> USE DEF TypeOK
<1>1. CASE UNCHANGED vars
  BY <1>1 DEF vars, stmVars
<1>2. ASSUME NEW t \in Tx, NEW ro \in BOOLEAN, Begin(t, ro)
      PROVE  doomed' = doomed /\ (is_read_only'[u] = is_read_only[u] \/ pc[u] = "idle")
  BY <1>2 DEF Begin, Enter, EnterFirst, EnterBlocked
<1>3. ASSUME NEW t \in Tx, NEW i \in Words, RefuseWord(t, i)
      PROVE  /\ doomed'[u] => doomed[u] \/ RefuseWord(u, i)
             /\ is_read_only' = is_read_only
  BY <1>3 DEF RefuseWord
<1>4. ASSUME NEW t \in Tx, Wait(t) \/ LeaveStm(t)
      PROVE  doomed' = doomed /\ is_read_only' = is_read_only
  BY <1>4 DEF Wait, LeaveStm, stmVars
<1>5. ASSUME NEW t \in Tx, NEW op, NEW i \in Words, NEW j \in Words, StartCall(t, op, i, j)
      PROVE  doomed' = doomed /\ is_read_only' = is_read_only
  BY <1>5 DEF StartCall
<1>6. ASSUME NEW t \in Tx, NEW i \in Words, NEW v \in Value,
             ReadOnlyWord(t, i) \/ ReadWord(t, i) \/ WriteWord(t, i, v)
      PROVE  doomed' = doomed /\ is_read_only' = is_read_only
  BY <1>6 DEF ReadOnlyWord, ReadWord, WriteWord
<1>7. CASE Next
  BY <1>2, <1>3, <1>4, <1>5, <1>6, <1>7, InitValAssumption DEF Next, Step, End, GiveUp
<1> QED
  BY <1>1, <1>7

\* A transaction is refused a word that another one has accessed.
LEMMA RefusedForRival ==
  ASSUME StmInv, BatcherInv, NEW t \in Tx, NEW i \in Words, RefuseWord(t, i)
  PROVE  /\ ~is_read_only[t]
         /\ \E u \in Tx \ {t} : pc[u] # "idle" /\ epoch[u] = epoch[t]
<1>1. pc[t] = "running" /\ ~is_read_only[t]
  BY DEF RefuseWord, At, StmInv, AccessDiscipline, NoCall
<1>2. epoch[t] = counter
  BY <1>1 DEF BatcherInv, EpochsAndNumbers, RunningInCurrentEpoch
<1>3. \E u \in Accessors(i) : u # t
  <2>1. CASE word[i].written /\ word[i].last_tx_accessed # trNum[t]
    <3>1. PICK u \in Tx : i \in writtenSet[u]
      BY <2>1 DEF StmInv, WordControl, WordControlOf
    <3>2. u # t
      BY <2>1, <3>1 DEF StmInv, WordControl, WordControlOf
    <3> QED
      BY <3>1, <3>2 DEF Accessors
  <2>2. CASE word[i].accessed_by_many
    BY <2>2 DEF StmInv, WordControl, WordControlOf
  <2> QED
    BY <2>1, <2>2 DEF RefuseWord, ReadAccepted, WriteAccepted
<1>4. \A u \in Accessors(i) : u \in Tx /\ pc[u] # "idle" /\ epoch[u] = counter
  BY DEF Accessors, StmInv, AccessDiscipline
<1> QED
  BY <1>1, <1>2, <1>3, <1>4

\* Read-only transactions never abort.
THEOREM ReadOnlyNeverAborts == Spec => []ReadOnlyCommits
<1>1. Init => ReadOnlyCommits
  BY DEF Init, ReadOnlyCommits
<1>2. ASSUME ReadOnlyCommits, StmInv, BatcherInv, [Next]_vars,
             NEW t \in Tx, is_read_only'[t], doomed'[t]
      PROVE  FALSE
  <2>1. /\ doomed[t] \/ \E i \in Words : RefuseWord(t, i)
        /\ is_read_only'[t] = is_read_only[t] \/ pc[t] = "idle"
    BY <1>2, DoomedOrigin DEF StmInv
  <2>2. pc[t] # "idle"
    BY <1>2, <2>1 DEF StmInv, AccessDiscipline, RefuseWord, At, NoCall
  <2> QED
    BY <1>2, <2>1, <2>2, RefusedForRival DEF ReadOnlyCommits
<1>3. ReadOnlyCommits /\ StmInv /\ BatcherInv /\ [Next]_vars => ReadOnlyCommits'
  BY <1>2 DEF ReadOnlyCommits
<1> QED
  BY <1>1, <1>3, StmInvariant, StmBatcherInv, PTL DEF Spec

\* A transaction that is alone in its epoch never aborts.
THEOREM AloneNeverAborts == Spec => []AbortNeedsRival
<1>1. Init => AbortNeedsRival
  BY DEF Init, AbortNeedsRival
<1>2. ASSUME AbortNeedsRival, StmInv, BatcherInv, [Next]_vars,
             NEW t \in Tx, doomed'[t]
      PROVE  \E u \in Tx \ {t} : pc'[u] # "idle" /\ epoch'[u] = epoch'[t]
  <2>1. [BatcherNext]_batcherVars
    BY <1>2, StmBatcherStep
  <2>2. doomed[t] \/ \E i \in Words : RefuseWord(t, i)
    BY <1>2, DoomedOrigin DEF StmInv
  <2>3. pc[t] # "idle"
    BY <1>2, <2>2 DEF StmInv, AccessDiscipline, RefuseWord, At, NoCall
  <2>4. PICK u \in Tx \ {t} : pc[u] # "idle" /\ epoch[u] = epoch[t]
    BY <1>2, <2>2, RefusedForRival DEF AbortNeedsRival
  <2> QED
    BY <1>2, <2>1, <2>3, <2>4, BegunKeeps
<1>3. AbortNeedsRival /\ StmInv /\ BatcherInv /\ [Next]_vars => AbortNeedsRival'
  BY <1>2 DEF AbortNeedsRival
<1> QED
  BY <1>1, <1>3, StmInvariant, StmBatcherInv, PTL DEF Spec

-----------------------------------------------------------------------------
(***************************************************************************)
(* Clients that read a word before they write it.  When such a client      *)
(* writes a word for the first time it is among its accessors; the test of *)
(* accessed_by_many then says that it is the only one.  Nobody else        *)
(* becomes an accessor of a written word, so what a transaction has read   *)
(* no other one of its epoch writes.                                       *)
(***************************************************************************)

\* A step that keeps the words, the sets and the numbers, and starts no write.
LEMMA SoleFrame ==
  ASSUME StmInv, SoleAccessorWrites, UNCHANGED <<word, readSet, writtenSet>>,
         \A u \in Tx : pc[u] # "idle" => trNum'[u] = trNum[u],
         \A u \in Tx : call'[u].op = "write" =>
           call'[u].next..call'[u].last \subseteq readSet[u] \cup writtenSet[u]
  PROVE  SoleAccessorWrites'
<1>1. \A i \in Words : Accessors(i)' = Accessors(i)
  BY DEF Accessors
<1>2. ASSUME NEW i \in Words, NEW u \in Accessors(i)
      PROVE  trNum'[u] = trNum[u]
  BY <1>2 DEF StmInv, AccessDiscipline, Accessors
<1> QED
  BY <1>1, <1>2 DEF SoleAccessorWrites

\* What is left of a call is part of it.
LEMMA AdvanceRest ==
  ASSUME TypeOK, NEW t \in Tx, Advance(t), call'[t].op = "write"
  PROVE  /\ call[t].op = "write"
         /\ call'[t].next..call'[t].last \subseteq call[t].next..call[t].last
         /\ \A u \in Tx : u # t => call'[u] = call[u]
<1> DEFINE c == call[t]
           d == [c EXCEPT !.next = c.next + 1]
<1>1. c \in Calls /\ call \in [Tx -> Calls]
  BY DEF TypeOK
<1>2. d.op = c.op /\ d.last = c.last /\ d.next = c.next + 1
      /\ c.next \in Nat /\ c.last \in Nat
  BY <1>1 DEF Calls
<1>3. call' = [call EXCEPT ![t] = IF c.next < c.last THEN d ELSE NoCall]
  BY DEF Advance
<1> HIDE DEF d
<1>4. call'[t] = IF c.next < c.last THEN d ELSE NoCall
  BY <1>1, <1>3
<1>5. NoCall.op = "none"
  BY DEF NoCall
<1> QED
  BY <1>1, <1>2, <1>3, <1>4, <1>5

LEMMA SoleReadWord ==
  ASSUME StmInv, SoleAccessorWrites, NEW t \in Tx, NEW i \in Words, ReadWord(t, i)
  PROVE  SoleAccessorWrites'
<1> USE DEF ReadWord
<1>1. /\ word[i] \in WordRecord /\ trNum[t] \in Nat /\ trNum' = trNum
      /\ word \in [Words -> WordRecord]
      /\ readSet \in [Tx -> SUBSET Words] /\ writtenSet' = writtenSet
      /\ call[t].op = "read"
  BY DEF StmInv, TypeOK, BatcherTypeOK, batcherVars, At
<1>2. ASSUME NEW u \in Tx, call'[u].op = "write"
      PROVE  call'[u].next..call'[u].last \subseteq readSet'[u] \cup writtenSet'[u]
  <2>1. u # t
    BY <1>1, <1>2, AdvanceRest DEF StmInv
  <2>2. call'[u] = call[u] /\ readSet'[u] = readSet[u]
    BY <1>1, <2>1, AdvanceCalls DEF StmInv, AccessDiscipline
  <2> QED
    BY <1>1, <1>2, <2>2 DEF SoleAccessorWrites
<1>3. ASSUME NEW j \in Words, word'[j].written, NEW u \in Accessors(j)'
      PROVE  trNum'[u] = word'[j].last_tx_accessed
  <2>1. word'[j] = word[j] /\ word[j].written
    BY <1>1, <1>3, ReadFields
  <2>2. u \in Accessors(j)
    BY <1>1, <1>3, <2>1 DEF Accessors
  <2> QED
    BY <1>1, <2>1, <2>2 DEF SoleAccessorWrites
<1> QED
  BY <1>2, <1>3 DEF SoleAccessorWrites

LEMMA SoleWriteWord ==
  ASSUME StmInv, SoleAccessorWrites, NEW t \in Tx, NEW i \in Words, NEW v \in Value,
         WriteWord(t, i, v)
  PROVE  SoleAccessorWrites'
<1> USE DEF WriteWord
<1>1. /\ word[i] \in WordRecord /\ trNum[t] \in Nat /\ trNum' = trNum
      /\ word \in [Words -> WordRecord]
      /\ writtenSet \in [Tx -> SUBSET Words] /\ readSet' = readSet
      /\ call[t].op = "write" /\ call[t].next = i /\ call[t] \in Calls
      /\ call[t].last \in Nat
  BY DEF StmInv, TypeOK, BatcherTypeOK, batcherVars, At, Calls
<1>2. ASSUME NEW u \in Tx, call'[u].op = "write"
      PROVE  call'[u].next..call'[u].last \subseteq readSet'[u] \cup writtenSet'[u]
  <2>1. writtenSet[u] \subseteq writtenSet'[u]
    BY <1>1
  <2>2. call[u].op = "write" /\ call'[u].next..call'[u].last \subseteq call[u].next..call[u].last
    <3>1. CASE u = t
      BY <1>2, <3>1, AdvanceRest DEF StmInv
    <3>2. CASE u # t
      <4>1. call'[u] = call[u]
        BY <3>2, AdvanceCalls DEF StmInv, AccessDiscipline
      <4> QED
        BY <1>2, <4>1
    <3> QED
      BY <3>1, <3>2
  <2>3. call[u].next..call[u].last \subseteq readSet[u] \cup writtenSet[u]
    BY <2>2 DEF SoleAccessorWrites
  <2> QED
    BY <1>1, <2>1, <2>2, <2>3
<1>3. call[t].next <= call[t].last
  BY <1>1 DEF StmInv, AccessDiscipline, NoCall
<1>4. i \in readSet[t] \cup writtenSet[t]
  BY <1>1, <1>3 DEF SoleAccessorWrites, Words
<1>5. ASSUME NEW j \in Words, word'[j].written, NEW u \in Accessors(j)'
      PROVE  trNum'[u] = word'[j].last_tx_accessed
  <2>1. Accessors(j)' = Accessors(j)
    BY <1>1, <1>4 DEF Accessors
  <2>2. CASE j # i
    BY <1>1, <1>5, <2>1, <2>2 DEF SoleAccessorWrites
  <2>3. CASE j = i /\ word[i].written
    BY <1>1, <1>5, <2>1, <2>3, WriteFields DEF SoleAccessorWrites
  <2>4. CASE j = i /\ ~word[i].written
    <3>1. word'[i].last_tx_accessed = trNum[t]
      BY <1>1, <2>4, WriteFields
    <3>2. \A x \in Accessors(i) : trNum[x] = word[i].last_tx_accessed
      BY <2>4 DEF WriteAccepted, StmInv, WordControl, WordControlOf
    <3>3. t \in Accessors(i)
      BY <1>4 DEF Accessors
    <3> QED
      BY <1>1, <1>5, <2>1, <2>4, <3>1, <3>2, <3>3
  <2> QED
    BY <2>2, <2>3, <2>4
<1> QED
  BY <1>2, <1>5 DEF SoleAccessorWrites

LEMMA SoleLeave ==
  ASSUME StmInv, BatcherInv, SoleAccessorWrites, NEW t \in Tx,
         pc[t] = "running", call[t] = NoCall, LeaveStm(t)
  PROVE  SoleAccessorWrites'
<1> USE DEF LeaveStm
<1>1. (~doomed[t]) \in BOOLEAN /\ trNum' = trNum /\ call' = call
  BY DEF LeaveEarly, LeaveLast
<1>2. CASE LeaveEarly(t, ~doomed[t]) /\ UNCHANGED <<word, readSet, writtenSet>>
  <2>1. \A u \in Tx : call'[u].op = "write" =>
          call'[u].next..call'[u].last \subseteq readSet[u] \cup writtenSet[u]
    BY <1>1 DEF SoleAccessorWrites
  <2> QED
    BY <1>1, <1>2, <2>1, SoleFrame
<1>3. CASE /\ LeaveLast(t, ~doomed[t])
           /\ OnEpochEnd(Finished(t, ~doomed[t]).committed, Finished(t, ~doomed[t]).aborted)
  <2>1. \A i \in Words : ~word'[i].written
    BY <1>1, <1>3, OnEpochEndCleans DEF LeaveLast
  <2>2. Present = {t}
    BY <1>3, LastIsAlone DEF LeaveLast
  <2>3. ASSUME NEW u \in Tx, call[u].op = "write"
        PROVE  FALSE
    <3>1. call[u] # NoCall /\ u # t
      BY <2>3 DEF NoCall
    <3>2. pc[u] = "running"
      BY <3>1 DEF StmInv, AccessDiscipline
    <3>3. u \in Present
      BY <3>2 DEF Present, BatcherInv, EpochsAndNumbers, RunningInCurrentEpoch
    <3> QED
      BY <2>2, <3>1, <3>3
  <2> QED
    BY <1>1, <2>1, <2>3 DEF SoleAccessorWrites
<1> QED
  BY <1>2, <1>3

LEMMA SoleStep ==
  ASSUME ReadFirst, SoleAccessorWrites, StmInv, BatcherInv, BatcherInv', [Next]_vars
  PROVE  SoleAccessorWrites'
<1>0. \A u \in Tx : call[u].op = "write" =>
        call[u].next..call[u].last \subseteq readSet[u] \cup writtenSet[u]
  BY DEF SoleAccessorWrites
<1>a. /\ [BatcherNext]_batcherVars
      /\ \A u \in Tx : pc[u] # "idle" => trNum'[u] = trNum[u]
  BY StmBatcherStep, BegunKeeps
<1>1. CASE UNCHANGED vars
  BY <1>0, <1>1, SoleFrame DEF vars, stmVars, batcherVars
<1>2. ASSUME NEW t \in Tx, NEW ro \in BOOLEAN, Begin(t, ro)
      PROVE  SoleAccessorWrites'
  BY <1>0, <1>a, <1>2, SoleFrame DEF Begin
<1>3. ASSUME NEW t \in Tx, Wait(t)
      PROVE  SoleAccessorWrites'
  BY <1>0, <1>a, <1>3, SoleFrame DEF Wait, stmVars
<1>4. ASSUME NEW t \in Tx, NEW op \in {"read", "write"}, NEW i \in Words, NEW j \in Words,
             StartCall(t, op, i, j)
      PROVE  SoleAccessorWrites'
  <2>1. call'[t] = [op |-> op, next |-> i, last |-> j] /\ \A u \in Tx : u # t => call'[u] = call[u]
    BY <1>4 DEF StartCall, StmInv, TypeOK
  <2>2. op = "write" => i..j \subseteq readSet[t] \cup writtenSet[t]
    BY <1>4 DEF StartCall
  <2>3. \A u \in Tx : call'[u].op = "write" =>
          call'[u].next..call'[u].last \subseteq readSet[u] \cup writtenSet[u]
    BY <1>0, <2>1, <2>2
  <2> QED
    BY <1>a, <1>4, <2>3, SoleFrame DEF StartCall
<1>5. ASSUME NEW t \in Tx, NEW i \in Words, ReadOnlyWord(t, i)
      PROVE  SoleAccessorWrites'
  <2>1. \A u \in Tx : call'[u].op = "write" => call'[u] = call[u]
    <3>1. call[t].op = "read" /\ Advance(t)
      BY <1>5 DEF ReadOnlyWord, At
    <3>2. call'[t].op # "write"
      BY <3>1, AdvanceRest DEF StmInv
    <3> QED
      BY <3>1, <3>2, AdvanceCalls DEF StmInv, AccessDiscipline
  <2> QED
    BY <1>0, <1>a, <1>5, <2>1, SoleFrame DEF ReadOnlyWord
<1>6. ASSUME NEW t \in Tx, NEW i \in Words, RefuseWord(t, i)
      PROVE  SoleAccessorWrites'
  <2>1. \A u \in Tx : call'[u].op = "write" => call'[u] = call[u]
    BY <1>6 DEF RefuseWord, NoCall, StmInv, TypeOK
  <2> QED
    BY <1>0, <1>a, <1>6, <2>1, SoleFrame DEF RefuseWord
<1>7. ASSUME NEW t \in Tx, Step(t)
      PROVE  SoleAccessorWrites'
  BY <1>5, <1>6, <1>7, SoleReadWord, SoleWriteWord DEF Step
<1>8. ASSUME NEW t \in Tx, End(t)
      PROVE  SoleAccessorWrites'
  BY <1>8, SoleLeave DEF End, Ready
<1>9. ASSUME NEW t \in Tx, GiveUp(t)
      PROVE  SoleAccessorWrites'
  <2>1. pc[t] = "running" /\ call[t] = NoCall
    BY <1>9 DEF GiveUp, LeaveStm, LeaveEarly, LeaveLast, StmInv, AccessDiscipline
  <2> QED
    BY <1>9, <2>1, SoleLeave DEF GiveUp
<1> QED
  BY <1>1, <1>2, <1>3, <1>4, <1>7, <1>8, <1>9 DEF Next

\* If clients read each word before they write it, a written word has no
\* accessor but its writer.
THEOREM SoleAccessor ==
  ASSUME ReadFirst
  PROVE  Spec => []SoleAccessorWrites
<1>1. Init => SoleAccessorWrites
  BY NewWordFields DEF Init, SoleAccessorWrites, NoCall
<1>2. SoleAccessorWrites /\ StmInv /\ BatcherInv /\ BatcherInv' /\ [Next]_vars
        => SoleAccessorWrites'
  BY SoleStep
<1> QED
  BY <1>1, <1>2, StmInvariant, StmBatcherInv, PTL DEF Spec

LEMMA SoleImpliesConflictFree ==
  SoleAccessorWrites /\ StmInv /\ BatcherInv => ConflictFree
<1> SUFFICES ASSUME SoleAccessorWrites, StmInv, BatcherInv,
                    NEW t \in Tx, NEW u \in Tx, t # u,
                    NEW i \in readSet[t] \cap writtenSet[u]
             PROVE  FALSE
  BY DEF ConflictFree, MustPrecede
<1>1. i \in Words
  BY DEF StmInv, TypeOK
<1>2. word[i].written
  BY <1>1 DEF StmInv, WordControl, WordControlOf
<1>3. trNum[t] = word[i].last_tx_accessed /\ trNum[u] = word[i].last_tx_accessed
  BY <1>1, <1>2 DEF SoleAccessorWrites, Accessors
<1>4. epoch[t] = epoch[u] /\ pc[t] # "idle" /\ pc[u] # "idle"
  BY DEF StmInv, AccessDiscipline
<1> QED
  BY <1>3, <1>4 DEF BatcherInv, TrNumIdentifies

\* Then the transactions of an epoch do not conflict at all ...
THEOREM ReadFirstConflictFree ==
  ASSUME ReadFirst
  PROVE  Spec => []ConflictFree
BY SoleAccessor, SoleImpliesConflictFree, StmInvariant, StmBatcherInv, PTL

\* ... and whatever commits in an epoch has a serial order.
THEOREM ReadFirstSerializable ==
  ASSUME ReadFirst
  PROVE  Spec => []Serializable
<1>1. ConflictFree => Serializable
  <2> SUFFICES ASSUME ConflictFree, NEW S \in (SUBSET Candidates) \ {{}}
               PROVE  \E t \in S : \A u \in S : ~MustPrecede(u, t)
    BY DEF Serializable
  <2>1. S # {} /\ S \subseteq Tx
    BY DEF Candidates
  <2> QED
    BY <2>1 DEF ConflictFree
<1> QED
  BY <1>1, ReadFirstConflictFree, PTL

-----------------------------------------------------------------------------
(***************************************************************************)
(* The STM implements EpochMemory.  The readable copies are the memory of  *)
(* the batch, and the writable copy of a word is the log entry of its one  *)
(* writer.  WordControl and TrNumIdentifies tell who that is, so a read of *)
(* the writable copy is a read of the reader's own log, and the swap at    *)
(* the end of an epoch carries out exactly the logs of those that          *)
(* committed.                                                              *)
(***************************************************************************)

MemoryOf == [i \in Words |-> Readable(word[i])]

LogOf == [t \in Tx |-> [i \in writtenSet[t] |-> Writable(word[i])]]

\* Between transactions that run in the current epoch, writtenSet says whose
\* the writable copy of a word is.
LEMMA WriterKnown ==
  ASSUME StmInv, BatcherInv, NEW t \in Tx, pc[t] = "running",
         NEW i \in Words, word[i].written
  PROVE  word[i].last_tx_accessed = trNum[t] <=> i \in writtenSet[t]
<1>1. PICK u \in Tx : i \in writtenSet[u]
  BY DEF StmInv, WordControl, WordControlOf
<1>2. trNum[u] = word[i].last_tx_accessed /\ (i \in writtenSet[t] => trNum[t] = word[i].last_tx_accessed)
  BY <1>1 DEF StmInv, WordControl, WordControlOf
<1>3. epoch[u] = epoch[t] /\ pc[u] # "idle"
  BY <1>1 DEF StmInv, AccessDiscipline, BatcherInv, EpochsAndNumbers, RunningInCurrentEpoch
<1>4. trNum[u] = trNum[t] => u = t
  BY <1>3 DEF BatcherInv, TrNumIdentifies
<1> QED
  BY <1>1, <1>2, <1>4

LEMMA UnwrittenHasNoLog ==
  ASSUME StmInv, NEW i \in Words, ~word[i].written, NEW u \in Tx
  PROVE  i \notin writtenSet[u]
BY DEF StmInv, WordControl, WordControlOf

\* Steps that change neither words nor written sets change neither memory nor logs.
LEMMA MemoryFrame ==
  ASSUME UNCHANGED <<word, writtenSet>>
  PROVE  MemoryOf' = MemoryOf /\ LogOf' = LogOf
BY DEF MemoryOf, LogOf

LEMMA MemoryInit == Init => Memory!Init
<1> SUFFICES ASSUME Init PROVE Memory!Init
  OBVIOUS
<1>1. Memory!Batches!Init
  <2>1. Present = {} /\ Parked = {} /\ {t \in Tx : pc[t] = "left"} = {}
    BY DEF Init, BatcherInit, Present, Parked
  <2> QED
    BY <2>1 DEF Memory!Batches!Init
<1>2. MemoryOf = [i \in Words |-> InitVal]
  BY NewWordFields DEF Init, MemoryOf
<1>3. LogOf = [t \in Tx |-> Memory!NoLog]
  BY DEF Init, LogOf, Memory!NoLog
<1> QED
  BY <1>1, <1>2, <1>3 DEF Memory!Init, Init, BatcherInit, MemoryOf, LogOf

LEMMA ReadOnlyIsRead ==
  ASSUME StmInv, BatcherInv, NEW t \in Tx, NEW i \in Words, ReadOnlyWord(t, i)
  PROVE  Memory!Read(t, i)
<1> USE DEF ReadOnlyWord
<1>1. pc[t] = "running"
  BY DEF At, StmInv, AccessDiscipline, NoCall
<1>2. t \in Present
  BY <1>1 DEF Present, BatcherInv, EpochsAndNumbers, RunningInCurrentEpoch
<1>3. writtenSet[t] = {}
  BY DEF StmInv, AccessDiscipline
<1>4. target' = [target EXCEPT ![t] = MemoryOf[i]]
  BY DEF MemoryOf
<1>5. DOMAIN LogOf[t] = {}
  BY <1>3 DEF LogOf
<1>6. UNCHANGED <<Present, Parked, {u \in Tx : pc[u] = "left"}, committed, MemoryOf, LogOf>>
  BY MemoryFrame DEF batcherVars, Present, Parked
<1> QED
  BY <1>2, <1>4, <1>5, <1>6 DEF Memory!Read, Memory!batchVars, MemoryOf, LogOf

LEMMA ReadIsRead ==
  ASSUME StmInv, BatcherInv, NEW t \in Tx, NEW i \in Words, ReadWord(t, i)
  PROVE  Memory!Read(t, i)
<1> USE DEF ReadWord
<1>1. /\ pc[t] = "running" /\ trNum[t] \in Nat
      /\ word \in [Words -> WordRecord] /\ word[i] \in WordRecord
      /\ writtenSet \in [Tx -> SUBSET Words]
  BY DEF At, StmInv, AccessDiscipline, NoCall, TypeOK, BatcherTypeOK
<1>2. t \in Present
  BY <1>1 DEF Present, BatcherInv, EpochsAndNumbers, RunningInCurrentEpoch
<1>3. \A j \in Words : Readable(word'[j]) = Readable(word[j]) /\ Writable(word'[j]) = Writable(word[j])
  BY <1>1, ReadFields
<1>4. MemoryOf' = MemoryOf /\ LogOf' = LogOf
  <2>1. writtenSet' = writtenSet
    OBVIOUS
  <2> QED
    BY <1>1, <1>3, <2>1 DEF MemoryOf, LogOf
<1>5. word[i].written <=> i \in DOMAIN LogOf[t]
  <2>1. DOMAIN LogOf[t] = writtenSet[t]
    BY DEF LogOf
  <2>2. CASE word[i].written
    BY <1>1, <2>1, <2>2, WriterKnown DEF ReadAccepted
  <2>3. CASE ~word[i].written
    BY <2>1, <2>3, UnwrittenHasNoLog
  <2> QED
    BY <2>2, <2>3
<1>6. ReadValue(word[i]) = IF i \in DOMAIN LogOf[t] THEN LogOf[t][i] ELSE MemoryOf[i]
  BY <1>5 DEF ReadValue, LogOf, MemoryOf
<1>7. UNCHANGED <<Present, Parked, {u \in Tx : pc[u] = "left"}, committed>>
  BY DEF batcherVars, Present, Parked
<1> QED
  BY <1>2, <1>4, <1>6, <1>7 DEF Memory!Read, Memory!batchVars, MemoryOf, LogOf

LEMMA WriteIsWrite ==
  ASSUME StmInv, BatcherInv, NEW t \in Tx, NEW i \in Words, NEW v \in Value,
         WriteWord(t, i, v)
  PROVE  Memory!Write(t, i, v)
<1> USE DEF WriteWord
<1>1. /\ pc[t] = "running" /\ trNum[t] \in Nat
      /\ word \in [Words -> WordRecord] /\ word[i] \in WordRecord
      /\ writtenSet \in [Tx -> SUBSET Words]
  BY DEF At, StmInv, AccessDiscipline, NoCall, TypeOK, BatcherTypeOK
<1>2. t \in Present
  BY <1>1 DEF Present, BatcherInv, EpochsAndNumbers, RunningInCurrentEpoch
<1>3. word[i].written => i \in writtenSet[t]
  BY <1>1, WriterKnown DEF WriteAccepted
<1>4. \A u \in Tx \ {t} : i \notin writtenSet[u]
  <2>1. CASE word[i].written
    BY <1>3, <2>1, InvOneWriter DEF OneWriter
  <2>2. CASE ~word[i].written
    BY <2>2, UnwrittenHasNoLog
  <2> QED
    BY <2>1, <2>2
<1>5. writtenSet' = [writtenSet EXCEPT ![t] = @ \cup {i}]
  BY <1>1, <1>3
<1>6. /\ Readable(word'[i]) = Readable(word[i])
      /\ Writable(word'[i]) = v
      /\ \A j \in Words : j # i => word'[j] = word[j]
  BY <1>1, WriteFields
<1>7. MemoryOf' = MemoryOf
  BY <1>6 DEF MemoryOf
<1>8. LogOf' = [LogOf EXCEPT ![t] =
                  [x \in writtenSet[t] \cup {i} |-> IF x = i THEN v ELSE LogOf[t][x]]]
  <2> DEFINE new == [x \in writtenSet[t] \cup {i} |-> IF x = i THEN v ELSE LogOf[t][x]]
  <2>1. [x \in writtenSet'[t] |-> Writable(word'[x])] = new
    <3>1. writtenSet'[t] = writtenSet[t] \cup {i}
      BY <1>1, <1>5
    <3>2. \A x \in writtenSet[t] : LogOf[t][x] = Writable(word[x])
      BY DEF LogOf
    <3> QED
      BY <1>1, <1>6, <3>1, <3>2
  <2>2. ASSUME NEW u \in Tx, u # t
        PROVE  [x \in writtenSet'[u] |-> Writable(word'[x])] = LogOf[u]
    <3>1. writtenSet'[u] = writtenSet[u] /\ i \notin writtenSet[u]
      BY <1>1, <1>4, <1>5, <2>2
    <3> QED
      BY <1>1, <1>6, <3>1 DEF LogOf
  <2> HIDE DEF new
  <2>3. LogOf' = [u \in Tx |-> [x \in writtenSet'[u] |-> Writable(word'[x])]]
    BY DEF LogOf
  <2>4. LogOf = [u \in Tx |-> LogOf[u]]
    BY DEF LogOf
  <2>5. ASSUME NEW u \in Tx
        PROVE  LogOf'[u] = IF u = t THEN new ELSE LogOf[u]
    <3>1. LogOf'[u] = [x \in writtenSet'[u] |-> Writable(word'[x])]
      BY <2>3
    <3> QED
      BY <2>1, <2>2, <3>1
  <2>6. LogOf' = [LogOf EXCEPT ![t] = new]
    BY <2>3, <2>4, <2>5
  <2> QED
    BY <2>6 DEF new
<1>9. /\ \A u \in Tx : DOMAIN LogOf[u] = writtenSet[u]
      /\ UNCHANGED <<Present, Parked, {u \in Tx : pc[u] = "left"}, committed, target>>
  BY DEF LogOf, batcherVars, Present, Parked
<1> QED
  BY <1>2, <1>4, <1>7, <1>8, <1>9 DEF Memory!Write, Memory!batchVars, MemoryOf, LogOf

LEMMA BeginIsArrive ==
  ASSUME BatcherInv, NEW t \in Tx, NEW ro \in BOOLEAN, Begin(t, ro)
  PROVE  Memory!Arrive(t)
<1>1. Batches!Arrive(t)
  BY EnterArrives DEF Begin
<1>2. Memory!Batches!Arrive(t)
  BY <1>1 DEF Batches!Arrive, Memory!Batches!Arrive
<1>3. UNCHANGED <<MemoryOf, LogOf, committed, target>>
  BY MemoryFrame DEF Begin, Enter, EnterFirst, EnterBlocked
<1> QED
  BY <1>2, <1>3 DEF Memory!Arrive, Memory!memoryVars, MemoryOf, LogOf

LEMMA OtherStepsStutter ==
  ASSUME BatcherInv, StmInv, NEW t \in Tx,
         \/ Wait(t)
         \/ \E op \in {"read", "write"}, i, j \in Words : StartCall(t, op, i, j)
         \/ \E i \in Words : RefuseWord(t, i)
  PROVE  UNCHANGED <<Memory!batchVars, Memory!memoryVars>>
<1>1. UNCHANGED <<MemoryOf, LogOf, target, committed>>
  BY MemoryFrame
  DEF Wait, StartCall, RefuseWord, SpuriousWake, TestAwake, stmVars, batcherVars
<1>2. UNCHANGED <<Present, Parked, {u \in Tx : pc[u] = "left"}>>
  <2>1. CASE Wait(t)
    BY <2>1, WakingStutters DEF Wait, Batches!vars
  <2>2. CASE UNCHANGED batcherVars
    BY <2>2 DEF batcherVars, Present, Parked
  <2> QED
    BY <2>1, <2>2 DEF StartCall, RefuseWord
<1> QED
  BY <1>1, <1>2 DEF Memory!batchVars, Memory!memoryVars, MemoryOf, LogOf

\* The swap at the end of an epoch carries out the logs of the committed.
LEMMA SwapsAreLogs ==
  ASSUME StmInv, BatcherInv, NEW C, NEW A, C \subseteq Tx,
         OnEpochEnd(C, A), NEW i \in Words
  PROVE  Readable(word'[i]) = Memory!WithLogs(C)[i]
<1> DEFINE W == {u \in C : i \in writtenSet[u]}
<1>1. word'[i] = EndOfEpoch(i, C, A) /\ word[i] \in WordRecord
  BY DEF OnEpochEnd, StmInv, TypeOK
<1>2. \A u \in Tx : DOMAIN LogOf[u] = writtenSet[u]
  BY DEF LogOf
<1>3. CASE W = {}
  <2>1. Cardinality(W) = 0
    BY <1>3, FS_EmptySet
  <2>2. EndOfEpoch(i, C, A) \in {ResetState(word[i]), word[i]}
    BY <2>1 DEF EndOfEpoch
  <2>3. Readable(word'[i]) = Readable(word[i])
    BY <1>1, <2>2, ResetCopies
  <2>4. Memory!WithLogs(C)[i] = MemoryOf[i]
    BY <1>2, <1>3 DEF Memory!WithLogs, MemoryOf, LogOf
  <2> QED
    BY <2>3, <2>4 DEF MemoryOf
<1>4. CASE W # {}
  <2>1. PICK u \in Tx : u \in C /\ i \in writtenSet[u]
    BY <1>4
  <2>2. W = {u}
    BY <2>1, InvOneWriter DEF OneWriter
  <2>3. Cardinality(W) = 1
    BY <2>2, FS_Singleton
  <2>4. EndOfEpoch(i, C, A) = UpdateWritten(word[i])
    BY <2>3 DEF EndOfEpoch
  <2>5. Readable(word'[i]) = Writable(word[i])
    BY <1>1, <2>4, ResetCopies
  <2> DEFINE c == CHOOSE x \in C : i \in DOMAIN LogOf[x]
  <2>6. c = u
    <3>1. \E x \in C : i \in DOMAIN LogOf[x]
      BY <1>2, <2>1
    <3>2. c \in C /\ i \in DOMAIN LogOf[c]
      BY <3>1
    <3> HIDE DEF c
    <3>3. c \in W
      BY <1>2, <3>2
    <3> QED
      BY <2>2, <3>3
  <2>7. Memory!WithLogs(C)[i] = LogOf[c][i]
    BY <1>2, <2>1 DEF Memory!WithLogs, MemoryOf, LogOf
  <2>8. LogOf[u][i] = Writable(word[i])
    BY <2>1 DEF LogOf
  <2> QED
    BY <2>5, <2>6, <2>7, <2>8
<1> QED
  BY <1>3, <1>4

LEMMA LeaveIsDepart ==
  ASSUME StmInv, BatcherInv, NEW t \in Tx, NEW ok \in BOOLEAN, NEW C, NEW A,
         C \subseteq Tx, UNCHANGED target,
         C = Finished(t, ok).committed, A = Finished(t, ok).aborted,
         \/ LeaveEarly(t, ok) /\ UNCHANGED <<word, readSet, writtenSet>>
         \/ LeaveLast(t, ok) /\ OnEpochEnd(C, A)
  PROVE  Memory!Depart(t, C)
<1>1. CASE LeaveEarly(t, ok) /\ UNCHANGED <<word, readSet, writtenSet>>
  <2>1. Batches!Depart(t) /\ Present # {t}
    BY <1>1, LeaveDeparts DEF Leave
  <2>2. Memory!Batches!Depart(t)
    BY <2>1 DEF Batches!Depart, Memory!Batches!Depart
  <2>3. committed' = C /\ UNCHANGED <<MemoryOf, LogOf>>
    BY <1>1, MemoryFrame DEF LeaveEarly
  <2> QED
    BY <2>1, <2>2, <2>3 DEF Memory!Depart, MemoryOf, LogOf
<1>2. CASE LeaveLast(t, ok) /\ OnEpochEnd(C, A)
  <2>1. Batches!Depart(t) /\ Present = {t}
    BY <1>2, LeaveDeparts DEF Leave
  <2>2. Memory!Batches!Depart(t)
    BY <2>1 DEF Batches!Depart, Memory!Batches!Depart
  <2>3. committed' = {} /\ remaining = 1 /\ pc[t] = "running"
    BY <1>2 DEF LeaveLast
  <2>4. writtenSet' = [u \in Tx |-> {}]
    BY <1>2, <2>3, OnEpochEndCleans
  <2>5. LogOf' = [u \in Tx |-> Memory!NoLog]
    BY <2>4 DEF LogOf, Memory!NoLog
  <2>6. MemoryOf' = Memory!WithLogs(C)
    <3>1. \A i \in Words : Readable(word'[i]) = Memory!WithLogs(C)[i]
      BY <1>2, SwapsAreLogs
    <3>2. Memory!WithLogs(C) = [i \in Words |-> Memory!WithLogs(C)[i]]
      BY DEF Memory!WithLogs
    <3> QED
      BY <3>1, <3>2 DEF MemoryOf
  <2> QED
    BY <2>1, <2>2, <2>3, <2>5, <2>6 DEF Memory!Depart, MemoryOf, LogOf
<1> QED
  BY <1>1, <1>2

LEMMA StmStepRefines ==
  StmInv /\ BatcherInv /\ [Next]_vars
    => [Memory!Next]_<<Memory!batchVars, Memory!memoryVars>>
<1> SUFFICES ASSUME StmInv, BatcherInv, [Next]_vars
             PROVE  [Memory!Next]_<<Memory!batchVars, Memory!memoryVars>>
  OBVIOUS
<1>1. CASE UNCHANGED vars
  <2>1. UNCHANGED <<MemoryOf, LogOf, target, committed>>
    BY <1>1, MemoryFrame DEF vars, stmVars, batcherVars
  <2>2. UNCHANGED <<Present, Parked, {u \in Tx : pc[u] = "left"}>>
    BY <1>1 DEF vars, batcherVars, Present, Parked
  <2> QED
    BY <2>1, <2>2 DEF Memory!batchVars, Memory!memoryVars, MemoryOf, LogOf
<1>2. ASSUME NEW t \in Tx, NEW ro \in BOOLEAN, Begin(t, ro)
      PROVE  Memory!Next
  BY <1>2, BeginIsArrive DEF Memory!Next
<1>3. ASSUME NEW t \in Tx, Step(t)
      PROVE  Memory!Next \/ UNCHANGED <<Memory!batchVars, Memory!memoryVars>>
  BY <1>3, ReadOnlyIsRead, ReadIsRead, WriteIsWrite, OtherStepsStutter
  DEF Step, Memory!Next
<1>4. ASSUME NEW t \in Tx,
             \/ Wait(t)
             \/ \E op \in {"read", "write"}, i, j \in Words : StartCall(t, op, i, j)
      PROVE  UNCHANGED <<Memory!batchVars, Memory!memoryVars>>
  BY <1>4, OtherStepsStutter
<1>5. ASSUME NEW t \in Tx, End(t) \/ GiveUp(t)
      PROVE  Memory!Next
  <2>1. pc[t] = "running" /\ LeaveStm(t)
    BY <1>5 DEF End, GiveUp, LeaveStm, LeaveEarly, LeaveLast
  <2>a. (~doomed[t]) \in BOOLEAN
    OBVIOUS
  <2>b. PICK ok \in BOOLEAN :
          /\ UNCHANGED target
          /\ \/ LeaveEarly(t, ok) /\ UNCHANGED <<word, readSet, writtenSet>>
             \/ LeaveLast(t, ok) /\ OnEpochEnd(Finished(t, ok).committed, Finished(t, ok).aborted)
    BY <2>1, <2>a DEF LeaveStm
  <2>2. PICK C, A :
          /\ C = Finished(t, ok).committed /\ A = Finished(t, ok).aborted
          /\ \/ LeaveEarly(t, ok) /\ UNCHANGED <<word, readSet, writtenSet>>
             \/ LeaveLast(t, ok) /\ OnEpochEnd(C, A)
    BY <2>b
  <2>3. C \in {committed, committed \cup {t}} /\ C \subseteq Tx
    BY <2>2 DEF Finished, BatcherInv, BatcherTypeOK
  <2>4. Memory!Depart(t, C)
    BY <2>b, <2>2, <2>3, LeaveIsDepart
  <2> QED
    BY <2>3, <2>4 DEF Memory!Next
<1> QED
  BY <1>1, <1>2, <1>3, <1>4, <1>5 DEF Next

\* The STM gives every transaction of an epoch the memory as it was when the
\* epoch began with its own writes on top, and makes the writes of those that
\* committed, and of no others, visible when the epoch ends.
THEOREM StmImplementsEpochMemory == Spec => ImplementsEpochMemory
BY MemoryInit, StmStepRefines, StmInvariant, StmBatcherInv, PTL
DEF Spec, ImplementsEpochMemory, Memory!Spec

=============================================================================
