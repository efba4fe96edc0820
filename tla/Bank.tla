-------------------------------- MODULE Bank --------------------------------
(***************************************************************************)
(* The bank of grading/workload.hpp on top of the STM: accounts in a list  *)
(* of segments that its transactions read, change, extend and shorten.     *)
(*                                                                         *)
(* Three parts are composed: the words of all segments are those of module *)
(* DualStm, the segments themselves are a SegmentStore, and each           *)
(* transaction runs long_tx, alloc_tx or short_tx.  What a closure does    *)
(* next depends on what it has read: each of its calls is a step that      *)
(* takes the result of the call before (target), and the pointers that it  *)
(* follows are those it has found in memory.                               *)
(*                                                                         *)
(* When a transaction aborts, transactional() begins another one; this is  *)
(* another member of Tx, which may run any closure.  assert_mode is off,   *)
(* so the reads that only its tests make do not occur.                     *)
(*                                                                         *)
(* Segments are numbered in the order of their addresses, and a number is  *)
(* used once.                                                              *)
(***************************************************************************)
EXTENDS DualStm, Functions

CONSTANTS nbaccounts,     \* accounts per segment, and at the beginning
          init_balance,   \* what an account starts with
          MaxSegments,    \* bound: the segments that are ever allocated
          AccountIds      \* bound: what short_tx draws its two accounts from

Segment == 1..MaxSegments

nullptr == 0

\* A segment is made of count, next and parity, and nbaccounts accounts.
SegmentWords == 3 + nbaccounts

ASSUME BankAssumption ==
  /\ nbaccounts \in Nat /\ nbaccounts >= 2
  /\ init_balance \in Nat
  /\ MaxSegments \in Nat /\ MaxSegments >= 2
  /\ AccountIds \subseteq Nat
  /\ NumWords = MaxSegments * SegmentWords
  /\ Value = Int
  /\ InitVal = 0

CountOf(s) == (s - 1) * SegmentWords + 1

NextOf(s) == CountOf(s) + 1

ParityOf(s) == CountOf(s) + 2

Account(s, i) == CountOf(s) + 3 + i

VARIABLES
  store,      \* the segments of the shared memory
  mine,       \* Transaction::allocated
  wishes,     \* Transaction::freed
  top,        \* the last segment allocated, as end_address
  frame       \* the local variables of the closure

bankVars == <<vars, store, mine, wishes, top, frame>>

Store == INSTANCE SegmentStore WITH Start <- Segment, First <- 1

(***************************************************************************)
(* at          what the last call was made for                             *)
(* seg, prev   the segment the closure is at, and the one before it        *)
(* n, count    segment_count, and the number of accounts seen              *)
(* sum         sum of long_tx, new_parity of alloc_tx                      *)
(* i           the account of the segment that is read                     *)
(* id          send_id and recv_id of short_tx                             *)
(* ptr         send_ptr and recv_ptr, as words                             *)
(* arg         what the call in progress writes                            *)
(***************************************************************************)
Party == {"send", "recv"}

NewFrame ==
  [at |-> "begin", seg |-> 1, prev |-> nullptr, n |-> 0, count |-> 0, sum |-> 0, i |-> 0,
   id |-> [p \in Party |-> 0], ptr |-> [p \in Party |-> nullptr], arg |-> 0]

\* A word after a commit that has written v.
Holding(v) == UpdateWritten(WriteCopy(NewWord, v))

\* The memory of one segment that init() leaves, or with a second segment that
\* a transaction has allocated since.
InitialMemory(segs) ==
  [w \in Words |->
     CASE w = CountOf(1) -> Holding(nbaccounts)
       [] w \in {Account(1, i) : i \in 0..(nbaccounts - 1)} -> Holding(init_balance)
       [] segs = 2 /\ w = NextOf(1) -> Holding(2)
       [] segs = 2 /\ w = CountOf(2) -> Holding(1)
       [] segs = 2 /\ w = Account(2, 0) -> Holding(init_balance)
       [] OTHER -> NewWord]

BankInit ==
  /\ BatcherInit
  /\ top \in {1, 2}
  /\ word = InitialMemory(top)
  /\ is_read_only = [t \in Tx |-> FALSE]
  /\ readSet = [t \in Tx |-> {}]
  /\ writtenSet = [t \in Tx |-> {}]
  /\ doomed = [t \in Tx |-> FALSE]
  /\ call = [t \in Tx |-> NoCall]
  /\ target = [t \in Tx |-> InitVal]
  /\ store = 1..top
  /\ mine = Store!Nothing
  /\ wishes = Store!Nothing
  /\ frame = [t \in Tx |-> NewFrame]

-----------------------------------------------------------------------------
\* The calls of a closure.  f is its frame when the call is made.

Called(t, f) == frame' = [frame EXCEPT ![t] = f]

Read(t, w, f) ==
  /\ StartCall(t, "read", w, w)
  /\ Called(t, f)

Write(t, w, v, f) ==
  /\ StartCall(t, "write", w, w)
  /\ Called(t, [f EXCEPT !.arg = v])

\* Shared::read and Shared::write without tm_alloc or tm_free before them.
PlainRead(t, w, f) == Read(t, w, f) /\ UNCHANGED <<store, mine, wishes, top>>

PlainWrite(t, w, v, f) == Write(t, w, v, f) /\ UNCHANGED <<store, mine, wishes, top>>

\* tm_free that takes the segment away at once.
FreeAtOnce(t, s) ==
  /\ s \in (store \cup mine[t]) \ {1}
  /\ store' = store \ {s}
  /\ UNCHANGED <<mine, wishes, committed>>

TmFree(t, s) == Store!Free(t, s)

TmAlloc(t, s) == Store!Alloc(t, s) /\ top' = s

\* The closure has returned: its transaction ends next.
Return(t, at) ==
  /\ Ready(t)
  /\ Called(t, [NewFrame EXCEPT !.at = at])
  /\ UNCHANGED <<vars, store, mine, wishes, top>>

After(t, at) == Ready(t) /\ frame[t].at = at

-----------------------------------------------------------------------------
\* long_tx

LongBegins(t) ==
  /\ After(t, "begin")
  /\ is_read_only[t]
  /\ PlainRead(t, CountOf(1), [frame[t] EXCEPT !.at = "longCount"])

LongCount(t) ==
  /\ After(t, "longCount")
  /\ PlainRead(t, ParityOf(frame[t].seg),
       [frame[t] EXCEPT !.at = "longSum", !.n = target[t], !.count = @ + target[t], !.i = 0])

\* The balance read last is added, the next account or the pointer is read.
LongSum(t) ==
  LET f == [frame[t] EXCEPT !.sum = @ + target[t]]
  IN  /\ After(t, "longSum")
      /\ \/ /\ f.i < f.n
            /\ PlainRead(t, Account(f.seg, f.i), [f EXCEPT !.at = "longAccount", !.i = @ + 1])
         \/ /\ f.i >= f.n
            /\ PlainRead(t, NextOf(f.seg), [f EXCEPT !.at = "longNext"])

\* A balance that is negative ends the sum with the answer false.
LongAccount(t) ==
  LET f == [frame[t] EXCEPT !.sum = @ + target[t]]
  IN  /\ After(t, "longAccount")
      /\ \/ target[t] < 0 /\ Return(t, "violated")
         \/ /\ target[t] >= 0 /\ f.i < f.n
            /\ PlainRead(t, Account(f.seg, f.i), [f EXCEPT !.i = @ + 1])
         \/ /\ target[t] >= 0 /\ f.i >= f.n
            /\ PlainRead(t, NextOf(f.seg), [f EXCEPT !.at = "longNext"])

LongNext(t) ==
  LET f == frame[t]
  IN  /\ After(t, "longNext")
      /\ \/ /\ target[t] # nullptr
            /\ PlainRead(t, CountOf(target[t]), [f EXCEPT !.at = "longCount", !.seg = target[t]])
         \/ /\ target[t] = nullptr
            /\ Return(t, IF f.sum = init_balance * f.count THEN "returned" ELSE "violated")

LongTx(t) == LongBegins(t) \/ LongCount(t) \/ LongSum(t) \/ LongAccount(t) \/ LongNext(t)

-----------------------------------------------------------------------------
\* alloc_tx

AllocBegins(t) ==
  /\ After(t, "begin")
  /\ ~is_read_only[t]
  /\ PlainRead(t, CountOf(1), [frame[t] EXCEPT !.at = "allocCount"])

AllocCount(t) ==
  /\ After(t, "allocCount")
  /\ PlainRead(t, NextOf(frame[t].seg),
       [frame[t] EXCEPT !.at = "allocNext", !.n = target[t], !.count = @ + target[t]])

AllocNext(t) ==
  /\ After(t, "allocNext")
  /\ target[t] # nullptr
  /\ PlainRead(t, CountOf(target[t]),
       [frame[t] EXCEPT !.at = "allocCount", !.prev = frame[t].seg, !.seg = target[t]])

\* At the last segment with more accounts than trigger, which may be any number.
DestroyAccount(t) ==
  /\ After(t, "allocNext")
  /\ target[t] = nullptr
  /\ frame[t].count > 2
  /\ PlainRead(t, ParityOf(frame[t].seg), [frame[t] EXCEPT !.at = "parity", !.n = @ - 1])

DestroyReadsAccount(t) ==
  /\ After(t, "parity")
  /\ PlainRead(t, Account(frame[t].seg, frame[t].n),
       [frame[t] EXCEPT !.at = "destroyed", !.sum = target[t] - init_balance])

\* Either the account or, if it was the only one there, the segment goes.
DestroyLowersCount(t) ==
  LET f == [frame[t] EXCEPT !.sum = @ + target[t]]
  IN  /\ After(t, "destroyed")
      /\ \/ f.n > 0 /\ PlainWrite(t, CountOf(f.seg), f.n, [f EXCEPT !.at = "lowered"])
         \/ f.n = 0 /\ PlainRead(t, NextOf(f.prev), [f EXCEPT !.at = "unlink"])

DestroyCorrectsParity(t) ==
  /\ After(t, "lowered")
  /\ PlainWrite(t, ParityOf(frame[t].seg), frame[t].sum, [NewFrame EXCEPT !.at = "returned"])

\* What Shared<Type*>::free leaves in the pointer.
PointerKept(t) == target[t]

PointerAfterFree(t) == nullptr

\* prev_segment.next.free().
DestroyUnlinks(t) ==
  /\ After(t, "unlink")
  /\ TmFree(t, target[t])
  /\ Write(t, NextOf(frame[t].prev), PointerAfterFree(t), [frame[t] EXCEPT !.at = "unlinked"])
  /\ UNCHANGED top

DestroyReadsParity(t) ==
  /\ After(t, "unlinked")
  /\ PlainRead(t, ParityOf(frame[t].prev), [frame[t] EXCEPT !.at = "previousParity"])

DestroyMovesParity(t) ==
  /\ After(t, "previousParity")
  /\ PlainWrite(t, ParityOf(frame[t].prev), target[t] + frame[t].sum,
                [NewFrame EXCEPT !.at = "returned"])

\* At the last segment otherwise: one more account, if there is room.
FillAccount(t) ==
  LET f == frame[t]
  IN  /\ After(t, "allocNext")
      /\ target[t] = nullptr
      /\ f.n < nbaccounts
      /\ PlainWrite(t, Account(f.seg, f.n), init_balance, [f EXCEPT !.at = "filled"])

FillRaisesCount(t) ==
  /\ After(t, "filled")
  /\ PlainWrite(t, CountOf(frame[t].seg), frame[t].n + 1, [NewFrame EXCEPT !.at = "returned"])

\* segment.next.alloc, and the first account of the new segment.
AddSegment(t) ==
  LET f == frame[t]
      s == top + 1
  IN  /\ After(t, "allocNext")
      /\ target[t] = nullptr
      /\ f.n >= nbaccounts
      /\ s \in Segment
      /\ TmAlloc(t, s)
      /\ Write(t, NextOf(f.seg), s, [f EXCEPT !.at = "linked", !.prev = f.seg, !.seg = s])

AddCount(t) ==
  /\ After(t, "linked")
  /\ PlainWrite(t, CountOf(frame[t].seg), 1, [frame[t] EXCEPT !.at = "counted"])

AddAccount(t) ==
  /\ After(t, "counted")
  /\ PlainWrite(t, Account(frame[t].seg, 0), init_balance, [NewFrame EXCEPT !.at = "returned"])

AllocTx(t) ==
  \/ AllocBegins(t) \/ AllocCount(t) \/ AllocNext(t)
  \/ DestroyAccount(t) \/ DestroyReadsAccount(t) \/ DestroyLowersCount(t)
  \/ DestroyCorrectsParity(t) \/ DestroyUnlinks(t) \/ DestroyReadsParity(t)
  \/ DestroyMovesParity(t)
  \/ FillAccount(t) \/ FillRaisesCount(t)
  \/ AddSegment(t) \/ AddCount(t) \/ AddAccount(t)

-----------------------------------------------------------------------------
\* short_tx

ShortBegins(t, send_id, recv_id) ==
  /\ After(t, "begin")
  /\ ~is_read_only[t]
  /\ PlainRead(t, CountOf(1),
       [frame[t] EXCEPT !.at = "shortCount", !.id = [p \in Party |-> IF p = "send" THEN send_id ELSE recv_id]])

\* The two searches after segment f.seg of n accounts.
Searched(f, n) ==
  LET here(p) == f.ptr[p] = nullptr /\ f.id[p] < n
  IN  [f EXCEPT
        !.ptr = [p \in Party |-> IF here(p) THEN Account(f.seg, f.id[p]) ELSE f.ptr[p]],
        !.id = [p \in Party |-> IF here(p) THEN 0
                                ELSE IF f.ptr[p] = nullptr THEN f.id[p] - n ELSE 0]]

ShortCount(t) ==
  LET f == Searched(frame[t], target[t])
  IN  /\ After(t, "shortCount")
      /\ \/ /\ \A p \in Party : f.ptr[p] # nullptr
            /\ PlainRead(t, f.ptr["send"], [f EXCEPT !.at = "sender"])
         \/ /\ \E p \in Party : f.ptr[p] = nullptr
            /\ PlainRead(t, NextOf(f.seg), [f EXCEPT !.at = "shortNext"])

ShortNext(t) ==
  /\ After(t, "shortNext")
  /\ \/ /\ target[t] # nullptr
        /\ PlainRead(t, CountOf(target[t]), [frame[t] EXCEPT !.at = "shortCount", !.seg = target[t]])
     \/ target[t] = nullptr /\ Return(t, "returned")

ShortDebits(t) ==
  LET f == frame[t]
  IN  /\ After(t, "sender")
      /\ \/ target[t] > 0 /\ PlainWrite(t, f.ptr["send"], target[t] - 1, [f EXCEPT !.at = "debited"])
         \/ target[t] <= 0 /\ Return(t, "returned")

ShortReadsRecver(t) ==
  /\ After(t, "debited")
  /\ PlainRead(t, frame[t].ptr["recv"], [frame[t] EXCEPT !.at = "recver"])

ShortCredits(t) ==
  /\ After(t, "recver")
  /\ PlainWrite(t, frame[t].ptr["recv"], target[t] + 1, [NewFrame EXCEPT !.at = "returned"])

ShortTx(t) ==
  \/ \E a, b \in AccountIds : ShortBegins(t, a, b)
  \/ ShortCount(t) \/ ShortNext(t) \/ ShortDebits(t) \/ ShortReadsRecver(t) \/ ShortCredits(t)

-----------------------------------------------------------------------------
\* The other steps of a transaction.

\* tm_begin, and the rest of Batcher::enter.
BankBegin(t) ==
  /\ Wait(t) \/ \E ro \in BOOLEAN : Begin(t, ro)
  /\ UNCHANGED <<store, mine, wishes, top, frame>>

\* The word of the call in progress.
Access(t) ==
  /\ LET w == call[t].next
     IN  /\ w \in Words
         /\ \/ ReadOnlyWord(t, w) \/ ReadWord(t, w)
            \/ WriteWord(t, w, frame[t].arg)
            \/ RefuseWord(t, w)
  /\ UNCHANGED <<store, mine, wishes, top, frame>>

\* The destructor of class Transaction calls tm_end, or a refused access leaves
\* the batcher: what the closure has allocated and freed counts if it commits.
BankEnd(t) ==
  /\ \/ frame[t].at \in {"returned", "violated"} /\ End(t)
     \/ GiveUp(t)
  /\ LET C == Finished(t, ~doomed[t]).committed
     IN  \/ remaining = 1 /\ Store!EpochEnd(C)
         \/ remaining # 1 /\ ~doomed[t] /\ Store!Commit(t)
         \/ remaining # 1 /\ doomed[t] /\ UNCHANGED <<store, mine, wishes>>
  /\ Called(t, NewFrame)
  /\ UNCHANGED top

BankNext ==
  \E t \in Tx :
    BankBegin(t) \/ LongTx(t) \/ AllocTx(t) \/ ShortTx(t) \/ Access(t) \/ BankEnd(t)

BankSpec == BankInit /\ [][BankNext]_bankVars

-----------------------------------------------------------------------------

Places ==
  {"begin", "returned", "violated", "longCount", "longSum", "longAccount", "longNext",
   "allocCount", "allocNext", "parity", "destroyed", "lowered", "unlink", "unlinked",
   "previousParity", "filled", "linked", "counted", "shortCount", "shortNext", "sender",
   "debited", "recver"}

\* Every variable stays in its type; no word ever holds a value out of Value.
BankTypeOK ==
  /\ TypeOK
  /\ store \subseteq Segment
  /\ mine \in [Tx -> SUBSET Segment]
  /\ wishes \in [Tx -> SUBSET Segment]
  /\ top \in Segment
  /\ \A t \in Tx :
       /\ frame[t].at \in Places
       /\ frame[t].seg \in Segment
       /\ frame[t].prev \in Segment \cup {nullptr}
       /\ frame[t].arg \in Value
       /\ \A p \in Party : frame[t].ptr[p] \in Words \cup {nullptr}

\* What a transaction that begins now would read.
Content(w) == Readable(word[w])

\* The accounts of the list, and the money on them with the parities.
Accounts == SumFunction([s \in store |-> Content(CountOf(s))])

Balances(s) == [i \in 0..(Content(CountOf(s)) - 1) |-> Content(Account(s, i))]

Money == SumFunction([s \in store |-> Content(ParityOf(s)) + SumFunction(Balances(s))])

\* No money is made or lost by any mix of transfers, new accounts and destroyed
\* ones, whatever aborts half-way; no balance is negative; and no long_tx sees
\* anything else ("Violated isolation or atomicity").
MoneyConstant ==
  /\ Money = init_balance * Accounts
  /\ \A s \in store : \A i \in 0..(Content(CountOf(s)) - 1) : Content(Account(s, i)) >= 0
  /\ \A t \in Tx : frame[t].at # "violated"

\* The segment of a word.
SegmentOfWord(w) == ((w - 1) \div SegmentWords) + 1

\* A pointer that a transaction follows leads into a segment of the memory of
\* its epoch or one of its own, also when others of the epoch free it: no access
\* gets to assert(false) in DualStm::read or DualStm::write, and no tm_free is
\* given an address that is not there.
PointersLive ==
  \A t \in Tx :
    /\ call[t] # NoCall => SegmentOfWord(call[t].next) \in store \cup mine[t]
    /\ After(t, "unlink") => target[t] \in (store \cup mine[t]) \ {1}

\* The segments of the memory are exactly those of the list that starts at the
\* first one, in the order of allocation: none is leaked, none is linked after
\* it was freed.  All but the last are full, and the last is not empty.
ListShape ==
  LET next(s) == Content(NextOf(s))
      last    == {s \in store : next(s) = nullptr}
  IN  /\ {1} \cup ({next(s) : s \in store} \ {nullptr}) = store
      /\ \A s \in store \ last : next(s) > s /\ Content(CountOf(s)) = nbaccounts
      /\ \A r, s \in store \ last : next(r) = next(s) => r = s
      /\ \A s \in last : Content(CountOf(s)) \in 1..nbaccounts
      /\ Accounts >= 2

=============================================================================
