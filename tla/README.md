# A verification project for the dual-versioned STM

This directory specifies the software transactional memory of `src/321215/` in
TLA+, checks it with TLC on small instances and proves its main properties with
TLAPS for every size. `PROJECT.json` lists the runs, which definition models
which lines of code, and the hazards the properties are aimed at.

## The system

| component | code | state | operations |
|---|---|---|---|
| thread batcher | `321215/batcher.cpp` | epoch counter, `remaining`, `blocked`, the vectors of committed and aborted transactions | `enter`, `leave`, `onEpochEnd` |
| word | `321215/word.cpp` | two copies, which one is readable, `last_tx_accessed`, `accessed_by_many`, `written` | `read`, `write`, `resetState`, `updateWritten` |
| transaction | `321215/transaction.*` | epoch, `tr_num`, read and written words, allocated and freed segments, `aborted` | `commit`, `abort`, `addSegment`, `findSegment`, destructor |
| segment | `321215/segment.cpp` | an array of words | `read`, `write` |
| memory region | `321215/dual_stm.cpp`, `tm.cpp` | the maps `segments` and `addresses`, `end_address` | `tm_create`, `tm_begin`, `tm_read`, `tm_write`, `tm_alloc`, `tm_free`, `tm_end`, `tm_destroy` |
| reference TM | `reference/` | a shared lock, a list of segments | the same interface |
| transactional wrappers | `grading/transactional.hpp` | the loaded library, the region, one transaction's `aborted` | `Transaction`, `Shared`, `transactional` (the retry loop) |
| bank workload | `grading/workload.hpp` | accounts in a linked list of segments, in the shared memory; a barrier | `long_tx`, `alloc_tx`, `short_tx`, `check` |
| grading program | `grading/grading.cpp`, `common.hpp` | `Sync`, `Latch`, `Barrier`, the frame of `bounded_run` | worker and master threads, bounded runs, `main` |
| examples | `sync-examples/`, `playground/` | bounded buffers, counters, leader elections | small programs with threads |
| the rest | `template/`, `submit.py`, `include/` | none | skeleton, network client, declarations |

A client thread calls `tm_begin`, any number of reads, writes, allocations and
frees, and `tm_end`. `tm_begin` goes to the batcher, which lets transactions run
in epochs: what arrives while an epoch is open is parked until the epoch is
over. Within an epoch each word is guarded by a mutex of its own. A word has a
readable copy, which does not change during the epoch, and a writable copy,
which one transaction at most may use. A refused access marks the transaction
aborted, and the call leaves the batcher on the client's behalf. The last
transaction to leave runs `onEpochEnd` with the batcher's mutex held: it adds
the segments of the committed transactions, swaps the copies of the words they
have written, resets the control data of every word touched, frees segments,
and deletes the transactions. Only then the parked transactions are admitted.

The client in this repository is the grading program. For each library it
constructs the bank, which creates the shared memory inside a `bounded_run`;
starts the workers and lets them run `init`, some rounds of `run`, and `check`, with a
`Sync` between the tests and a `Barrier` inside `check`; joins them; destroys the
memory, again in a `bounded_run`, and unloads the library. The reference TM
implements the same interface with one lock and sets the time limits for the others.

### What is hard about it

* Interleavings: threads parked in a condition variable, woken spuriously or
  late; multi-word calls that interleave word by word; a refused transaction
  that has not left yet; allocations next to each other.
* Stale state: a parked transaction is numbered long before it runs; writable
  copies keep what aborted transactions have written; control data of an epoch
  must not be seen in the next one.
* Order and partial failure at the end of an epoch: words are reset before
  segments are freed; a multi-word write fails in the middle; a transaction
  aborts after it has allocated.
* Pointers: the bank keeps addresses in words, and follows them while others
  of the epoch free the segments they lead to.
* Boundaries: the search for a segment by end address, and the dereference of
  `end()` in it; a counter of type `size_t` that is decreased to zero.
* Timeouts and errors: a master that gives up, workers that leave a test early
  by an error or an exception while others wait for them, `bounded_run` woken early.
* Liveness: every parked thread must run; epochs in which everyone aborts;
  spinning workers; barriers.

The list with lines is in `PROJECT.json`, under `hazards`.

### What makes each component correct

* Batcher: epochs never overlap; `remaining` is the number of those present;
  numbers identify transactions in their epoch; no lost wake-up; whoever is
  parked runs.
* Words and transactions: all transactions of an epoch read the memory as it
  was at its beginning, and their own writes; one writer a word; commits take
  effect together; nothing is left of what aborted; read-only transactions
  never abort; the committed transactions of an epoch are serializable.
* Segments: each is owned once; no use after deletion; exact address search.
* Bank: its money is constant; no transaction follows a pointer out of the
  memory; its list of segments is exactly the memory.
* Reference TM: transactions happen one after another; the list stays linked both ways.
* Grading: no thread overtakes a barrier, tests do not overlap, the master learns
  the outcome, a right library passes, the library is idle when it is unloaded,
  and the program ends.
* Examples: every item is consumed once and in order, and both threads end.

## Modules

| module | contents |
|---|---|
| `EpochBatches` | abstract: transactions run in batches |
| `Batcher` | `batcher.cpp`; implements `EpochBatches` |
| `Word` | `word.cpp` as operators on a record |
| `EpochMemory` | abstract: a snapshot, one write log a transaction, commit at the end of the batch |
| `DualStm` | extends `Batcher` and `Word`: `tm_begin`, `tm_read`, `tm_write`, `tm_end`, the end of an epoch; implements `EpochMemory` |
| `SegmentStore` | abstract: allocation and freeing take effect at the end of an epoch |
| `Segments` | extends `Batcher`: `tm_create`, `tm_alloc`, `tm_free`, the search, the loops of `onEpochEnd`; implements `SegmentStore` |
| `Bank` | extends `DualStm`, uses `SegmentStore`: the bank's transactions, call by call |
| `GradingSync` | `grading.cpp`'s `Sync` and `measure`, `common.hpp`'s `Latch` |
| `Rendezvous` | abstract: a barrier used again and again |
| `SpinBarrier` | `common.hpp`'s `Barrier`; implements `Rendezvous` |
| `BoundedRun` | `common.hpp`'s `bounded_run` |
| `CheckTest` | `workload.hpp`'s `check`, on `SpinBarrier` |
| `GradingProgram` | `main` for one library: composes `GradingSync`, `BoundedRun` and `CheckTest` |
| `AtomicMemory` | abstract: transactions happen one after another |
| `ReferenceTm` | `reference/tm.c` and its lock; implements `AtomicMemory` |
| `BoundedQueue` | abstract: what is put is taken, in order |
| `ProducerConsumer` | `procon2.c`, `procon3.c`, `procon4.c`; implements `BoundedQueue` |
| `BatcherProofs`, `DualStmProofs`, `SegmentsProofs`, `BankProofs`, `SpinBarrierProofs`, `GradingProofs`, `ReferenceTmProofs`, `ProducerConsumerProofs` | theorems |
| `MCBatcher`, `MCDualStm`, `MCSegments`, `MCBank`, `MCGradingProgram`, `MCReferenceTm`, `MCProducerConsumer` | TLC instances |

### Batcher

A member of `Tx` is one `Transaction` object, that is one `tm_begin`; a retry is
another member. The bodies of `enter` and `leave` hold `Batcher::mutex` and are
one step each, except that `enter` lets go of it in `cv.wait`. So `enter` is
`EnterFirst` (no epoch open) or `EnterBlocked` (push, number, first wait), and a
parked thread moves by `SpuriousWake` (or the notification in `LeaveLast`) and
`TestAwake`, the loop test after the mutex has been taken again. `leave` is
`LeaveEarly` or `LeaveLast`. `pc` stands for the position of the thread; every
other variable is a member of `Batcher`, `b_thread` or `Transaction`. The
pointers in `blocked` are the transactions themselves, because `b_thread` and
`Transaction` are created together. `thread_id` is never read and left out.
`committed` and `aborted` are sets: the order of the vectors does not matter to
what is done with them.

### Word and DualStm

`Word` splits each member function into its test, value and effect:
`WriteAccepted`, `WriteEffect` and so on. `DualStm` is the rest on one segment of
`NumWords` words. A call is a record `call[t]` of the words it has yet to do
(`StartCall`); each word is one step (`ReadOnlyWord`, `ReadWord`, `WriteWord`,
`RefuseWord`), as each `Word::read` and `Word::write` holds `word_mutex`
throughout. Read-only reads take no mutex; during an epoch they read data nobody
writes (the readable copy), so one step each is exact. After `RefuseWord` the
call leaves in a step of its own, `GiveUp`; `End` is `tm_end`. `OnEpochEnd` is the
effect of `Transaction::commit` and `Transaction::abort` on all words: they
swap and reset, and these commute, so their order in the code does not matter.
`has_written` is never read and left out. `ReadFirst` is a parameter of the
client, not of the STM: whether it reads each word before it writes it.

### Segments

Addresses count alignments. `segments`, `addresses` and the two maps of each
transaction are functions with a changing domain. `alive` is the set of Segment
objects constructed and not deleted. Any access may mark the transaction
aborted: what decides it is `DualStm`'s matter. Unlike in `DualStm`, the loops of
`onEpochEnd` are steps, in the code's order (`After`), one transaction or one
freed address a step; the mutex is held meanwhile (`Open` guards everything else
that needs it). `findSegment` dereferences `upper_bound` without testing for
`end()`. With the library the Makefile's compiler uses, the value read there is
the member behind the map, `end_address`, and the search fails as it should;
`FindSegment` says so.

The client keeps the contract of `include/tm.hpp`: it accesses and frees
segments of its epoch's memory or its own. That a pointer it has read leads to
such a segment is a joint property of words and segments, and in `Bank`.

### Bank

The words of all segments are one `DualStm` memory of `MaxSegments` equal parts:
`count`, `next`, `parity` and `nbaccounts` accounts. The segments are a
`SegmentStore`, which `Segments` implements: an allocation or a free takes effect at
the end of the epoch if its transaction commits. Each call of a closure is a
step that starts a call of `DualStm` and moves the closure's frame; its next step
uses what the call has read (`target`). `frame[t].at` names the call just made.
The end of a transaction is one step with both effects: `DualStm`'s on words,
`SegmentStore`'s on segments. A retry is another member of `Tx`. Whether `alloc_tx` finds
more accounts than its random trigger is left open; its test `count > 2` is not.
`init` has run: its effect is the initial memory, or that memory after an
`alloc_tx` which has added a second segment (reached in this way to save a
transaction). `assert_mode` is `false` in `common.hpp`, so `alloc` and `free` of a
shared pointer make no read of their own but the one in `free`. The two reads in
`segment.parity.read() + segment.accounts[...]`, which C++ does not order, are
made in the order they are written.

A segment number is used once: the code never gives an address away twice.
The segments are contiguous in the model and the code alike; that the search
finds the right one is `LookupExact` of `Segments`.

### GradingSync

One step is one access to an atomic of `Sync`, or a body that holds the latch's
mutex. `pc[w]` is the worker's position in `worker_wait` and `worker_notify`,
`master` that of the main thread in `measure`; `round`, `outcome` and `test` count
and record what has happened. `MasterWait` is `Latch::wait` with its lock held;
`SpuriousWake` and `Overrun`, together `Accident`, are what the condition variable and
the clock may do at any time, but need not. A test ends with success, an error message, or an
exception, which is reported like an error and ends the worker. The accesses are
sequentially consistent: several of them are relaxed in the code, and what a
weaker machine than the compiled one may reorder is not modelled.

### SpinBarrier, BoundedRun, CheckTest and GradingProgram

`SpinBarrier` has one step for each access to `step` or `mode`; `place[t]` is the thread's
position in `sync`, `passed[t]` counts its returns. In the refinement a thread comes
with its first step and passes with its last.

In `BoundedRun` the caller's positions say whether it holds the mutex (`Held`): from
the start until `wait_for`, and again once `wait_for` has returned, also during
`join`. `WakeEarly` is a wake-up without a reason, `TimeUp` the end of the time, which
may come at any moment. `Stuck` is what an early wake-up leads to when the function
is still running: the caller joins, holding the mutex, a thread that cannot
notify without it.

In `CheckTest` a transaction is one step on the counter (`DualStm` with read-first
clients is serializable; the closures of `check` read first, but for the one that
sets the counter while the others wait). A library that is
wrong is one whose reads may return anything: `faulty`. `line[w]` is what the worker
does next; a barrier takes several steps of `SpinBarrier`. Values above `InitCounter` are
one value, `Greatest`, and zero decreases to it, as `size_t` does.

`GradingProgram` puts them together. `stage` is the position of `main`: constructor of
the bank, `measure`, destructor, and how it ends. The last test of `GradingSync` is
`CheckTest`, whose result becomes the outcome; `init` and `run` are single steps that
may end in any way. An exception in `check` can come from any of its transactions.
The reference library is run first and without time limit by the same code; one
library is modelled, with a limit (`Timed`).

### ReferenceTm

A call is a step on one word a segment. `lock` holds the owners of the rwlock,
`word` is a function on the segments that are allocated, `prev` and `next` the links of the
nodes. A freed node's links are reset, as nobody may look at them. In the refinement
the memory of `AtomicMemory` is `word`, or, while a read-write transaction runs on it or
`tm_destroy` takes it apart, `before`, its copy from the beginning (which no
action reads).

### ProducerConsumer

`version` says which of the three programs runs. Copying into and out of a slot
takes two steps, between which a producer's slot is torn and a consumer's copy may
become spoiled (`Torn`). The queue of the refinement is what lies between the two
counters.

## Runs

| run | instance | question |
|---|---|---|
| `batcher` | 4 transactions | is admission correct in every interleaving, and does every parked thread run? |
| `dual_stm` | 3 transactions, 2 words, 2 contents, any client | does the STM implement the snapshot memory? |
| `one_word` | 4 transactions, 1 word, 2 contents, any client | do the control data of a word outlive an epoch with two transactions? |
| `read_first` | as `dual_stm`, clients that read first | are commits serializable? |
| `write_skew` | as `dual_stm` | expected violation: they are not for blind writes |
| `all_abort` | as `read_first` | expected violation: an epoch without a commit |
| `segments` | 3 transactions, segments of 1 and 2 words, 6 addresses, 1 free each | ownership, order, search, outcome of an epoch |
| `bank` | 3 transactions, 3 segments of 2 accounts, transfers between accounts 0, 2 and 3 | is money constant, do pointers lead to living segments, is the list whole? |
| `grading_program` | 3 workers, 3 tests, one decrease each in `check`, any outcome, any library, time limit | tests, verdict, barrier, unloading, end |
| `reference_tm` | 3 transactions, 3 nodes, 2 contents | does one lock make an atomic memory, is the list whole? |
| `producer_consumer` | 3 slots, 8 rounds, all versions | do the examples implement a queue, do they end? |
| `alignment` | as `segments` | expected violation: unaligned addresses |

Why the bounds are enough. A transaction begins once, so the number of epochs
is at most that of transactions. With three, the first runs alone and the two
others, parked meanwhile, run together: every conflict the code distinguishes is
between a transaction and the last or "many" accessors of a word, and two
concurrent ones with two words give every such conflict, write skew included.
What an epoch with two transactions leaves in the control data matters only to
a fourth transaction; `one_word` has it, on a single word (with three, a reset that
forgets `accessed_by_many` goes unnoticed). The batcher has a fourth
transaction so that one runs, two are parked and one arrives late. In `segments`,
`MaxAddress` lets three segments be allocated, next to each other, in different
transactions; one free each lets two transactions free the same segment. The
search is checked for every transaction, also those that have not begun, so what
an epoch with two transactions leaves in the maps is looked at as well.
`CHECK_DEADLOCK` is off because the model ends when every transaction has left.
Transactions are interchangeable and symmetric in the safety runs. The liveness
run has no symmetry.

`bank` begins with one full segment or with two, the second of which has one
account. So one transaction can add a segment, or the two of the second epoch
can remove the second segment together, or remove and fill it, or transfer from
and to it while it is removed. `AccountIds` has an account of the first segment, the
only one of the second, and one that does not exist at first. Three transactions change the memory three times at most; of longer sequences, more
segments and more accounts the theorems of `BankProofs` speak.

In `grading_program` three workers give a first, a middle and a last one to arrive,
to report and to pass the barrier, and three tests are `init`, one `run` and `check`; the
master and the workers behave in each as in the others. With one decrease each
the counter starts at three; more turns of the loop repeat the same steps.

In `reference_tm` three nodes give a list with a middle, and addresses that are used
again. In `producer_consumer` eight is not a multiple of three, and slots are used
three times.

Fairness. For `ParkedRuns`: a thread that is out of `cv.wait` gets the mutex
in the end (each critical section is short and none waits while it holds it),
and a running transaction leaves in the end (the client must call `tm_end`, and
a refused call leaves by itself). Nothing is assumed of new transactions or of
spurious wake-ups. The mutex's acquisition by `TestAwake` is weakly fair: once
woken, the step stays enabled until taken. For `ProgramEnds`: the main thread,
the thread of `bounded_run` and every worker are scheduled, and the library's
calls return. A spinning thread is a step that waits for its condition, so weak
fairness needs the condition to stay true; `Abort` after `Run` keeps it, and in the
barrier the mode cannot change back before everybody has seen it. `SideAccident` and
`MeasureAccident` have no fairness: the time limit is never forced to run out and
nobody is forced to wake up early, so a master asleep in `Latch::wait` needs the
notification of `Latch::raise`, and `ProgramEnds` fails without it. `ProgramEnds` has two
exceptions, both behaviours of the code that last for ever: `Stuck`, and `Abandoned`, a
worker that has thrown in `check` while another waits for it at the barrier. A throw
that nobody waits for is no exception. For `BothEnd`: both threads are scheduled, and a mutex that is free again and
again is got in the end (strong fairness of `Acquire`, without which the polling
versions could starve).

### What the violations show

* `write_skew`: `Word::write` looks at `accessed_by_many` only. A word that has
  one reader can still be written by another transaction that has not read it.
  T reads x, U reads y, T writes y, U writes x: both are accepted, and each has
  read the value before the other's write. `grading/workload.hpp` reads each
  word that others may use before it writes it, so it never meets this
  (`BankConflictFree`); `ReadFirst` is the same discipline for all words.
* `all_abort`: two transactions read a word and then write it; both see
  `accessed_by_many`, both abort, and the epoch ends with the condition the
  DEBUG build of `leave` throws for.
* `alignment`: `end_address` starts at one, sizes are multiples of the alignment.

## Proofs

The theorems hold for any finite `Tx`, any `NumWords`, `Value` and `InitVal` in it;
any sizes of segments that are not zero; any finite set of threads or workers that
is not empty, any positive number of tests, of decreases, of rounds and of slots. The
assumptions are named in the module that declares the constants. What bounds a
model (`MaxAddress`, `MaxFrees`, `MaxNode`) is any natural number. Those of the bank
hold for any initial balance, any number of segments from two on, any accounts that
`short_tx` may ask for, and segments of two or more accounts: `grading.cpp:272` makes it
32 a worker. The words hold integers: 64-bit wrap-around is not modelled.

`BatcherProofs`. `BatcherInv` is inductive. `RemainingIsPresent` alone is not:
when an epoch ends, `remaining` becomes the length of `blocked`, so one has to
know that `blocked` lists, without repetition, exactly those of the next epoch.
`EpochsAndNumbers` says this through the numbers: the i-th parked transaction
has number i. The same fact makes numbers unique in the next epoch
(`TrNumIdentifies`). The counting itself goes through the cardinality of
`Present`. The refinement of `EpochBatches` follows step by step: entering
arrives, leaving departs, waking up stutters.

`DualStmProofs`. Every step of `DualStm` is a step of the batcher or leaves it
alone, so `BatcherInv` carries over. On top of it `StmInv` (types, `WordControl`,
`AccessDiscipline`) is inductive. `WordControl` says that the control data of a
word are right about its accessors in the current epoch; the delicate steps are
`ReadWord` and `WriteWord`, where `last_tx_accessed = tr_num` has to mean "it is
me", which is `TrNumIdentifies` for two transactions of the same epoch, and the
last `LeaveStm` of an epoch, where the vectors must contain every transaction
with a word in its sets, which is `VectorsAreThisEpoch`. `OneWriter`,
`ReadOnlyCommits` and `AbortNeedsRival` follow. With `ReadFirst` assumed,
`SoleAccessorWrites` is invariant in addition, and gives `ConflictFree` and
`Serializable`.

The refinement of `EpochMemory`: the readable copies are its memory, the
writable copies of the words in `writtenSet[t]` are the log of t. Reads need that
a word that is written by t has t's number; writes that nobody else has the word
in its log; the end of an epoch that each word in a log has one owner, so that
an odd number of swaps is one swap.

`SegmentsProofs`. A step of `Segments` is a step of the batcher or leaves it alone
(`SegmentsKeepBatcher`: the loops of `onEpochEnd` do nothing the batcher can see until the
last of them), so `BatcherInv` carries over here too. The rest of `SegInv` has four parts.
`MapsInv`: the ranges of all segments, of the memory and of every transaction, keep
apart, and each map of ends is the inverse of its map of starts; from this `LookupExact`
follows by the least end above an address (`UpperBoundFinds`). `OwnersInv`: transactions
share nothing. `HoldersInv`: who holds anything at all, and that a segment whose words a
transaction has touched is alive. `LoopsInv`: what each loop has done already to
those it has passed; it makes `TouchedAlive` and `OwnedOnce` inductive in the middle of
`onEpochEnd`, where the words of committed transactions must be reset before the loop
that deletes segments begins. `SegmentStore` is refined with its state frozen at
the outcome (`Outcome`) while the loops run: the end of the epoch is the step of
the last leave, and each step of a loop stutters, because what is done and what is left
to do still lead to the same outcome.

`BankProofs`. Each step of the bank is a step of `DualStm` or leaves it alone, so `StmInv`
and `BatcherInv` carry over, without `ReadFirst`. On top of them `BankInv` is
inductive; none of `MoneyConstant`, `PointersLive` and `ListShape` is by itself, because
what a closure writes depends on all it has read before, and what an epoch leaves on
all that commits in it. Its parts:

* `ClosuresOK`: at each place a closure knows what it has read and written so far
  (`Knows`: `LongAt`, `AllocAt`, `ShortAt`, `Returned`). This is stated for the log, the reads
  and the target as they will be after the call in progress (`KnowsAfter`), so that the
  access itself changes nothing of it: only the step that starts a call has to be looked
  at place by place. Everything is known of the memory of the epoch, which does not change
  while the epoch lasts.
* `Extent`, a part of `Knows`: what a transaction has read belongs to the bank, and a word
  of the bank that it writes it has read. The words it writes blindly (an account beyond
  the last one, a new segment) are not reached by any other transaction, except that
  two may fill the same account, and then `OneWriter` lets one of them commit. So
  `ConflictFree` and `Serializable` hold for the bank although `ReadFirst` does not.
* `GoodBank(Mem, store)`: the segments are a list in the order of their allocation, all but
  the last full and the last not empty, no account is overdrawn, and the money is
  `init_balance` for each account. The same holds of `OutlookMem` and `OutlookStore`, the
  memory and the segments that the epoch would leave if nobody else committed.
  `ReturnedEffect`: a closure that
  has returned makes a good bank of every bank that agrees with the epoch's on what it
  has read. The outlook does when the transaction commits (`ConflictFree`), so it stays
  good, and at the end of the epoch it becomes the memory.
* `FreshSegments`: a segment that is allocated in this epoch is in nobody's list yet.

Sums are `SumFunction` of the community modules, a recursive function that picks elements
in an unspecified order. That it exists, has one value and does not depend on the
order is proved by a least counterexample (`IterationExists`, `SumStep`), since the induction
theorems cannot be used; the rest of the proof sees only that one more summand adds its
value and that a changed one adds the difference. `ListShape` then needs that a segment
other than the first has a predecessor (`Predecessor`), and that there are two accounts at
least (`TwoAccounts`).

`SpinBarrierProofs`. `step` counts those inside (`CountsInside`), but says nothing of
those that have counted themselves out and have not seen the end of the round.
`Phases` says where threads can stand in each mode, and `Lockstep` that their rounds
are the same, up to one that spins.

`GradingProofs`. For `GradingSync` the key is `Stations`: the status alone says in which
places the workers can be. For `check`, `BarrierInv` is taken over; `CheckLines` says how
often a worker has passed the barrier at each line, so that a worker between two
barriers knows where the others can be. `CheckPasses` needs that no decrease is lost
or made twice: the decreases that have happened are a set of pairs (worker, turn), and
the counter and the size of this set add up to the first value. `StageInv` joins
both with the course of `main`, and `LibraryIdle` follows.

`ReferenceTmProofs`. `ListInv`: `prev` and `next` undo each other from the head on
(`Linked`), and no set of nodes is closed under either (`Acyclic`), which is what makes
the list end, and the walk of `tm_destroy` with it. Saying it of sets, not of
paths, keeps induction over the list out of the proof. `LockInv`: the holders of the lock are
those that run; a transaction that writes is alone with the memory, so that the
refinement may give it the memory it works on in place as a view of its own.

`ProducerConsumerProofs`. `QueueInv` does not speak of the lock. Each counter has one
writer, and the test before a round keeps the slot that is written apart from those
that wait (`SlotsDiffer`: rounds less than `BUFFER_SIZE` apart have different
slots). So the same proof covers the version without a lock.

Only model-checked. `ParkedRuns`, `ProgramEnds` and `BothEnd`: liveness under
fairness is out of the prover's reach. And the violations: each is one behaviour. Every
safety invariant, action property and refinement that a passing run checks is a
theorem.

## Not modelled

Private buffers and their leak in `Segment::write`; logging; `tm_destroy` of the STM
and its destructors, which run when no transaction does; exhaustion of `size_t`. The
mutexes are not variables of the STM's modules: a body that holds one is a step. The memory order of
the atomics in `Word` does not matter, since all accesses to them are under
`word_mutex` or in `onEpochEnd`. Elsewhere atomics are sequentially consistent.

The retry loop's liveness: two transactions can abort each other again and
again (`all_abort`), and nothing in the code prevents it; whether a machine does
this for ever is not a property of the program.

Of the grading program: options, printing, clocks and the choice of limits;
symbol lookup; an exception thrown on the thread of `bounded_run`, which ends
the process at once; what a thread left behind by `bounded_run` does to the frame
that is gone.

Of the examples: `procon1.c` is wrong on purpose, as are half of the counters and
elections; the other half of them is one atomic operation or one critical section
a round. The lock of `playground/` is empty, for the reader to write. `template/` is an
empty skeleton, `submit.py` a network client, `main_debugging.cpp` a driver behind an
undefined macro, `include/tm.hpp` declarations.

## Plan

The plan of this project has been carried out: the parts above are modelled, and their
safety properties are checked and proved. What could follow:

1. Joining `Bank` and `Segments`: the bank on the maps of addresses, in place of the
   numbers of `SegmentStore`. Both sides are proved; the composition rests on
   `Segments` implementing `SegmentStore`.
2. The liveness properties by hand, from `BatcherInv`, `BarrierInv` and `QueueInv` and
   the fairness stated above.
3. The wrap-around of 64-bit balances, and the memory order of the atomics in `Sync`
   and `Barrier`.
