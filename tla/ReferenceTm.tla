----------------------------- MODULE ReferenceTm -----------------------------
(***************************************************************************)
(* The reference transaction manager (reference/tm.c): one lock for the    *)
(* whole memory, shared by read-only transactions and exclusive for the    *)
(* others, which work on the memory itself.  Segments that tm_alloc makes  *)
(* are in a doubly linked list, and tm_free takes them out at once; an     *)
(* address that was freed may be given to a later tm_alloc.                *)
(*                                                                         *)
(* A call is one step, on one word per segment.  The client keeps the      *)
(* contract of include/tm.hpp: a read-only transaction only reads, and     *)
(* only segments that exist are used or, but for the first, freed.         *)
(***************************************************************************)
EXTENDS Integers, FiniteSets

CONSTANTS Tx,       \* the transactions that may be begun
          MaxNode,  \* bound: the addresses that posix_memalign may return
          Value, InitVal

ASSUME ReferenceAssumption == MaxNode \in Nat /\ InitVal \in Value

Node == 1..MaxNode

nullptr == 0

\* The segment made by tm_create; it is in no list.
start == -1

Segment == Node \cup {start}

VARIABLES
  lock,     \* who holds region.lock: the shared holders, the exclusive one
  state,    \* how far each transaction is
  is_ro,    \* was tm_begin called with is_ro?
  word,     \* the memory that is allocated, and its contents
  allocs,   \* region.allocs
  prev, next,  \* of the nodes
  target,   \* what each transaction has read last
  before,   \* the memory when its present user began: the read-write
            \* transaction that runs, or tm_destroy (else it means nothing)
  region    \* "up", "destroying" or "gone"

listVars == <<allocs, prev, next>>

vars == <<lock, state, is_ro, word, listVars, target, before, region>>

States == {"idle", "running", "ended", "refused"}

FirstMemory == [s \in {start} |-> InitVal]

\* tm_create.
Init ==
  /\ lock = [shared |-> {}, exclusive |-> {}]
  /\ state = [t \in Tx |-> "idle"]
  /\ is_ro = [t \in Tx |-> FALSE]
  /\ word = FirstMemory
  /\ allocs = nullptr
  /\ prev = [n \in Node |-> nullptr]
  /\ next = [n \in Node |-> nullptr]
  /\ target = [t \in Tx |-> InitVal]
  /\ before = FirstMemory
  /\ region = "up"

Running(t) == state[t] = "running"

SetState(t, s) == state' = [state EXCEPT ![t] = s]

\* shared_lock_acquire that does not wait for the shared holders.
AcquireFromExclusive(t) ==
  /\ lock.exclusive = {}
  /\ lock' = [lock EXCEPT !.exclusive = {t}]

\* shared_lock_acquire and shared_lock_acquire_shared.
Acquire(t) ==
  /\ lock = [shared |-> {}, exclusive |-> {}]
  /\ lock' = [lock EXCEPT !.exclusive = {t}]

AcquireShared(t) ==
  /\ lock.exclusive = {}
  /\ lock' = [lock EXCEPT !.shared = @ \cup {t}]

BeginReadOnly(t) ==
  /\ region = "up"
  /\ state[t] = "idle"
  /\ AcquireShared(t)
  /\ SetState(t, "running")
  /\ is_ro' = [is_ro EXCEPT ![t] = TRUE]
  /\ UNCHANGED <<word, listVars, target, before, region>>

BeginReadWrite(t) ==
  /\ region = "up"
  /\ state[t] = "idle"
  /\ Acquire(t)
  /\ SetState(t, "running")
  /\ before' = word
  /\ UNCHANGED <<is_ro, word, listVars, target, region>>

\* The lock cannot be acquired: invalid_tx.
BeginFails(t) ==
  /\ region = "up"
  /\ state[t] = "idle"
  /\ SetState(t, "refused")
  /\ UNCHANGED <<lock, is_ro, word, listVars, target, before, region>>

\* tm_end.
End(t) ==
  /\ Running(t)
  /\ lock' = IF is_ro[t] THEN [lock EXCEPT !.shared = @ \ {t}] ELSE [lock EXCEPT !.exclusive = {}]
  /\ SetState(t, "ended")
  /\ before' = IF is_ro[t] THEN before ELSE FirstMemory
  /\ UNCHANGED <<is_ro, word, listVars, target, region>>

Read(t, s) ==
  /\ Running(t)
  /\ s \in DOMAIN word
  /\ target' = [target EXCEPT ![t] = word[s]]
  /\ UNCHANGED <<lock, state, is_ro, word, listVars, before, region>>

Write(t, s, v) ==
  /\ Running(t) /\ ~is_ro[t]
  /\ s \in DOMAIN word
  /\ word' = [word EXCEPT ![s] = v]
  /\ UNCHANGED <<lock, state, is_ro, listVars, target, before, region>>

\* tm_alloc: any address that is not in use, cleared; the node becomes the head.
\* posix_memalign may also fail, which changes nothing.
Alloc(t, n) ==
  /\ Running(t) /\ ~is_ro[t]
  /\ n \notin DOMAIN word
  /\ word' = [s \in DOMAIN word \cup {n} |-> IF s = n THEN InitVal ELSE word[s]]
  /\ next' = [next EXCEPT ![n] = allocs]
  /\ prev' = [m \in Node |-> IF m = n THEN nullptr ELSE IF m = allocs THEN n ELSE prev[m]]
  /\ allocs' = n
  /\ UNCHANGED <<lock, state, is_ro, target, before, region>>

\* The list without node n: next->prev is left alone, or set.  What a freed node
\* holds is never looked at.
Bypass(n) ==
  /\ allocs' = IF prev[n] = nullptr THEN next[n] ELSE allocs
  /\ next' = [m \in Node |-> IF m = n THEN nullptr ELSE IF m = prev[n] THEN next[n] ELSE next[m]]

UnlinkForward(n) == Bypass(n) /\ prev' = [prev EXCEPT ![n] = nullptr]

Unlink(n) ==
  /\ Bypass(n)
  /\ prev' = [m \in Node |-> IF m = n THEN nullptr ELSE IF m = next[n] THEN prev[n] ELSE prev[m]]

Release(n) == word' = [s \in DOMAIN word \ {n} |-> word[s]]

\* tm_free.
Free(t, n) ==
  /\ Running(t) /\ ~is_ro[t]
  /\ n \in DOMAIN word
  /\ Unlink(n)
  /\ Release(n)
  /\ UNCHANGED <<lock, state, is_ro, target, before, region>>

\* tm_destroy is called when no transaction runs and none will.
Destroy ==
  /\ region = "up"
  /\ \A t \in Tx : ~Running(t)
  /\ region' = "destroying"
  /\ before' = word
  /\ UNCHANGED <<lock, state, is_ro, word, listVars, target>>

DestroyNext ==
  /\ region = "destroying"
  /\ allocs # nullptr
  /\ allocs' = next[allocs]
  /\ Release(allocs)
  /\ UNCHANGED <<lock, state, is_ro, prev, next, target, before, region>>

DestroyLast ==
  /\ region = "destroying"
  /\ allocs = nullptr
  /\ region' = "gone"
  /\ Release(start)
  /\ UNCHANGED <<lock, state, is_ro, listVars, target, before>>

Next ==
  \/ \E t \in Tx :
       \/ BeginReadOnly(t) \/ BeginReadWrite(t) \/ BeginFails(t) \/ End(t)
       \/ \E s \in Segment : Read(t, s)
       \/ \E s \in Segment, v \in Value : Write(t, s, v)
       \/ \E n \in Node : Alloc(t, n) \/ Free(t, n)
  \/ Destroy \/ DestroyNext \/ DestroyLast

Spec == Init /\ [][Next]_vars

-----------------------------------------------------------------------------

Owned == DOMAIN word \ {start}

\* The list holds exactly the segments that tm_alloc has made and tm_free has not
\* taken, whatever the order of the calls: tm_free finds the neighbours of any
\* node, and tm_destroy leaks nothing and frees nothing twice.
SegmentList ==
  /\ Owned \subseteq Node
  /\ allocs = nullptr <=> Owned = {}
  /\ allocs \in Owned \cup {nullptr}
  /\ region = "up" =>
       \A n \in Owned :
         /\ prev[n] = nullptr <=> n = allocs
         /\ prev[n] # nullptr => prev[n] \in Owned /\ next[prev[n]] = n
         /\ next[n] # nullptr => next[n] \in Owned /\ prev[next[n]] = n
  /\ \A S \in (SUBSET Owned) \ {{}} : \E n \in S : next[n] \notin S
  /\ region = "gone" => DOMAIN word = {}

\* A read-write transaction that runs has the memory for itself.
Writer == {t \in Tx : Running(t) /\ ~is_ro[t]}

\* The reference implements a memory in which transactions happen one after
\* another: "at any point in time, the lock can be shared between any number of
\* read-only transactions or held by a single read-write transaction".
Atomic == INSTANCE AtomicMemory WITH
            Zero     <- InitVal,
            Start    <- start,
            mem      <- IF region # "up" \/ Writer # {} THEN before ELSE word,
            view     <- [t \in Tx |-> IF Running(t) THEN word ELSE [s \in {} |-> InitVal]],
            current  <- {t \in Tx : Running(t)},
            readonly <- {t \in Tx : Running(t) /\ is_ro[t]}

ImplementsAtomicMemory == Atomic!Spec

=============================================================================
