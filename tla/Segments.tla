------------------------------ MODULE Segments ------------------------------
(***************************************************************************)
(* The segments of the shared memory: tm_alloc, tm_free, the search for    *)
(* the segment of an address, and what the end of an epoch does to         *)
(* segments (321215/dual_stm.cpp, transaction.hpp, Batcher::onEpochEnd).   *)
(*                                                                         *)
(* Addresses count alignments, so a segment is a range of addresses and a  *)
(* word is one address.  A Segment object is known by its start address,   *)
(* which is never used again (end_address only grows).                     *)
(*                                                                         *)
(* onEpochEnd runs with Batcher::mutex held, after the last transaction of *)
(* an epoch has left.  Its loops are phases here, one transaction or one   *)
(* freed address a step, because their order matters: the words a          *)
(* transaction has touched are used after segments may have been freed.    *)
(* The words themselves are in module DualStm; here a transaction may be   *)
(* marked aborted by any access.                                           *)
(*                                                                         *)
(* The client keeps the contract of include/tm.hpp: it uses addresses of   *)
(* segments that are in the memory of its epoch or that it has allocated   *)
(* itself, and frees such segments only, the first one excepted.           *)
(***************************************************************************)
EXTENDS Batcher

CONSTANTS FirstSize,   \* size of the segment made by tm_create
          Sizes,       \* sizes given to tm_alloc
          MaxAddress,  \* bound: end_address does not pass it
          MaxFrees     \* bound: calls of tm_free in one transaction

ASSUME SegmentsAssumption ==
  /\ FirstSize \in Nat \ {0}
  /\ Sizes \subseteq Nat \ {0}
  /\ MaxAddress \in Nat
  /\ MaxFrees \in Nat

VARIABLES
  segments,                \* DualStm::segments, start -> size
  addresses,               \* DualStm::addresses, end -> start
  end_address,             \* DualStm::end_address
  allocated,               \* Transaction::allocated, start -> size
  allocated_end_addresses, \* Transaction::allocated_end_addresses
  freed,                   \* Transaction::freed
  touched,                 \* the segments of the words in read and written
  doomed,                  \* Transaction::aborted
  alive,                   \* the Segment objects that are not deleted
  phase,                   \* the loop of onEpochEnd that runs, or "open"
  todo,                    \* what this loop has still to go through
  ender                    \* the transaction whose leave runs onEpochEnd

mapVars == <<segments, addresses, end_address>>

txVars == <<allocated, allocated_end_addresses, freed, touched, doomed>>

endVars == <<phase, todo, ender>>

vars == <<batcherVars, mapVars, txVars, alive, endVars>>

NoSegment == 0

Empty == [a \in {} |-> NoSegment]

\* A std::map after map[k] = x, and after erase(k).
Put(map, k, x) == [a \in DOMAIN map \cup {k} |-> IF a = k THEN x ELSE map[a]]

Erase(map, k) == [a \in DOMAIN map \ {k} |-> map[a]]

Merge(map, other) ==
  [a \in DOMAIN map \cup DOMAIN other |-> IF a \in DOMAIN other THEN other[a] ELSE map[a]]

\* lower_bound in place of upper_bound.
LowerBound(map, a) == CHOOSE e \in DOMAIN map : e >= a /\ \A f \in DOMAIN map : f >= a => e <= f

\* The key upper_bound finds, if there is one.
UpperBound(map, a) == CHOOSE e \in DOMAIN map : e > a /\ \A f \in DOMAIN map : f > a => e <= f

HasUpperBound(map, a) == \E e \in DOMAIN map : e > a

\* Transaction::findSegment.
FindAllocated(t, a) ==
  LET ends  == allocated_end_addresses[t]
      start == ends[UpperBound(ends, a)]
  IN  IF HasUpperBound(ends, a) /\ a >= start THEN start ELSE NoSegment

\* DualStm::findSegment.  It dereferences upper_bound without a test for end():
\* with libstdc++ that reads the member behind the map, which is end_address.
FindSegment(t, a) ==
  LET start == IF HasUpperBound(addresses, a) THEN addresses[UpperBound(addresses, a)]
               ELSE end_address
  IN  IF FindAllocated(t, a) # NoSegment THEN FindAllocated(t, a)
      ELSE IF a < start THEN NoSegment ELSE start

Init ==
  /\ BatcherInit
  /\ segments = [a \in {1} |-> FirstSize]
  /\ addresses = [a \in {1 + FirstSize} |-> 1]
  /\ end_address = 1 + FirstSize
  /\ allocated = [t \in Tx |-> Empty]
  /\ allocated_end_addresses = [t \in Tx |-> Empty]
  /\ freed = [t \in Tx |-> << >>]
  /\ touched = [t \in Tx |-> {}]
  /\ doomed = [t \in Tx |-> FALSE]
  /\ alive = {1}
  /\ phase = "open"
  /\ todo = {}
  /\ ender \in Tx

\* Nobody is inside onEpochEnd, so Batcher::mutex can be had.
Open == phase = "open"

\* The batcher's steps that do not end an epoch.
EnterOrWait(t) ==
  /\ \/ Open /\ (Enter(t) \/ TestAwake(t))
     \/ SpuriousWake(t)
  /\ UNCHANGED <<mapVars, txVars, alive, endVars>>

Ready(t) == Open /\ pc[t] = "running" /\ ~doomed[t]

\* The segments a transaction may use, and their addresses.
Usable(t) == DOMAIN segments \cup DOMAIN allocated[t]

SizeOf(t, s) == IF s \in DOMAIN allocated[t] THEN allocated[t][s] ELSE segments[s]

AddressesOf(t, s) == {s + i : i \in 0..(SizeOf(t, s) - 1)}

\* fetch_add on end_address.
EndAfterLess(n) == end_address + n - 1

EndAfter(n) == end_address + n

\* tm_alloc.
Alloc(t, n) ==
  LET start == end_address
  IN  /\ Ready(t)
      /\ EndAfter(n) <= MaxAddress
      /\ end_address' = EndAfter(n)
      /\ alive' = alive \cup {start}
      /\ allocated' = [allocated EXCEPT ![t] = Put(@, start, n)]
      /\ allocated_end_addresses' = [allocated_end_addresses EXCEPT ![t] = Put(@, start + n, start)]
      /\ UNCHANGED <<batcherVars, segments, addresses, freed, touched, doomed, endVars>>

\* tm_free, carried out if the transaction commits.
Free(t, s) ==
  /\ Ready(t)
  /\ s \in Usable(t) \ {1}
  /\ Len(freed[t]) < MaxFrees
  /\ freed' = [freed EXCEPT ![t] = Append(@, s)]
  /\ UNCHANGED <<batcherVars, mapVars, allocated, allocated_end_addresses, touched, doomed,
                 alive, endVars>>

\* tm_read or tm_write at address a.  The transaction has a word of the segment
\* in its access sets afterwards, unless it is read-only; or it is aborted, though
\* not over a segment that it has allocated itself, which nobody else knows.
Access(t, a) ==
  /\ Ready(t)
  /\ \E s \in Usable(t) : a \in AddressesOf(t, s)
  /\ \/ /\ touched' = [touched EXCEPT ![t] = @ \cup {FindSegment(t, a)}]
        /\ UNCHANGED doomed
     \/ /\ FindSegment(t, a) \notin DOMAIN allocated[t]
        /\ doomed' = [doomed EXCEPT ![t] = TRUE]
        /\ UNCHANGED touched
  /\ UNCHANGED <<batcherVars, mapVars, allocated, allocated_end_addresses, freed, alive, endVars>>

\* leave by one that is not the last of the epoch.
LeaveOpen(t) ==
  /\ Open
  /\ LeaveEarly(t, ~doomed[t])
  /\ UNCHANGED <<mapVars, txVars, alive, endVars>>

\* What the vectors hold while onEpochEnd runs: the ender has been pushed.
Vectors == Finished(ender, ~doomed[ender])

\* leave by the last one, up to the call of onEpochEnd.
EpochEnds(t) ==
  /\ Open
  /\ pc[t] = "running"
  /\ remaining = 1
  /\ ender' = t
  /\ phase' = "add"
  /\ todo' = Finished(t, ~doomed[t]).committed
  /\ UNCHANGED <<batcherVars, mapVars, txVars, alive>>

\* The loops of onEpochEnd in their order, and in one that frees first.
FreeFirst(p) ==
  CASE p = "add" -> "free"
    [] p = "free" -> "commit"
    [] p = "commit" -> "abort"
    [] OTHER -> "drop"

After(p) ==
  CASE p = "add" -> "commit"
    [] p = "commit" -> "abort"
    [] p = "abort" -> "free"
    [] OTHER -> "drop"

\* The transactions a loop goes through; the variant does not tell those that
\* committed from the others.
LoopOverAll(p) == Vectors.committed \cup Vectors.aborted

LoopOver(p) == IF p \in {"commit", "free"} THEN Vectors.committed ELSE Vectors.aborted

NextLoop ==
  /\ phase \notin {"open", "drop"}
  /\ todo = {}
  /\ phase' = After(phase)
  /\ todo' = LoopOver(After(phase))
  /\ UNCHANGED <<batcherVars, mapVars, txVars, alive, ender>>

\* addSegment for what a committed transaction has allocated.
AddAllocated(u) ==
  /\ phase = "add" /\ u \in todo
  /\ segments' = Merge(segments, allocated[u])
  /\ addresses' = Merge(addresses, allocated_end_addresses[u])
  /\ todo' = todo \ {u}
  /\ UNCHANGED <<batcherVars, end_address, txVars, alive, phase, ender>>

\* Transaction::commit and Transaction::abort go through the touched words.
ResetTouched(u) ==
  /\ phase \in {"commit", "abort"} /\ u \in todo
  /\ touched' = [touched EXCEPT ![u] = {}]
  /\ todo' = todo \ {u}
  /\ UNCHANGED <<batcherVars, mapVars, allocated, allocated_end_addresses, freed, doomed, alive,
                 phase, ender>>

\* freeSegment does nothing for an address that is not there any more.
Frees(s) == s \in DOMAIN segments

\* freeSegment for the next address of a committed transaction's freed.
FreeNext(u) ==
  LET s == Head(freed[u])
  IN  /\ phase = "free" /\ u \in todo
      /\ freed[u] # << >>
      /\ freed' = [freed EXCEPT ![u] = Tail(@)]
      /\ IF Frees(s)
         THEN /\ addresses' = Erase(addresses, s + segments[s])
              /\ segments' = Erase(segments, s)
              /\ alive' = alive \ {s}
         ELSE UNCHANGED <<addresses, segments, alive>>
      /\ UNCHANGED <<batcherVars, end_address, allocated, allocated_end_addresses, touched,
                     doomed, endVars>>

\* What ~Transaction deletes, with and without its test of aborted.
DeletedAlways(u) == DOMAIN allocated[u]

DeletedWith(u) == IF doomed[u] THEN DOMAIN allocated[u] ELSE {}

\* delete tx, after its freed segments if it is committed.
DeleteTx(u) ==
  /\ phase \in {"free", "drop"} /\ u \in todo
  /\ phase = "free" => freed[u] = << >>
  /\ alive' = alive \ DeletedWith(u)
  /\ allocated' = [allocated EXCEPT ![u] = Empty]
  /\ allocated_end_addresses' = [allocated_end_addresses EXCEPT ![u] = Empty]
  /\ freed' = [freed EXCEPT ![u] = << >>]
  /\ todo' = todo \ {u}
  /\ UNCHANGED <<batcherVars, mapVars, touched, doomed, phase, ender>>

\* The rest of leave.
EpochEnded ==
  /\ phase = "drop"
  /\ todo = {}
  /\ LeaveLast(ender, ~doomed[ender])
  /\ phase' = "open"
  /\ UNCHANGED <<mapVars, txVars, alive, todo, ender>>

OnEpochEnd ==
  \/ NextLoop
  \/ \E u \in Tx : AddAllocated(u) \/ ResetTouched(u) \/ FreeNext(u) \/ DeleteTx(u)
  \/ EpochEnded

Next ==
  \/ \E t \in Tx :
       \/ EnterOrWait(t)
       \/ \E n \in Sizes : Alloc(t, n)
       \/ \E s \in Usable(t) : Free(t, s)
       \/ \E a \in 1..MaxAddress : Access(t, a)
       \/ LeaveOpen(t)
       \/ EpochEnds(t)
  \/ OnEpochEnd

Spec == Init /\ [][Next]_vars

-----------------------------------------------------------------------------

Loops == {"open", "add", "commit", "abort", "free", "drop"}

\* A map from some addresses to others, or to sizes.
IsMap(map) == DOMAIN map \subseteq Nat /\ \A a \in DOMAIN map : map[a] \in Nat

\* Every variable stays in its type.
TypeOK ==
  /\ BatcherTypeOK
  /\ IsMap(segments) /\ IsMap(addresses)
  /\ end_address \in Nat
  /\ \A t \in Tx : IsMap(allocated[t]) /\ IsMap(allocated_end_addresses[t])
  /\ freed \in [Tx -> Seq(Nat)]
  /\ touched \in [Tx -> SUBSET Nat]
  /\ doomed \in [Tx -> BOOLEAN]
  /\ alive \subseteq Nat
  /\ phase \in Loops
  /\ todo \subseteq Tx
  /\ ender \in Tx

\* What t has allocated and addSegment has not taken over.
HandedOver(t) ==
  ~Open /\ t \in Vectors.committed /\ ~(phase = "add" /\ t \in todo)

Private(t) == IF HandedOver(t) THEN {} ELSE DOMAIN allocated[t]

\* Every Segment object has exactly one owner, the memory or one transaction,
\* from its construction in tm_alloc to its deletion: none is leaked by an
\* abort, deleted twice, or in the memory after its deletion.
OwnedOnce ==
  /\ alive = DOMAIN segments \cup UNION {Private(t) : t \in Tx}
  /\ \A t \in Tx : Private(t) \cap DOMAIN segments = {}
  /\ \A t, u \in Tx : t # u => Private(t) \cap Private(u) = {}

\* The words that commit and abort go through at the end of an epoch are in
\* segments that are not yet deleted, also when another transaction of the
\* epoch has freed them.
TouchedAlive == \A t \in Tx : touched[t] \subseteq alive

\* The segment that address a belongs to for t, by definition.
SegmentOf(t, a) ==
  IF \E s \in Usable(t) : a \in AddressesOf(t, s)
  THEN CHOOSE s \in Usable(t) : a \in AddressesOf(t, s)
  ELSE NoSegment

\* The search through the two pairs of maps finds the segment of an address,
\* its first and last word included, and nothing for an address that was freed
\* in an earlier epoch or allocated by another transaction.  A transaction that
\* has not begun stands for the next one that looks.
LookupExact ==
  Open => \A t \in Tx : \A a \in 1..(end_address - 1) : FindSegment(t, a) = SegmentOf(t, a)

\* The segments a transaction may use never overlap and end below end_address.
SegmentsApart ==
  \A t \in Tx : \A s \in Usable(t) :
    /\ s + SizeOf(t, s) <= end_address
    /\ \A r \in Usable(t) : r < s => r + SizeOf(t, r) <= s

\* The addresses that commits still have to free while onEpochEnd runs.
ToBeFreed ==
  UNION {{freed[u][i] : i \in 1..Len(freed[u])} : u \in Vectors.committed}

\* The store once onEpochEnd is through, worked out from what is left to do.
Outcome ==
  (DOMAIN segments \cup UNION {Private(u) : u \in Vectors.committed}) \ ToBeFreed

\* The phases of onEpochEnd make up one step of SegmentStore.
Store == INSTANCE SegmentStore WITH
           Start     <- 1..MaxAddress,
           First     <- 1,
           store     <- IF Open THEN DOMAIN segments ELSE Outcome,
           mine      <- [t \in Tx |-> IF Open THEN DOMAIN allocated[t] ELSE {}],
           wishes    <- [t \in Tx |-> IF Open THEN {freed[t][i] : i \in 1..Len(freed[t])} ELSE {}],
           committed <- IF Open THEN committed ELSE {}

ImplementsStore == Store!Spec

\* tm_alloc and tm_start return the address of the first byte of an aligned
\* segment (321215/tm.cpp:169); a segment starts at the byte 1 + k * alignment.
ByteAddress(s, alignment) == 1 + (s - 1) * alignment

AlignedFor(alignment) == \A s \in alive : ByteAddress(s, alignment) % alignment = 0

StartsAligned == AlignedFor(8)

=============================================================================
